---------------------------- MODULE SandboxProofs ----------------------------
(***************************************************************************)
(* Proofs about what runs beside the server.  About PodConn, for any       *)
(* number of callers, connections, terminals and faults: the registry      *)
(* agrees with the connections, a request is heard, and a crash is told    *)
(* once.  About ClaudeRun, for any replies, turns, processes and faults:   *)
(* a session has one process, and none in a session whose files went.      *)
(***************************************************************************)
EXTENDS PodConn, ClaudeRun, FiniteSetTheorems, WellFoundedInduction, TLAPS

-----------------------------------------------------------------------------
(* Types.                                                                  *)

TaskRec == [pc : PCs, mode : Modes \cup {"none"}, conn : ConnIds \cup {0}, tries : Nat,
            seen : SUBSET Nat, req : Nat, got : Callers \cup {NoTask},
            end : {"none", "turn", "user"}]
\* A connection, its ids not bounded by the number of calls.
ConnRec == [sock : {"none", "open", "shut"}, ended : BOOLEAN, pend : SUBSET Nat, next : Nat,
            replies : SUBSET (Nat \X Callers),
            reader : {"none", "reading", "failed", "done", "aborted"}]

TasksOK == caller \in [ConnTasks -> TaskRec]
ConnsOK == conns \in [ConnIds -> ConnRec]
RestOK == /\ podPhase \in {"pending", "running", "gone"}
          /\ podRow \in BOOLEAN /\ torn \in BOOLEAN /\ cut \in BOOLEAN
          /\ reg \in ConnIds \cup {0}
          /\ connLock \in ConnTasks \cup {NoTask}
          /\ made \in Nat /\ terms \subseteq 1..made
          /\ crashTold \in [1..MaxTerms -> Nat]

\* A task with a connection has one that was made, and only a caller sends.
OnConn == \A t \in ConnTasks :
    /\ caller[t].pc \in {"register", "send", "reply"} =>
          caller[t].conn \in ConnIds /\ conns[caller[t].conn].sock # "none"
    /\ caller[t].pc \in {"send", "reply"} => t \in Callers

\* A set of connections has a first one.
LEMMA LeastConn ==
    ASSUME NEW S, S \subseteq Nat, S # {}
    PROVE  \E k \in S : \A j \in S : k <= j
<1>1. PICK k \in S : \A j \in S : ~(<<j, k>> \in OpToRel(<, Nat))
  BY NatLessThanWellFounded, WFMin, Zenon
<1>2. \A j \in S : j < k => <<j, k>> \in OpToRel(<, Nat)
  BY DEF OpToRel
<1>3. \A j \in S : ~(j < k)
  BY <1>1, <1>2, Zenon
<1>4. \A j \in S : k <= j
  BY <1>3
<1> QED BY <1>4

\* The steps of one task.
Own(t) == Call(t) \/ Drop(t) \/ TaskStep(t)

\* They leave the other tasks where they are.
LEMMA OwnMoves ==
    ASSUME TasksOK, NEW t \in ConnTasks, Own(t)
    PROVE  /\ \A u \in ConnTasks : u # t => caller'[u] = caller[u]
           /\ caller'[t] = caller[t] \/ caller' = [caller EXCEPT ![t] = caller'[t]]
<1> USE DEF TasksOK, Step, Leave
<1>1. CASE Call(t) \/ Drop(t)
  BY <1>1 DEF Call, Drop, Ask, AskTerminate, AskStop, Enter
<1>2. CASE Lock(t) \/ Look(t) \/ DialConnects(t) \/ DialOutdated(t)
  BY <1>2 DEF Lock, Look, DialConnects, DialOutdated
<1>3. CASE RememberOutdated(t) \/ DialFails(t) \/ Failed(t)
  BY <1>3 DEF RememberOutdated, DialFails, Failed
<1>4. CASE Register(t)
  BY <1>4 DEF Register, Refuse, TryAgain, Accept
<1>5. CASE CleanList(t) \/ CleanClose(t) \/ CleanDeregister(t) \/ TermDeregister(t)
  BY <1>5 DEF CleanList, CleanClose, CleanDeregister, TermDeregister
<1>6. CASE TermFailed(t) \/ TermDelete(t) \/ TermRow(t) \/ StopTerms(t) \/ StopClose(t)
  BY <1>6 DEF TermFailed, TermDelete, TermRow, StopTerms, StopClose
<1>7. CASE Send(t) \/ Answered(t) \/ Unanswered(t)
  BY <1>7 DEF Send, Answered, Unanswered
<1> QED BY <1>1, <1>2, <1>3, <1>4, <1>5, <1>6, <1>7 DEF Own, TaskStep

\* The calls and a dropped one.
LEMMA CallTasks ==
    ASSUME TasksOK, RestOK, NEW t \in ConnTasks, Call(t) \/ Drop(t)
    PROVE  TasksOK'
<1> USE DEF TasksOK, Leave, RestOK
<1>1. NoCall \in TaskRec
  BY DEF NoCall, TaskRec, PCs
<1>2. ASSUME NEW mode \in Modes, Ask(t, mode)
      PROVE  TasksOK'
  <2>1. \A pc \in PCs, c \in ConnIds \cup {0} :
            [NoCall EXCEPT !.mode = mode, !.conn = c, !.pc = pc] \in TaskRec
    BY <1>2 DEF NoCall, TaskRec
  <2>2. PICK pc \in PCs :
              caller' = [caller EXCEPT ![t] =
                           [NoCall EXCEPT !.mode = mode, !.conn = reg, !.pc = pc]]
    BY <1>2 DEF Ask, Enter, PCs
  <2> QED BY <2>1, <2>2
<1>3. CASE AskTerminate(t)
  <2>1. [NoCall EXCEPT !.pc = "dereg", !.end = "turn"] \in TaskRec
    BY DEF NoCall, TaskRec, PCs
  <2> QED BY <1>3, <2>1 DEF AskTerminate
<1>4. CASE AskStop(t)
  <2>1. [NoCall EXCEPT !.pc = "dereg", !.end = "user"] \in TaskRec
    BY DEF NoCall, TaskRec, PCs
  <2> QED BY <1>4, <2>1 DEF AskStop
<1>5. CASE Drop(t)
  BY <1>1, <1>5 DEF Drop
<1> QED BY <1>2, <1>3, <1>4, <1>5 DEF Call

\* A task's own steps.
LEMMA StepTasks ==
    ASSUME TasksOK, ConnsOK, RestOK, OnConn, NEW t \in ConnTasks, TaskStep(t)
    PROVE  TasksOK'
<1> USE DEF TasksOK, RestOK
<1>1. NoCall \in TaskRec
  BY DEF NoCall, TaskRec, PCs
<1>2. \A pc \in PCs : [caller[t] EXCEPT !.pc = pc] \in TaskRec
  BY DEF TaskRec
<1>3. (\A pc \in PCs : Step(t, pc) => TasksOK') /\ (Leave(t) => TasksOK')
  BY <1>1, <1>2 DEF Step, Leave
<1>4. CASE Lock(t)
  <2>1. [caller[t] EXCEPT !.pc = "send", !.conn = reg] \in TaskRec
    BY DEF TaskRec, PCs
  <2> QED BY <1>1, <1>3, <1>4, <2>1 DEF Lock, PCs
<1>5. CASE Look(t) \/ Failed(t)
  <2>1. \A n \in Nat : [caller[t] EXCEPT !.pc = "dial", !.tries = n] \in TaskRec
    BY DEF TaskRec, PCs
  <2>2. caller[t].tries \in Nat
    BY DEF TaskRec
  <2>3. CASE Look(t)
    <3>1. \/ Leave(t)
          \/ caller' = [caller EXCEPT ![t] = [caller[t] EXCEPT !.pc = "dial", !.tries = 1]]
      BY <2>3 DEF Look
    <3> QED BY <1>3, <2>1, <3>1
  <2>4. CASE Failed(t)
    <3>1. \/ Step(t, "list") \/ Leave(t)
          \/ caller' = [caller EXCEPT ![t] =
                           [caller[t] EXCEPT !.pc = "dial", !.tries = caller[t].tries + 1]]
      BY <2>4 DEF Failed
    <3>2. caller[t].tries + 1 \in Nat
      BY <2>2
    <3> QED BY <1>3, <2>1, <3>1, <3>2 DEF PCs
  <2> QED BY <1>5, <2>3, <2>4
<1>6. CASE DialConnects(t)
  <2>1. PICK k \in ConnIds :
              caller' = [caller EXCEPT ![t] = [caller[t] EXCEPT !.pc = "register", !.conn = k]]
    <3>1. Fresh # {} /\ Fresh \subseteq ConnIds /\ Fresh \subseteq Nat
      BY <1>6 DEF DialConnects, Fresh, ConnIds
    <3> DEFINE first == CHOOSE j \in Fresh : \A i \in Fresh : j <= i
    <3>2. first \in ConnIds
      BY <3>1, LeastConn
    <3>3. caller' = [caller EXCEPT ![t].pc = "register", ![t].conn = first]
      BY <1>6 DEF DialConnects
    <3> HIDE DEF first
    <3> QED BY <3>2, <3>3
  <2>2. [caller[t] EXCEPT !.pc = "register", !.conn = k] \in TaskRec
    BY DEF TaskRec, PCs
  <2> QED BY <2>1, <2>2
<1>7. CASE DialOutdated(t) \/ RememberOutdated(t) \/ DialFails(t) \/ Register(t)
  BY <1>3, <1>7 DEF DialOutdated, RememberOutdated, DialFails, Register, Refuse, TryAgain,
       Accept, PCs
<1>8. CASE CleanClose(t) \/ CleanDeregister(t) \/ TermDeregister(t) \/ TermFailed(t)
  BY <1>3, <1>8 DEF CleanClose, CleanDeregister, TermDeregister, TermFailed, PCs
<1>9. CASE TermDelete(t) \/ TermRow(t) \/ StopClose(t) \/ Answered(t) \/ Unanswered(t)
  BY <1>3, <1>9 DEF TermDelete, TermRow, StopClose, Answered, Unanswered, PCs
<1>10. CASE CleanList(t) \/ StopTerms(t)
  <2>1. \A pc \in PCs : [caller[t] EXCEPT !.pc = pc, !.seen = terms] \in TaskRec
    <3>1. terms \subseteq Nat
      OBVIOUS
    <3> QED BY <3>1 DEF TaskRec
  <2> QED BY <1>10, <2>1 DEF CleanList, StopTerms, PCs
<1>11. CASE Send(t)
  <2> DEFINE term == IF caller[t].mode = "First" /\ made < MaxTerms THEN {made + 1} ELSE {}
             id == conns[caller[t].conn].next
  <2>1. \/ Leave(t)
        \/ caller' = [caller EXCEPT ![t] =
                         [caller[t] EXCEPT !.pc = "reply", !.req = id, !.seen = term]]
    BY <1>11 DEF Send, NextId
  <2>2. id \in Nat => [caller[t] EXCEPT !.pc = "reply", !.req = id, !.seen = term] \in TaskRec
    <3>1. term \subseteq Nat
      OBVIOUS
    <3> HIDE DEF term
    <3> QED BY <3>1 DEF TaskRec, PCs
  <2>3. id \in Nat
    BY <1>11 DEF Send, OnConn, ConnsOK, ConnRec
  <2> QED BY <1>3, <2>1, <2>2, <2>3
<1> QED BY <1>4, <1>5, <1>6, <1>7, <1>8, <1>9, <1>10, <1>11 DEF TaskStep

-----------------------------------------------------------------------------
(* A connection's life.                                                    *)

\* One that has not ended has its reader; one that has ended is shut, and its
\* reader has found that out or is past it.
Shape(c) == /\ c.sock = "none" => ~c.ended
            /\ (c.sock = "none") <=> (c.reader = "none")
            /\ c.ended => c.sock = "shut"
            /\ ~c.ended /\ c.sock # "none" => c.reader = "reading"
Shaped == \A k \in ConnIds : Shape(conns[k])

\* The registered connection has a reader that will still react to its end.
RegOK == reg # 0 => conns[reg].reader \in {"reading", "failed"}

\* What close, an end of the socket and of the reader make of a connection.
LEMMA Closed ==
    ASSUME NEW c \in ConnRec, Shape(c), c.sock # "none"
    PROVE  /\ CloseConn(c) \in ConnRec /\ Shape(CloseConn(c))
           /\ CloseConn(c).ended /\ CloseConn(c).sock = "shut"
           /\ CloseConn(c).reader = IF c.reader = "reading" THEN "aborted" ELSE c.reader
  BY DEF CloseConn, FailPending, ConnRec, Shape
\* The reader ends: its waiters are failed.
LEMMA ReaderEnded ==
    ASSUME NEW c \in ConnRec, Shape(c), c.sock = "shut"
    PROVE  LET d == [FailPending(c) EXCEPT !.reader = "failed"]
           IN  d \in ConnRec /\ Shape(d) /\ d.sock = "shut" /\ d.ended /\ d.reader = "failed"
  BY DEF FailPending, ConnRec, Shape
\* The socket ends, and nobody knows yet.
LEMMA SocketShut ==
    ASSUME NEW c \in ConnRec, Shape(c), c.sock = "open"
    PROVE  LET d == [c EXCEPT !.sock = "shut"]
           IN  d \in ConnRec /\ Shape(d) /\ d.sock = "shut" /\ d.ended = c.ended
               /\ d.reader = c.reader /\ d.pend = c.pend /\ d.next = c.next /\ d.replies = c.replies
  BY DEF ConnRec, Shape
\* The reader has looked at the registry.
LEMMA ReaderDone ==
    ASSUME NEW c \in ConnRec, Shape(c), c.reader = "failed"
    PROVE  LET d == [c EXCEPT !.reader = "done"]
           IN  d \in ConnRec /\ Shape(d) /\ d.sock = c.sock /\ d.ended /\ d.reader = "done"
  BY DEF ConnRec, Shape
\* A new connection is open and read from, and nothing was asked on it.
LEMMA Dialled ==
    ASSUME NEW c \in ConnRec, Shape(c), c.sock = "none"
    PROVE  LET d == [c EXCEPT !.sock = "open", !.reader = "reading"]
           IN  d \in ConnRec /\ Shape(d) /\ d.sock = "open" /\ ~d.ended /\ d.reader = "reading"
               /\ d.pend = c.pend /\ d.next = c.next /\ d.replies = c.replies
  BY DEF ConnRec, Shape
\* And a request or a reply.
LEMMA Asked ==
    ASSUME NEW c \in ConnRec, Shape(c), NEW P \in SUBSET Nat, NEW n \in Nat,
           NEW R \in SUBSET (Nat \X Callers)
    PROVE  LET d == [c EXCEPT !.pend = P, !.next = n, !.replies = R]
           IN  /\ d \in ConnRec /\ Shape(d)
               /\ d.sock = c.sock /\ d.ended = c.ended /\ d.reader = c.reader
               /\ d.pend = P /\ d.next = n /\ d.replies = R
  BY DEF ConnRec, Shape

\* How a step changes the connections: as one of these.
Becomes(k, c) == conns' = [conns EXCEPT ![k] = c]
Talks(k, P, n, R) == Becomes(k, [conns[k] EXCEPT !.pend = P, !.next = n, !.replies = R])
Dials(t, k) == /\ caller[t].pc = "dial" /\ caller'[t].pc = "register" /\ caller'[t].conn = k
               /\ conns[k].sock = "none" /\ UNCHANGED <<reg, connLock>>
               /\ Becomes(k, [conns[k] EXCEPT !.sock = "open", !.reader = "reading"])

\* A connection is dialled by a task that goes on to register it.
LEMMA DialMakes ==
    ASSUME TasksOK, NEW t \in ConnTasks, DialConnects(t)
    PROVE  \E k \in ConnIds : Dials(t, k)
<1>1. Fresh # {} /\ Fresh \subseteq ConnIds /\ Fresh \subseteq Nat
  BY DEF DialConnects, Fresh, ConnIds
<1> DEFINE first == CHOOSE j \in Fresh : \A i \in Fresh : j <= i
<1>2. first \in ConnIds /\ first \in Fresh
  BY <1>1, LeastConn
<1>3. /\ caller' = [caller EXCEPT ![t].pc = "register", ![t].conn = first]
      /\ conns' = [conns EXCEPT ![first] = [@ EXCEPT !.sock = "open", !.reader = "reading"]]
  BY DEF DialConnects
<1>4. UNCHANGED <<reg, connLock>> /\ caller[t].pc = "dial"
  BY DEF DialConnects, registry
<1> HIDE DEF first
<1>5. caller'[t].pc = "register" /\ caller'[t].conn = first
  BY <1>3 DEF TasksOK, TaskRec
<1> QED BY <1>2, <1>3, <1>4, <1>5 DEF Dials, Becomes, Fresh

\* The connections, each step by each.
ConnStep(k, c) ==
    \/ c = CloseConn(conns[k]) /\ conns[k].sock # "none"
    \/ /\ c = [FailPending(conns[k]) EXCEPT !.reader = "failed"]
       /\ conns[k].sock = "shut" /\ conns[k].reader = "reading"
    \/ c = [conns[k] EXCEPT !.sock = "shut"] /\ conns[k].sock = "open"
    \/ c = [conns[k] EXCEPT !.reader = "done"] /\ conns[k].reader = "failed"
    \/ c = [conns[k] EXCEPT !.sock = "open", !.reader = "reading"] /\ conns[k].sock = "none"
    \/ \E P \in SUBSET Nat, n \in Nat, R \in SUBSET (Nat \X Callers) :
          c = [conns[k] EXCEPT !.pend = P, !.next = n, !.replies = R]
\* A step changes one connection at most, in one of those ways.
LEMMA ConnMoves ==
    ASSUME TasksOK, ConnsOK, Shaped, RestOK, OnConn, RegOK, [ConnNext]_cvars
    PROVE  conns' = conns \/ \E k \in ConnIds, c \in ConnRec : ConnStep(k, c) /\ Becomes(k, c)
<1>1. ASSUME NEW t \in ConnTasks, Own(t)
      PROVE  conns' = conns \/ \E k \in ConnIds, c \in ConnRec : ConnStep(k, c) /\ Becomes(k, c)
  <2>1. CASE Call(t) \/ Drop(t)
    BY <2>1 DEF Call, Drop, Ask, AskTerminate, AskStop
  <2>2. CASE \/ Lock(t) \/ Look(t) \/ DialOutdated(t) \/ RememberOutdated(t)
             \/ DialFails(t) \/ Failed(t)
    BY <2>2 DEF Lock, Look, DialOutdated, RememberOutdated, DialFails, Failed
  <2>3. CASE CleanList(t) \/ CleanClose(t) \/ TermFailed(t) \/ TermDelete(t) \/ TermRow(t)
    BY <2>3 DEF CleanList, CleanClose, TermFailed, TermDelete, TermRow
  <2>4. CASE StopTerms(t) \/ StopClose(t) \/ Answered(t)
    BY <2>4 DEF StopTerms, StopClose, Answered
  <2>5. CASE DialConnects(t)
    <3>1. PICK k \in ConnIds : Dials(t, k)
      BY <2>5, DialMakes
    <3>2. [conns[k] EXCEPT !.sock = "open", !.reader = "reading"] \in ConnRec
      BY <3>1, Dialled DEF Dials, ConnsOK, Shaped
    <3> QED BY <3>1, <3>2 DEF Dials, ConnStep
  <2>6. CASE Register(t)
    <3>1. conns' = conns \/ Becomes(caller[t].conn, CloseConn(conns[caller[t].conn]))
      BY <2>6 DEF Register, Refuse, TryAgain, Accept, Becomes
    <3>2. caller[t].conn \in ConnIds /\ conns[caller[t].conn].sock # "none"
      BY <2>6 DEF Register, OnConn
    <3>3. CloseConn(conns[caller[t].conn]) \in ConnRec
      BY <3>2, Closed DEF ConnsOK, Shaped
    <3> QED BY <3>1, <3>2, <3>3 DEF ConnStep
  <2>7. CASE CleanDeregister(t) \/ TermDeregister(t)
    <3>1. conns' = conns \/ (reg # 0 /\ Becomes(reg, CloseConn(conns[reg])))
      BY <2>7 DEF CleanDeregister, TermDeregister, Deregister, Becomes
    <3>2. CASE reg # 0
      <4>1. reg \in ConnIds /\ conns[reg].sock # "none"
        BY <3>2 DEF RegOK, Shaped, Shape, RestOK
      <4>2. CloseConn(conns[reg]) \in ConnRec
        BY <4>1, Closed DEF ConnsOK, Shaped
      <4> QED BY <3>1, <4>1, <4>2 DEF ConnStep
    <3> QED BY <3>1, <3>2
  <2>8. CASE Send(t)
    <3> DEFINE k == caller[t].conn
               id == conns[k].next
               sent == IF conns[k].sock = "open" THEN {<<id, t>>} ELSE {}
    <3>1. conns' = conns \/ conns' = [conns EXCEPT ![k].pend = @ \cup {id}, ![k].next = @ + 1,
                                                  ![k].replies = @ \cup sent]
      BY <2>8 DEF Send, NextId
    <3>2. k \in ConnIds /\ t \in Callers
      BY <2>8 DEF Send, OnConn
    <3>3. conns[k] \in ConnRec
      BY <3>2 DEF ConnsOK
    <3>4. conns' = conns \/ Talks(k, conns[k].pend \cup {id}, id + 1, conns[k].replies \cup sent)
      BY <3>1, <3>2, <3>3 DEF Talks, Becomes, ConnsOK, ConnRec
    <3>5. /\ conns[k].pend \cup {id} \in SUBSET Nat /\ id + 1 \in Nat
          /\ conns[k].replies \cup sent \in SUBSET (Nat \X Callers)
      BY <3>2, <3>3 DEF ConnRec
    <3>6. [conns[k] EXCEPT !.pend = conns[k].pend \cup {id}, !.next = id + 1,
                           !.replies = conns[k].replies \cup sent] \in ConnRec
      <4> DEFINE P == conns[k].pend \cup {id}
                 R == conns[k].replies \cup sent
      <4>1. P \in SUBSET Nat /\ R \in SUBSET (Nat \X Callers) /\ Shape(conns[k])
        BY <3>2, <3>5 DEF Shaped
      <4> HIDE DEF P, R
      <4>2. [conns[k] EXCEPT !.pend = P, !.next = id + 1, !.replies = R] \in ConnRec
        BY <3>3, <3>5, <4>1, Asked
      <4> QED BY <4>2 DEF P, R
    <3> HIDE DEF sent
    <3> QED BY <3>2, <3>4, <3>5, <3>6 DEF ConnStep, Talks
  <2>9. CASE Unanswered(t)
    <3> DEFINE k == caller[t].conn
               P == conns[k].pend \ {caller[t].req}
    <3>1. k \in ConnIds
      BY <2>9 DEF Unanswered, OnConn
    <3>2. conns[k] \in ConnRec
      BY <3>1 DEF ConnsOK
    <3>3. conns' = [conns EXCEPT ![k].pend = P]
      BY <2>9 DEF Unanswered
    <3>4. /\ P \in SUBSET Nat /\ conns[k].next \in Nat
          /\ conns[k].replies \in SUBSET (Nat \X Callers)
      BY <3>2 DEF ConnRec
    <3>5. Talks(k, P, conns[k].next, conns[k].replies)
      BY <3>1, <3>2, <3>3 DEF Talks, Becomes, ConnsOK, ConnRec
    <3>6. [conns[k] EXCEPT !.pend = P, !.next = conns[k].next, !.replies = conns[k].replies]
            \in ConnRec
      BY <3>1, <3>2, <3>4, Asked DEF Shaped
    <3> HIDE DEF P
    <3> QED BY <3>1, <3>4, <3>5, <3>6 DEF ConnStep, Talks
  <2> QED BY <1>1, <2>1, <2>2, <2>3, <2>4, <2>5, <2>6, <2>7, <2>8, <2>9 DEF Own, TaskStep
<1>2. ASSUME NEW k \in ConnIds, Reading(k) \/ SocketEnds(k)
      PROVE  conns' = conns \/ \E c \in ConnRec : ConnStep(k, c) /\ Becomes(k, c)
  <2>0. conns[k] \in ConnRec /\ Shape(conns[k])
    BY DEF ConnsOK, Shaped
  <2>1. CASE ReaderEnds(k)
    BY <2>0, <2>1, ReaderEnded DEF ReaderEnds, ConnStep, Becomes
  <2>2. CASE ReaderLooks(k)
    BY <2>0, <2>2, ReaderDone DEF ReaderLooks, ConnStep, Becomes, ConnsOK, ConnRec
  <2>3. CASE SocketEnds(k)
    BY <2>0, <2>3, SocketShut DEF SocketEnds, ConnStep, Becomes, ConnsOK, ConnRec
  <2>4. ASSUME NEW r \in conns[k].replies, Resolve(k, r)
        PROVE  \E c \in ConnRec : ConnStep(k, c) /\ Becomes(k, c)
    <3> DEFINE P == conns[k].pend \ {r[1]}
               R == conns[k].replies \ {r}
    <3>1. conns' = [conns EXCEPT ![k].replies = R, ![k].pend = P]
      BY <2>4 DEF Resolve
    <3>2. /\ P \in SUBSET Nat /\ conns[k].next \in Nat /\ R \in SUBSET (Nat \X Callers)
      BY <2>0 DEF ConnRec
    <3>3. Talks(k, P, conns[k].next, R)
      BY <2>0, <3>1 DEF Talks, Becomes, ConnsOK, ConnRec
    <3>4. [conns[k] EXCEPT !.pend = P, !.next = conns[k].next, !.replies = R] \in ConnRec
      BY <2>0, <3>2, Asked
    <3> HIDE DEF P, R
    <3> QED BY <3>2, <3>3, <3>4 DEF ConnStep, Talks
  <2> QED BY <1>2, <2>1, <2>2, <2>3, <2>4 DEF Reading
<1>3. CASE PodStarts \/ PodLost \/ UNCHANGED cvars
  BY <1>3 DEF PodStarts, PodLost, cvars
<1> QED BY <1>1, <1>2, <1>3 DEF ConnNext, Own, ConnTasks

\* So every connection keeps its shape.
LEMMA ShapesStep ==
    ASSUME TasksOK, ConnsOK, Shaped, RestOK, OnConn, RegOK, [ConnNext]_cvars
    PROVE  ConnsOK' /\ Shaped'
<1>1. ASSUME NEW k \in ConnIds, NEW c \in ConnRec, ConnStep(k, c)
      PROVE  Shape(c)
  <2>1. conns[k] \in ConnRec /\ Shape(conns[k])
    BY DEF ConnsOK, Shaped
  <2>2. ASSUME NEW P \in SUBSET Nat, NEW n \in Nat, NEW R \in SUBSET (Nat \X Callers),
               c = [conns[k] EXCEPT !.pend = P, !.next = n, !.replies = R]
        PROVE  Shape(c)
    BY <2>1, <2>2, Asked
  <2>3. CASE \/ c = CloseConn(conns[k]) /\ conns[k].sock # "none"
             \/ c = [FailPending(conns[k]) EXCEPT !.reader = "failed"] /\ conns[k].sock = "shut"
             \/ c = [conns[k] EXCEPT !.sock = "shut"] /\ conns[k].sock = "open"
    BY <2>1, <2>3, Closed, ReaderEnded, SocketShut
  <2>4. CASE \/ c = [conns[k] EXCEPT !.reader = "done"] /\ conns[k].reader = "failed"
             \/ /\ c = [conns[k] EXCEPT !.sock = "open", !.reader = "reading"]
                /\ conns[k].sock = "none"
    BY <2>1, <2>4, ReaderDone, Dialled
  <2> QED BY <1>1, <2>2, <2>3, <2>4 DEF ConnStep
<1>2. ASSUME NEW k \in ConnIds, NEW c \in ConnRec, ConnStep(k, c), Becomes(k, c)
      PROVE  ConnsOK' /\ Shaped'
  BY <1>1, <1>2 DEF Becomes, ConnsOK, Shaped
<1>3. CASE conns' = conns
  BY <1>3 DEF ConnsOK, Shaped
<1> QED BY <1>2, <1>3, ConnMoves

-----------------------------------------------------------------------------
(* The tasks' way, and the rest of the state.                              *)

\* A step of nobody: what the cluster and the sockets do.
Still == /\ \A t \in ConnTasks : /\ caller'[t].pc = caller[t].pc /\ caller'[t].conn = caller[t].conn
                             /\ caller'[t].req = caller[t].req /\ caller'[t].seen = caller[t].seen
         /\ UNCHANGED <<reg, torn, connLock, terms, made, crashTold, podRow, cut>>
         /\ podPhase = "gone" => podPhase' = "gone"
         /\ podPhase' \in {podPhase, "running", "gone"}

\* Every step is a task's, a reader's look at the registry, or nobody's.
LEMMA WhoSteps ==
    ASSUME TasksOK, ConnsOK, [ConnNext]_cvars
    PROVE  \/ \E t \in ConnTasks : Own(t)
           \/ \E k \in ConnIds : ReaderLooks(k)
           \/ Still
<1> USE DEF podState, registry, rows, counts
<1>1. ASSUME NEW k \in ConnIds, ReaderEnds(k) \/ SocketEnds(k)
      PROVE  Still
  BY <1>1 DEF ReaderEnds, SocketEnds, Still
<1>2. ASSUME NEW k \in ConnIds, NEW r \in conns[k].replies, Resolve(k, r)
      PROVE  Still
  <2>1. \A t \in ConnTasks : caller'[t] = caller[t] \/ caller'[t] = [caller[t] EXCEPT !.got = r[2]]
    BY <1>2 DEF Resolve
  <2> QED BY <1>2, <2>1 DEF Resolve, Still, TasksOK, TaskRec
<1>3. CASE PodStarts \/ PodLost \/ UNCHANGED cvars
  BY <1>3 DEF PodStarts, PodLost, cvars, Still
<1> QED BY <1>1, <1>2, <1>3 DEF ConnNext, Own, Reading, ConnTasks

\* The tasks keep their type.
LEMMA TasksStep ==
    ASSUME TasksOK, ConnsOK, RestOK, OnConn, [ConnNext]_cvars
    PROVE  TasksOK'
<1>1. CASE \E t \in ConnTasks : Own(t)
  BY <1>1, CallTasks, StepTasks DEF Own
<1>2. ASSUME NEW k \in ConnIds, ReaderLooks(k)
      PROVE  TasksOK'
  <2>1. \A pc \in PCs : [NoCall EXCEPT !.mode = "Reconnect", !.pc = pc] \in TaskRec
    BY DEF NoCall, TaskRec, PCs, Modes
  <2> QED BY <1>2, <2>1 DEF ReaderLooks, TasksOK, PCs
<1>3. ASSUME NEW k \in ConnIds, NEW r \in conns[k].replies, Resolve(k, r)
      PROVE  TasksOK'
  <2>1. r[2] \in Callers
    BY DEF ConnsOK, ConnRec
  <2>2. \A t \in ConnTasks : [caller[t] EXCEPT !.got = r[2]] \in TaskRec
    BY <2>1 DEF TasksOK, TaskRec
  <2> QED BY <1>3, <2>2 DEF Resolve, TasksOK
<1>4. ASSUME NEW k \in ConnIds, ReaderEnds(k) \/ SocketEnds(k)
      PROVE  caller' = caller
  BY <1>4 DEF ReaderEnds, SocketEnds
<1>5. CASE PodStarts \/ PodLost \/ UNCHANGED cvars
  BY <1>5 DEF PodStarts, PodLost, cvars, TasksOK
<1>6. caller' = caller => TasksOK'
  BY DEF TasksOK
<1> QED BY <1>1, <1>2, <1>3, <1>4, <1>5, <1>6 DEF ConnNext, Own, Reading, ConnTasks

\* What a task's step does to the locks, the registry and the marks: each is
\* changed by few of them.
LEMMA OwnLeaves ==
    ASSUME TasksOK, RestOK, OnConn, NEW t \in ConnTasks, Own(t)
    PROVE  /\ connLock' = connLock \/ (connLock = t /\ connLock' = NoTask)
              \/ (connLock = NoTask /\ connLock' = t /\ caller[t].pc = "wait" /\ reg = 0)
           /\ reg' = reg \/ reg' = 0
              \/ (caller[t].pc = "register" /\ reg' = caller[t].conn /\ ~torn)
           /\ torn' = torn \/ (torn' = TRUE /\ reg' = 0 /\ caller[t].pc \in {"dereg1", "dereg"})
              \/ (torn' = FALSE /\ caller[t].pc \in {"delete", "row"})
           /\ cut' = cut \/ (cut' = TRUE /\ t \in Callers)
           /\ podRow' = podRow \/ podRow' = FALSE
           /\ podPhase' = podPhase \/ podPhase' = "gone"
           /\ torn' = TRUE => reg' = 0 \/ reg' = reg
<1> USE DEF podState, registry, rows, counts, Unlock, RestOK
<1>1. CASE Call(t)
  BY <1>1 DEF Call, Ask, AskTerminate, AskStop
<1>2. CASE Drop(t)
  BY <1>2 DEF Drop
<1>3. CASE Lock(t) \/ Look(t) \/ DialConnects(t) \/ DialOutdated(t)
  BY <1>3 DEF Lock, Look, DialConnects, DialOutdated
<1>4. CASE RememberOutdated(t) \/ DialFails(t) \/ Failed(t)
  BY <1>4 DEF RememberOutdated, DialFails, Failed
<1>5. CASE Register(t)
  BY <1>5 DEF Register, Refuse, TryAgain, Accept
<1>6. CASE CleanList(t) \/ CleanClose(t) \/ CleanDeregister(t) \/ TermDeregister(t)
  BY <1>6 DEF CleanList, CleanClose, CleanDeregister, TermDeregister, Deregister
<1>7. CASE TermFailed(t) \/ TermDelete(t) \/ TermRow(t)
  BY <1>7 DEF TermFailed, TermDelete, TermRow
<1>8. CASE StopTerms(t) \/ StopClose(t) \/ Send(t) \/ Answered(t) \/ Unanswered(t)
  BY <1>8 DEF StopTerms, StopClose, Send, Answered, Unanswered
<1> QED BY <1>1, <1>2, <1>3, <1>4, <1>5, <1>6, <1>7, <1>8 DEF Own, TaskStep

\* Under the connect lock: all of a connect, and a crash's cleanup up to the
\* teardown.  While one dials, no connection is registered.
Dialling == {"look", "dial", "register", "old", "failed"}
Guarded == Dialling \cup {"list", "close", "dereg1"}

\* How a task's own step comes to a place the proofs ask about.
LEMMA Paths ==
    ASSUME TasksOK, RestOK, NEW t \in ConnTasks, Own(t)
    PROVE  /\ caller'[t].pc \in Guarded =>
                \/ caller[t].pc \in Guarded /\ connLock' = connLock
                \/ connLock = NoTask /\ connLock' = t
           /\ caller'[t].pc \in Dialling =>
                \/ caller[t].pc \in Dialling /\ reg' = reg
                \/ reg = 0 /\ reg' = 0
           /\ caller[t].pc = "idle" => t \in Callers
           /\ caller'[t].pc = "register" => caller[t].pc = "dial"
           /\ caller'[t].pc \in {"send", "reply"} =>
                /\ t \in Callers \/ caller[t].pc \in {"send", "reply"}
                /\ \/ reg # 0 /\ caller'[t].conn = reg
                   \/ caller[t].pc \in {"register", "send"} /\ caller'[t].conn = caller[t].conn
<1> USE DEF TasksOK, TaskRec, PCs, RestOK, Step, Leave, NoCall, Guarded, Dialling, registry
<1>1. CASE Call(t)
  <2>1. ASSUME NEW mode \in Modes, Ask(t, mode)
        PROVE  /\ caller[t].pc = "idle" /\ t \in Callers
               /\ caller'[t].pc \in {"idle", "send", "wait"}
               /\ caller'[t].pc = "send" => reg # 0 /\ caller'[t].conn = reg
    BY <2>1 DEF Ask, Enter
  <2>2. ASSUME AskTerminate(t) \/ AskStop(t)
        PROVE  caller[t].pc = "idle" /\ t \in Callers /\ caller'[t].pc = "dereg"
    <3>1. CASE AskTerminate(t)
      BY <3>1 DEF AskTerminate
    <3>2. CASE AskStop(t)
      BY <3>2 DEF AskStop
    <3> QED BY <2>2, <3>1, <3>2
  <2> QED BY <1>1, <2>1, <2>2 DEF Call
<1>9. CASE Drop(t)
  BY <1>9 DEF Drop
<1>2. CASE Lock(t)
  <2>1. CASE reg # 0
    <3> DEFINE r == [caller[t] EXCEPT !.pc = "send", !.conn = reg]
    <3>1. r.pc = "send" /\ r.conn = reg
      OBVIOUS
    <3>2. caller' = [caller EXCEPT ![t] =
                       IF t \in Callers /\ caller[t].mode # "Startup" THEN r ELSE NoCall]
      BY <1>2, <2>1 DEF Lock
    <3> HIDE DEF r
    <3>3. caller'[t] = NoCall \/ (t \in Callers /\ caller'[t] = r)
      BY <3>2
    <3> QED BY <1>2, <2>1, <3>1, <3>3 DEF Lock
  <2>2. CASE reg = 0
    BY <1>2, <2>2 DEF Lock
  <2> QED BY <2>1, <2>2
<1>10. CASE Look(t)
  BY <1>10 DEF Look
<1>3. CASE DialConnects(t)
  BY <1>3 DEF DialConnects
<1>4. CASE DialOutdated(t) \/ RememberOutdated(t) \/ DialFails(t) \/ Failed(t)
  BY <1>4 DEF DialOutdated, RememberOutdated, DialFails, Failed
<1>5. CASE Register(t)
  BY <1>5 DEF Register, Refuse, TryAgain, Accept
<1>6. CASE CleanList(t) \/ CleanClose(t) \/ CleanDeregister(t) \/ TermDeregister(t)
  BY <1>6 DEF CleanList, CleanClose, CleanDeregister, TermDeregister
<1>7. CASE TermFailed(t) \/ TermDelete(t) \/ TermRow(t) \/ StopTerms(t) \/ StopClose(t)
  BY <1>7 DEF TermFailed, TermDelete, TermRow, StopTerms, StopClose
<1>8. CASE Send(t) \/ Answered(t) \/ Unanswered(t)
  BY <1>8 DEF Send, Answered, Unanswered
<1> QED BY <1>1, <1>2, <1>3, <1>4, <1>5, <1>6, <1>7, <1>8, <1>9, <1>10 DEF Own, TaskStep

\* A connection once made stays made.
LEMMA StaysMade ==
    ASSUME TasksOK, ConnsOK, Shaped, RestOK, OnConn, RegOK, [ConnNext]_cvars,
           NEW k \in ConnIds, conns[k].sock # "none"
    PROVE  /\ conns'[k].sock # "none"
           /\ conns'[k].reader \in {"reading", "failed"} =>
                 conns[k].reader \in {"reading", "failed"}
           /\ conns[k].reader = "done" => conns'[k].reader = "done"
           /\ conns'[k].sock = "open" => conns[k].sock = "open"
<1>0. conns[k] \in ConnRec /\ Shape(conns[k])
  BY DEF ConnsOK, Shaped
<1>1. CASE conns' = conns
  BY <1>1
<1>2. ASSUME NEW j \in ConnIds, NEW c \in ConnRec, ConnStep(j, c), Becomes(j, c)
      PROVE  /\ conns'[k].sock # "none"
             /\ conns'[k].reader \in {"reading", "failed"} =>
                   conns[k].reader \in {"reading", "failed"}
             /\ conns[k].reader = "done" => conns'[k].reader = "done"
             /\ conns'[k].sock = "open" => conns[k].sock = "open"
  <2>1. CASE j # k
    BY <1>2, <2>1 DEF Becomes, ConnsOK
  <2>2. CASE j = k
    <3>0. conns'[k] = c
      BY <1>2, <2>2 DEF Becomes, ConnsOK
    <3>1. ASSUME NEW P \in SUBSET Nat, NEW n \in Nat, NEW R \in SUBSET (Nat \X Callers),
                 c = [conns[k] EXCEPT !.pend = P, !.next = n, !.replies = R]
          PROVE  c.sock = conns[k].sock /\ c.reader = conns[k].reader
      BY <1>0, <3>1 DEF ConnRec
    <3>2. CASE \/ c = CloseConn(conns[k]) /\ conns[k].sock # "none"
               \/ /\ c = [FailPending(conns[k]) EXCEPT !.reader = "failed"]
                  /\ conns[k].sock = "shut" /\ conns[k].reader = "reading"
               \/ c = [conns[k] EXCEPT !.sock = "shut"] /\ conns[k].sock = "open"
               \/ c = [conns[k] EXCEPT !.reader = "done"] /\ conns[k].reader = "failed"
      <4>1. CASE c = CloseConn(conns[k])
        BY <1>0, <3>0, <4>1, Closed
      <4>2. CASE /\ c = [FailPending(conns[k]) EXCEPT !.reader = "failed"]
                 /\ conns[k].sock = "shut" /\ conns[k].reader = "reading"
        BY <1>0, <3>0, <4>2, ReaderEnded
      <4>3. CASE c = [conns[k] EXCEPT !.sock = "shut"] /\ conns[k].sock = "open"
        BY <1>0, <3>0, <4>3, SocketShut
      <4>4. CASE c = [conns[k] EXCEPT !.reader = "done"] /\ conns[k].reader = "failed"
        BY <1>0, <3>0, <4>4, ReaderDone
      <4> QED BY <3>2, <4>1, <4>2, <4>3, <4>4
    <3> QED BY <1>2, <2>2, <3>0, <3>1, <3>2 DEF ConnStep
  <2> QED BY <2>1, <2>2
<1> QED BY <1>1, <1>2, ConnMoves

-----------------------------------------------------------------------------
(* The registry and the connections.                                       *)

\* Whoever is under the connect lock holds it, and while one dials there is no
\* registered connection.
Holds == \A t \in ConnTasks : caller[t].pc \in Guarded => connLock = t
NoReg == \A t \in ConnTasks : caller[t].pc \in Dialling => reg = 0
\* A reader is no caller of connect_with_retry before its connection's end.
ReaderIdle == \A k \in ConnIds : conns[k].reader # "done" => caller[k].pc = "idle"
\* A pod being torn down has no connection; an open one is the registered one
\* or about to be.
TornNone == torn => reg = 0
Opened == \A k \in ConnIds : conns[k].sock = "open" =>
             reg = k \/ \E t \in ConnTasks : caller[t].pc = "register" /\ caller[t].conn = k
\* A mark that no teardown was cut off from is that of one under way, or of a
\* pod that is gone.
Tear == torn /\ ~cut => \/ podPhase = "gone"
                        \/ \E t \in ConnTasks : caller[t].pc \in {"dereg", "delete"}

Typed == TasksOK /\ ConnsOK /\ Shaped /\ RestOK /\ OnConn /\ RegOK
RegInv == Typed /\ Holds /\ NoReg /\ ReaderIdle /\ TornNone /\ Opened /\ Tear

\* The lock is held by who is under it.
LEMMA LockStep ==
    ASSUME RegInv, [ConnNext]_cvars
    PROVE  Holds' /\ NoReg'
<1> USE DEF RegInv, Typed
<1>0. NoTask \notin ConnTasks /\ TasksOK'
  BY TasksStep, ConnAssumption DEF ConnTasks, Readers, ConnIds, NoTask
<1>1. ASSUME NEW t \in ConnTasks, Own(t)
      PROVE  Holds' /\ NoReg'
  <2> DEFINE Held == caller[t].pc \in Guarded /\ connLock' = connLock
             Taken == connLock = NoTask /\ connLock' = t
             Stays == caller[t].pc \in Dialling /\ reg' = reg
             Goes == reg = 0 /\ reg' = 0
  <2>0. \A u \in ConnTasks : u # t => caller'[u] = caller[u]
    BY <1>1, OwnMoves
  <2>1. /\ caller'[t].pc \in Guarded => Held \/ Taken
        /\ caller'[t].pc \in Dialling => Stays \/ Goes
    BY <1>1, Paths
  <2>2. /\ connLock' = connLock \/ connLock = t \/ connLock = NoTask
        /\ reg' = reg \/ reg' = 0 \/ caller[t].pc = "register"
    BY <1>1, OwnLeaves
  <2>3. caller[t].pc \in Dialling => caller[t].pc \in Guarded
    BY DEF Guarded
  <2>4. Holds'
    BY <1>0, <2>0, <2>1, <2>2 DEF Holds
  <2>5. caller[t].pc = "register" => caller[t].pc \in Dialling
    BY DEF Dialling
  <2>6. ASSUME NEW u \in ConnTasks, u # t, caller[u].pc \in Dialling
        PROVE  reg' = 0
    <3>1. caller[u].pc \in Guarded
      BY <2>6 DEF Guarded
    <3>2. caller[t].pc # "register"
      BY <2>3, <2>5, <2>6, <3>1 DEF Holds
    <3> QED BY <2>2, <2>6, <3>2 DEF NoReg
  <2>7. caller'[t].pc \in Dialling => reg' = 0
    BY <2>1 DEF NoReg
  <2> QED BY <2>0, <2>4, <2>6, <2>7 DEF NoReg
<1>2. ASSUME NEW k \in ConnIds, ReaderLooks(k)
      PROVE  Holds' /\ NoReg'
  <2>1. \A u \in ConnTasks : caller'[u] = caller[u] \/ caller'[u].pc \in {"idle", "wait"}
    BY <1>2 DEF ReaderLooks, TasksOK, NoCall
  <2>2. connLock' = connLock /\ (reg' = reg \/ reg' = 0)
    BY <1>2 DEF ReaderLooks
  <2> QED BY <2>1, <2>2 DEF Holds, NoReg, Guarded, Dialling
<1>3. CASE Still
  BY <1>3 DEF Still, Holds, NoReg
<1> QED BY <1>1, <1>2, <1>3, WhoSteps

\* A reader becomes a caller at its connection's end only.
LEMMA ReaderIdleStep ==
    ASSUME RegInv, [ConnNext]_cvars
    PROVE  ReaderIdle'
<1> USE DEF RegInv, Typed
<1> SUFFICES ASSUME NEW k \in ConnIds, conns'[k].reader # "done"
             PROVE  caller'[k].pc = "idle"
  BY DEF ReaderIdle
<1>0. k \in ConnTasks /\ k \notin Callers
  BY ConnAssumption DEF ConnTasks, Readers
<1>1. conns[k].reader # "done"
  BY StaysMade DEF Shaped, Shape
<1>2. caller[k].pc = "idle"
  BY <1>1 DEF ReaderIdle
<1>3. ASSUME NEW t \in ConnTasks, Own(t)
      PROVE  caller'[k].pc = "idle"
  <2>1. t # k
    BY <1>0, <1>2, <1>3, Paths
  <2> QED BY <1>0, <1>2, <1>3, <2>1, OwnMoves
<1>4. ASSUME NEW j \in ConnIds, ReaderLooks(j)
      PROVE  caller'[k].pc = "idle"
  <2>1. conns'[j].reader = "done"
    BY <1>4 DEF ReaderLooks, ConnsOK, ConnRec
  <2> QED BY <1>0, <1>2, <1>4, <2>1 DEF ReaderLooks, TasksOK
<1>5. CASE Still
  BY <1>0, <1>2, <1>5 DEF Still
<1> QED BY <1>3, <1>4, <1>5, WhoSteps

\* The sockets and the readers are left alone.
Quiet == \A k \in ConnIds : conns'[k].sock = conns[k].sock /\ conns'[k].reader = conns[k].reader

\* What a task's step does to them: it dials, registers, tears down, or
\* leaves them alone.
LEMMA OwnConns ==
    ASSUME RegInv, NEW t \in ConnTasks, Own(t)
    PROVE  \/ \E k \in ConnIds : Dials(t, k)
           \/ Register(t)
           \/ /\ Deregister /\ caller[t].pc \in {"dereg1", "dereg"}
           \/ /\ Quiet /\ reg' = reg /\ caller[t].pc # "register"
<1> USE DEF RegInv, Typed, registry
<1>1. conns' = conns => Quiet
  BY DEF Quiet
<1>2. CASE Call(t) \/ Drop(t)
  BY <1>1, <1>2 DEF Call, Ask, AskTerminate, AskStop, Drop
<1>3. CASE Lock(t) \/ Look(t)
  BY <1>1, <1>3 DEF Lock, Look
<1>4. CASE DialOutdated(t) \/ RememberOutdated(t) \/ DialFails(t) \/ Failed(t)
  BY <1>1, <1>4 DEF DialOutdated, RememberOutdated, DialFails, Failed
<1>5. CASE CleanList(t) \/ CleanClose(t) \/ TermFailed(t) \/ TermDelete(t) \/ TermRow(t)
  BY <1>1, <1>5 DEF CleanList, CleanClose, TermFailed, TermDelete, TermRow
<1>6. CASE StopTerms(t) \/ StopClose(t) \/ Answered(t)
  BY <1>1, <1>6 DEF StopTerms, StopClose, Answered
<1>7. CASE Send(t) \/ Unanswered(t)
  <2>1. caller[t].conn \in ConnIds
    BY <1>7 DEF Send, Unanswered, OnConn
  <2>2. Quiet
    BY <1>1, <1>7, <2>1 DEF Quiet, Send, Unanswered, ConnsOK, ConnRec
  <2> QED BY <1>7, <2>2 DEF Send, Unanswered
<1>8. CASE CleanDeregister(t) \/ TermDeregister(t)
  BY <1>8 DEF CleanDeregister, TermDeregister
<1>9. CASE DialConnects(t)
  BY <1>9, DialMakes
<1>10. CASE Register(t)
  BY <1>10
<1> QED BY <1>2, <1>3, <1>4, <1>5, <1>6, <1>7, <1>8, <1>9, <1>10 DEF Own, TaskStep

\* A connection is registered, refused or worth another try.
LEMMA Registered ==
    ASSUME RegInv, NEW t \in ConnTasks, Register(t)
    PROVE  LET k == caller[t].conn
           IN  /\ k \in ConnIds /\ reg = 0 /\ caller[t].pc = "register"
               /\ \/ Becomes(k, CloseConn(conns[k])) /\ reg' = 0
                  \/ conns' = conns /\ reg' = 0 /\ conns[k].sock = "shut"
                  \/ conns' = conns /\ reg' = k /\ conns[k].reader = "reading"
<1> USE DEF RegInv, Typed
<1>1. caller[t].conn \in ConnIds /\ conns[caller[t].conn].sock # "none" /\ caller[t].pc = "register"
  BY DEF Register, OnConn
<1>2. reg = 0
  BY <1>1 DEF NoReg, Dialling
<1>3. Shape(conns[caller[t].conn]) /\ conns[caller[t].conn] \in ConnRec
  BY <1>1 DEF Shaped, ConnsOK
<1> QED BY <1>1, <1>2, <1>3 DEF Register, Refuse, TryAgain, Accept, Becomes, Shape, ConnRec

\* The registered connection has its reader.
LEMMA RegStep ==
    ASSUME RegInv, [ConnNext]_cvars
    PROVE  RegOK'
<1> USE DEF RegInv, Typed
<1> SUFFICES ASSUME reg' # 0
             PROVE  conns'[reg'].reader \in {"reading", "failed"}
  BY DEF RegOK
<1>1. ASSUME NEW t \in ConnTasks, Own(t)
      PROVE  conns'[reg'].reader \in {"reading", "failed"}
  <2>1. CASE Register(t)
    BY <2>1, Registered
  <2>2. CASE Deregister
    BY <2>2 DEF Deregister
  <2>3. CASE Quiet /\ reg' = reg
    BY <2>3 DEF Quiet, RegOK, RestOK
  <2>4. ASSUME NEW k \in ConnIds, Dials(t, k)
        PROVE  conns'[reg'].reader \in {"reading", "failed"}
    <3>1. reg' = reg /\ reg # k
      BY <2>4 DEF Dials, RegOK, Shaped, Shape
    <3> QED BY <2>4, <3>1 DEF Dials, Becomes, RegOK, ConnsOK, RestOK
  <2> QED BY <1>1, <2>1, <2>2, <2>3, <2>4, OwnConns
<1>2. ASSUME NEW k \in ConnIds, ReaderLooks(k)
      PROVE  conns'[reg'].reader \in {"reading", "failed"}
  BY <1>2 DEF ReaderLooks, RegOK, ConnsOK, RestOK
<1>3. ASSUME NEW k \in ConnIds, ReaderEnds(k) \/ SocketEnds(k)
      PROVE  conns'[reg'].reader \in {"reading", "failed"}
  <2>1. reg' = reg /\ conns[k] \in ConnRec /\ reg \in ConnIds
    BY <1>3 DEF ReaderEnds, SocketEnds, registry, ConnsOK, RestOK
  <2>2. conns'[reg].reader \in {conns[reg].reader, "failed"}
    <3>1. CASE ReaderEnds(k)
      BY <2>1, <3>1 DEF ReaderEnds, FailPending, ConnsOK, ConnRec
    <3>2. CASE SocketEnds(k)
      BY <2>1, <3>2 DEF SocketEnds, ConnsOK, ConnRec
    <3> QED BY <1>3, <3>1, <3>2
  <2> QED BY <2>1, <2>2 DEF RegOK
<1>4. ASSUME NEW k \in ConnIds, NEW r \in conns[k].replies, Resolve(k, r)
      PROVE  conns'[reg'].reader \in {"reading", "failed"}
  <2>1. reg' = reg /\ conns[k] \in ConnRec /\ reg \in ConnIds
    BY <1>4 DEF Resolve, registry, ConnsOK, RestOK
  <2>2. conns'[reg].reader = conns[reg].reader
    BY <1>4, <2>1 DEF Resolve, ConnsOK, ConnRec
  <2> QED BY <2>1, <2>2 DEF RegOK
<1>5. CASE PodStarts \/ PodLost \/ UNCHANGED cvars
  BY <1>5 DEF PodStarts, PodLost, cvars, registry, RegOK
<1> QED BY <1>1, <1>2, <1>3, <1>4, <1>5 DEF ConnNext, Own, Reading, ConnTasks

\* An open connection is the registered one, or is about to be.
LEMMA OpenedStep ==
    ASSUME RegInv, [ConnNext]_cvars
    PROVE  Opened'
<1> USE DEF RegInv, Typed
<1> DEFINE Kept(k) ==
             reg' = k \/ \E t \in ConnTasks : caller'[t].pc = "register" /\ caller'[t].conn = k
<1> SUFFICES ASSUME NEW k \in ConnIds, conns'[k].sock = "open"
             PROVE  Kept(k)
  BY DEF Opened
<1>0. conns[k].sock # "none" =>
         /\ conns[k].sock = "open"
         /\ reg = k \/ \E t \in ConnTasks : caller[t].pc = "register" /\ caller[t].conn = k
  BY StaysMade DEF Opened
<1>1. ASSUME NEW t \in ConnTasks, Own(t)
      PROVE  Kept(k)
  <2>0. \A u \in ConnTasks : u # t => caller'[u] = caller[u]
    BY <1>1, OwnMoves
  <2>1. ASSUME NEW j \in ConnIds, Dials(t, j)
        PROVE  Kept(k)
    <3>1. CASE k = j
      BY <2>1, <3>1 DEF Dials
    <3>2. CASE k # j
      <4>1. conns'[k] = conns[k] /\ caller[t].pc # "register" /\ reg' = reg
        BY <2>1, <3>2 DEF Dials, Becomes, ConnsOK
      <4> QED BY <1>0, <2>0, <4>1
    <3> QED BY <3>1, <3>2
  <2>2. CASE Register(t)
    <3> DEFINE j == caller[t].conn
    <3>1. /\ j \in ConnIds /\ reg = 0 /\ caller[t].pc = "register"
          /\ \/ Becomes(j, CloseConn(conns[j])) /\ reg' = 0
             \/ conns' = conns /\ reg' = 0 /\ conns[j].sock = "shut"
             \/ conns' = conns /\ reg' = j /\ conns[j].reader = "reading"
      BY <2>2, Registered
    <3>2. conns[j] \in ConnRec /\ Shape(conns[j]) /\ conns[j].sock # "none"
      BY <3>1 DEF ConnsOK, Shaped, OnConn
    <3>3. CloseConn(conns[j]).sock = "shut"
      BY <3>2, Closed
    <3>4. CASE k = j
      BY <3>1, <3>3, <3>4 DEF Becomes, ConnsOK
    <3>5. CASE k # j
      <4>1. conns'[k] = conns[k]
        BY <3>1, <3>5 DEF Becomes, ConnsOK
      <4>2. PICK u \in ConnTasks : caller[u].pc = "register" /\ caller[u].conn = k
        BY <1>0, <3>1, <4>1 DEF ConnIds
      <4>3. u # t
        BY <3>5, <4>2
      <4> QED BY <2>0, <4>2, <4>3
    <3> QED BY <3>4, <3>5
  <2>3. CASE Deregister /\ caller[t].pc \in {"dereg1", "dereg"}
    <3>1. reg # k
      <4>1. SUFFICES ASSUME reg = k PROVE FALSE
        OBVIOUS
      <4>2. reg # 0 /\ conns[k] \in ConnRec /\ Shape(conns[k]) /\ conns[k].sock # "none"
        BY <4>1 DEF ConnIds, ConnsOK, Shaped, RegOK, Shape
      <4>3. conns'[k] = CloseConn(conns[k])
        BY <2>3, <4>1, <4>2 DEF Deregister, ConnsOK
      <4> QED BY <4>2, <4>3, Closed
    <3>2. conns'[k] = conns[k]
      BY <2>3, <3>1 DEF Deregister, ConnsOK
    <3>3. PICK u \in ConnTasks : caller[u].pc = "register" /\ caller[u].conn = k
      BY <1>0, <3>1, <3>2
    <3>4. u # t
      BY <2>3, <3>3
    <3> QED BY <2>0, <3>3, <3>4
  <2>4. CASE Quiet /\ reg' = reg /\ caller[t].pc # "register"
    BY <1>0, <2>0, <2>4 DEF Quiet
  <2> QED BY <1>1, <2>1, <2>2, <2>3, <2>4, OwnConns
<1>5. \A u \in ConnTasks : caller[u].pc = "register" => conns[caller[u].conn].sock # "none"
  BY DEF OnConn
<1>2. ASSUME NEW j \in ConnIds, ReaderLooks(j)
      PROVE  Kept(k)
  <2>1. conns'[k].sock = conns[k].sock /\ conns[j].sock # "open"
    BY <1>2 DEF ReaderLooks, ConnsOK, ConnRec, Shaped, Shape
  <2>2. j \in ConnTasks /\ caller[j].pc = "idle"
    BY <1>2 DEF ReaderLooks, ReaderIdle, ConnTasks, Readers
  <2>3. \A u \in ConnTasks : u # j => caller'[u] = caller[u]
    BY <1>2 DEF ReaderLooks, TasksOK
  <2>4. reg' = reg \/ reg = j
    BY <1>2 DEF ReaderLooks
  <2>5. CASE reg = k
    BY <2>1, <2>4, <2>5
  <2>6. ASSUME NEW u \in ConnTasks, caller[u].pc = "register", caller[u].conn = k
        PROVE  Kept(k)
    BY <2>2, <2>3, <2>6
  <2> QED BY <1>0, <2>1, <2>5, <2>6
<1>3. ASSUME Still, conns[k].sock # "none"
      PROVE  Kept(k)
  BY <1>0, <1>3 DEF Still
<1>4. ASSUME ~(\E t \in ConnTasks : Own(t))
      PROVE  conns[k].sock # "none"
  <2>1. ASSUME NEW j \in ConnIds, Reading(j) \/ SocketEnds(j)
        PROVE  conns'[k].sock = conns[k].sock \/ conns[k].sock # "none"
    <3>0. conns[j] \in ConnRec /\ Shape(conns[j])
      BY DEF ConnsOK, Shaped
    <3>1. CASE ReaderEnds(j)
      BY <3>0, <3>1 DEF ReaderEnds, FailPending, ConnsOK, ConnRec
    <3>2. CASE ReaderLooks(j) \/ SocketEnds(j)
      BY <3>0, <3>2 DEF ReaderLooks, SocketEnds, ConnsOK, ConnRec
    <3>3. ASSUME NEW r \in conns[j].replies, Resolve(j, r)
          PROVE  conns'[k].sock = conns[k].sock
      BY <3>0, <3>3 DEF Resolve, ConnsOK, ConnRec
    <3> QED BY <2>1, <3>1, <3>2, <3>3 DEF Reading
  <2>2. CASE PodStarts \/ PodLost \/ UNCHANGED cvars
    BY <2>2 DEF PodStarts, PodLost, cvars
  <2> QED BY <1>4, <2>1, <2>2 DEF ConnNext, Own, ConnTasks
<1> QED BY <1>1, <1>2, <1>3, <1>4, WhoSteps

\* A teardown's mark, and what is left of it.
LEMMA TearPath ==
    ASSUME TasksOK, RestOK, NEW t \in ConnTasks, Own(t)
    PROVE  /\ caller[t].pc \in {"dereg", "delete"} =>
                caller'[t].pc = "delete" \/ podPhase' = "gone" \/ torn' = FALSE \/ cut' = TRUE
           /\ torn' = TRUE /\ torn = FALSE => caller'[t].pc \in {"dereg", "delete"}
           /\ cut' = TRUE \/ cut' = cut
<1> USE DEF TasksOK, TaskRec, PCs, RestOK, Step, Leave, NoCall, counts, registry
<1>1. CASE Call(t)
  BY <1>1 DEF Call, Ask, AskTerminate, AskStop
<1>2. CASE Drop(t)
  BY <1>2 DEF Drop
<1>3. CASE Lock(t) \/ Look(t) \/ DialConnects(t)
  BY <1>3 DEF Lock, Look, DialConnects
<1>4. CASE DialOutdated(t) \/ RememberOutdated(t) \/ DialFails(t) \/ Failed(t)
  BY <1>4 DEF DialOutdated, RememberOutdated, DialFails, Failed
<1>5. CASE Register(t)
  BY <1>5 DEF Register
<1>6. CASE CleanList(t) \/ CleanClose(t) \/ CleanDeregister(t) \/ TermDeregister(t)
  BY <1>6 DEF CleanList, CleanClose, CleanDeregister, TermDeregister
<1>7. CASE TermFailed(t) \/ TermDelete(t) \/ TermRow(t)
  BY <1>7 DEF TermFailed, TermDelete, TermRow
<1>8. CASE StopTerms(t) \/ StopClose(t) \/ Send(t) \/ Answered(t) \/ Unanswered(t)
  BY <1>8 DEF StopTerms, StopClose, Send, Answered, Unanswered
<1> QED BY <1>1, <1>2, <1>3, <1>4, <1>5, <1>6, <1>7, <1>8 DEF Own, TaskStep

\* So a mark is never left behind by a teardown that ran to its end.
LEMMA TearStep ==
    ASSUME RegInv, [ConnNext]_cvars
    PROVE  TornNone' /\ Tear'
<1> USE DEF RegInv, Typed
<1>0. torn \in BOOLEAN /\ cut \in BOOLEAN
  BY DEF RestOK
<1>1. ASSUME NEW t \in ConnTasks, Own(t)
      PROVE  TornNone' /\ Tear'
  <2>1. /\ reg' = reg \/ reg' = 0 \/ ~torn
        /\ torn' = torn \/ (torn' = TRUE /\ reg' = 0) \/ torn' = FALSE
        /\ podPhase' = podPhase \/ podPhase' = "gone"
    BY <1>1, OwnLeaves
  <2>2. TornNone'
    BY <1>0, <2>1 DEF TornNone
  <2>3. /\ caller[t].pc \in {"dereg", "delete"} =>
             caller'[t].pc = "delete" \/ podPhase' = "gone" \/ torn' = FALSE \/ cut' = TRUE
        /\ torn' = TRUE /\ torn = FALSE => caller'[t].pc \in {"dereg", "delete"}
        /\ cut' = TRUE \/ cut' = cut
    BY <1>1, TearPath
  <2>4. \A u \in ConnTasks : u # t => caller'[u] = caller[u]
    BY <1>1, OwnMoves
  <2>5. ASSUME torn', ~cut'
        PROVE  podPhase' = "gone" \/ \E u \in ConnTasks : caller'[u].pc \in {"dereg", "delete"}
    <3>1. torn' = TRUE /\ ~cut
      BY <1>0, <2>1, <2>3, <2>5
    <3>2. CASE torn = FALSE
      BY <2>3, <3>1, <3>2
    <3>3. CASE podPhase = "gone"
      BY <2>1, <3>3
    <3>4. ASSUME NEW u \in ConnTasks, caller[u].pc \in {"dereg", "delete"}
          PROVE  podPhase' = "gone" \/ \E v \in ConnTasks : caller'[v].pc \in {"dereg", "delete"}
      <4>1. CASE u # t
        BY <2>4, <3>4, <4>1
      <4>2. CASE u = t
        <5>1. caller'[t].pc = "delete" \/ podPhase' = "gone"
          BY <2>3, <2>5, <3>1, <3>4, <4>2
        <5> QED BY <5>1
      <4> QED BY <4>1, <4>2
    <3> QED BY <1>0, <3>1, <3>2, <3>3, <3>4 DEF Tear
  <2> QED BY <2>2, <2>5 DEF Tear
<1>2. ASSUME NEW k \in ConnIds, ReaderLooks(k)
      PROVE  TornNone' /\ Tear'
  <2>1. UNCHANGED <<torn, cut, podPhase>> /\ (reg' = reg \/ reg' = 0)
    BY <1>2 DEF ReaderLooks, podState, counts
  <2>2. \A u \in ConnTasks : u # k => caller'[u] = caller[u]
    BY <1>2 DEF ReaderLooks, TasksOK
  <2>3. caller[k].pc = "idle"
    BY <1>2 DEF ReaderLooks, ReaderIdle
  <2> QED BY <2>1, <2>2, <2>3 DEF TornNone, Tear
<1>3. CASE Still
  BY <1>3 DEF Still, TornNone, Tear
<1> QED BY <1>1, <1>2, <1>3, WhoSteps

\* A task's connection is one that was made.
LEMMA OnConnStep ==
    ASSUME RegInv, [ConnNext]_cvars
    PROVE  OnConn'
<1> USE DEF RegInv, Typed
<1>0. \A k \in ConnIds : conns[k].sock # "none" => conns'[k].sock # "none"
  BY StaysMade
<1>1. ASSUME NEW t \in ConnTasks, Own(t)
      PROVE  OnConn'
  <2>0. \A u \in ConnTasks : u # t => caller'[u] = caller[u]
    BY <1>1, OwnMoves
  <2>1. /\ caller'[t].pc = "register" => caller[t].pc = "dial"
        /\ caller'[t].pc \in {"send", "reply"} =>
             /\ t \in Callers \/ caller[t].pc \in {"send", "reply"}
             /\ \/ reg # 0 /\ caller'[t].conn = reg
                \/ caller[t].pc \in {"register", "send"} /\ caller'[t].conn = caller[t].conn
    BY <1>1, Paths
  <2>2. ASSUME caller'[t].pc \in {"send", "reply"}
        PROVE  t \in Callers /\ caller'[t].conn \in ConnIds /\ conns'[caller'[t].conn].sock # "none"
    <3>1. t \in Callers
      BY <2>1, <2>2 DEF OnConn
    <3>2. reg # 0 => reg \in ConnIds /\ conns[reg].sock # "none"
      BY DEF RestOK, RegOK, Shaped, Shape
    <3>3. caller'[t].conn \in ConnIds /\ conns[caller'[t].conn].sock # "none"
      BY <2>1, <2>2, <3>2 DEF OnConn
    <3> QED BY <1>0, <3>1, <3>3
  <2>3. ASSUME caller'[t].pc = "register"
        PROVE  caller'[t].conn \in ConnIds /\ conns'[caller'[t].conn].sock # "none"
    <3>1. DialConnects(t)
      <4>0. caller[t].pc = "dial"
        BY <2>1, <2>3
      <4>1. CASE DialOutdated(t) \/ DialFails(t)
        BY <2>3, <4>0, <4>1 DEF DialOutdated, DialFails, Step, Leave, NoCall, TasksOK, TaskRec
      <4>2. CASE Drop(t)
        BY <2>3, <4>2 DEF Drop, Leave, NoCall, TasksOK
      <4>3. DialConnects(t) \/ DialOutdated(t) \/ DialFails(t) \/ Drop(t)
        BY <1>1, <4>0 DEF Own, TaskStep, Call, Ask, AskTerminate, AskStop, Lock, Look,
             RememberOutdated, Register, Failed, CleanList, CleanClose, CleanDeregister,
             TermDeregister, TermFailed, TermDelete, TermRow, StopTerms, StopClose, Send,
             Answered, Unanswered
      <4> QED BY <4>1, <4>2, <4>3
    <3>2. PICK k \in ConnIds : Dials(t, k)
      BY <3>1, DialMakes
    <3>3. conns'[k].sock = "open" /\ caller'[t].conn = k
      BY <3>2 DEF Dials, Becomes, ConnsOK, ConnRec
    <3> QED BY <3>3
  <2> QED BY <1>0, <2>0, <2>2, <2>3 DEF OnConn
<1>2. ASSUME NEW k \in ConnIds, ReaderLooks(k)
      PROVE  OnConn'
  <2>1. \A u \in ConnTasks : caller'[u] = caller[u] \/ caller'[u].pc \in {"idle", "wait"}
    BY <1>2 DEF ReaderLooks, TasksOK, NoCall
  <2> QED BY <1>0, <2>1 DEF OnConn
<1>3. CASE Still
  BY <1>0, <1>3 DEF Still, OnConn
<1> QED BY <1>1, <1>2, <1>3, WhoSteps

\* The rest of the state keeps its type.
LEMMA RestStep ==
    ASSUME RegInv, [ConnNext]_cvars
    PROVE  RestOK'
<1> USE DEF RegInv, Typed
<1>0. /\ podPhase \in {"pending", "running", "gone"} /\ podRow \in BOOLEAN
      /\ torn \in BOOLEAN /\ cut \in BOOLEAN /\ reg \in ConnIds \cup {0}
      /\ connLock \in ConnTasks \cup {NoTask} /\ made \in Nat /\ terms \subseteq 1..made
      /\ crashTold \in [1..MaxTerms -> Nat]
  BY DEF RestOK
<1>1. ASSUME NEW t \in ConnTasks, Own(t)
      PROVE  RestOK'
  <2>1. /\ podPhase' \in {"pending", "running", "gone"} /\ podRow' \in BOOLEAN
        /\ torn' \in BOOLEAN /\ cut' \in BOOLEAN /\ reg' \in ConnIds \cup {0}
        /\ connLock' \in ConnTasks \cup {NoTask}
    BY <1>0, <1>1, OwnLeaves DEF OnConn
  <2>2. /\ made' \in Nat /\ terms' \subseteq 1..made'
        /\ crashTold' \in [1..MaxTerms -> Nat]
    <3>1. CASE CleanClose(t)
      <4>1. made' = made /\ terms' \subseteq terms
        BY <3>1 DEF CleanClose
      <4>2. crashTold' = [x \in 1..MaxTerms |->
                             crashTold[x] + (IF x \in caller[t].seen THEN 1 ELSE 0)]
        BY <3>1 DEF CleanClose
      <4>3. \A x \in 1..MaxTerms : crashTold[x] \in Nat
        BY <1>0
      <4>4. \A x \in 1..MaxTerms : crashTold[x] + (IF x \in caller[t].seen THEN 1 ELSE 0) \in Nat
        BY <4>3
      <4>5. crashTold' \in [1..MaxTerms -> Nat]
        BY <4>2, <4>4
      <4> QED BY <1>0, <4>1, <4>5
    <3>2. CASE StopClose(t) \/ Unanswered(t)
      BY <1>0, <3>2 DEF StopClose, Unanswered
    <3>3. CASE Send(t)
      <4> DEFINE term == IF caller[t].mode = "First" /\ made < MaxTerms THEN {made + 1} ELSE {}
      <4>1. crashTold' = crashTold
        BY <3>3 DEF Send
      <4>2. \/ made' = made /\ terms' = terms
            \/ made' = made + Cardinality(term) /\ terms' = terms \cup term
        BY <3>3 DEF Send
      <4>3. CASE term = {}
        <5>1. Cardinality(term) = 0 /\ terms \cup term = terms
          BY <4>3, FS_EmptySet
        <5> HIDE DEF term
        <5>3. terms' = terms
          BY <4>2, <5>1, Zenon
        <5>4. made' = made
          BY <1>0, <4>2, <5>1
        <5>2. made' = made /\ terms' = terms
          BY <5>3, <5>4
        <5> QED BY <1>0, <4>1, <5>2
      <4>4. CASE term = {made + 1}
        <5>1. Cardinality(term) = 1
          BY <4>4, FS_Singleton
        <5> HIDE DEF term
        <5>2. made' \in Nat /\ made' >= made
          BY <1>0, <4>2, <5>1
        <5>4. made' = made + 1 \/ (made' = made /\ terms' = terms)
          BY <4>2, <5>1
        <5>5. terms' \subseteq terms \cup {made + 1} /\ (terms' = terms \/ made' = made + 1)
          BY <4>2, <4>4, <5>1
        <5>3. terms' \subseteq 1..made'
          BY <1>0, <5>4, <5>5
        <5> QED BY <1>0, <4>1, <5>2, <5>3
      <4> QED BY <4>3, <4>4
    <3>4. CASE UNCHANGED rows
      BY <1>0, <3>4 DEF rows
    <3>5. CleanClose(t) \/ StopClose(t) \/ Unanswered(t) \/ Send(t) \/ UNCHANGED rows
      BY <1>1 DEF Own, TaskStep, Call, Ask, AskTerminate, AskStop, Drop, Lock, Look,
           DialConnects, DialOutdated, DialFails, RememberOutdated, Register, Failed, CleanList,
           CleanDeregister, TermDeregister, TermFailed, TermDelete, TermRow, StopTerms, Answered
    <3> QED BY <3>1, <3>2, <3>3, <3>4, <3>5
  <2> QED BY <2>1, <2>2 DEF RestOK
<1>2. ASSUME NEW k \in ConnIds, ReaderLooks(k)
      PROVE  RestOK'
  BY <1>0, <1>2 DEF ReaderLooks, RestOK, podState, counts, rows
<1>3. CASE Still
  BY <1>0, <1>3 DEF Still, RestOK
<1> QED BY <1>1, <1>2, <1>3, WhoSteps

\* The invariant holds at the start ...
LEMMA RegInit == ConnInit => RegInv
<1> SUFFICES ASSUME ConnInit PROVE RegInv
  OBVIOUS
<1> USE DEF ConnInit
<1>1. TasksOK /\ ConnsOK
  BY DEF TasksOK, ConnsOK, TaskRec, ConnRec, NoCall, NoConn, PCs
<1>2. Shaped /\ RestOK /\ RegOK /\ TornNone /\ Tear
  BY ConnAssumption DEF Shaped, Shape, NoConn, RestOK, RegOK, TornNone, Tear
<1>3. /\ \A t \in ConnTasks : caller[t].pc = "idle"
      /\ \A k \in ConnIds : conns[k].sock = "none"
  BY DEF NoCall, NoConn
<1>4. OnConn /\ Holds /\ NoReg /\ Opened
  BY <1>3 DEF OnConn, Holds, NoReg, Opened, Guarded, Dialling
<1>5. ReaderIdle
  BY <1>3 DEF ReaderIdle, ConnTasks, Readers
<1> QED BY <1>1, <1>2, <1>4, <1>5 DEF RegInv, Typed

\* ... is kept by every step ...
LEMMA RegInvStep == RegInv /\ [ConnNext]_cvars => RegInv'
<1> SUFFICES ASSUME RegInv, [ConnNext]_cvars PROVE RegInv'
  OBVIOUS
<1>1. TasksOK' /\ ConnsOK' /\ Shaped'
  BY TasksStep, ShapesStep DEF RegInv, Typed
<1>2. RestOK' /\ OnConn' /\ RegOK'
  BY RestStep, OnConnStep, RegStep
<1>3. Holds' /\ NoReg' /\ ReaderIdle' /\ TornNone' /\ Tear' /\ Opened'
  BY LockStep, ReaderIdleStep, TearStep, OpenedStep
<1> QED BY <1>1, <1>2, <1>3 DEF RegInv, Typed

\* ... and says what the registry promises.
LEMMA RegAgrees == RegInv => RegistryAgrees
<1> SUFFICES ASSUME RegInv PROVE RegistryAgrees
  OBVIOUS
<1>1. ~cut => StaysReachable
  BY DEF StaysReachable, RegInv, Tear
<1> QED BY <1>1 DEF RegistryAgrees, RegInv, Typed, TornNone, RegOK, Opened

\* Registry: however a connect, a teardown and a connection's own end meet
\* (register, deregister, deregister_if_current), a pod being torn down has no
\* connection, the registered one has a reader that will react to its end, an
\* open one is the registered one or about to be, and a teardown that was not
\* cut off takes its own mark back.
THEOREM PodConnRegistry == ConnSpec => []RegistryAgrees
<1>1. ConnInit => RegInv
  BY RegInit
<1>2. RegInv /\ [ConnNext]_cvars => RegInv'
  BY RegInvStep
<1>3. RegInv => RegistryAgrees
  BY RegAgrees
<1> QED BY <1>1, <1>2, <1>3, PTL DEF ConnSpec

-----------------------------------------------------------------------------
(* One crash, one notice.                                                  *)

\* A terminal told of is closed and was made; and the ones a cleanup is about
\* to close, under the lock, have not been told of.
Told == \A x \in 1..MaxTerms : crashTold[x] # 0 => crashTold[x] = 1 /\ x \notin terms /\ x <= made
Untold == \A t \in ConnTasks : caller[t].pc = "close" =>
             \A x \in caller[t].seen \cap (1..MaxTerms) : crashTold[x] = 0 /\ x <= made
CrashInv == RegInv /\ Told /\ Untold

\* A cleanup comes to its closing from its list of the live terminals.
LEMMA CloseComes ==
    ASSUME TasksOK, NEW t \in ConnTasks, Own(t), caller'[t].pc = "close"
    PROVE  caller[t].pc = "list" /\ caller'[t].seen = terms
<1> USE DEF TasksOK, TaskRec, PCs, Step, Leave, NoCall
<1>1. ASSUME NEW mode \in Modes, Ask(t, mode)
      PROVE  FALSE
  <2>1. caller'[t].pc \in {"idle", "send", "wait"}
    BY <1>1 DEF Ask, Enter
  <2> QED BY <2>1
<1>9. CASE AskTerminate(t)
  BY <1>9 DEF AskTerminate
<1>10. CASE AskStop(t)
  BY <1>10 DEF AskStop
<1>11. CASE Drop(t)
  BY <1>11 DEF Drop
<1>2. CASE Lock(t)
  <2> DEFINE r == [caller[t] EXCEPT !.pc = "send", !.conn = reg]
  <2>1. r.pc = "send"
    OBVIOUS
  <2>2. \/ caller' = [caller EXCEPT ![t] =
                         IF t \in Callers /\ caller[t].mode # "Startup" THEN r ELSE NoCall]
        \/ Leave(t) \/ Step(t, "look")
    BY <1>2 DEF Lock
  <2> HIDE DEF r
  <2> QED BY <2>1, <2>2
<1>3. CASE Look(t) \/ DialConnects(t)
  BY <1>3 DEF Look, DialConnects
<1>4. CASE DialOutdated(t) \/ RememberOutdated(t) \/ DialFails(t) \/ Failed(t)
  BY <1>4 DEF DialOutdated, RememberOutdated, DialFails, Failed
<1>5. CASE Register(t)
  BY <1>5 DEF Register, Refuse, TryAgain, Accept
<1>6. CASE CleanList(t) \/ CleanClose(t) \/ CleanDeregister(t) \/ TermDeregister(t)
  BY <1>6 DEF CleanList, CleanClose, CleanDeregister, TermDeregister
<1>7. CASE TermFailed(t) \/ TermDelete(t) \/ TermRow(t) \/ StopTerms(t) \/ StopClose(t)
  BY <1>7 DEF TermFailed, TermDelete, TermRow, StopTerms, StopClose
<1>8. CASE Send(t) \/ Answered(t) \/ Unanswered(t)
  BY <1>8 DEF Send, Answered, Unanswered
<1> QED BY <1>1, <1>2, <1>3, <1>4, <1>5, <1>6, <1>7, <1>8, <1>9, <1>10, <1>11
        DEF Own, TaskStep, Call

\* What any step does to what was told.
LEMMA CrashStep ==
    ASSUME CrashInv, [ConnNext]_cvars
    PROVE  Told' /\ Untold'
<1> USE DEF CrashInv, RegInv, Typed
<1>0. /\ made \in Nat /\ terms \subseteq 1..made
      /\ crashTold \in [1..MaxTerms -> Nat] /\ MaxTerms \in Nat
  BY ConnAssumption DEF RestOK
<1>1. ASSUME NEW t \in ConnTasks, Own(t)
      PROVE  Told' /\ Untold'
  <2>0. \A u \in ConnTasks : u # t => caller'[u] = caller[u]
    BY <1>1, OwnMoves
  <2>1. CASE CleanClose(t)
    <3>1. caller[t].pc = "close" /\ made' = made /\ terms' = terms \ caller[t].seen
      BY <2>1 DEF CleanClose
    <3>2. \A x \in 1..MaxTerms :
            crashTold'[x] = crashTold[x] + (IF x \in caller[t].seen THEN 1 ELSE 0)
      BY <2>1 DEF CleanClose
    <3>3. \A x \in (1..MaxTerms) \ caller[t].seen : crashTold'[x] = crashTold[x]
      BY <1>0, <3>2
    <3>4. \A x \in (1..MaxTerms) \cap caller[t].seen : crashTold'[x] = 1 /\ x <= made
      <4>1. \A x \in (1..MaxTerms) \cap caller[t].seen : crashTold[x] = 0 /\ x <= made
        BY <3>1 DEF Untold
      <4> QED BY <3>2, <4>1
    <3>5. Told'
      <4> SUFFICES ASSUME NEW x \in 1..MaxTerms, crashTold'[x] # 0
                   PROVE  crashTold'[x] = 1 /\ x \notin terms' /\ x <= made'
        BY DEF Told
      <4>1. CASE x \in caller[t].seen
        BY <3>1, <3>4, <4>1
      <4>2. CASE x \notin caller[t].seen
        BY <3>1, <3>3, <4>2 DEF Told
      <4> QED BY <4>1, <4>2
    <3>6. \A u \in ConnTasks : u # t => caller[u].pc # "close"
      <4>1. connLock = t
        BY <3>1 DEF Holds, Guarded
      <4> QED BY <4>1 DEF Holds, Guarded
    <3>7. caller'[t].pc = "dereg1"
      BY <2>1 DEF CleanClose, Step, TasksOK, TaskRec
    <3>8. Untold'
      BY <2>0, <3>6, <3>7 DEF Untold
    <3> QED BY <3>5, <3>8
  <2>2. CASE ~CleanClose(t)
    <3>1. crashTold' = crashTold /\ made' >= made /\ terms' \subseteq terms \cup {made + 1}
          /\ (terms' \subseteq terms \/ made' = made + 1)
      <4>1. CASE StopClose(t) \/ Unanswered(t)
        BY <1>0, <4>1 DEF StopClose, Unanswered
      <4>2. CASE Send(t)
        <5> DEFINE term == IF caller[t].mode = "First" /\ made < MaxTerms THEN {made + 1} ELSE {}
        <5>1. crashTold' = crashTold
          BY <4>2 DEF Send
        <5>2. \/ made' = made /\ terms' = terms
              \/ made' = made + Cardinality(term) /\ terms' = terms \cup term
          BY <4>2 DEF Send
        <5>3. \/ term = {} /\ Cardinality(term) = 0
              \/ term = {made + 1} /\ Cardinality(term) = 1
          BY FS_EmptySet, FS_Singleton
        <5> HIDE DEF term
        <5>4. \/ made' = made \/ made' = made + 1
          BY <1>0, <5>2, <5>3
        <5>5. terms' \subseteq terms \cup {made + 1}
          BY <5>2, <5>3
        <5>6. terms' \subseteq terms \/ made' = made + 1
          BY <5>2, <5>3
        <5> QED BY <1>0, <5>1, <5>4, <5>5, <5>6
      <4>3. CASE UNCHANGED rows
        BY <1>0, <4>3 DEF rows
      <4>4. StopClose(t) \/ Unanswered(t) \/ Send(t) \/ UNCHANGED rows
        BY <1>1, <2>2 DEF Own, TaskStep, Call, Ask, AskTerminate, AskStop, Drop, Lock, Look,
             DialConnects, DialOutdated, DialFails, RememberOutdated, Register, Failed, CleanList,
             CleanDeregister, TermDeregister, TermFailed, TermDelete, TermRow, StopTerms, Answered
      <4> QED BY <4>1, <4>2, <4>3, <4>4
    <3>2. made' \in Nat
      BY RestStep DEF RestOK
    <3>3. Told'
      BY <1>0, <3>1, <3>2 DEF Told
    <3>4. caller'[t].pc = "close" => caller[t].pc = "list" /\ caller'[t].seen = terms
      BY <1>1, CloseComes
    <3>5. Untold'
      <4> SUFFICES ASSUME NEW u \in ConnTasks, caller'[u].pc = "close",
                          NEW x \in caller'[u].seen \cap (1..MaxTerms)
                   PROVE  crashTold'[x] = 0 /\ x <= made'
        BY DEF Untold
      <4>1. CASE u # t
        BY <1>0, <2>0, <3>1, <3>2, <4>1 DEF Untold
      <4>2. CASE u = t
        <5>1. x \in terms /\ x <= made
          BY <1>0, <3>4, <4>2
        <5> QED BY <1>0, <3>1, <3>2, <5>1 DEF Told
      <4> QED BY <4>1, <4>2
    <3> QED BY <3>3, <3>5
  <2> QED BY <2>1, <2>2
<1>2. ASSUME NEW k \in ConnIds, ReaderLooks(k)
      PROVE  Told' /\ Untold'
  <2>1. \A u \in ConnTasks : caller'[u] = caller[u] \/ caller'[u].pc \in {"idle", "wait"}
    BY <1>2 DEF ReaderLooks, TasksOK, NoCall
  <2>2. UNCHANGED rows
    BY <1>2 DEF ReaderLooks
  <2> QED BY <2>1, <2>2 DEF Told, Untold, rows
<1>3. CASE Still
  BY <1>3 DEF Still, Told, Untold
<1> QED BY <1>1, <1>2, <1>3, WhoSteps

\* handle_crash_cleanup: one crash is told once, however many tasks find the
\* pod dead: each of its terminals is covered by at most one crash notice.
THEOREM PodConnCrashTold == ConnSpec => []CrashToldOnce
<1>1. ConnInit => CrashInv
  <2> SUFFICES ASSUME ConnInit PROVE CrashInv
    OBVIOUS
  <2>1. \A t \in ConnTasks : caller[t].pc = "idle"
    BY DEF ConnInit, NoCall
  <2> QED BY <2>1, RegInit DEF ConnInit, CrashInv, Told, Untold
<1>2. CrashInv /\ [ConnNext]_cvars => CrashInv'
  BY RegInvStep, CrashStep DEF CrashInv
<1>3. CrashInv => CrashToldOnce
  <2> SUFFICES ASSUME CrashInv, NEW x \in 1..MaxTerms PROVE crashTold[x] <= 1
    BY DEF CrashToldOnce
  <2>1. crashTold[x] \in Nat
    BY DEF CrashInv, RegInv, Typed, RestOK
  <2> QED BY <2>1 DEF CrashInv, Told
<1> QED BY <1>1, <1>2, <1>3, PTL DEF ConnSpec

-----------------------------------------------------------------------------
(* A request and its reply.                                                *)

\* A task's result is none or its own, and every reply is to an id already
\* given out.
GotOwn == \A t \in ConnTasks : caller[t].got \in {NoTask, t}
IdsPast == \A k \in ConnIds : \A r \in conns[k].replies : r[1] < conns[k].next
\* A request under way has an id given out, its reply is for its caller, and
\* until it is answered or the connection has ended it is in the table.
Waiting == \A t \in ConnTasks : caller[t].pc = "reply" =>
             LET c == conns[caller[t].conn]
             IN  /\ caller[t].req < c.next
                 /\ \A r \in c.replies : r[1] = caller[t].req => r[2] = t
                 /\ caller[t].got = NoTask => c.ended \/ caller[t].req \in c.pend
\* Two requests of one connection have two ids.
Apart == \A t, u \in ConnTasks :
            (/\ t # u /\ caller[t].pc = "reply" /\ caller[u].pc = "reply"
             /\ caller[t].conn = caller[u].conn) => caller[t].req # caller[u].req
HeardInv == RegInv /\ GotOwn /\ IdsPast /\ Waiting /\ Apart

\* A task comes to its wait by Send alone, and its own steps give it no result.
LEMMA GotPath ==
    ASSUME TasksOK, NEW t \in ConnTasks, Own(t)
    PROVE  /\ caller'[t].got \in {caller[t].got, NoTask}
           /\ caller'[t].pc = "reply" => Send(t)
<1> USE DEF TasksOK, TaskRec, PCs, Step, Leave, NoCall
<1>1. ASSUME NEW mode \in Modes, Ask(t, mode)
      PROVE  caller'[t].got = NoTask /\ caller'[t].pc # "reply"
  BY <1>1 DEF Ask, Enter
<1>2. CASE AskTerminate(t)
  BY <1>2 DEF AskTerminate
<1>3. CASE AskStop(t)
  BY <1>3 DEF AskStop
<1>4. CASE Drop(t)
  BY <1>4 DEF Drop
<1>5. CASE Lock(t)
  <2> DEFINE r == [caller[t] EXCEPT !.pc = "send", !.conn = reg]
  <2>1. r.pc = "send" /\ r.got = caller[t].got
    OBVIOUS
  <2>2. \/ caller' = [caller EXCEPT ![t] =
                         IF t \in Callers /\ caller[t].mode # "Startup" THEN r ELSE NoCall]
        \/ Leave(t) \/ Step(t, "look")
    BY <1>5 DEF Lock
  <2> HIDE DEF r
  <2> QED BY <2>1, <2>2
<1>6. CASE Look(t) \/ DialConnects(t)
  BY <1>6 DEF Look, DialConnects
<1>7. CASE DialOutdated(t) \/ RememberOutdated(t) \/ DialFails(t) \/ Failed(t)
  BY <1>7 DEF DialOutdated, RememberOutdated, DialFails, Failed
<1>8. CASE Register(t)
  BY <1>8 DEF Register, Refuse, TryAgain, Accept
<1>9. CASE CleanList(t) \/ CleanClose(t) \/ CleanDeregister(t) \/ TermDeregister(t)
  BY <1>9 DEF CleanList, CleanClose, CleanDeregister, TermDeregister
<1>10. CASE TermFailed(t) \/ TermDelete(t) \/ TermRow(t) \/ StopTerms(t) \/ StopClose(t)
  BY <1>10 DEF TermFailed, TermDelete, TermRow, StopTerms, StopClose
<1>11. CASE Send(t)
  BY <1>11 DEF Send
<1>12. CASE Answered(t) \/ Unanswered(t)
  BY <1>12 DEF Answered, Unanswered
<1> QED BY <1>1, <1>2, <1>3, <1>4, <1>5, <1>6, <1>7, <1>8, <1>9, <1>10, <1>11, <1>12
        DEF Own, TaskStep, Call

\* A connection that nobody asks or forgets: its ids and replies stay, and its
\* table with them unless it has ended.
Same(k) == /\ conns'[k].next = conns[k].next /\ conns'[k].replies = conns[k].replies
           /\ conns'[k].ended \/ (~conns[k].ended /\ conns'[k].pend = conns[k].pend)

\* What is left of a task's step: all but a request, and one given up.
LEMMA OwnKeeps ==
    ASSUME RegInv, NEW t \in ConnTasks, Own(t), ~Send(t), ~Unanswered(t),
           NEW k \in ConnIds
    PROVE  Same(k)
<1> USE DEF RegInv, Typed
<1>0. conns[k] \in ConnRec /\ (conns' = conns => Same(k))
  BY DEF ConnsOK, Same, ConnRec
<1>1. CASE Call(t) \/ Drop(t)
  BY <1>0, <1>1 DEF Call, Ask, AskTerminate, AskStop, Drop
<1>2. CASE Lock(t) \/ Look(t) \/ DialOutdated(t) \/ RememberOutdated(t) \/ DialFails(t) \/ Failed(t)
  BY <1>0, <1>2 DEF Lock, Look, DialOutdated, RememberOutdated, DialFails, Failed
<1>3. CASE CleanList(t) \/ CleanClose(t) \/ TermFailed(t) \/ TermDelete(t) \/ TermRow(t)
  BY <1>0, <1>3 DEF CleanList, CleanClose, TermFailed, TermDelete, TermRow
<1>4. CASE StopTerms(t) \/ StopClose(t) \/ Answered(t)
  BY <1>0, <1>4 DEF StopTerms, StopClose, Answered
<1>5. ASSUME NEW j \in ConnIds, Becomes(j, CloseConn(conns[j]))
      PROVE  Same(k)
  <2>1. /\ CloseConn(conns[k]).next = conns[k].next /\ CloseConn(conns[k]).ended
        /\ CloseConn(conns[k]).replies = conns[k].replies
    BY <1>0 DEF CloseConn, FailPending, ConnRec
  <2>2. conns'[k] = CloseConn(conns[k]) \/ conns'[k] = conns[k]
    BY <1>5 DEF Becomes, ConnsOK
  <2> QED BY <1>0, <2>1, <2>2 DEF Same, ConnRec
<1>6. CASE CleanDeregister(t) \/ TermDeregister(t)
  BY <1>0, <1>5, <1>6 DEF CleanDeregister, TermDeregister, Deregister, Becomes, RestOK
<1>7. CASE Register(t)
  BY <1>0, <1>5, <1>7, Registered
<1>8. ASSUME NEW j \in ConnIds, Dials(t, j)
      PROVE  Same(k)
  <2>1. CASE k = j
    <3>1. conns'[k] = [conns[k] EXCEPT !.sock = "open", !.reader = "reading"]
      BY <1>8, <2>1 DEF Dials, Becomes, ConnsOK
    <3> QED BY <1>0, <3>1 DEF Same, ConnRec
  <2>2. CASE k # j
    BY <1>0, <1>8, <2>2 DEF Dials, Becomes, ConnsOK, Same, ConnRec
  <2> QED BY <2>1, <2>2
<1>9. CASE DialConnects(t)
  BY <1>8, <1>9, DialMakes
<1> QED BY <1>1, <1>2, <1>3, <1>4, <1>6, <1>7, <1>9 DEF Own, TaskStep

\* A task's step that asks or forgets nothing, and the ends of sockets and
\* readers: requests wait on as they did.
LEMMA StillWaiting ==
    ASSUME HeardInv, \A k \in ConnIds : Same(k),
           \A t \in ConnTasks : caller'[t].pc = "reply" =>
              /\ caller[t].pc = "reply" /\ caller'[t].conn = caller[t].conn
              /\ caller'[t].req = caller[t].req /\ caller'[t].got = caller[t].got
    PROVE  IdsPast' /\ Waiting' /\ Apart'
<1>1. IdsPast'
  BY DEF HeardInv, IdsPast, Same
<1>2. Apart'
  BY DEF HeardInv, Apart
<1>3. ASSUME NEW t \in ConnTasks, caller'[t].pc = "reply"
      PROVE  LET c == conns'[caller'[t].conn]
             IN  /\ caller'[t].req < c.next
                 /\ \A r \in c.replies : r[1] = caller'[t].req => r[2] = t
                 /\ caller'[t].got = NoTask => c.ended \/ caller'[t].req \in c.pend
  <2>1. caller[t].conn \in ConnIds /\ Same(caller[t].conn)
    BY <1>3 DEF HeardInv, RegInv, Typed, OnConn
  <2> QED BY <1>3, <2>1 DEF HeardInv, Waiting, Same
<1> QED BY <1>1, <1>2, <1>3 DEF Waiting

\* A request: its id is new.
LEMMA SendWaits ==
    ASSUME HeardInv, NEW t \in ConnTasks, Send(t)
    PROVE  IdsPast' /\ Waiting' /\ Apart'
<1> USE DEF HeardInv, RegInv, Typed
<1> DEFINE k == caller[t].conn
           id == conns[k].next
           sent == IF conns[k].sock = "open" THEN {<<id, t>>} ELSE {}
<1>0. k \in ConnIds /\ t \in Callers /\ conns[k] \in ConnRec /\ id \in Nat
  BY DEF Send, OnConn, ConnsOK, ConnRec
<1>1. \A u \in ConnTasks : u # t => caller'[u] = caller[u]
  BY OwnMoves DEF Own, TaskStep
<1>2. CASE conns' = conns /\ caller'[t].pc # "reply"
  BY <1>1, <1>2 DEF IdsPast, Waiting, Apart
<1>3. CASE /\ conns' = [conns EXCEPT ![k].pend = @ \cup {id}, ![k].next = @ + 1,
                                     ![k].replies = @ \cup sent]
           /\ caller'[t].pc = "reply" /\ caller'[t].conn = k /\ caller'[t].req = id
  <2>1. /\ conns'[k].pend = conns[k].pend \cup {id} /\ conns'[k].next = id + 1
        /\ conns'[k].replies = conns[k].replies \cup sent /\ conns'[k].ended = conns[k].ended
    BY <1>0, <1>3 DEF ConnsOK, ConnRec
  <2>2. \A j \in ConnIds : j # k => conns'[j] = conns[j]
    BY <1>3 DEF ConnsOK
  <2>3. \A r \in sent : r[1] = id /\ r[2] = t
    OBVIOUS
  <2>4. \A r \in conns[k].replies : r[1] \in Nat /\ r[1] < id
    BY <1>0 DEF ConnRec, IdsPast
  <2> HIDE DEF sent
  <2>5. ASSUME NEW j \in ConnIds, NEW r \in conns'[j].replies
        PROVE  r[1] < conns'[j].next
    <3>1. CASE j # k
      BY <2>2, <2>5, <3>1 DEF IdsPast
    <3>2. CASE j = k
      BY <1>0, <2>1, <2>3, <2>4, <2>5, <3>2
    <3> QED BY <3>1, <3>2
  <2>6. ASSUME NEW u \in ConnTasks, u # t, caller[u].pc = "reply"
        PROVE  caller[u].conn \in ConnIds /\ caller[u].req \in Nat
               /\ (caller[u].conn = k => caller[u].req < id)
    BY <2>6 DEF OnConn, Waiting, TasksOK, TaskRec
  <2>7. ASSUME NEW u \in ConnTasks, caller'[u].pc = "reply"
        PROVE  LET c == conns'[caller'[u].conn]
               IN  /\ caller'[u].req < c.next
                   /\ \A r \in c.replies : r[1] = caller'[u].req => r[2] = u
                   /\ caller'[u].got = NoTask => c.ended \/ caller'[u].req \in c.pend
    <3>1. CASE u = t
      <4>1. /\ id < conns'[k].next /\ id \in conns'[k].pend
            /\ \A r \in conns[k].replies : r[1] # id
        BY <1>0, <2>1, <2>4
      <4>2. \A r \in conns'[k].replies : r[1] = id => r[2] = t
        BY <2>1, <2>3, <4>1
      <4> QED BY <1>3, <3>1, <4>1, <4>2
    <3>2. CASE u # t /\ caller[u].conn # k
      BY <1>1, <2>2, <2>6, <2>7, <3>2 DEF Waiting
    <3>3. CASE u # t /\ caller[u].conn = k
      <4>1. caller[u].req \in Nat /\ caller[u].req < id /\ caller'[u] = caller[u]
        BY <1>1, <2>6, <2>7, <3>3
      <4>2. /\ \A r \in conns[k].replies : r[1] = caller[u].req => r[2] = u
            /\ caller[u].got = NoTask => conns[k].ended \/ caller[u].req \in conns[k].pend
        BY <2>7, <3>3, <4>1 DEF Waiting
      <4>3. \A r \in conns'[k].replies : r[1] = caller[u].req => r[2] = u
        BY <1>0, <2>1, <2>3, <4>1, <4>2
      <4> QED BY <1>0, <2>1, <3>3, <4>1, <4>2, <4>3
    <3> QED BY <3>1, <3>2, <3>3
  <2>8. Apart'
    <3> SUFFICES ASSUME NEW u \in ConnTasks, NEW v \in ConnTasks, u # v, caller'[u].pc = "reply",
                        caller'[v].pc = "reply", caller'[u].conn = caller'[v].conn,
                        caller'[u].req = caller'[v].req
                 PROVE  FALSE
      BY DEF Apart
    <3>1. CASE u = t
      BY <1>0, <1>1, <1>3, <2>6, <3>1
    <3>2. CASE v = t
      BY <1>0, <1>1, <1>3, <2>6, <3>2
    <3>3. CASE u # t /\ v # t
      BY <1>1, <3>3 DEF Apart
    <3> QED BY <3>1, <3>2, <3>3
  <2> QED BY <2>5, <2>7, <2>8 DEF IdsPast, Waiting
<1>4. \/ conns' = conns /\ caller' = [caller EXCEPT ![t] = NoCall]
      \/ \E s : /\ conns' = [conns EXCEPT ![k].pend = @ \cup {id}, ![k].next = @ + 1,
                                          ![k].replies = @ \cup sent]
                /\ caller' = [caller EXCEPT ![t].pc = "reply", ![t].req = id, ![t].seen = s]
  BY DEF Send, NextId, Leave
<1>5. /\ caller' = [caller EXCEPT ![t] = NoCall] => caller'[t].pc # "reply"
      /\ \A s : caller' = [caller EXCEPT ![t].pc = "reply", ![t].req = id, ![t].seen = s] =>
           caller'[t].pc = "reply" /\ caller'[t].conn = k /\ caller'[t].req = id
  BY DEF TasksOK, TaskRec, NoCall
<1> QED BY <1>2, <1>3, <1>4, <1>5

\* A request given up takes nobody else's id from the table.
LEMMA ForgetWaits ==
    ASSUME HeardInv, NEW t \in ConnTasks, Unanswered(t)
    PROVE  IdsPast' /\ Waiting' /\ Apart'
<1> USE DEF HeardInv, RegInv, Typed
<1> DEFINE k == caller[t].conn
<1>0. k \in ConnIds /\ conns[k] \in ConnRec /\ caller[t].pc = "reply"
  BY DEF Unanswered, OnConn, ConnsOK
<1>1. (\A u \in ConnTasks : u # t => caller'[u] = caller[u]) /\ caller'[t].pc = "idle"
  BY DEF Unanswered, Leave, NoCall, TasksOK
<1>2. conns' = [conns EXCEPT ![k].pend = @ \ {caller[t].req}]
  BY DEF Unanswered
<1>3. /\ conns'[k].pend = conns[k].pend \ {caller[t].req} /\ conns'[k].next = conns[k].next
      /\ conns'[k].replies = conns[k].replies /\ conns'[k].ended = conns[k].ended
      /\ \A j \in ConnIds : j # k => conns'[j] = conns[j]
  BY <1>0, <1>2 DEF ConnsOK, ConnRec
<1>4. IdsPast'
  BY <1>3 DEF IdsPast
<1>5. Apart'
  BY <1>1 DEF Apart
<1>6. ASSUME NEW u \in ConnTasks, caller'[u].pc = "reply"
      PROVE  LET c == conns'[caller'[u].conn]
             IN  /\ caller'[u].req < c.next
                 /\ \A r \in c.replies : r[1] = caller'[u].req => r[2] = u
                 /\ caller'[u].got = NoTask => c.ended \/ caller'[u].req \in c.pend
  <2>1. u # t /\ caller'[u] = caller[u] /\ caller[u].conn \in ConnIds
    BY <1>1, <1>6 DEF OnConn
  <2>2. CASE caller[u].conn # k
    BY <1>3, <1>6, <2>1, <2>2 DEF Waiting
  <2>3. CASE caller[u].conn = k
    <3>1. caller[u].req # caller[t].req
      BY <1>0, <1>6, <2>1, <2>3 DEF Apart
    <3> QED BY <1>3, <1>6, <2>1, <2>3, <3>1 DEF Waiting
  <2> QED BY <2>2, <2>3
<1> QED BY <1>4, <1>5, <1>6 DEF Waiting

\* A reply goes to the request that waits for it, which is its caller's.
LEMMA ResolveWaits ==
    ASSUME HeardInv, NEW k \in ConnIds, NEW r \in conns[k].replies, Resolve(k, r)
    PROVE  GotOwn' /\ IdsPast' /\ Waiting' /\ Apart'
<1> USE DEF HeardInv, RegInv, Typed
<1> DEFINE For(u) == caller[u].pc = "reply" /\ caller[u].conn = k /\ caller[u].req = r[1]
<1>0. conns[k] \in ConnRec
  BY DEF ConnsOK
<1>1. \A u \in ConnTasks :
        caller'[u] = IF For(u) THEN [caller[u] EXCEPT !.got = r[2]] ELSE caller[u]
  BY DEF Resolve
<1>2. \A u \in ConnTasks : /\ caller'[u].pc = caller[u].pc /\ caller'[u].conn = caller[u].conn
                       /\ caller'[u].req = caller[u].req
                       /\ caller'[u].got = IF For(u) THEN r[2] ELSE caller[u].got
  BY <1>1 DEF TasksOK, TaskRec
<1>3. \A u \in ConnTasks : For(u) => r[2] = u
  BY DEF Waiting
<1>4. r[2] # NoTask
  BY <1>0, ConnAssumption DEF ConnRec
<1>5. conns' = [conns EXCEPT ![k].replies = @ \ {r}, ![k].pend = @ \ {r[1]}]
  BY DEF Resolve
<1>6. /\ conns'[k].pend = conns[k].pend \ {r[1]} /\ conns'[k].next = conns[k].next
      /\ conns'[k].replies = conns[k].replies \ {r} /\ conns'[k].ended = conns[k].ended
      /\ \A j \in ConnIds : j # k => conns'[j] = conns[j]
  BY <1>0, <1>5 DEF ConnsOK, ConnRec
<1>7. GotOwn'
  BY <1>2, <1>3 DEF GotOwn
<1>8. IdsPast'
  BY <1>6 DEF IdsPast
<1>9. Apart'
  BY <1>2 DEF Apart
<1>10. ASSUME NEW u \in ConnTasks, caller'[u].pc = "reply"
       PROVE  LET c == conns'[caller'[u].conn]
              IN  /\ caller'[u].req < c.next
                  /\ \A s \in c.replies : s[1] = caller'[u].req => s[2] = u
                  /\ caller'[u].got = NoTask => c.ended \/ caller'[u].req \in c.pend
  <2>1. caller[u].pc = "reply" /\ caller[u].conn \in ConnIds
    BY <1>2, <1>10 DEF OnConn
  <2>2. CASE caller[u].conn # k
    BY <1>2, <1>6, <2>1, <2>2 DEF Waiting
  <2>3. CASE caller[u].conn = k
    <3>1. caller'[u].got = NoTask => caller[u].got = NoTask /\ caller[u].req # r[1]
      BY <1>2, <1>4, <2>1, <2>3
    <3>2. /\ caller[u].req < conns[k].next
          /\ \A s \in conns[k].replies : s[1] = caller[u].req => s[2] = u
          /\ caller[u].got = NoTask => conns[k].ended \/ caller[u].req \in conns[k].pend
      BY <2>1, <2>3 DEF Waiting
    <3> QED BY <1>2, <1>6, <2>3, <3>1, <3>2
  <2> QED BY <2>2, <2>3
<1> QED BY <1>7, <1>8, <1>9, <1>10 DEF Waiting

\* The ends of a socket and of a reader, and its look at the registry.
LEMMA EndsKeep ==
    ASSUME ConnsOK, NEW j \in ConnIds, ReaderEnds(j) \/ ReaderLooks(j) \/ SocketEnds(j),
           NEW k \in ConnIds
    PROVE  Same(k)
<1>0. conns[k] \in ConnRec /\ (conns'[k] = conns[k] => Same(k))
  BY DEF ConnsOK, ConnRec, Same
<1>1. CASE k # j
  BY <1>0, <1>1 DEF ReaderEnds, ReaderLooks, SocketEnds, ConnsOK
<1>2. CASE k = j /\ ReaderEnds(j)
  BY <1>0, <1>2 DEF ReaderEnds, FailPending, ConnsOK, ConnRec, Same
<1>3. CASE k = j /\ ReaderLooks(j)
  BY <1>0, <1>3 DEF ReaderLooks, ConnsOK, ConnRec, Same
<1>4. CASE k = j /\ SocketEnds(j)
  BY <1>0, <1>4 DEF SocketEnds, ConnsOK, ConnRec, Same
<1> QED BY <1>1, <1>2, <1>3, <1>4

\* Every step keeps the requests waiting as they should.
LEMMA HeardStep ==
    ASSUME HeardInv, [ConnNext]_cvars
    PROVE  GotOwn' /\ IdsPast' /\ Waiting' /\ Apart'
<1> USE DEF HeardInv, RegInv, Typed
<1>1. ASSUME NEW t \in ConnTasks, Own(t)
      PROVE  GotOwn' /\ IdsPast' /\ Waiting' /\ Apart'
  <2>0. \A u \in ConnTasks : u # t => caller'[u] = caller[u]
    BY <1>1, OwnMoves
  <2>1. caller'[t].got \in {caller[t].got, NoTask} /\ (caller'[t].pc = "reply" => Send(t))
    BY <1>1, GotPath
  <2>2. GotOwn'
    BY <2>0, <2>1 DEF GotOwn
  <2>3. CASE Send(t)
    BY <2>2, <2>3, SendWaits
  <2>4. CASE Unanswered(t)
    BY <2>2, <2>4, ForgetWaits
  <2>5. CASE ~Send(t) /\ ~Unanswered(t)
    <3>1. \A k \in ConnIds : Same(k)
      BY <1>1, <2>5, OwnKeeps
    <3>2. \A u \in ConnTasks : caller'[u].pc = "reply" => caller'[u] = caller[u]
      BY <2>0, <2>1, <2>5
    <3> QED BY <2>2, <3>1, <3>2, StillWaiting
  <2> QED BY <2>3, <2>4, <2>5
<1>2. ASSUME NEW k \in ConnIds, ReaderEnds(k) \/ ReaderLooks(k) \/ SocketEnds(k)
      PROVE  GotOwn' /\ IdsPast' /\ Waiting' /\ Apart'
  <2>1. \A j \in ConnIds : Same(j)
    BY <1>2, EndsKeep
  <2>2. \A u \in ConnTasks : \/ caller'[u] = caller[u]
                         \/ (caller'[u].pc \in {"idle", "wait"} /\ caller'[u].got = NoTask)
    <3>1. ReaderEnds(k) \/ SocketEnds(k) => caller' = caller
      BY DEF ReaderEnds, SocketEnds
    <3>2. CASE ReaderLooks(k)
      <4> DEFINE r(pc) == [NoCall EXCEPT !.mode = "Reconnect", !.pc = pc]
      <4>1. \A pc : r(pc).pc = pc /\ r(pc).got = NoTask
        BY DEF NoCall
      <4>2. caller' = caller \/ \E pc \in {"idle", "wait"} : caller' = [caller EXCEPT ![k] = r(pc)]
        BY <3>2 DEF ReaderLooks
      <4> HIDE DEF r
      <4> QED BY <4>1, <4>2 DEF TasksOK
    <3> QED BY <1>2, <3>1, <3>2
  <2>3. GotOwn'
    BY <2>2 DEF GotOwn
  <2>4. \A u \in ConnTasks : caller'[u].pc = "reply" => caller'[u] = caller[u]
    BY <2>2
  <2> QED BY <2>1, <2>3, <2>4, StillWaiting
<1>3. ASSUME NEW k \in ConnIds, NEW r \in conns[k].replies, Resolve(k, r)
      PROVE  GotOwn' /\ IdsPast' /\ Waiting' /\ Apart'
  BY <1>3, ResolveWaits
<1>4. CASE PodStarts \/ PodLost \/ UNCHANGED cvars
  <2>1. caller' = caller /\ conns' = conns
    BY <1>4 DEF PodStarts, PodLost, cvars
  <2> QED BY <2>1 DEF GotOwn, IdsPast, Waiting, Apart
<1> QED BY <1>1, <1>2, <1>3, <1>4 DEF ConnNext, Own, Reading, ConnTasks

\* request and resolve: a request that waits is in its connection's table,
\* where a reply or the connection's end reaches it, or has been told already;
\* and what it gets is its own reply, never the late one of another request.
THEOREM PodConnWaiter == ConnSpec => []WaiterIsHeard
<1>1. ConnInit => HeardInv
  <2> SUFFICES ASSUME ConnInit PROVE HeardInv
    OBVIOUS
  <2>1. \A t \in ConnTasks : caller[t].pc = "idle" /\ caller[t].got = NoTask
    BY DEF ConnInit, NoCall
  <2>2. \A k \in ConnIds : conns[k].replies = {}
    BY DEF ConnInit, NoConn
  <2>3. RegInv
    BY RegInit
  <2> QED BY <2>1, <2>2, <2>3 DEF HeardInv, GotOwn, IdsPast, Waiting, Apart
<1>2. HeardInv /\ [ConnNext]_cvars => HeardInv'
  <2> SUFFICES ASSUME HeardInv, [ConnNext]_cvars PROVE HeardInv'
    OBVIOUS
  <2>1. RegInv'
    BY RegInvStep DEF HeardInv
  <2>2. GotOwn' /\ IdsPast' /\ Waiting' /\ Apart'
    BY HeardStep
  <2> QED BY <2>1, <2>2 DEF HeardInv
<1>3. HeardInv => WaiterIsHeard
  <2> SUFFICES ASSUME HeardInv, NEW t \in Callers
               PROVE  /\ caller[t].got \in {NoTask, t}
                      /\ (caller[t].pc = "reply" /\ caller[t].got = NoTask) =>
                           LET c == conns[caller[t].conn]
                           IN c.ended \/ (caller[t].req \in c.pend /\ c.reader = "reading")
    BY DEF WaiterIsHeard
  <2>1. t \in ConnTasks
    BY DEF ConnTasks
  <2>2. caller[t].got \in {NoTask, t}
    BY <2>1 DEF HeardInv, GotOwn
  <2>3. ASSUME caller[t].pc = "reply", caller[t].got = NoTask
        PROVE  LET c == conns[caller[t].conn]
               IN c.ended \/ (caller[t].req \in c.pend /\ c.reader = "reading")
    <3>1. caller[t].conn \in ConnIds /\ conns[caller[t].conn].sock # "none"
      BY <2>1, <2>3 DEF HeardInv, RegInv, Typed, OnConn
    <3>2. Shape(conns[caller[t].conn])
      BY <3>1 DEF HeardInv, RegInv, Typed, Shaped
    <3> QED BY <2>1, <2>3, <3>1, <3>2 DEF HeardInv, Waiting, Shape
  <2> QED BY <2>2, <2>3
<1> QED BY <1>1, <1>2, <1>3, PTL DEF ConnSpec

-----------------------------------------------------------------------------
(* ClaudeRun.  What CliInv says of a process or of the turn.                *)

\* The fields CliInv is about are there, in a process and in the turn.
LEMMA Fields ==
    /\ {"sess", "alive", "took", "pc"} \subseteq DOMAIN NoProc
    /\ {"pc", "run", "rec", "wait", "resumed", "replaced"} \subseteq DOMAIN NoTurn
    /\ NoProc.sess = 0 /\ NoProc.alive = FALSE /\ NoProc.took = FALSE /\ NoProc.pc = "run"
    /\ NoTurn.pc = "none" /\ NoTurn.run = 0 /\ NoTurn.rec = NoRow /\ NoTurn.wait = {}
    /\ NoTurn.resumed = FALSE /\ NoTurn.replaced = {}
BY DEF NoProc, NoTurn

LEMMA NoRowIs == NoRow.sess = 0
BY DEF NoRow

\* What CliInv says of a process, of q as of p.
Like(q, p) ==
    /\ DOMAIN q = DOMAIN NoProc
    /\ q.sess = p.sess /\ q.alive = p.alive /\ q.took = p.took /\ q.pc = p.pc

-----------------------------------------------------------------------------
(* The run's steps on a call change none of it.                              *)

LEMMA AnswerLike ==
    ASSUME NEW p, DOMAIN p = DOMAIN NoProc, NEW c
    PROVE  Like(Answer(p, c), p)
BY Fields DEF Answer, Like

LEMMA RefuseLike ==
    ASSUME NEW p, DOMAIN p = DOMAIN NoProc
    PROVE  Like(RefuseCall(p), p)
BY Fields DEF RefuseCall, Like

LEMMA LikeLike ==
    ASSUME NEW p, NEW q, NEW r, Like(q, p), Like(r, q)
    PROVE  Like(r, p)
BY DEF Like

LEMMA TakeCallLike ==
    ASSUME NEW p, DOMAIN p = DOMAIN NoProc, NEW c
    PROVE  Like(TakeCall(p, c), p)
<1>1. Like([p EXCEPT !.arrived = @ \cup {c}], p)
  BY Fields DEF Like
<1>2. Like([p EXCEPT !.held = @ \cup {c}], p)
  BY Fields DEF Like
<1>3. Like(Answer(p, c), p) /\ Like(RefuseCall(p), p)
  BY AnswerLike, RefuseLike
<1> QED BY <1>1, <1>2, <1>3 DEF TakeCall

LEMMA TakeArrivedLike ==
    ASSUME NEW p, DOMAIN p = DOMAIN NoProc
    PROVE  Like(TakeArrived(p), p)
<1> DEFINE ready == p.arrived \cap DOMAIN p.answers
           q == [p EXCEPT !.arrived = @ \ ready]
<1>1. Like(q, p) /\ Like(p, p)
  BY Fields DEF Like
<1>2. DOMAIN q = DOMAIN NoProc
  BY <1>1 DEF Like
<1>3. Like(Answer(q, CHOOSE c \in ready : TRUE), q)
  BY <1>2, AnswerLike
<1> HIDE DEF q
<1>4. Like(Answer(q, CHOOSE c \in ready : TRUE), p)
  BY <1>1, <1>3, LikeLike
<1> QED BY <1>1, <1>4 DEF TakeArrived, q

LEMMA SettleHeldLike ==
    ASSUME NEW p, DOMAIN p = DOMAIN NoProc
    PROVE  Like(SettleHeld(p), p)
<1> DEFINE ours == p.held \cap p.expected
           rest == [p EXCEPT !.held = {}, !.arrived = @ \cup ours]
<1>1. Like(rest, p)
  BY Fields DEF Like
<1>2. DOMAIN rest = DOMAIN NoProc
  BY <1>1 DEF Like
<1> HIDE DEF rest
<1>3. Like(RefuseCall(rest), p)
  BY <1>1, <1>2, RefuseLike, LikeLike
<1> QED BY <1>1, <1>3 DEF SettleHeld, rest

LEMMA SendTailLike ==
    ASSUME NEW p, DOMAIN p = DOMAIN NoProc
    PROVE  Like(Awaiting(SendTail(p)), p)
<1>1. Like(SendTail(p), p)
  <2>1. ASSUME NEW a
        PROVE  Like(TakeArrived([p EXCEPT !.answers = a, !.state = "Streaming"]), p)
    <3> DEFINE q == [p EXCEPT !.answers = a, !.state = "Streaming"]
    <3>1. Like(q, p) /\ DOMAIN q = DOMAIN NoProc
      BY Fields DEF Like
    <3> HIDE DEF q
    <3>2. Like(TakeArrived(q), p)
      BY <3>1, TakeArrivedLike, LikeLike
    <3> QED BY <3>2 DEF q
  <2>2. ASSUME NEW m
        PROVE  Like([p EXCEPT !.sent = TRUE, !.msg = m, !.state = "Streaming"], p)
    BY Fields DEF Like
  <2> QED BY <2>1, <2>2 DEF SendTail
<1>2. ASSUME NEW q, DOMAIN q = DOMAIN NoProc
      PROVE  Like(Awaiting(q), q)
  <2>1. DOMAIN Awaiting(q) = DOMAIN q
    BY DEF Awaiting
  <2>2. Awaiting(q).sess = q.sess /\ Awaiting(q).alive = q.alive
    BY <1>2, Fields DEF Awaiting
  <2>3. Awaiting(q).took = q.took /\ Awaiting(q).pc = q.pc
    BY <1>2, Fields DEF Awaiting
  <2> QED BY <1>2, <2>1, <2>2, <2>3 DEF Like
<1>3. DOMAIN SendTail(p) = DOMAIN NoProc
  BY <1>1 DEF Like
<1> QED BY <1>1, <1>2, <1>3, LikeLike

\* A run that is ended keeps its session.
LEMMA WindDownFits ==
    ASSUME NEW p, NEW i
    PROVE  LET q == WindDown(p, i)
           IN  /\ DOMAIN q = DOMAIN NoProc
               /\ q.sess = p.sess /\ q.alive = p.alive /\ q.took = p.took /\ q.pc = "wind"
<1> DEFINE bare == [NoProc EXCEPT !.pc = "wind", !.sess = p.sess, !.alive = p.alive, !.took = p.took]
           q == WindDown(p, i)
<1>1. /\ DOMAIN bare = DOMAIN NoProc
      /\ bare.sess = p.sess /\ bare.alive = p.alive /\ bare.took = p.took /\ bare.pc = "wind"
  BY Fields
<1>2. q = bare \/
      q = [bare EXCEPT !.intr = i, !.answers = p.answers, !.sent = p.sent, !.msg = p.msg,
                !.at = p.at, !.reply = p.reply, !.next = p.next, !.fly = p.fly, !.ans = p.ans,
                !.chan = p.chan]
  BY DEF WindDown
<1> HIDE DEF bare, q
<1>3. DOMAIN q = DOMAIN bare
  BY <1>2
<1>4. q.sess = bare.sess /\ q.alive = bare.alive /\ q.took = bare.took /\ q.pc = bare.pc
  BY <1>1, <1>2, Fields
<1> QED BY <1>1, <1>3, <1>4 DEF q

-----------------------------------------------------------------------------
(* The steps of a process.                                                   *)

\* The variables CliInv is about but for the processes.
Rest == <<turn, endings, session, procs, forgotten, deleting, dropped>>

LEMMA Numbers ==
    ASSUME CliInv
    PROVE  /\ procs \in Nat /\ procs <= MaxProcs
           /\ turn.run # 0 => turn.run \in Procs /\ turn.run \in 1..procs
           /\ \A p \in Procs : proc[p].alive =>
                 proc[p].pc # "gone" /\ p \in 1..procs /\ proc[p].sess \in 1..procs /\ proc[p].sess # 0
           /\ Claimed \subseteq 0..procs
<1>1. procs \in Nat /\ procs <= MaxProcs /\ MaxProcs \in Nat
  BY CliAssumption DEF CliInv
<1>2. turn.run # 0 => turn.run \in Procs /\ turn.run \in 1..procs
  BY <1>1 DEF CliInv, RunFits, Procs
<1>3. \A p \in Procs : proc[p].alive => proc[p].pc # "gone" /\ p \in 1..procs
  BY <1>1 DEF CliInv, RunFits, Procs
<1>4. \A p \in Procs : p <= procs /\ proc[p].pc # "gone" => proc[p].sess \in 1..procs
  BY DEF CliInv, RunFits
<1>5. turn.run # 0 => proc[turn.run].sess \in 1..procs
  BY <1>1, <1>2, <1>4 DEF CliInv, RunFits
<1>6. Claimed \subseteq 0..procs
  BY <1>1, <1>5 DEF Claimed, CliInv, RecordFits
<1> QED BY <1>1, <1>2, <1>3, <1>4, <1>6

\* A step of one process, or of the task that ends it, keeps CliInv when it
\* keeps the process's session, revives nothing, leaves the turn's run to the
\* turn, and takes a message in no forgotten session.
LEMMA OneProcess ==
    ASSUME CliInv, NEW p \in Procs, NEW q,
           proc' = [proc EXCEPT ![p] = q], DOMAIN q = DOMAIN NoProc,
           q.alive => proc[p].alive,
           q.pc = "gone" => ~q.alive,
           q.pc # "gone" => proc[p].pc # "gone" /\ q.sess = proc[p].sess,
           proc[p].pc = "run" => q.pc = "run",
           q.alive /\ q.took => proc[p].took \/ proc[p].sess \notin forgotten,
           UNCHANGED Rest,
           cliFaults' \in Nat, cliFaults' = 0 => cliFaults = 0
    PROVE  CliInv'
<1> USE DEF Rest
<1>1. /\ proc' = [r \in Procs |-> proc'[r]]
      /\ proc'[p] = q
      /\ \A r \in Procs \ {p} : proc'[r] = proc[r]
  BY DEF CliInv
<1>2. \A r \in Procs : DOMAIN proc'[r] = DOMAIN NoProc
  BY <1>1 DEF CliInv
<1>3. \A r \in Procs : proc'[r].alive => proc[r].alive /\ proc'[r].sess = proc[r].sess
  BY <1>1
<1>4. RunFits'
  BY <1>1, <1>3 DEF CliInv, RunFits, Procs
<1>5. WaitFits'
  BY DEF CliInv, WaitFits
<1>6. turn.run # 0 => proc'[turn.run].sess = proc[turn.run].sess
  BY <1>1 DEF CliInv, RunFits, Procs
<1>7. RecordFits'
  <2>1. Claimed' = Claimed
    BY <1>6 DEF Claimed
  <2>2. \A r \in Procs : Stray(r)' => Stray(r)
    BY <1>3 DEF Stray
  <2>3. \A r \in Procs : Stray(r)' => dropped' /\ (cliFaults' = 0 => proc'[r].sess \notin Claimed')
    BY <1>3, <2>1, <2>2 DEF CliInv, RecordFits, Stray
  <2> QED BY <2>3 DEF CliInv, RecordFits
<1>8. SessionsAlone'
  BY <1>1, <1>3 DEF CliInv, SessionsAlone
<1> QED BY <1>1, <1>2, <1>4, <1>5, <1>7, <1>8 DEF CliInv

\* A step that CliInv does not speak of.
LEMMA Elsewhere ==
    ASSUME CliInv, UNCHANGED <<Rest, proc>>, cliFaults' \in Nat, cliFaults' = 0 => cliFaults = 0
    PROVE  CliInv'
BY DEF Rest, CliInv, RunFits, WaitFits, RecordFits, Stray, Claimed, SessionsAlone

-----------------------------------------------------------------------------
(* The steps of the turn.                                                    *)

\* A step of a turn that waits for nobody and keeps its run.
LEMMA TurnMoves ==
    ASSUME CliInv,
           proc' = [p \in Procs |-> proc'[p]],
           \A p \in Procs : Like(proc'[p], proc[p]),
           UNCHANGED <<endings, procs, forgotten, deleting, dropped>>,
           DOMAIN turn' = DOMAIN NoTurn, turn'.run = turn.run,
           turn'.wait = {}, turn.wait = {}, deleting = "no",
           turn'.rec \in {turn.rec, session, NoRow},
           session' = NoRow \/ (session'.sess \in Claimed /\ session'.sess # 0),
           turn'.pc \notin {"none", "wait"},
           turn'.pc \in {"start", "failed"} => turn.run = 0,
           turn'.pc \in {"read", "result", "keep"} => turn.run # 0,
           cliFaults' \in Nat, cliFaults' = 0 => cliFaults = 0,
           cliFaults' = 0 /\ turn'.pc \in {"call", "start", "read", "result", "keep"} => session' = NoRow
    PROVE  CliInv'
<1>1. \A p \in Procs : /\ proc'[p].sess = proc[p].sess /\ proc'[p].alive = proc[p].alive
                       /\ proc'[p].took = proc[p].took /\ proc'[p].pc = proc[p].pc
                       /\ DOMAIN proc'[p] = DOMAIN NoProc
  BY DEF Like
<1>2. RunFits'
  BY <1>1, Numbers DEF CliInv, RunFits
<1>3. WaitFits'
  BY DEF CliInv, WaitFits
<1>4. Claimed' \subseteq Claimed \cup {0}
  <2>1. turn.run # 0 => proc'[turn.run].sess = proc[turn.run].sess
    BY <1>1, Numbers
  <2>2. session'.sess \in Claimed \cup {0} /\ turn'.rec.sess \in Claimed \cup {0}
    BY NoRowIs DEF Claimed
  <2> QED BY <2>1, <2>2 DEF Claimed
<1>5. \A p \in Procs : Stray(p)' => Stray(p) /\ proc[p].sess # 0
  BY <1>1, Numbers DEF Stray
<1>6. Claimed \subseteq 0..procs
  BY Numbers
<1>7. RecordFits'
  <2>1. \A p \in Procs : Stray(p)' => dropped' /\ (cliFaults' = 0 => proc'[p].sess \notin Claimed')
    BY <1>1, <1>4, <1>5 DEF CliInv, RecordFits
  <2>2. {session'.sess, turn'.rec.sess} \subseteq 0..procs
    BY <1>6, NoRowIs, Numbers DEF CliInv, RecordFits
  <2> QED BY <2>1, <2>2 DEF CliInv, RecordFits
<1>8. SessionsAlone'
  BY <1>1 DEF CliInv, SessionsAlone
<1> QED BY <1>1, <1>2, <1>3, <1>7, <1>8 DEF CliInv

\* A step that ends the turn's run, or a wait of the turn (Stop).
LEMMA RunEnds ==
    ASSUME CliInv,
           proc' = [p \in Procs |-> proc'[p]],
           \A p \in Procs : /\ DOMAIN proc'[p] = DOMAIN NoProc
                            /\ proc'[p].sess = proc[p].sess /\ proc'[p].alive = proc[p].alive
                            /\ proc'[p].took = proc[p].took
                            /\ proc'[p].pc = "gone" <=> proc[p].pc = "gone",
           endings' \subseteq endings \cup ({turn.run} \ {0}),
           \A p \in endings \cup ({turn.run} \ {0}) : proc[p].alive => p \in endings',
           UNCHANGED <<procs, forgotten, deleting>>, deleting = "no",
           DOMAIN turn' = DOMAIN NoTurn, turn'.run = 0, turn'.wait = {},
           turn'.rec \in {turn.rec, NoRow},
           turn'.pc \notin {"wait", "read", "result", "keep"},
           turn.wait = {} \/ (turn.pc = "wait" /\ turn' = NoTurn /\ UNCHANGED session),
           session' = NoRow \/ (session'.sess \in Claimed /\ session'.sess # 0),
           cliFaults' \in Nat, cliFaults' = 0 => cliFaults = 0,
           cliFaults' = 0 /\ turn'.pc \in {"call", "start"} => session' = NoRow,
           dropped' = (dropped \/ ~Gone(turn.wait))
    PROVE  CliInv'
<1>1. RunFits'
  BY DEF CliInv, RunFits, Procs
<1>2. WaitFits'
  BY DEF CliInv, RunFits, WaitFits
<1>3. Claimed' \subseteq Claimed \cup {0} /\ Claimed \subseteq 0..procs
  BY NoRowIs, Numbers DEF Claimed
<1>4. \A p \in Procs : Stray(p)' => Stray(p) \/ (p \in turn.wait /\ proc[p].alive)
  BY DEF Stray
<1>5. \A p \in Procs : proc[p].alive => proc[p].sess # 0 /\ proc[p].pc # "gone"
  BY Numbers
<1>6. ASSUME NEW p \in Procs, Stray(p)'
      PROVE  dropped' /\ (cliFaults' = 0 => proc'[p].sess \notin Claimed')
  <2>1. CASE Stray(p)
    BY <1>3, <1>5, <1>6, <2>1 DEF CliInv, RecordFits, Stray
  <2>2. CASE p \in turn.wait /\ proc[p].alive
    <3>1. dropped'
      BY <1>5, <2>2 DEF Gone
    <3>2. turn' = NoTurn /\ session' = session /\ turn.pc = "wait"
      BY <2>2
    <3>3. cliFaults' = 0 => session' = NoRow
      BY <3>2 DEF CliInv, RecordFits
    <3>4. cliFaults' = 0 => Claimed' = {0}
      BY <3>2, <3>3, Fields, NoRowIs DEF Claimed
    <3> QED BY <1>5, <2>2, <3>1, <3>4
  <2> QED BY <1>4, <1>6, <2>1, <2>2
<1>7. RecordFits'
  BY <1>3, <1>6, NoRowIs DEF CliInv, RecordFits
<1>8. SessionsAlone'
  <2>1. ~dropped' => ~dropped
    OBVIOUS
  <2> QED BY <2>1 DEF CliInv, SessionsAlone
<1> QED BY <1>1, <1>2, <1>7, <1>8 DEF CliInv

-----------------------------------------------------------------------------
(* The actions, those of a process first.                                    *)

\* A step counts the failures in it.
LEMMA Faults ==
    ASSUME CliInv, CliFault \/ UNCHANGED cliFaults
    PROVE  cliFaults' \in Nat /\ (cliFaults' = 0 => cliFaults = 0 /\ UNCHANGED cliFaults)
BY DEF CliInv, CliFault

LEMMA ReceiveKeeps ==
    ASSUME CliInv, NEW p \in Procs, Receive(p)
    PROVE  CliInv'
<1> DEFINE f == [proc[p] EXCEPT !.chan = {}]
<1>1. PICK c : proc' = [proc EXCEPT ![p] = TakeCall(f, c)]
  BY DEF Receive
<1>2. Like(f, proc[p]) /\ DOMAIN f = DOMAIN NoProc
  BY Fields DEF Like, CliInv
<1> HIDE DEF f
<1>3. Like(TakeCall(f, c), proc[p])
  BY <1>2, TakeCallLike, LikeLike
<1>4. proc[p].pc # "gone"
  BY CliAssumption DEF Receive, ReadingRun, CliInv, RunFits, Procs
<1>5. UNCHANGED <<Rest, cliFaults>>
  BY DEF Receive, Rest
<1> DEFINE q == TakeCall(f, c)
<1>6. /\ DOMAIN q = DOMAIN NoProc /\ q.sess = proc[p].sess
      /\ q.alive = proc[p].alive /\ q.took = proc[p].took /\ q.pc = proc[p].pc
  BY <1>3 DEF Like
<1> HIDE DEF q
<1> QED BY <1>1, <1>4, <1>5, <1>6, OneProcess, Faults DEF q

LEMMA SettleKeeps ==
    ASSUME CliInv, NEW p \in Procs, Settle(p)
    PROVE  CliInv'
<1> DEFINE f == [proc[p] EXCEPT !.out = Tail(@)]
           e == Head(proc[p].out)
           fe == [f EXCEPT !.echoed = @ \cup {e.call}]
<1>1. UNCHANGED Rest /\ (CliFault \/ UNCHANGED cliFaults) /\ proc[p].pc = "settle"
  BY DEF Settle, Rest
<1>2. Like(proc[p], proc[p]) /\ Like(f, proc[p]) /\ DOMAIN f = DOMAIN NoProc
  BY Fields DEF Like, CliInv
<1>3. \/ \E i : proc' = [proc EXCEPT ![p] = WindDown(proc[p], i)]
      \/ \E i : proc' = [proc EXCEPT ![p] = WindDown(f, i)]
      \/ proc' = [proc EXCEPT ![p] = f]
      \/ proc' = [proc EXCEPT ![p] = fe]
  BY Zenon DEF Settle, Settled
<1>4. ASSUME NEW q, proc' = [proc EXCEPT ![p] = q], DOMAIN q = DOMAIN NoProc,
             q.sess = proc[p].sess, q.alive = proc[p].alive, q.took = proc[p].took,
             q.pc \in {"settle", "wind"}
      PROVE  CliInv'
  BY <1>1, <1>4, OneProcess, Faults
<1>5. Like(fe, f)
  BY <1>2, Fields DEF Like
<1> HIDE DEF f, fe
<1>6. CASE \E i : proc' = [proc EXCEPT ![p] = WindDown(proc[p], i)]
  <2>1. PICK i : proc' = [proc EXCEPT ![p] = WindDown(proc[p], i)]
    BY <1>6
  <2> DEFINE q == WindDown(proc[p], i)
  <2>2. /\ DOMAIN q = DOMAIN NoProc
        /\ q.sess = proc[p].sess /\ q.alive = proc[p].alive /\ q.took = proc[p].took /\ q.pc = "wind"
    BY WindDownFits
  <2> HIDE DEF q
  <2> QED BY <1>4, <2>1, <2>2 DEF q
<1>7. CASE \E i : proc' = [proc EXCEPT ![p] = WindDown(f, i)]
  <2>1. PICK i : proc' = [proc EXCEPT ![p] = WindDown(f, i)]
    BY <1>7
  <2> DEFINE q == WindDown(f, i)
  <2>2. /\ DOMAIN q = DOMAIN NoProc
        /\ q.sess = f.sess /\ q.alive = f.alive /\ q.took = f.took /\ q.pc = "wind"
    BY WindDownFits
  <2> HIDE DEF q
  <2> QED BY <1>2, <1>4, <2>1, <2>2 DEF q, Like
<1>8. CASE proc' = [proc EXCEPT ![p] = f]
  BY <1>1, <1>2, <1>4, <1>8 DEF Like
<1>9. CASE proc' = [proc EXCEPT ![p] = fe]
  BY <1>1, <1>2, <1>4, <1>5, <1>9 DEF Like
<1> QED BY <1>3, <1>6, <1>7, <1>8, <1>9

LEMMA ExitKeeps ==
    ASSUME CliInv, NEW p \in Procs, Exit(p)
    PROVE  CliInv'
<1> DEFINE q == [NoProc EXCEPT !.pc = "gone"]
<1>1. DOMAIN q = DOMAIN NoProc /\ q.pc = "gone" /\ q.alive = FALSE
  BY Fields
<1>2. proc' = [proc EXCEPT ![p] = q] /\ proc[p].pc = "wind" /\ UNCHANGED <<Rest, cliFaults>>
  BY DEF Exit, Rest
<1> HIDE DEF q
<1> QED BY <1>1, <1>2, OneProcess, Faults

\* A step of a live process.
LEMMA AliveStep ==
    ASSUME CliInv, NEW p \in Procs, NEW q,
           proc[p].alive, proc' = [proc EXCEPT ![p] = q], DOMAIN q = DOMAIN NoProc,
           q.sess = proc[p].sess, q.pc = proc[p].pc,
           q.alive /\ q.took => proc[p].took \/ proc[p].sess \notin forgotten,
           CliOnly, CliFault \/ UNCHANGED cliFaults
    PROVE  CliInv'
<1>1. UNCHANGED Rest
  BY DEF CliOnly, Rest
<1>2. proc[p].pc # "gone"
  BY Numbers
<1> QED BY <1>1, <1>2, OneProcess, Faults

LEMMA LikeStep ==
    ASSUME CliInv, NEW p \in Procs, NEW q,
           proc[p].alive, proc' = [proc EXCEPT ![p] = q], Like(q, proc[p]),
           CliOnly, CliFault \/ UNCHANGED cliFaults
    PROVE  CliInv'
BY AliveStep DEF Like

LEMMA CliTakesKeeps ==
    ASSUME CliInv, NEW p \in Procs, CliTakes(p)
    PROVE  CliInv'
<1> DEFINE a == [proc[p] EXCEPT !.took = TRUE, !.sent = FALSE, !.msg = {}, !.at = "api"]
           b == [proc[p] EXCEPT !.sent = FALSE, !.msg = {},
                                !.out = Said(proc[p], <<Line("missing")>>)]
<1>1. proc[p].alive /\ CliOnly /\ (CliFault \/ UNCHANGED cliFaults)
  BY DEF CliTakes
<1>2. \/ proc[p].sess \notin forgotten /\ proc' = [proc EXCEPT ![p] = a]
      \/ proc' = [proc EXCEPT ![p] = b]
  BY DEF CliTakes
<1>3. DOMAIN proc[p] = DOMAIN NoProc
  BY DEF CliInv
<1>4. DOMAIN a = DOMAIN NoProc
  BY <1>3
<1>5. a.sess = proc[p].sess /\ a.pc = proc[p].pc
  BY <1>3, Fields
<1>6. Like(b, proc[p])
  BY <1>3, Fields DEF Like
<1> HIDE DEF a, b
<1>7. CASE proc[p].sess \notin forgotten /\ proc' = [proc EXCEPT ![p] = a]
  BY <1>1, <1>4, <1>5, <1>7, AliveStep
<1>8. CASE proc' = [proc EXCEPT ![p] = b]
  BY <1>1, <1>6, <1>8, LikeStep
<1> QED BY <1>2, <1>7, <1>8

LEMMA CliRepliesKeeps ==
    ASSUME CliInv, NEW p \in Procs, CliReplies(p)
    PROVE  CliInv'
<1>1. proc[p].alive /\ CliOnly /\ (CliFault \/ UNCHANGED cliFaults)
  BY DEF CliReplies
<1>2. DOMAIN proc[p] = DOMAIN NoProc
  BY DEF CliInv
<1> DEFINE b == [proc[p] EXCEPT !.at = "idle", !.out = Said(proc[p], <<Line("result")>>)]
<1>3. \/ \E s \in Shapes : proc' = [proc EXCEPT ![p] = Replied(proc[p], Len(shape) + 1, s)]
      \/ proc' = [proc EXCEPT ![p] = b]
  BY DEF CliReplies
<1>4. Like(b, proc[p])
  BY <1>2, Fields DEF Like
<1> HIDE DEF b
<1>5. ASSUME NEW s \in Shapes, proc' = [proc EXCEPT ![p] = Replied(proc[p], Len(shape) + 1, s)]
      PROVE  CliInv'
  <2> DEFINE q == Replied(proc[p], Len(shape) + 1, s)
  <2>1. DOMAIN q = DOMAIN proc[p]
    BY DEF Replied
  <2>2. q.sess = proc[p].sess /\ q.alive = proc[p].alive
    BY <1>2, Fields DEF Replied
  <2>3. q.took = proc[p].took /\ q.pc = proc[p].pc
    BY <1>2, Fields DEF Replied
  <2> HIDE DEF q
  <2> QED BY <1>1, <1>2, <1>5, <2>1, <2>2, <2>3, LikeStep DEF Like, q
<1> QED BY <1>1, <1>3, <1>4, <1>5, LikeStep

LEMMA CliCallsKeeps ==
    ASSUME CliInv, NEW p \in Procs, CliCalls(p)
    PROVE  CliInv'
<1> DEFINE q == [proc[p] EXCEPT !.fly = "wait", !.chan = {<<proc[p].reply, proc[p].next>>}]
<1>1. proc[p].alive /\ CliOnly /\ (CliFault \/ UNCHANGED cliFaults) /\ proc' = [proc EXCEPT ![p] = q]
  BY DEF CliCalls
<1>2. DOMAIN proc[p] = DOMAIN NoProc
  BY DEF CliInv
<1>3. Like(q, proc[p])
  BY <1>2, Fields DEF Like
<1> HIDE DEF q
<1> QED BY <1>1, <1>3, LikeStep

LEMMA CliEchoesKeeps ==
    ASSUME CliInv, NEW p \in Procs, CliEchoes(p)
    PROVE  CliInv'
<1>1. proc[p].alive /\ CliOnly /\ (CliFault \/ UNCHANGED cliFaults)
  BY DEF CliEchoes
<1>2. DOMAIN proc[p] = DOMAIN NoProc
  BY DEF CliInv
<1>3. ASSUME NEW next, NEW at, NEW out,
             proc' = [proc EXCEPT ![p] = [proc[p] EXCEPT !.fly = "no", !.ans = {}, !.next = next,
                                                         !.at = at, !.out = out]]
      PROVE  CliInv'
  <2> DEFINE q == [proc[p] EXCEPT !.fly = "no", !.ans = {}, !.next = next, !.at = at, !.out = out]
  <2>1. DOMAIN q = DOMAIN proc[p]
    OBVIOUS
  <2>2. q.sess = proc[p].sess /\ q.alive = proc[p].alive
    BY <1>2, Fields
  <2>3. q.took = proc[p].took /\ q.pc = proc[p].pc
    BY <1>2, Fields
  <2>4. proc' = [proc EXCEPT ![p] = q]
    BY <1>3
  <2> HIDE DEF q
  <2> QED BY <1>1, <1>2, <2>1, <2>2, <2>3, <2>4, LikeStep DEF Like
<1> QED BY <1>3, Zenon DEF CliEchoes

LEMMA CliStopsKeeps ==
    ASSUME CliInv, NEW p \in Procs, CliStops(p)
    PROVE  CliInv'
<1>1. proc[p].alive /\ CliOnly /\ (CliFault \/ UNCHANGED cliFaults)
  BY DEF CliStops
<1>2. DOMAIN proc[p] = DOMAIN NoProc
  BY DEF CliInv
<1>3. ASSUME NEW out,
             proc' = [proc EXCEPT ![p] = [proc[p] EXCEPT !.intr = FALSE, !.at = "idle", !.fly = "no",
                                                         !.ans = {}, !.chan = {}, !.out = out]]
      PROVE  CliInv'
  <2> DEFINE q == [proc[p] EXCEPT !.intr = FALSE, !.at = "idle", !.fly = "no", !.ans = {},
                                  !.chan = {}, !.out = out]
  <2>1. DOMAIN q = DOMAIN proc[p]
    OBVIOUS
  <2>2. q.sess = proc[p].sess /\ q.alive = proc[p].alive
    BY <1>2, Fields
  <2>3. q.took = proc[p].took /\ q.pc = proc[p].pc
    BY <1>2, Fields
  <2>4. proc' = [proc EXCEPT ![p] = q]
    BY <1>3
  <2> HIDE DEF q
  <2> QED BY <1>1, <1>2, <2>1, <2>2, <2>3, <2>4, LikeStep DEF Like
<1> QED BY <1>3, Zenon DEF CliStops

LEMMA CliDiesKeeps ==
    ASSUME CliInv, NEW p \in Procs, CliDies(p)
    PROVE  CliInv'
<1>1. proc[p].alive /\ CliOnly /\ CliFault
  BY DEF CliDies
<1>2. DOMAIN proc[p] = DOMAIN NoProc
  BY DEF CliInv
<1>3. PICK n : proc' = [proc EXCEPT ![p] = [@ EXCEPT !.alive = FALSE, !.out = SubSeq(proc[p].out, 1, n),
             !.sent = FALSE, !.msg = {}, !.intr = FALSE, !.at = "idle", !.reply = 0, !.next = 1,
             !.fly = "no", !.ans = {}, !.chan = {}]]
  BY DEF CliDies
<1> DEFINE a == [proc[p] EXCEPT !.alive = FALSE, !.out = SubSeq(proc[p].out, 1, n)]
           b == [a EXCEPT !.sent = FALSE, !.msg = {}, !.intr = FALSE, !.at = "idle", !.reply = 0]
           q == [b EXCEPT !.next = 1, !.fly = "no", !.ans = {}, !.chan = {}]
<1>4. proc' = [proc EXCEPT ![p] = q]
  BY <1>3
<1>5. DOMAIN a = DOMAIN NoProc /\ a.sess = proc[p].sess /\ a.pc = proc[p].pc /\ a.alive = FALSE
  BY <1>2, Fields
<1> HIDE DEF a
<1>6. DOMAIN b = DOMAIN a
  OBVIOUS
<1>7. b.sess = a.sess /\ b.pc = a.pc /\ b.alive = a.alive
  BY <1>5, Fields
<1> HIDE DEF b
<1>8. DOMAIN q = DOMAIN b
  OBVIOUS
<1>9. q.sess = b.sess /\ q.pc = b.pc /\ q.alive = b.alive
  BY <1>5, <1>6, Fields
<1> HIDE DEF q
<1> QED BY <1>1, <1>4, <1>5, <1>6, <1>7, <1>8, <1>9, AliveStep

-----------------------------------------------------------------------------
(* The actions of the turn.                                                  *)

LEMMA TurnFacts ==
    ASSUME CliInv
    PROVE  /\ turn.pc # "none" => deleting = "no"
           /\ turn.pc \notin {"none", "wait"} => turn.wait = {}
           /\ turn.pc = "none" => turn.run = 0
           /\ turn.pc = "none" /\ deleting = "no" => turn.wait = {}
           /\ session = NoRow \/ (session.sess \in Claimed /\ session.sess # 0)
           /\ turn.rec = NoRow \/ (turn.rec.sess \in Claimed /\ turn.rec.sess # 0)
           /\ proc = [p \in Procs |-> proc[p]] /\ \A p \in Procs : Like(proc[p], proc[p])
           /\ DOMAIN turn = DOMAIN NoTurn
           /\ turn.wait = {} => dropped = (dropped \/ ~Gone(turn.wait))
<1>1. \A p \in Procs : Like(proc[p], proc[p])
  BY DEF CliInv, Like
<1>2. Gone({})
  BY DEF Gone
<1>3. /\ turn.pc # "none" => deleting = "no"
      /\ turn.pc \notin {"none", "wait"} => turn.wait = {}
      /\ turn.pc = "none" /\ deleting = "no" => turn.wait = {}
  BY DEF CliInv, WaitFits
<1>4. turn.pc = "none" => turn.run = 0
  BY DEF CliInv, RunFits
<1>5. session = NoRow \/ (session.sess \in Claimed /\ session.sess # 0)
  BY DEF CliInv, RecordFits, Claimed
<1>6. turn.rec = NoRow \/ (turn.rec.sess \in Claimed /\ turn.rec.sess # 0)
  BY DEF CliInv, RecordFits, Claimed
<1>7. proc = [p \in Procs |-> proc[p]] /\ DOMAIN turn = DOMAIN NoTurn
  BY DEF CliInv
<1>8. turn.wait = {} => dropped = (dropped \/ ~Gone(turn.wait))
  BY <1>2 DEF CliInv
<1> QED BY <1>1, <1>3, <1>4, <1>5, <1>6, <1>7, <1>8

\* TurnMoves of a step that leaves the processes alone.
LEMMA TurnAlone ==
    ASSUME CliInv,
           UNCHANGED <<proc, endings, procs, forgotten, deleting, dropped>>,
           DOMAIN turn' = DOMAIN NoTurn, turn'.run = turn.run,
           turn'.wait = {}, turn.wait = {}, deleting = "no",
           turn'.rec \in {turn.rec, session, NoRow},
           session' \in {session, NoRow},
           turn'.pc \in {"loop", "call", "tools", "ended", "return"},
           CliFault \/ UNCHANGED cliFaults,
           cliFaults' = 0 /\ turn'.pc = "call" => session' = NoRow
    PROVE  CliInv'
<1>1. session' = NoRow \/ (session'.sess \in Claimed /\ session'.sess # 0)
  BY TurnFacts
<1>2. proc' = [p \in Procs |-> proc'[p]] /\ \A p \in Procs : Like(proc'[p], proc[p])
  BY TurnFacts
<1>3. cliFaults' \in Nat /\ (cliFaults' = 0 => cliFaults = 0)
  BY Faults
<1>4. /\ turn'.pc \notin {"none", "wait"}
      /\ turn'.pc \in {"start", "failed"} => turn.run = 0
      /\ turn'.pc \in {"read", "result", "keep"} => turn.run # 0
      /\ cliFaults' = 0 /\ turn'.pc \in {"call", "start", "read", "result", "keep"} => session' = NoRow
  OBVIOUS
<1> QED BY <1>1, <1>2, <1>3, <1>4, TurnMoves

LEMMA BeginKeeps == ASSUME CliInv, Begin PROVE CliInv'
<1>1. /\ DOMAIN turn' = DOMAIN NoTurn /\ turn'.run = 0 /\ turn'.wait = {} /\ turn'.rec = NoRow
      /\ turn'.pc = "loop"
  BY Fields DEF Begin
<1>2. turn.pc = "none" /\ deleting = "no" /\ turn.run = 0 /\ turn.wait = {}
  BY TurnFacts DEF Begin
<1>3. UNCHANGED <<proc, endings, procs, forgotten, deleting, dropped, session, cliFaults>>
  BY DEF Begin
<1> QED BY <1>1, <1>2, <1>3, TurnAlone

LEMMA OtherTurnKeeps == ASSUME CliInv, OtherTurn PROVE CliInv'
BY Elsewhere, Faults DEF OtherTurn, Rest

LEMMA DrainKeeps == ASSUME CliInv, Drain PROVE CliInv'
BY Elsewhere, Faults DEF Drain, Rest

LEMMA CompactKeeps == ASSUME CliInv, Compact PROVE CliInv'
<1>1. turn.pc # "none" /\ turn.pc # "wait"
  BY DEF Compact
<1>2. /\ DOMAIN turn' = DOMAIN NoTurn /\ turn'.run = turn.run /\ turn'.wait = turn.wait
      /\ turn'.rec = turn.rec /\ turn'.pc = "loop"
  BY Fields, TurnFacts DEF Compact
<1>3. UNCHANGED <<proc, endings, procs, forgotten, deleting, dropped>>
      /\ session' \in {session, NoRow} /\ (CliFault \/ UNCHANGED cliFaults)
  BY DEF Compact
<1> QED BY <1>1, <1>2, <1>3, TurnFacts, TurnAlone

LEMMA SetAsideKeeps == ASSUME CliInv, SetAside PROVE CliInv'
<1>1. turn.pc # "none" /\ turn.pc # "wait"
  BY DEF SetAside
<1>2. ASSUME NEW rec, turn' = [turn EXCEPT !.pc = "call", !.rec = rec, !.held = FALSE]
      PROVE  /\ DOMAIN turn' = DOMAIN NoTurn /\ turn'.run = turn.run /\ turn'.wait = turn.wait
             /\ turn'.rec = rec /\ turn'.pc = "call"
  BY <1>2, Fields, TurnFacts
<1>3. \/ turn' = [turn EXCEPT !.pc = "call", !.rec = session, !.held = FALSE]
      \/ turn' = [turn EXCEPT !.pc = "call", !.rec = NoRow, !.held = FALSE]
  BY DEF SetAside
<1>4. /\ DOMAIN turn' = DOMAIN NoTurn /\ turn'.run = turn.run /\ turn'.wait = turn.wait
      /\ turn'.rec \in {turn.rec, session, NoRow} /\ turn'.pc = "call"
  BY <1>2, <1>3
<1>5. /\ UNCHANGED <<proc, endings, procs, forgotten, deleting, dropped>>
      /\ session' \in {session, NoRow} /\ (CliFault \/ UNCHANGED cliFaults)
      /\ cliFaults' = 0 => session' = NoRow
  BY DEF SetAside, CliFault, CliInv
<1> QED BY <1>1, <1>4, <1>5, TurnFacts, TurnAlone

LEMMA SaveReplyKeeps == ASSUME CliInv, SaveReply PROVE CliInv'
<1>1. turn.pc # "none" /\ turn.pc # "wait"
  BY DEF SaveReply
<1>2. ASSUME NEW pc, turn' = NextCall(pc)
      PROVE  /\ DOMAIN turn' = DOMAIN NoTurn /\ turn'.run = turn.run /\ turn'.wait = turn.wait
             /\ turn'.rec = NoRow /\ turn'.pc = pc
  <2>1. DOMAIN turn' = DOMAIN turn
    BY <1>2 DEF NextCall
  <2>2. turn'.run = turn.run /\ turn'.wait = turn.wait
    BY <1>2, Fields, TurnFacts DEF NextCall
  <2>3. turn'.rec = NoRow /\ turn'.pc = pc
    BY <1>2, Fields, TurnFacts DEF NextCall
  <2> QED BY <2>1, <2>2, <2>3, TurnFacts
<1>3. turn' = NextCall("tools") \/ turn' = NextCall("ended")
  BY DEF SaveReply
<1>4. UNCHANGED <<proc, endings, procs, forgotten, deleting, dropped, session, cliFaults>>
  BY DEF SaveReply
<1> QED BY <1>1, <1>2, <1>3, <1>4, TurnFacts, TurnAlone

LEMMA RunToolsKeeps == ASSUME CliInv, RunTools PROVE CliInv'
<1>1. turn.pc # "none" /\ turn.pc # "wait"
  BY DEF RunTools
<1>2. ASSUME NEW pc, turn' = [turn EXCEPT !.held = TRUE, !.pc = pc]
      PROVE  /\ DOMAIN turn' = DOMAIN NoTurn /\ turn'.run = turn.run /\ turn'.wait = turn.wait
             /\ turn'.rec = turn.rec /\ turn'.pc = pc
  BY <1>2, Fields, TurnFacts
<1>3. \E pc \in {"return", "loop"} : turn' = [turn EXCEPT !.held = TRUE, !.pc = pc]
  BY DEF RunTools
<1>4. UNCHANGED <<proc, endings, procs, forgotten, deleting, dropped, session, cliFaults>>
  BY DEF RunTools
<1> QED BY <1>1, <1>2, <1>3, <1>4, TurnFacts, TurnAlone

\* What EndRun does to the processes and to the entry of ENDINGS.
Ends ==
    /\ proc' = [p \in Procs |-> proc'[p]]
    /\ \A p \in Procs : /\ DOMAIN proc'[p] = DOMAIN NoProc
                        /\ proc'[p].sess = proc[p].sess /\ proc'[p].alive = proc[p].alive
                        /\ proc'[p].took = proc[p].took
                        /\ proc'[p].pc = "gone" <=> proc[p].pc = "gone"
    /\ endings' \subseteq endings \cup ({turn.run} \ {0})
    /\ \A p \in endings \cup ({turn.run} \ {0}) : proc[p].alive => p \in endings'

\* The turn's run is replaced by q, which is ending.
LEMMA RunToEnding ==
    ASSUME CliInv, turn.run # 0, NEW f, f = [p \in Procs |-> f[p]],
           \A p \in Procs : Like(f[p], proc[p]), NEW q,
           DOMAIN q = DOMAIN NoProc, q.sess = proc[turn.run].sess, q.alive = proc[turn.run].alive,
           q.took = proc[turn.run].took, q.pc # "gone",
           proc' = [f EXCEPT ![turn.run] = q], endings' = Enlist(turn.run)
    PROVE  Ends
<1>1. turn.run \in Procs /\ proc[turn.run].pc # "gone"
  BY Numbers DEF CliInv, RunFits
<1>2. /\ proc' = [p \in Procs |-> proc'[p]]
      /\ proc'[turn.run] = q
      /\ \A p \in Procs \ {turn.run} : proc'[p] = f[p]
  BY <1>1
<1>3. \A p \in Procs : /\ DOMAIN proc'[p] = DOMAIN NoProc
                       /\ proc'[p].sess = proc[p].sess /\ proc'[p].alive = proc[p].alive
                       /\ proc'[p].took = proc[p].took
                       /\ proc'[p].pc = "gone" <=> proc[p].pc = "gone"
  BY <1>1, <1>2 DEF Like
<1>4. endings \subseteq Procs
  BY CliAssumption DEF CliInv, WaitFits, Procs
<1>5. /\ endings' \subseteq endings \cup {turn.run}
      /\ \A p \in endings \cup {turn.run} : proc[p].alive => p \in endings'
  BY <1>1, <1>4, Numbers DEF Enlist
<1> QED BY <1>2, <1>3, <1>5 DEF Ends

LEMMA EndRunEnds ==
    ASSUME CliInv, NEW f, f = [p \in Procs |-> f[p]],
           \A p \in Procs : Like(f[p], proc[p]), EndRun(f)
    PROVE  Ends
<1>1. CASE turn.run = 0
  BY <1>1 DEF EndRun, Ends, Like
<1>2. CASE turn.run # 0
  <2> DEFINE q == Ended(f[turn.run])
  <2>1. turn.run \in Procs
    BY <1>2, Numbers
  <2>2. proc' = [f EXCEPT ![turn.run] = q] /\ endings' = Enlist(turn.run)
    BY <1>2, <2>1 DEF EndRun
  <2>3. /\ DOMAIN q = DOMAIN NoProc
        /\ q.sess = f[turn.run].sess /\ q.alive = f[turn.run].alive /\ q.took = f[turn.run].took
        /\ q.pc = "wind"
    BY WindDownFits DEF Ended
  <2> HIDE DEF q
  <2> QED BY <1>2, <2>1, <2>2, <2>3, RunToEnding DEF Like
<1> QED BY <1>1, <1>2

LEMMA CloseEnds ==
    ASSUME CliInv, CloseCli
    PROVE  Ends /\ turn' = NoTurn
<1>1. CASE EndRun(proc)
  BY <1>1, EndRunEnds, TurnFacts DEF CloseCli
<1>2. CASE ~EndRun(proc)
  <2>1. turn.run # 0 /\ turn.run \in Procs /\ endings' = Enlist(turn.run)
    BY <1>2, Numbers DEF CloseCli
  <2>2. PICK a, h : proc' = [proc EXCEPT ![turn.run] =
                        TakeArrived([proc[turn.run] EXCEPT !.answers = a, !.hold = h, !.pc = "settle"])]
    BY <1>2, Zenon DEF CloseCli
  <2> DEFINE b == [proc[turn.run] EXCEPT !.answers = a, !.hold = h, !.pc = "settle"]
             q == TakeArrived(b)
  <2>3. DOMAIN proc[turn.run] = DOMAIN NoProc
    BY <2>1 DEF CliInv
  <2>4. /\ DOMAIN b = DOMAIN NoProc /\ b.sess = proc[turn.run].sess /\ b.alive = proc[turn.run].alive
        /\ b.took = proc[turn.run].took /\ b.pc = "settle"
    BY <2>3, Fields
  <2> HIDE DEF b
  <2>5. Like(q, b)
    BY <2>4, TakeArrivedLike
  <2>6. proc' = [proc EXCEPT ![turn.run] = q]
    BY <2>2 DEF b
  <2> HIDE DEF q
  <2>7. Ends
    BY <2>1, <2>4, <2>5, <2>6, TurnFacts, RunToEnding DEF Like
  <2> QED BY <2>7 DEF CloseCli
<1> QED BY <1>1, <1>2

\* RunEnds of a turn that waited for nobody.
LEMMA TurnEndsRun ==
    ASSUME CliInv, Ends, turn.pc \notin {"none", "wait"},
           UNCHANGED <<procs, forgotten, deleting, dropped>>,
           DOMAIN turn' = DOMAIN NoTurn, turn'.run = 0, turn'.wait = {},
           turn'.rec \in {turn.rec, NoRow},
           turn'.pc \in {"none", "start", "failed", "save"},
           session' = NoRow \/ (session'.sess \in Claimed /\ session'.sess # 0),
           CliFault \/ UNCHANGED cliFaults,
           cliFaults' = 0 /\ turn'.pc = "start" => session' = NoRow
    PROVE  CliInv'
<1>1. cliFaults' \in Nat /\ (cliFaults' = 0 => cliFaults = 0)
  BY Faults
<1>2. deleting = "no" /\ turn.wait = {} /\ dropped' = (dropped \/ ~Gone(turn.wait))
  BY TurnFacts
<1>3. /\ turn'.pc \notin {"wait", "read", "result", "keep"}
      /\ cliFaults' = 0 /\ turn'.pc \in {"call", "start"} => session' = NoRow
  OBVIOUS
<1> QED BY <1>1, <1>2, <1>3, RunEnds DEF Ends

LEMMA CloseKeeps ==
    ASSUME CliInv, CloseCli, turn.pc \notin {"none", "wait"},
           UNCHANGED <<procs, forgotten, deleting, dropped, session, cliFaults>>
    PROVE  CliInv'
BY CloseEnds, TurnEndsRun, TurnFacts, Fields

LEMMA ReturnCliKeeps == ASSUME CliInv, ReturnCli PROVE CliInv'
BY CloseKeeps DEF ReturnCli

LEMMA AfterReplyKeeps == ASSUME CliInv, AfterReply PROVE CliInv'
<1>1. /\ turn.pc \notin {"none", "wait"}
      /\ UNCHANGED <<procs, forgotten, deleting, dropped, session, cliFaults>>
  BY DEF AfterReply
<1>2. CASE CloseCli
  BY <1>1, <1>2, CloseKeeps
<1>3. CASE ~CloseCli
  <2>1. UNCHANGED <<proc, endings>> /\ turn' = [turn EXCEPT !.pc = "loop"]
    BY <1>3 DEF AfterReply
  <2>2. /\ DOMAIN turn' = DOMAIN NoTurn /\ turn'.run = turn.run /\ turn'.wait = turn.wait
        /\ turn'.rec = turn.rec /\ turn'.pc = "loop"
    BY <2>1, Fields, TurnFacts
  <2> QED BY <1>1, <2>1, <2>2, TurnFacts, TurnAlone
<1> QED BY <1>2, <1>3

LEMMA StopKeeps == ASSUME CliInv, Stop PROVE CliInv'
<1>1. Ends /\ turn' = NoTurn
  BY EndRunEnds, TurnFacts DEF Stop
<1>2. /\ turn.pc # "none" /\ dropped' = (dropped \/ ~Gone(turn.wait))
      /\ UNCHANGED <<procs, forgotten, deleting, session, cliFaults>>
  BY DEF Stop
<1>3. deleting = "no" /\ (turn.wait = {} \/ turn.pc = "wait")
      /\ (session' = NoRow \/ (session'.sess \in Claimed /\ session'.sess # 0))
  BY <1>2, TurnFacts
<1>4. /\ DOMAIN turn' = DOMAIN NoTurn /\ turn'.run = 0 /\ turn'.wait = {} /\ turn'.rec = NoRow
      /\ turn'.pc = "none"
  BY <1>1, Fields
<1>5. cliFaults' \in Nat
  BY <1>2, Faults
<1> QED BY <1>1, <1>2, <1>3, <1>4, <1>5, RunEnds DEF Ends

\* TurnMoves of a step that changes the turn's run too.
LEMMA RunMoves ==
    ASSUME CliInv, turn.run # 0, turn.pc \notin {"none", "wait"}, NEW q, Like(q, proc[turn.run]),
           proc' = [proc EXCEPT ![turn.run] = q],
           UNCHANGED <<endings, procs, forgotten, deleting, dropped, session, cliFaults>>,
           DOMAIN turn' = DOMAIN NoTurn, turn'.run = turn.run, turn'.wait = turn.wait,
           turn'.rec = turn.rec, turn'.pc \in {"read", "result", "keep"},
           cliFaults = 0 => session = NoRow
    PROVE  CliInv'
<1>1. turn.run \in Procs
  BY Numbers
<1>2. proc' = [p \in Procs |-> proc'[p]] /\ \A p \in Procs : Like(proc'[p], proc[p])
  BY <1>1, TurnFacts
<1>3. turn'.wait = {} /\ turn.wait = {} /\ deleting = "no"
  BY TurnFacts
<1>4. session' = NoRow \/ (session'.sess \in Claimed /\ session'.sess # 0)
  BY TurnFacts
<1>5. cliFaults' \in Nat /\ (cliFaults' = 0 => cliFaults = 0)
  BY Faults
<1>6. /\ turn'.pc \notin {"none", "wait"}
      /\ turn'.pc \in {"start", "failed"} => turn.run = 0
      /\ turn'.pc \in {"read", "result", "keep"} => turn.run # 0
      /\ cliFaults' = 0 /\ turn'.pc \in {"call", "start", "read", "result", "keep"} => session' = NoRow
  OBVIOUS
<1> QED BY <1>2, <1>3, <1>4, <1>5, <1>6, TurnMoves

\* While no call fails, the record is set aside.
LEMMA Aside ==
    ASSUME CliInv, cliFaults = 0, turn.pc \in {"call", "start", "wait", "read", "result", "keep"}
    PROVE  session = NoRow
BY DEF CliInv, RecordFits

LEMMA CallRunKeeps == ASSUME CliInv, CallRun PROVE CliInv'
<1>1. /\ turn.pc = "call"
      /\ UNCHANGED <<session, procs, forgotten, deleting, cliFaults, dropped>>
  BY DEF CallRun
<1>2. \/ /\ turn.run # 0
         /\ proc' = [proc EXCEPT ![turn.run] = Awaiting(SendTail(proc[turn.run]))]
         /\ turn' = [turn EXCEPT !.pc = "read"] /\ UNCHANGED endings
      \/ EndRun(proc) /\ turn' = [turn EXCEPT !.pc = "start", !.run = 0]
  BY Zenon DEF CallRun
<1>3. CASE /\ turn.run # 0
           /\ proc' = [proc EXCEPT ![turn.run] = Awaiting(SendTail(proc[turn.run]))]
           /\ turn' = [turn EXCEPT !.pc = "read"] /\ UNCHANGED endings
  <2>1. turn.run \in Procs /\ DOMAIN proc[turn.run] = DOMAIN NoProc
    BY <1>3, Numbers DEF CliInv
  <2> DEFINE q == Awaiting(SendTail(proc[turn.run]))
  <2>2. Like(q, proc[turn.run]) /\ proc' = [proc EXCEPT ![turn.run] = q]
    BY <1>3, <2>1, SendTailLike
  <2>3. /\ DOMAIN turn' = DOMAIN NoTurn /\ turn'.run = turn.run /\ turn'.wait = turn.wait
        /\ turn'.rec = turn.rec /\ turn'.pc = "read"
    BY <1>3, Fields, TurnFacts
  <2> HIDE DEF q
  <2> QED BY <1>1, <1>3, <2>2, <2>3, RunMoves, Aside
<1>4. CASE EndRun(proc) /\ turn' = [turn EXCEPT !.pc = "start", !.run = 0]
  <2>1. Ends
    BY <1>4, EndRunEnds, TurnFacts
  <2>2. /\ DOMAIN turn' = DOMAIN NoTurn /\ turn'.run = 0 /\ turn'.wait = turn.wait
        /\ turn'.rec = turn.rec /\ turn'.pc = "start"
    BY <1>4, Fields, TurnFacts
  <2> QED BY <1>1, <2>1, <2>2, TurnFacts, TurnEndsRun, Aside
<1> QED BY <1>2, <1>3, <1>4

LEMMA FailCallKeeps ==
    ASSUME CliInv, NEW f, f = [p \in Procs |-> f[p]], \A p \in Procs : Like(f[p], proc[p]),
           NEW unchanged, FailCall(f, unchanged), turn.pc = "read",
           UNCHANGED <<procs, forgotten, deleting, dropped>>, CliFault \/ UNCHANGED cliFaults
    PROVE  CliInv'
<1>1. Ends
  BY EndRunEnds DEF FailCall
<1>2. /\ DOMAIN turn' = DOMAIN NoTurn /\ turn'.run = 0 /\ turn'.wait = turn.wait
      /\ turn'.rec = turn.rec /\ turn'.pc = "failed"
  BY Fields, TurnFacts DEF FailCall
<1>3. session' \in {session} \/ (session' = turn.rec /\ turn.rec # NoRow)
  BY DEF FailCall
<1> QED BY <1>1, <1>2, <1>3, TurnFacts, TurnEndsRun

LEMMA RestartKeeps ==
    ASSUME CliInv, NEW f, f = [p \in Procs |-> f[p]], \A p \in Procs : Like(f[p], proc[p]),
           NEW resume, Restart(f, resume), turn.pc = "read",
           UNCHANGED <<procs, forgotten, deleting, dropped, cliFaults>>
    PROVE  CliInv'
<1>1. Ends /\ UNCHANGED session
  BY EndRunEnds DEF Restart
<1>2. /\ DOMAIN turn' = DOMAIN NoTurn /\ turn'.run = 0 /\ turn'.wait = turn.wait
      /\ turn'.rec = turn.rec /\ turn'.pc = "start"
  BY Fields, TurnFacts DEF Restart
<1> QED BY <1>1, <1>2, TurnFacts, TurnEndsRun, Aside

LEMMA ReadFailsKeeps == ASSUME CliInv, ReadFails PROVE CliInv'
<1>1. /\ turn.pc = "read" /\ UNCHANGED <<procs, forgotten, deleting, dropped>>
      /\ (CliFault \/ UNCHANGED cliFaults)
  BY DEF ReadFails
<1>2. \/ \E u : FailCall(proc, u)
      \/ Restart(proc, TRUE) /\ UNCHANGED cliFaults
  BY Zenon DEF ReadFails
<1> QED BY <1>1, <1>2, FailCallKeeps, RestartKeeps, TurnFacts

LEMMA ReadLineKeeps == ASSUME CliInv, ReadLine PROVE CliInv'
<1> DEFINE p == turn.run
           e == Head(proc[p].out)
           f == [proc[p] EXCEPT !.out = Tail(@), !.heard = TRUE]
           ids == [f EXCEPT !.started = TRUE, !.ids = Calls(e.reply)]
           idle == [f EXCEPT !.state = "Idle"]
           all(q) == [proc EXCEPT ![p] = q]
<1>1. /\ turn.pc = "read"
      /\ UNCHANGED <<procs, forgotten, deleting, dropped, cliFaults>>
  BY DEF ReadLine
<1>2. p # 0 /\ p \in Procs
  BY <1>1, Numbers DEF CliInv, RunFits
<1>3. DOMAIN proc[p] = DOMAIN NoProc
  BY <1>2 DEF CliInv
<1>4. Like(f, proc[p])
  BY <1>3, Fields DEF Like
<1>5. DOMAIN f = DOMAIN NoProc
  BY <1>4 DEF Like
<1>6. \/ proc' = [proc EXCEPT ![p] = ids] /\ UNCHANGED <<session, turn, endings>>
      \/ Finish(f, p, e.reply)
      \/ FailCall(all(f), FALSE)
      \/ proc' = [proc EXCEPT ![p] = f] /\ UNCHANGED <<session, turn, endings>>
      \/ Restart(all(idle), FALSE)
      \/ FailCall(all(idle), ~f.started)
  BY Zenon DEF ReadLine
<1> HIDE DEF f, e
<1>7. Like(ids, proc[p])
  <2>1. DOMAIN ids = DOMAIN f /\ ids.sess = f.sess /\ ids.alive = f.alive /\ ids.took = f.took
        /\ ids.pc = f.pc
    BY <1>5, Fields
  <2> QED BY <1>4, <2>1 DEF Like
<1>8. Like(idle, proc[p])
  <2>1. DOMAIN idle = DOMAIN f /\ idle.sess = f.sess /\ idle.alive = f.alive /\ idle.took = f.took
        /\ idle.pc = f.pc
    BY <1>5, Fields
  <2> QED BY <1>4, <2>1 DEF Like
<1>9. ASSUME NEW q, Like(q, proc[p])
      PROVE  /\ all(q) = [r \in Procs |-> all(q)[r]]
             /\ \A r \in Procs : Like(all(q)[r], proc[r])
  BY <1>2, <1>9, TurnFacts
<1>10. cliFaults = 0 => session = NoRow
  BY <1>1, Aside
<1>11. DOMAIN turn = DOMAIN NoTurn
  BY TurnFacts
<1>12. CASE Finish(f, p, e.reply)
  <2> DEFINE r == e.reply
             g == [f EXCEPT !.expected = Calls(r)]
             q == SettleHeld(g)
             h == IF Calls(r) # {} THEN [q EXCEPT !.state = "Parked"]
                  ELSE [q EXCEPT !.intr = shape[r].cut]
  <2>1. /\ turn' = [turn EXCEPT !.pc = IF Calls(r) # {} THEN "keep" ELSE "result",
                                !.reply = r, !.sess = f.sess]
        /\ proc' = [proc EXCEPT ![p] = h] /\ UNCHANGED <<session, endings>>
    BY <1>12 DEF Finish
  <2>2. Like(g, f)
    BY <1>5, Fields DEF Like
  <2>3. DOMAIN g = DOMAIN NoProc
    BY <2>2 DEF Like
  <2> HIDE DEF g
  <2>4. Like(q, g)
    BY <2>3, SettleHeldLike
  <2>5. DOMAIN q = DOMAIN NoProc
    BY <2>4 DEF Like
  <2> HIDE DEF q
  <2>6. Like(h, q)
    BY <2>5, Fields DEF Like
  <2> HIDE DEF h
  <2>7. Like(h, proc[p])
    BY <1>4, <2>2, <2>4, <2>6, LikeLike
  <2>8. /\ DOMAIN turn' = DOMAIN NoTurn /\ turn'.run = turn.run /\ turn'.wait = turn.wait
        /\ turn'.rec = turn.rec /\ turn'.pc \in {"keep", "result"}
    BY <1>11, <2>1, Fields
  <2> QED BY <1>1, <1>2, <1>10, <2>1, <2>7, <2>8, RunMoves
<1>13. ASSUME NEW q, Like(q, proc[p]), proc' = [proc EXCEPT ![p] = q],
              UNCHANGED <<session, turn, endings>>
       PROVE  CliInv'
  BY <1>1, <1>2, <1>10, <1>11, <1>13, RunMoves
<1>14. ASSUME NEW q, Like(q, proc[p]), NEW u, FailCall(all(q), u)
       PROVE  CliInv'
  <2> DEFINE a == all(q)
  <2>1. a = [r \in Procs |-> a[r]] /\ \A r \in Procs : Like(a[r], proc[r])
    BY <1>9, <1>14
  <2>2. FailCall(a, u)
    BY <1>14
  <2> HIDE DEF a
  <2> QED BY <1>1, <2>1, <2>2, FailCallKeeps
<1>15. CASE Restart(all(idle), FALSE)
  <2> DEFINE a == all(idle)
  <2>1. a = [r \in Procs |-> a[r]] /\ \A r \in Procs : Like(a[r], proc[r])
    BY <1>8, <1>9
  <2>2. Restart(a, FALSE)
    BY <1>15
  <2> HIDE DEF a
  <2> QED BY <1>1, <2>1, <2>2, RestartKeeps
<1> HIDE DEF idle, ids, all
<1> QED BY <1>4, <1>6, <1>7, <1>8, <1>12, <1>13, <1>14, <1>15 DEF all

LEMMA AwaitResultKeeps == ASSUME CliInv, AwaitResult PROVE CliInv'
<1> DEFINE p == turn.run
           f == [proc[p] EXCEPT !.out = Tail(@)]
           idle(r) == [r EXCEPT !.state = "Idle", !.expected = {}]
           all(q) == [proc EXCEPT ![p] = q]
<1>1. /\ turn.pc = "result" /\ (CliFault \/ UNCHANGED cliFaults)
      /\ UNCHANGED <<session, procs, forgotten, deleting, dropped>>
  BY DEF AwaitResult
<1>2. p # 0 /\ p \in Procs
  BY <1>1, Numbers DEF CliInv, RunFits
<1>3. DOMAIN proc[p] = DOMAIN NoProc /\ Like(proc[p], proc[p])
  BY <1>2, TurnFacts DEF CliInv
<1>4. Like(f, proc[p])
  BY <1>3, Fields DEF Like
<1>5. \/ /\ proc' = all(idle(f)) /\ turn' = [turn EXCEPT !.pc = "keep"]
         /\ UNCHANGED <<endings, cliFaults>>
      \/ proc' = all(f) /\ UNCHANGED <<turn, endings, cliFaults>>
      \/ EndRun(all(idle(proc[p]))) /\ turn' = [turn EXCEPT !.pc = "save", !.run = 0]
  BY Zenon DEF AwaitResult
<1>6. ASSUME NEW r, Like(r, proc[p])
      PROVE  Like(idle(r), proc[p])
  <2>1. DOMAIN r = DOMAIN NoProc
    BY <1>6 DEF Like
  <2>2. Like(idle(r), r)
    BY <2>1, Fields DEF Like
  <2> HIDE DEF idle
  <2> QED BY <1>6, <2>2, LikeLike
<1> HIDE DEF f, idle
<1>7. DOMAIN turn = DOMAIN NoTurn
  BY TurnFacts
<1>8. CASE /\ proc' = all(idle(f)) /\ turn' = [turn EXCEPT !.pc = "keep"]
           /\ UNCHANGED <<endings, cliFaults>>
  <2>1. /\ DOMAIN turn' = DOMAIN NoTurn /\ turn'.run = turn.run /\ turn'.wait = turn.wait
        /\ turn'.rec = turn.rec /\ turn'.pc = "keep"
    BY <1>7, <1>8, Fields
  <2>2. Like(idle(f), proc[p])
    BY <1>4, <1>6
  <2> QED BY <1>1, <1>2, <1>8, <2>1, <2>2, RunMoves, Aside
<1>9. CASE proc' = all(f) /\ UNCHANGED <<turn, endings, cliFaults>>
  BY <1>1, <1>2, <1>4, <1>7, <1>9, RunMoves, Aside
<1>10. CASE EndRun(all(idle(proc[p]))) /\ turn' = [turn EXCEPT !.pc = "save", !.run = 0]
  <2> DEFINE a == all(idle(proc[p]))
  <2>1. a = [r \in Procs |-> a[r]] /\ \A r \in Procs : Like(a[r], proc[r])
    BY <1>2, <1>3, <1>6, TurnFacts
  <2>2. EndRun(a)
    BY <1>10
  <2> HIDE DEF a
  <2>3. Ends
    BY <2>1, <2>2, EndRunEnds
  <2>4. /\ DOMAIN turn' = DOMAIN NoTurn /\ turn'.run = 0 /\ turn'.wait = turn.wait
        /\ turn'.rec = turn.rec /\ turn'.pc = "save"
    BY <1>7, <1>10, Fields
  <2> QED BY <1>1, <2>3, <2>4, TurnFacts, TurnEndsRun
<1> QED BY <1>5, <1>8, <1>9, <1>10

LEMMA KeepKeeps == ASSUME CliInv, Keep PROVE CliInv'
<1>1. /\ turn.pc = "keep" /\ (CliFault \/ UNCHANGED cliFaults)
      /\ UNCHANGED <<procs, forgotten, deleting, dropped>>
  BY DEF Keep
<1>2. turn.run # 0 /\ turn.run \in Procs /\ proc[turn.run].sess \in 1..procs
  BY <1>1, Numbers DEF CliInv, RunFits
<1>3. session' = NoRow \/ (session'.sess \in Claimed /\ session'.sess # 0)
  <2>1. CASE UNCHANGED session
    BY <2>1, TurnFacts
  <2>2. CASE session' = [sess |-> proc[turn.run].sess, synced |-> proc[turn.run].synced]
    BY <1>2, <2>2, Numbers DEF Claimed
  <2> QED BY <2>1, <2>2 DEF Keep
<1>4. CASE turn.lone
  <2>1. Ends
    BY <1>4, EndRunEnds, TurnFacts DEF Keep
  <2>2. /\ DOMAIN turn' = DOMAIN NoTurn /\ turn'.run = 0 /\ turn'.wait = turn.wait
        /\ turn'.rec = turn.rec /\ turn'.pc = "save"
    BY <1>4, Fields, TurnFacts DEF Keep
  <2> QED BY <1>1, <1>3, <2>1, <2>2, TurnFacts, TurnEndsRun
<1>5. CASE ~turn.lone
  <2>1. UNCHANGED <<proc, endings>>
    BY <1>5 DEF Keep
  <2>2. /\ DOMAIN turn' = DOMAIN NoTurn /\ turn'.run = turn.run /\ turn'.wait = turn.wait
        /\ turn'.rec = turn.rec /\ turn'.pc = "save"
    BY <1>5, Fields, TurnFacts DEF Keep
  <2>3. cliFaults' \in Nat /\ (cliFaults' = 0 => cliFaults = 0)
    BY <1>1, Faults
  <2>4. /\ turn'.pc \notin {"none", "wait"}
        /\ turn'.pc \notin {"call", "start", "failed", "read", "result", "keep"}
    BY <2>2
  <2> QED BY <1>1, <1>3, <2>1, <2>2, <2>3, <2>4, TurnFacts, TurnMoves
<1> QED BY <1>4, <1>5

\* The task takes the entry of ENDINGS with it where it waits for it.
LEMMA StartRunKeeps == ASSUME CliInv, StartRun PROVE CliInv'
<1>1. /\ turn.pc = "start" /\ turn.run = 0 /\ turn.wait = {} /\ deleting = "no"
      /\ UNCHANGED <<session, proc, procs, forgotten, deleting, cliFaults, dropped>>
  BY TurnFacts DEF StartRun, CliInv, RunFits
<1>2. PICK replaced :
        /\ turn' = [turn EXCEPT !.pc = "wait", !.resumed = Resumable, !.replaced = replaced,
                                !.wait = IF Waits(replaced) THEN endings ELSE {}]
        /\ endings' = IF Waits(replaced) THEN {} ELSE endings
  BY DEF StartRun
<1>3. /\ DOMAIN turn' = DOMAIN NoTurn /\ turn'.run = 0 /\ turn'.rec = turn.rec
      /\ turn'.pc = "wait" /\ turn'.resumed = Resumable /\ turn'.replaced = replaced
      /\ turn'.wait = IF Waits(replaced) THEN endings ELSE {}
  BY <1>1, <1>2, Fields, TurnFacts
<1>4. endings' \cup turn'.wait = endings
  BY <1>2, <1>3
<1>5. RunFits'
  BY <1>1, <1>3 DEF CliInv, RunFits
<1>6. WaitFits'
  BY <1>1, <1>2, <1>3, <1>4 DEF CliInv, WaitFits, Waits
<1>7. Claimed' = Claimed
  BY <1>1, <1>3 DEF Claimed
<1>8. \A p \in Procs : Stray(p)' <=> Stray(p)
  BY <1>1, <1>3, <1>4 DEF Stray
<1>9. turn'.resumed => turn'.rec # NoRow
  BY <1>3 DEF Resumable
<1>10. cliFaults = 0 => session = NoRow
  BY <1>1, Aside
<1>11. RecordFits'
  BY <1>1, <1>3, <1>7, <1>8, <1>9, <1>10 DEF CliInv, RecordFits
<1>12. SessionsAlone'
  BY <1>1 DEF CliInv, SessionsAlone
<1> QED BY <1>1, <1>3, <1>5, <1>6, <1>11, <1>12 DEF CliInv

\* Whoever is left when the wait is over is one a Stop dropped.
LEMMA Alone ==
    ASSUME CliInv, turn.run = 0, endings = {}, Gone(turn.wait), NEW p \in Procs, proc[p].alive
    PROVE  Stray(p) /\ dropped /\ (cliFaults = 0 => proc[p].sess \notin Claimed)
<1>1. p # 0 /\ proc[p].pc # "gone"
  BY Numbers
<1>2. Stray(p)
  BY <1>1 DEF Stray, Gone
<1> QED BY <1>2 DEF CliInv, RecordFits

LEMMA SpawnKeeps == ASSUME CliInv, Spawn PROVE CliInv'
<1>1. /\ turn.pc = "wait" /\ Gone(turn.wait) /\ turn.run = 0 /\ deleting = "no"
      /\ forgotten' = forgotten \cup turn.replaced
      /\ UNCHANGED <<session, endings, deleting, dropped>> /\ (CliFault \/ UNCHANGED cliFaults)
  BY TurnFacts DEF Spawn, CliInv, RunFits
<1>2. cliFaults' \in Nat /\ (cliFaults' = 0 => cliFaults = 0)
  BY <1>1, Faults
<1>3. turn.resumed \/ turn.replaced # {} => endings = {}
  BY <1>1 DEF CliInv, WaitFits
<1>4. \A p \in Procs : proc[p].alive /\ proc[p].took /\ ~dropped => proc[p].sess \notin forgotten'
  BY <1>1, <1>3, Alone DEF CliInv, SessionsAlone
<1>5. \A p \in Procs : proc[p].alive =>
         proc[p].pc # "gone" /\ p \in 1..procs /\ proc[p].sess \in 1..procs /\ proc[p].sess # 0
  BY Numbers
<1>6. CASE /\ turn' = [turn EXCEPT !.pc = "failed", !.wait = {}, !.resumed = FALSE, !.replaced = {}]
           /\ UNCHANGED <<proc, procs>>
  <2>1. /\ DOMAIN turn' = DOMAIN NoTurn /\ turn'.run = 0 /\ turn'.wait = {} /\ turn'.rec = turn.rec
        /\ turn'.pc = "failed"
    BY <1>1, <1>6, Fields, TurnFacts
  <2>2. RunFits' /\ WaitFits'
    BY <1>1, <1>6, <2>1 DEF CliInv, RunFits, WaitFits
  <2>3. Claimed' = Claimed
    BY <1>1, <2>1 DEF Claimed
  <2>4. \A p \in Procs : Stray(p)' => Stray(p)
    BY <1>1, <1>5, <1>6, <2>1 DEF Stray, Gone
  <2>5. RecordFits'
    BY <1>1, <1>2, <1>6, <2>1, <2>3, <2>4 DEF CliInv, RecordFits
  <2>6. SessionsAlone'
    BY <1>1, <1>2, <1>4, <1>6 DEF CliInv, SessionsAlone
  <2> QED BY <1>1, <1>2, <1>6, <2>1, <2>2, <2>5, <2>6 DEF CliInv
<1>7. CASE /\ procs < MaxProcs /\ procs' = procs + 1
           /\ turn' = [turn EXCEPT !.pc = "read", !.run = procs + 1, !.wait = {}, !.resumed = FALSE,
                                   !.replaced = {}]
           /\ \E m : LET new == [NoProc EXCEPT !.alive = TRUE, !.sent = TRUE,
                             !.sess = IF turn.resumed THEN turn.rec.sess ELSE procs + 1,
                             !.msg = m]
                     IN proc' = [proc EXCEPT ![procs + 1] = Awaiting(new)]
  <2> DEFINE n == procs + 1
             s == IF turn.resumed THEN turn.rec.sess ELSE n
  <2>1. PICK m : proc' = [proc EXCEPT ![n] = Awaiting([NoProc EXCEPT !.alive = TRUE, !.sent = TRUE,
                                                          !.sess = s, !.msg = m])]
    BY <1>7
  <2> DEFINE b == [NoProc EXCEPT !.alive = TRUE, !.sent = TRUE, !.sess = s, !.msg = m]
             q == Awaiting(b)
  <2>2. /\ DOMAIN b = DOMAIN NoProc /\ b.sess = s /\ b.alive = TRUE /\ b.took = FALSE /\ b.pc = "run"
    BY Fields
  <2> HIDE DEF b
  <2>3. DOMAIN q = DOMAIN NoProc /\ q.sess = s /\ q.alive = TRUE /\ q.took = FALSE /\ q.pc = "run"
    <3>1. DOMAIN q = DOMAIN b
      BY DEF Awaiting
    <3>2. q.sess = b.sess /\ q.alive = b.alive
      BY <2>2, Fields DEF Awaiting
    <3>3. q.took = b.took /\ q.pc = b.pc
      BY <2>2, Fields DEF Awaiting
    <3> QED BY <2>2, <3>1, <3>2, <3>3
  <2>4. proc' = [proc EXCEPT ![n] = q]
    BY <2>1 DEF b
  <2> HIDE DEF q
  <2>5. procs \in Nat /\ MaxProcs \in Nat /\ n \in Procs /\ n # 0 /\ n \notin 1..procs
    BY <1>7, CliAssumption, Numbers DEF Procs
  <2>6. proc' = [p \in Procs |-> proc'[p]] /\ proc'[n] = q /\ \A p \in Procs \ {n} : proc'[p] = proc[p]
    BY <2>4, <2>5 DEF CliInv
  <2>7. /\ DOMAIN turn' = DOMAIN NoTurn /\ turn'.run = n /\ turn'.wait = {} /\ turn'.rec = turn.rec
        /\ turn'.pc = "read"
    BY <1>7, Fields, TurnFacts
  <2>8. turn.resumed => s = turn.rec.sess /\ s \in Claimed /\ s \in 1..procs /\ endings = {}
    BY <1>1, <1>3, <2>5 DEF CliInv, RecordFits, Claimed
  <2>9. s \in 1..n /\ (~turn.resumed => s = n)
    BY <2>5, <2>8
  <2>10. \A p \in Procs \ {n} : p <= n => p <= procs
    BY <2>5 DEF Procs
  <2>11. RunFits'
    <3>1. n \notin endings
      BY <2>5 DEF CliInv, WaitFits
    <3>2. \A p \in Procs : proc'[p].pc = "gone" \/ p > n => ~proc'[p].alive
      BY <2>3, <2>5, <2>6 DEF CliInv, RunFits, Procs
    <3>3. \A p \in Procs : p <= n /\ proc'[p].pc # "gone" => proc'[p].sess \in 1..n
      BY <2>3, <2>5, <2>6, <2>9, <2>10 DEF CliInv, RunFits
    <3> QED BY <1>1, <1>7, <2>3, <2>5, <2>6, <2>7, <3>1, <3>2, <3>3 DEF RunFits
  <2>12. WaitFits'
    BY <1>1, <1>7, <2>5, <2>7 DEF CliInv, WaitFits
  <2>13. \A p \in Procs : Stray(p)' => p # n /\ Stray(p)
    BY <1>1, <1>5, <2>6, <2>7 DEF Stray, Gone
  <2>14. Claimed' \subseteq Claimed \cup {s}
    BY <1>1, <2>3, <2>6, <2>7 DEF Claimed
  <2>15. RecordFits'
    <3>1. ASSUME NEW p \in Procs, Stray(p)'
          PROVE  dropped' /\ (cliFaults' = 0 => proc'[p].sess \notin Claimed')
      <4>1. p # n /\ Stray(p) /\ proc[p].alive
        BY <2>13, <3>1 DEF Stray
      <4>2. dropped /\ (cliFaults = 0 => proc[p].sess \notin Claimed)
        BY <4>1 DEF CliInv, RecordFits
      <4>3. ~turn.resumed => proc[p].sess # s
        BY <1>5, <2>5, <2>9, <4>1
      <4> QED BY <1>1, <1>2, <2>6, <2>8, <2>14, <4>1, <4>2, <4>3
    <3>2. cliFaults' = 0 => session = NoRow
      BY <1>1, <1>2, Aside
    <3>3. {session.sess, turn.rec.sess} \subseteq 0..n
      BY <2>5 DEF CliInv, RecordFits
    <3> QED BY <1>1, <1>7, <2>7, <3>1, <3>2, <3>3 DEF CliInv, RecordFits
  <2>16. SessionsAlone'
    <3>1. ASSUME ~dropped \/ cliFaults = 0, NEW p \in Procs \ {n}, proc[p].alive
          PROVE  proc[p].sess # s
      <4>1. CASE turn.resumed
        BY <1>1, <2>8, <3>1, <4>1, Alone
      <4>2. CASE ~turn.resumed
        BY <1>5, <2>5, <2>9, <3>1, <4>2
      <4> QED BY <4>1, <4>2
    <3>2. ~dropped' \/ cliFaults' = 0 =>
            \A p, r \in Procs : p # r /\ proc'[p].alive /\ proc'[r].alive => proc'[p].sess # proc'[r].sess
      BY <1>1, <1>2, <2>3, <2>6, <3>1 DEF CliInv, SessionsAlone
    <3>3. ~dropped' => \A p \in Procs : proc'[p].alive /\ proc'[p].took => proc'[p].sess \notin forgotten'
      BY <1>1, <1>4, <2>3, <2>6
    <3> QED BY <3>2, <3>3 DEF SessionsAlone
  <2>17. \A p \in Procs : DOMAIN proc'[p] = DOMAIN NoProc
    BY <2>3, <2>6 DEF CliInv
  <2> QED BY <1>1, <1>2, <1>7, <2>5, <2>6, <2>7, <2>11, <2>12, <2>15, <2>16, <2>17 DEF CliInv
<1> QED BY <1>6, <1>7, Zenon DEF Spawn

LEMMA DeleteWaitsKeeps == ASSUME CliInv, DeleteWaits PROVE CliInv'
<1>1. /\ turn.pc = "none" /\ turn.run = 0 /\ turn.wait = {} /\ deleting' = "wait" /\ endings' = {}
      /\ UNCHANGED <<session, proc, procs, forgotten, cliFaults, dropped>>
  BY TurnFacts DEF DeleteWaits
<1>2. /\ DOMAIN turn' = DOMAIN NoTurn /\ turn'.run = 0 /\ turn'.rec = NoRow
      /\ turn'.pc = "none" /\ turn'.wait = endings
  BY Fields DEF DeleteWaits
<1>3. RunFits' /\ WaitFits'
  BY <1>1, <1>2 DEF CliInv, RunFits, WaitFits
<1>4. Claimed' \subseteq Claimed \cup {0}
  BY <1>1, <1>2, NoRowIs DEF Claimed
<1>5. \A p \in Procs : Stray(p)' => Stray(p) /\ proc[p].sess # 0
  BY <1>1, <1>2, Numbers DEF Stray
<1>6. RecordFits'
  BY <1>1, <1>2, <1>4, <1>5, NoRowIs, Numbers DEF CliInv, RecordFits
<1>7. SessionsAlone'
  BY <1>1 DEF CliInv, SessionsAlone
<1> QED BY <1>1, <1>2, <1>3, <1>6, <1>7 DEF CliInv

LEMMA DeleteForgetsKeeps == ASSUME CliInv, DeleteForgets PROVE CliInv'
<1>1. /\ deleting = "wait" /\ Gone(turn.wait) /\ deleting' = "done" /\ session' = NoRow
      /\ turn' = NoTurn /\ UNCHANGED <<proc, procs, endings, cliFaults, dropped>>
  BY DEF DeleteForgets
<1>2. turn.run = 0 /\ endings = {}
  BY <1>1, TurnFacts DEF CliInv, WaitFits
<1>3. /\ DOMAIN turn' = DOMAIN NoTurn /\ turn'.run = 0 /\ turn'.rec = NoRow
      /\ turn'.pc = "none" /\ turn'.wait = {}
  BY <1>1, Fields
<1>4. RunFits' /\ WaitFits'
  BY <1>1, <1>2, <1>3 DEF CliInv, RunFits, WaitFits
<1>5. Claimed' = {0}
  BY <1>1, <1>3, NoRowIs DEF Claimed
<1>6. RecordFits'
  BY <1>1, <1>2, <1>3, <1>5, NoRowIs, Numbers, Alone DEF CliInv, RecordFits, Stray
<1>7. SessionsAlone'
  BY <1>1, <1>2, Alone DEF CliInv, SessionsAlone
<1> QED BY <1>1, <1>3, <1>4, <1>6, <1>7 DEF CliInv

-----------------------------------------------------------------------------
LEMMA CliInitHolds == CliInit => CliInv
<1> SUFFICES ASSUME CliInit PROVE CliInv
  OBVIOUS
<1>1. /\ proc = [p \in Procs |-> proc[p]] /\ procs = 0 /\ cliFaults = 0 /\ dropped = FALSE
      /\ \A p \in Procs : proc[p] = NoProc
      /\ turn = NoTurn /\ session = NoRow /\ endings = {} /\ deleting = "no"
  BY DEF CliInit
<1>2. RunFits
  <2>1. \A p \in Procs : ~(p <= procs) /\ ~proc[p].alive
    BY <1>1, Fields, CliAssumption DEF Procs
  <2> QED BY <1>1, <2>1, Fields DEF RunFits
<1>3. WaitFits
  BY <1>1, Fields DEF WaitFits
<1>4. RecordFits
  BY <1>1, Fields, NoRowIs DEF RecordFits, Stray
<1>5. SessionsAlone
  BY <1>1, Fields DEF SessionsAlone
<1>6. procs \in 0..MaxProcs /\ cliFaults \in Nat
  BY <1>1, CliAssumption
<1>7. dropped \in BOOLEAN
  BY <1>1, Zenon
<1>8. DOMAIN turn = DOMAIN NoTurn /\ \A p \in Procs : DOMAIN proc[p] = DOMAIN NoProc
  BY <1>1
<1> QED BY <1>1, <1>2, <1>3, <1>4, <1>5, <1>6, <1>7, <1>8 DEF CliInv

\* CliInv is inductive.
THEOREM CliInductive == CliInv /\ [CliNext]_cliVars => CliInv'
<1> SUFFICES ASSUME CliInv, [CliNext]_cliVars PROVE CliInv'
  OBVIOUS
<1>1. CASE UNCHANGED cliVars
  BY <1>1, Elsewhere, Faults DEF cliVars, Rest
<1>2. ASSUME NEW p \in Procs,
             \/ Receive(p) \/ Settle(p) \/ Exit(p)
             \/ CliTakes(p) \/ CliReplies(p) \/ CliCalls(p) \/ CliEchoes(p) \/ CliStops(p) \/ CliDies(p)
      PROVE  CliInv'
  BY <1>2, ReceiveKeeps, SettleKeeps, ExitKeeps, CliTakesKeeps, CliRepliesKeeps, CliCallsKeeps,
     CliEchoesKeeps, CliStopsKeeps, CliDiesKeeps
<1>3. CASE Begin \/ OtherTurn \/ Drain \/ Compact \/ ReturnCli \/ SetAside \/ CallRun \/ StartRun \/ Spawn
  BY <1>3, BeginKeeps, OtherTurnKeeps, DrainKeeps, CompactKeeps, ReturnCliKeeps, SetAsideKeeps,
     CallRunKeeps, StartRunKeeps, SpawnKeeps
<1>4. CASE ReadLine \/ ReadFails \/ AwaitResult \/ Keep \/ SaveReply \/ RunTools \/ AfterReply
  BY <1>4, ReadLineKeeps, ReadFailsKeeps, AwaitResultKeeps, KeepKeeps, SaveReplyKeeps, RunToolsKeeps,
     AfterReplyKeeps
<1>5. CASE Stop \/ DeleteWaits \/ DeleteForgets
  BY <1>5, StopKeeps, DeleteWaitsKeeps, DeleteForgetsKeeps
<1>6. CASE Done
  BY <1>1, <1>6 DEF Done
<1> QED BY <1>1, <1>2, <1>3, <1>4, <1>5, <1>6, Zenon DEF CliNext

\* No two live processes of a conversation are in one session, and no live
\* process has taken a message in a session whose files smelt removed, unless a
\* Stop dropped the wait for it.
THEOREM SessionsKeptAlone == CliSpec => []SessionsAlone
<1>1. CliInv => SessionsAlone
  BY DEF CliInv
<1> QED BY <1>1, CliInitHolds, CliInductive, PTL DEF CliSpec
==============================================================================
