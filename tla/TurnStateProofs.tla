--------------------------- MODULE TurnStateProofs ---------------------------
(***************************************************************************)
(* Proofs about TurnState, for every number of turns, Stops, shown errors, *)
(* faults and rounds: one turn writes at a time, a Stop ends exactly the   *)
(* turns in flight and is noted after the work it cut short, none goes on  *)
(* while the conversation is paused, the count of turns in flight is       *)
(* exact, no two turns mix, their messages are saved in the order they     *)
(* were admitted in, no failure is lost, and nothing is left of an entry   *)
(* not in use.                                                             *)
(***************************************************************************)
EXTENDS TurnState, QueueProofs, FiniteSetTheorems, TLAPS

-----------------------------------------------------------------------------
(* Types.                                                                  *)

\* Leaving the turn lock's queue keeps queues and handles well typed.
LEMMA LeaveQueueType ==
    ASSUME TurnsOK, NEW t \in Turns, LeaveQueue(t)
    PROVE  ref' \in [Turns -> Turns \cup {NoLock}] /\ queue' \in [Turns -> Seq(Turns)]
<1>1. \A l \in Turns : Without(queue[l], t) \in Seq(Turns)
  BY WithoutKeepsHead DEF TurnsOK
<1> QED BY <1>1 DEF LeaveQueue, TurnsOK

\* So does joining it.
LEMMA JoinQueueType ==
    ASSUME EntryOK, TurnsOK, NEW t \in Turns, JoinQueue(t)
    PROVE  /\ lock' \in Turns
           /\ ref' \in [Turns -> Turns \cup {NoLock}]
           /\ queue' \in [Turns -> Seq(Turns)]
<1> DEFINE l == IF lock = NoLock THEN t ELSE lock
<1>1. l \in Turns
  BY DEF EntryOK
<1>2. lock' = l /\ ref' = [ref EXCEPT ![t] = l] /\ queue' = [queue EXCEPT ![l] = Append(queue[l], t)]
  BY DEF JoinQueue
<1> HIDE DEF l
<1>3. Append(queue[l], t) \in Seq(Turns)
  BY <1>1 DEF TurnsOK
<1> QED BY <1>1, <1>2, <1>3 DEF TurnsOK

\* Every action keeps the entry's fields well typed.
LEMMA EntryStep ==
    ASSUME TypeOK, [Next]_vars
    PROVE  EntryOK'
<1> USE DEF TypeOK
<1>1. ASSUME NEW t \in Turns,
             \/ Arrive(t) \/ RefuseWake(t) \/ ConfirmRefused(t) \/ FindConversation(t)
             \/ SaveMessage(t) \/ SaveInGone(t) \/ SaveNothing(t) \/ EndWithNothing(t)
             \/ SaveResults(t) \/ FinishAgent(t) \/ EndAfterTools(t)
      PROVE  EntryOK'
  <2>1. UNCHANGED entryVars
    BY <1>1 DEF Arrive, RefuseWake, ConfirmRefused, FindConversation, SaveMessage, SaveInGone,
                SaveNothing, EndWithNothing, SaveResults, FinishAgent, EndAfterTools
  <2> QED BY <2>1 DEF EntryOK, entryVars, keptVars, owedVars
<1>2. ASSUME NEW t \in Turns,
             \/ StopQueued(t) \/ KeepMessage(t) \/ KeepNothing(t) \/ KeepFails(t) \/ StopBody(t)
             \/ Requeue(t) \/ LockBack(t) \/ SaveBetween(t) \/ FailEarly(t)
      PROVE  EntryOK'
  <2>1. UNCHANGED entryVars
    BY <1>2 DEF StopQueued, KeepMessage, KeepNothing, KeepFails, StopBody, Requeue, LockBack,
                SaveBetween, FailEarly
  <2> QED BY <2>1 DEF EntryOK, entryVars, keptVars, owedVars
<1>3. ASSUME NEW t \in Turns, AdmitByUser(t) \/ AdmitNotice(t)
      PROVE  EntryOK'
  <2>1. lock' \in Turns
    BY <1>3, JoinQueueType DEF AdmitByUser, AdmitNotice, Admit
  <2>2. flags' \subseteq Flags
    BY <1>3 DEF AdmitByUser, AdmitNotice, Admit, EntryOK, Flags
  <2>3. /\ UNCHANGED <<counter, noted, notice, reply>>
        /\ flights' = flights + 1
        /\ att' \in {None, att}
        /\ gen' \in {gen, gen + 1}
        /\ err' \in {err, {}}
        /\ published' \in {published, {}}
    BY <1>3 DEF AdmitByUser, AdmitNotice, Admit, keptVars
  <2> QED BY <2>1, <2>2, <2>3 DEF EntryOK
<1>4. ASSUME NEW t \in Turns, QueueBetween(t)
      PROVE  EntryOK'
  <2>1. lock' \in Turns
    BY <1>4, JoinQueueType DEF QueueBetween
  <2> QED BY <1>4, <2>1 DEF QueueBetween, EntryOK, Flags, keptVars, owedVars
<1>5. ASSUME NEW t \in Turns, Grant(t) \/ SaveAnswer(t) \/ CallModel(t)
      PROVE  EntryOK'
  <2>1. /\ UNCHANGED <<flags, lock, counter, noted, flights, owedVars>>
        /\ gen' \in {gen, gen + 1}
        /\ err' \in {err, {}}
        /\ reply' \in {reply, {}}
    BY <1>5 DEF Grant, SaveAnswer, CallModel, TakeGeneration, keptVars
  <2> QED BY <2>1 DEF EntryOK, owedVars
<1>6. ASSUME NEW t \in Turns, FindGone(t)
      PROVE  EntryOK'
  BY <1>6 DEF FindGone, EntryOK, Flags
<1>7. ASSUME NEW t \in Turns, Stream(t) \/ CallAgain(t) \/ SaveCall(t) \/ Fail(t) \/ FailAtTop(t)
      PROVE  EntryOK'
  <2>1. /\ UNCHANGED <<flags, lock, counter, noted, flights, keptVars, owedVars>>
        /\ reply' \in {reply \cup {t}, {}}
    BY <1>7 DEF Stream, CallAgain, SaveCall, Fail, FailAtTop, FailBody
  <2> QED BY <2>1 DEF EntryOK, keptVars, owedVars
<1>8. ASSUME NEW t \in Turns, NEW a \in {None, CutOff}, SaveReply(t, a)
      PROVE  EntryOK'
  BY <1>8 DEF SaveReply, EntryOK, Larger, keptVars, Attentions, None, Notified, CutOff, Failed, Question
<1>9. ASSUME NEW t \in Turns, NotifyUser(t) \/ AskUser(t)
      PROVE  EntryOK'
  <2>1. /\ UNCHANGED <<lock, counter, noted, flights, keptVars, published, notice, reply>>
        /\ flags' \in {flags, flags \cup {"notified"}}
        /\ att' \in {Larger(att, Notified), Larger(att, Question)}
    BY <1>9 DEF NotifyUser, AskUser
  <2>2. att' \in Attentions \cup {None}
    BY <2>1 DEF EntryOK, Larger, Attentions, None, Notified, CutOff, Failed, Question
  <2> QED BY <2>1, <2>2 DEF EntryOK, keptVars, Flags
<1>10. ASSUME NEW t \in Turns, EndStopped(t)
       PROVE  EntryOK'
  BY <1>10 DEF EndStopped, EntryOK, TurnsOK, Larger, Flags, keptVars, owedVars
<1>11. ASSUME NEW t \in Turns, Settle(t)
       PROVE  EntryOK'
  <2>1. att' \in Attentions \cup {None}
    BY <1>11 DEF Settle, EntryOK, Forgone, OwedAfter, Larger, Attentions, None, Notified, CutOff,
                Failed, Question
  <2> QED BY <1>11, <2>1 DEF Settle, EntryOK
<1>12. ASSUME NEW t \in Turns, DropLast(t)
       PROVE  EntryOK'
  <2>1. published' \subseteq Nat \X Attentions
    BY <1>12 DEF DropLast, Publish, EntryOK, Attentions
  <2>2. lock' \in {lock, NoLock} /\ counter' \in {counter, 0} /\ noted' \in {noted, 0}
    BY <1>12 DEF DropLast, ReleaseIdle
  <2>3. flags' \subseteq flags
    BY <1>12 DEF DropLast, ReleaseIdle, Tidy
  <2>4. /\ UNCHANGED keptVars
        /\ flights' = 0 /\ att' = None /\ reply' = {}
        /\ notice' \in {notice, {gen}}
    BY <1>12 DEF DropLast
  <2> QED BY <2>1, <2>2, <2>3, <2>4 DEF EntryOK, keptVars
<1>13. ASSUME NEW t \in Turns, DropOther(t)
       PROVE  EntryOK'
  BY <1>13 DEF DropOther, EntryOK, keptVars, owedVars
<1>14. ASSUME NEW t \in Turns, AfterBetween(t)
       PROVE  EntryOK'
  <2>1. lock' \in {lock, NoLock} /\ counter' \in {counter, 0} /\ noted' \in {noted, 0}
    BY <1>14 DEF AfterBetween, ReleaseIdle
  <2>2. flags' \subseteq flags
    BY <1>14 DEF AfterBetween, ReleaseIdle, Tidy
  <2> QED BY <1>14, <2>1, <2>2 DEF AfterBetween, EntryOK, keptVars, owedVars
<1>15. CASE Stop \/ DeleteMark
  <2>1. /\ UNCHANGED <<lock, noted, flights, keptVars, owedVars, reply>>
        /\ flags' = flags \cup {"entry", "paused"}
        /\ counter' \in {counter, counter + 1}
    BY <1>15 DEF Stop, DeleteMark, StopTurnNow
  <2> QED BY <2>1 DEF EntryOK, Flags, keptVars, owedVars
<1>16. CASE ShowError
  BY <1>16 DEF ShowError, EntryOK, Flags, owedVars
<1>17. CASE CheckAfterWrite \/ DeleteForget \/ DeleteRows \/ DeleteFails
  <2>1. Forget \/ UNCHANGED entryVars
    BY <1>17 DEF CheckAfterWrite, DeleteForget, DeleteRows, DeleteFails
  <2>2. CASE UNCHANGED entryVars
    BY <2>2 DEF EntryOK, entryVars, keptVars, owedVars
  <2>3. CASE Forget /\ "entry" \in flags
    <3>1. flags' \subseteq flags \cup {"forgotten"}
      BY <2>3 DEF Forget, Tidy
    <3> QED BY <2>3, <3>1 DEF Forget, EntryOK, Flags
  <2>4. CASE Forget /\ "entry" \notin flags
    BY <2>2, <2>4 DEF Forget
  <2> QED BY <2>1, <2>2, <2>3, <2>4
<1>18. CASE TrustDecided
  <2>1. flags' \subseteq flags
    BY <1>18 DEF TrustDecided, Tidy
  <2> QED BY <1>18, <2>1 DEF TrustDecided, EntryOK, keptVars
<1>19. CASE UNCHANGED vars
  BY <1>19 DEF vars, entryVars, keptVars, owedVars, EntryOK
<1> QED BY <1>1, <1>2, <1>3, <1>4, <1>5, <1>6, <1>7, <1>8, <1>9, <1>10, <1>11, <1>12, <1>13,
           <1>14, <1>15, <1>16, <1>17, <1>18, <1>19
        DEF Next, Admission, Start, RunBody, Streaming, Stopping, Ending, Between, Faulty, Outside

\* Every action keeps the turns' own state well typed.
LEMMA TurnsStep ==
    ASSUME TypeOK, [Next]_vars
    PROVE  TurnsOK'
<1> USE DEF TypeOK
<1>1. ASSUME NEW t \in Turns,
             \/ Arrive(t) \/ RefuseWake(t) \/ FindConversation(t) \/ SaveMessage(t)
             \/ SaveNothing(t) \/ SaveResults(t) \/ KeepMessage(t) \/ KeepNothing(t)
             \/ KeepFails(t) \/ LockBack(t) \/ Settle(t) \/ AfterBetween(t)
             \/ NotifyUser(t) \/ FinishAgent(t) \/ AskUser(t)
      PROVE  TurnsOK'
  <2>1. /\ UNCHANGED <<lockVars, kind, hearing, seen, mine, took, rounds, outcome>>
        /\ \E s \in States : pc' = [pc EXCEPT ![t] = s]
    BY <1>1 DEF Arrive, RefuseWake, FindConversation, SaveMessage, SaveNothing, SaveResults,
                KeepMessage, KeepNothing, KeepFails, LockBack, Settle, AfterBetween, NotifyUser,
                FinishAgent, AskUser, States
  <2> QED BY <2>1 DEF TurnsOK, lockVars
<1>2. ASSUME NEW t \in Turns, AdmitByUser(t) \/ AdmitNotice(t)
      PROVE  TurnsOK'
  <2>1. ref' \in [Turns -> Turns \cup {NoLock}] /\ queue' \in [Turns -> Seq(Turns)]
    BY <1>2, JoinQueueType DEF AdmitByUser, AdmitNotice, Admit
  <2>2. /\ UNCHANGED <<kind, took, rounds, outcome>>
        /\ pc' = [pc EXCEPT ![t] = "queued"]
        /\ hearing' = hearing \cup {t}
        /\ seen' = [seen EXCEPT ![t] = counter]
        /\ mine' = mine \/ mine' = [mine EXCEPT ![t] = gen + 1]
    BY <1>2 DEF AdmitByUser, AdmitNotice, Admit
  <2>3. counter \in Nat /\ gen + 1 \in Nat
    BY DEF EntryOK
  <2>4. seen' \in [Turns -> Nat]
    BY <2>2, <2>3 DEF TurnsOK
  <2>5. mine' \in [Turns -> Nat]
    BY <2>2, <2>3 DEF TurnsOK
  <2> QED BY <2>1, <2>2, <2>4, <2>5 DEF TurnsOK, States
<1>3. ASSUME NEW t \in Turns, QueueBetween(t)
      PROVE  TurnsOK'
  <2>1. ref' \in [Turns -> Turns \cup {NoLock}] /\ queue' \in [Turns -> Seq(Turns)]
    BY <1>3, JoinQueueType DEF QueueBetween
  <2> QED BY <1>3, <2>1 DEF QueueBetween, TurnsOK, States
<1>4. ASSUME NEW t \in Turns, Grant(t) \/ SaveAnswer(t) \/ CallModel(t)
      PROVE  TurnsOK'
  <2>1. /\ UNCHANGED <<lockVars, kind, hearing, seen, rounds, outcome>>
        /\ \E s \in States : pc' = [pc EXCEPT ![t] = s]
        /\ mine' = mine \/ mine' = [mine EXCEPT ![t] = gen + 1]
        /\ took' \subseteq took \cup {t}
    BY <1>4 DEF Grant, SaveAnswer, CallModel, TakeGeneration, States
  <2>2. gen + 1 \in Nat
    BY DEF EntryOK
  <2>3. mine' \in [Turns -> Nat]
    BY <2>1, <2>2 DEF TurnsOK
  <2> QED BY <2>1, <2>3 DEF TurnsOK, lockVars
<1>5. ASSUME NEW t \in Turns, ConfirmRefused(t) \/ SaveBetween(t)
      PROVE  TurnsOK'
  <2>1. ref' \in [Turns -> Turns \cup {NoLock}] /\ queue' \in [Turns -> Seq(Turns)]
    BY <1>5, LeaveQueueType DEF ConfirmRefused, SaveBetween
  <2> QED BY <1>5, <2>1 DEF ConfirmRefused, SaveBetween, TurnsOK, States
<1>6. ASSUME NEW t \in Turns,
             \/ FindGone(t) \/ SaveInGone(t) \/ FailEarly(t) \/ EndWithNothing(t)
             \/ (\E a \in {None, CutOff} : SaveReply(t, a)) \/ EndAfterTools(t) \/ Fail(t)
             \/ FailAtTop(t) \/ EndStopped(t)
      PROVE  TurnsOK'
  <2>1. /\ UNCHANGED <<kind, hearing, seen, mine, took, rounds>>
        /\ End(t, "ok") \/ End(t, "failed") \/ End(t, "stopped")
    BY <1>6 DEF FindGone, SaveInGone, FailEarly, EndWithNothing, SaveReply, EndAfterTools,
                Fail, FailAtTop, FailBody, EndStopped
  <2>2. ref' \in [Turns -> Turns \cup {NoLock}] /\ queue' \in [Turns -> Seq(Turns)]
    BY <2>1, LeaveQueueType DEF End
  <2>3. pc' = [pc EXCEPT ![t] = "ended"]
    BY <2>1 DEF End
  <2>4. outcome' \in [Turns -> {"none", "ok", "failed", "stopped"}]
    BY <2>1 DEF End, TurnsOK
  <2> QED BY <2>1, <2>2, <2>3, <2>4 DEF TurnsOK, States
<1>7. ASSUME NEW t \in Turns, CallAgain(t) \/ SaveCall(t)
      PROVE  TurnsOK'
  <2>1. /\ UNCHANGED <<lockVars, kind, hearing, seen, mine, took, outcome>>
        /\ \E s \in {"top", "tools"} : pc' = [pc EXCEPT ![t] = s]
        /\ rounds' = [rounds EXCEPT ![t] = rounds[t] + 1]
    BY <1>7 DEF CallAgain, SaveCall
  <2>2. rounds[t] + 1 \in Nat
    BY DEF TurnsOK
  <2>3. rounds' \in [Turns -> Nat]
    BY <2>1, <2>2 DEF TurnsOK
  <2>4. pc' \in [Turns -> States]
    BY <2>1 DEF TurnsOK, States
  <2> QED BY <2>1, <2>3, <2>4 DEF TurnsOK, lockVars
<1>8. ASSUME NEW t \in Turns, StopQueued(t)
      PROVE  TurnsOK'
  BY <1>8 DEF StopQueued, StoppedBy, TurnsOK, EntryOK, States, lockVars
<1>9. ASSUME NEW t \in Turns, StopBody(t)
      PROVE  TurnsOK'
  <2>1. \A l \in Turns : Without(queue[l], t) \in Seq(Turns)
    BY WithoutKeepsHead DEF TurnsOK
  <2>2. queue' \in [Turns -> Seq(Turns)]
    BY <1>9, <2>1 DEF StopBody, TurnsOK
  <2> QED BY <1>9, <2>2 DEF StopBody, StoppedBy, TurnsOK, EntryOK, States
<1>10. ASSUME NEW t \in Turns, Requeue(t)
       PROVE  TurnsOK'
  <2>1. \A l \in Turns : Append(queue[l], t) \in Seq(Turns)
    BY DEF TurnsOK
  <2>2. queue' \in [Turns -> Seq(Turns)]
    BY <1>10, <2>1 DEF Requeue, TurnsOK
  <2> QED BY <1>10, <2>2 DEF Requeue, TurnsOK, States
<1>11. ASSUME NEW t \in Turns, DropLast(t) \/ DropOther(t)
       PROVE  TurnsOK'
  <2>1. UNCHANGED lockVars /\ TurnGone(t)
    BY <1>11 DEF DropLast, DropOther
  <2> QED BY <2>1 DEF TurnGone, TurnsOK, States, lockVars
<1>12. ASSUME NEW t \in Turns, Stream(t)
       PROVE  TurnsOK'
  BY <1>12 DEF Stream, TurnsOK, turnVars, lockVars
<1>13. CASE Stop \/ ShowError \/ TrustDecided \/ DeleteMark \/ DeleteRows \/ DeleteFails
  <2>1. UNCHANGED <<lockVars, turnVars>>
    BY <1>13 DEF Stop, StopTurnNow, ShowError, TrustDecided, DeleteMark, DeleteRows, DeleteFails
  <2> QED BY <2>1 DEF TurnsOK, turnVars, lockVars
<1>14. CASE CheckAfterWrite \/ DeleteForget
  <2>1. /\ UNCHANGED <<lockVars, pc, kind, mine, took, rounds, outcome>>
        /\ Forget \/ UNCHANGED <<hearing, seen>>
    BY <1>14 DEF CheckAfterWrite, DeleteForget
  <2>2. /\ hearing' \in {hearing, {}}
        /\ seen' = seen \/ seen' = [t \in Turns |-> IF t \in hearing THEN counter ELSE seen[t]]
    BY <2>1 DEF Forget
  <2>3. seen' \in [Turns -> Nat]
    BY <2>2 DEF TurnsOK, EntryOK
  <2> QED BY <2>1, <2>2, <2>3 DEF TurnsOK, lockVars
<1>15. CASE UNCHANGED vars
  BY <1>15 DEF vars, turnVars, lockVars, TurnsOK
<1> QED BY <1>1, <1>2, <1>3, <1>4, <1>5, <1>6, <1>7, <1>8, <1>9, <1>10, <1>11, <1>12, <1>13,
           <1>14, <1>15
        DEF Next, Admission, Start, RunBody, Streaming, Stopping, Ending, Between, Faulty, Outside

\* Every action keeps what is outside the turns well typed.
LEMMA OutsideStep ==
    ASSUME TypeOK, [Next]_vars
    PROVE  OutsideOK'
<1> USE DEF TypeOK
<1>1. ASSUME NEW t \in Turns, NEW w \in Writes, Write(w, t)
      PROVE  log' \in Seq(Writes \X Turns)
  BY <1>1 DEF Write, OutsideOK
<1> DEFINE Logged(t) == log' = log \/ \E w \in Writes : Write(w, t)
           Tallied == UNCHANGED envVars
                       \/ (UNCHANGED <<deleting, checks, stopped, shown>> /\ faults' = faults + 1)
<1>2. ASSUME NEW t \in Turns, Logged(t), Tallied
      PROVE  OutsideOK'
  <2>1. log' \in Seq(Writes \X Turns)
    BY <1>1, <1>2 DEF OutsideOK
  <2>2. faults' = faults \/ faults' = faults + 1
    BY <1>2 DEF envVars
  <2>3. faults' \in Nat
    BY <2>2 DEF OutsideOK
  <2> QED BY <1>2, <2>1, <2>3 DEF OutsideOK, envVars
<1>3. ASSUME NEW t \in Turns, Admission(t) \/ Start(t)
      PROVE  Logged(t) /\ Tallied
  <2>1. CASE Admission(t)
    BY <1>3, <2>1 DEF Admission, Arrive, AdmitByUser, AdmitNotice, Admit, RefuseWake, QueueBetween,
                      ConfirmRefused
  <2>2. CASE Start(t)
    BY <1>3, <2>2 DEF Start, Grant, FindConversation, FindGone, SaveMessage, SaveInGone, SaveAnswer,
                      SaveNothing, Writes
  <2> QED BY <1>3, <2>1, <2>2
<1>4. ASSUME NEW t \in Turns, RunBody(t) \/ Streaming(t)
      PROVE  Logged(t) /\ Tallied
  BY <1>4 DEF RunBody, Streaming, EndWithNothing, CallModel, SaveReply, CallAgain, SaveCall,
              SaveResults, NotifyUser, FinishAgent, AskUser, EndAfterTools, Fail, FailAtTop, FailBody,
              Fault, Stream, Writes, envVars
<1>5. ASSUME NEW t \in Turns, Stopping(t) \/ Ending(t)
      PROVE  Logged(t) /\ Tallied
  <2>1. CASE Stopping(t)
    <3>1. CASE EndStopped(t)
      BY <3>1 DEF EndStopped, Fault, envVars, Writes
    <3>2. CASE ~ EndStopped(t)
      BY <2>1, <3>2 DEF Stopping, StopQueued, KeepMessage, KeepNothing, StopBody, Requeue, LockBack,
                        Writes
    <3> QED BY <3>1, <3>2
  <2>2. CASE Ending(t)
    BY <2>2 DEF Ending, Settle, DropLast, DropOther
  <2> QED BY <1>5, <2>1, <2>2
<1>6. ASSUME NEW t \in Turns, Between(t) \/ Faulty(t)
      PROVE  Logged(t) /\ Tallied
  BY <1>6 DEF Between, SaveBetween, AfterBetween, Faulty, FailEarly, KeepFails,
              Fault, Writes, envVars
<1>7. CASE Outside
  <2>1. /\ log' = log
        /\ deleting' \in {"no", "marked", "deleted", "over"}
        /\ checks' \in {checks, checks + 1} \/ (checks > 0 /\ checks' = checks - 1)
        /\ stopped' \in {stopped, stopped + 1}
        /\ shown' \in {shown, shown + 1}
        /\ faults' \in {faults, faults + 1}
    BY <1>7 DEF Outside, Stop, StopTurnNow, ShowError, CheckAfterWrite, TrustDecided, DeleteMark,
                DeleteRows, DeleteFails, DeleteForget, Fault, OutsideOK, envVars
  <2>2. checks' \in Nat
    BY <2>1 DEF OutsideOK
  <2>3. stopped' \in Nat /\ shown' \in Nat /\ faults' \in Nat
    BY <2>1 DEF OutsideOK
  <2> QED BY <2>1, <2>2, <2>3 DEF OutsideOK
<1>8. CASE UNCHANGED vars
  BY <1>8 DEF vars, envVars, OutsideOK
<1> HIDE DEF Logged, Tallied
<1> QED BY <1>2, <1>3, <1>4, <1>5, <1>6, <1>7, <1>8 DEF Next

\* Every action keeps the history variables well typed.
LEMMA HistoryStep ==
    ASSUME TypeOK, [Next]_vars
    PROVE  HistoryOK'
<1> USE DEF TypeOK
<1>1. ASSUME NEW t \in Turns, AdmitByUser(t) \/ AdmitNotice(t)
      PROVE  HistoryOK'
  <2>1. /\ order' = Append(order, t) /\ due' = due
        /\ spell' \in {{t}, spell \cup {t}}
    BY <1>1 DEF AdmitByUser, AdmitNotice, Admit
  <2>2. order' \in Seq(Turns)
    BY <2>1 DEF HistoryOK
  <2> QED BY <2>1, <2>2 DEF HistoryOK
<1>2. ASSUME NEW t \in Turns,
             \/ Arrive(t) \/ RefuseWake(t) \/ QueueBetween(t) \/ ConfirmRefused(t) \/ Start(t)
             \/ RunBody(t) \/ Streaming(t)
      PROVE  UNCHANGED histVars
  BY <1>2 DEF Arrive, RefuseWake, QueueBetween, ConfirmRefused, Start, Grant, FindConversation,
              FindGone, SaveMessage, SaveInGone, SaveAnswer, SaveNothing, RunBody, Streaming,
              EndWithNothing, CallModel, SaveReply, CallAgain, SaveCall, SaveResults, NotifyUser,
              FinishAgent, AskUser, EndAfterTools, Fail,
              FailAtTop, FailBody, Stream
<1>3. ASSUME NEW t \in Turns, Stopping(t) \/ Ending(t) \/ Between(t) \/ Faulty(t)
      PROVE  UNCHANGED histVars
  BY <1>3 DEF Stopping, StopQueued, KeepMessage, KeepNothing, StopBody, Requeue, LockBack,
              EndStopped, Ending, Settle, DropLast, DropOther, Between, SaveBetween, AfterBetween,
              Faulty, FailEarly, KeepFails
<1>4. CASE Outside
  <2>1. UNCHANGED <<order, spell>> /\ due' \in {due, due \cup InFlight}
    BY <1>4 DEF Outside, Stop, StopTurnNow, ShowError, CheckAfterWrite, Forget, TrustDecided,
                DeleteMark, DeleteRows, DeleteFails, DeleteForget, histVars
  <2> QED BY <2>1 DEF HistoryOK, InFlight
<1>5. CASE UNCHANGED histVars
  BY <1>5 DEF histVars, HistoryOK
<1>6. CASE UNCHANGED vars
  BY <1>5, <1>6 DEF vars
<1> QED BY <1>1, <1>2, <1>3, <1>4, <1>5, <1>6 DEF Next, Admission

\* TypeOK is inductive.
LEMMA TypeStep ==
    ASSUME TypeOK, [Next]_vars
    PROVE  TypeOK'
BY EntryStep, TurnsStep, OutsideStep, HistoryStep DEF TypeOK

-----------------------------------------------------------------------------
(* The turn lock.                                                          *)

\* Whoever holds a turn lock keeps it while another joins or leaves a queue.
LEMMA HoldsStill ==
    ASSUME TurnsOK, EntryOK, NEW t \in Turns, NEW u \in Turns, u # t, Holds(u),
           \/ JoinQueue(t)
           \/ LeaveQueue(t)
           \/ queue' = [queue EXCEPT ![ref[t]] = Without(@, t)] /\ ref' = ref
           \/ queue' = [queue EXCEPT ![ref[t]] = Append(@, t)] /\ ref' = ref
    PROVE  Holds(u)'
<1> DEFINE l == ref[u]
           q == queue[l]
<1>1. l \in Turns /\ q \in Seq(Turns) /\ q # <<>> /\ Head(q) = u
  BY DEF Holds, TurnsOK
<1>2. ref'[u] = l
  BY DEF JoinQueue, LeaveQueue, TurnsOK
<1>3. queue'[l] = q \/ queue'[l] = Append(q, t) \/ queue'[l] = Without(q, t)
  BY <1>1 DEF JoinQueue, LeaveQueue, TurnsOK
<1>4. Append(q, t) # <<>> /\ Head(Append(q, t)) = u
  BY <1>1, AppendKeepsHead
<1>5. Without(q, t) # <<>> /\ Head(Without(q, t)) = u
  BY <1>1, WithoutKeepsHead
<1> HIDE DEF l, q
<1>6. l # NoLock
  BY <1>1, TurnStateAssumption
<1> QED BY <1>1, <1>2, <1>3, <1>4, <1>5, <1>6 DEF Holds

\* No step brings a deleted conversation back.
LEMMA StaysGone ==
    ASSUME [Next]_vars, Exists'
    PROVE  Exists
<1>1. ASSUME NEW t \in Turns, Admission(t) \/ Start(t) \/ RunBody(t) \/ Streaming(t)
      PROVE  UNCHANGED deleting
  BY <1>1 DEF Admission, Arrive, AdmitByUser, AdmitNotice, Admit, RefuseWake, QueueBetween,
              ConfirmRefused, Start, Grant, FindConversation, FindGone, SaveMessage, SaveInGone,
              SaveAnswer, SaveNothing, RunBody, Streaming, EndWithNothing, CallModel, SaveReply,
              CallAgain, SaveCall, SaveResults, NotifyUser, FinishAgent, AskUser, EndAfterTools, Fail,
              FailAtTop, FailBody, Stream, envVars
<1>2. ASSUME NEW t \in Turns, Stopping(t) \/ Ending(t) \/ Between(t) \/ Faulty(t)
      PROVE  UNCHANGED deleting
  BY <1>2 DEF Stopping, StopQueued, KeepMessage, KeepNothing, StopBody, Requeue, LockBack,
              EndStopped, Ending, Settle, DropLast, DropOther, Between, SaveBetween, AfterBetween,
              Faulty, FailEarly, KeepFails, envVars
<1>3. CASE Outside
  BY <1>3 DEF Outside, Stop, StopTurnNow, ShowError, CheckAfterWrite, TrustDecided,
              DeleteMark, DeleteRows, DeleteFails, DeleteForget, Exists, envVars
<1>4. CASE UNCHANGED vars
  BY <1>4 DEF vars, envVars, Exists
<1> QED BY <1>1, <1>2, <1>3, <1>4 DEF Next, Exists

\* What a step does to the turn lock, its handles and its queues, and who
\* may write after it.
Locking ==
    \/ /\ UNCHANGED <<lock, lockVars>>
       /\ \/ UNCHANGED pc
          \/ \E t \in Turns, s \in States : /\ pc' = [pc EXCEPT ![t] = s]
                                            /\ s \in Writing => pc[t] \in Writing \/ Holds(t)
    \/ \E t \in Turns, s \in States \ Writing :
          /\ pc' = [pc EXCEPT ![t] = s]
          /\ \/ JoinQueue(t)
             \/ UNCHANGED lock /\ LeaveQueue(t)
             \/ UNCHANGED <<lock, ref>> /\ queue' = [queue EXCEPT ![ref[t]] = Without(@, t)]
             \/ UNCHANGED <<lock, ref>> /\ queue' = [queue EXCEPT ![ref[t]] = Append(@, t)]
             \/ /\ UNCHANGED lockVars
                /\ lock' = IF \E u \in Turns : ref[u] = lock THEN lock ELSE NoLock
    \/ /\ UNCHANGED <<lockVars, pc>>
       /\ ~ Exists /\ lock' \in {lock, NoLock}

\* Every step is one of those: only release_idle and, once the conversation
\* is gone, forget_conversation_lock drop the lock.
LEMMA LockingStep ==
    ASSUME TypeOK, [Next]_vars
    PROVE  Locking
<1>1. ASSUME NEW t \in Turns, Arrive(t) \/ RefuseWake(t) \/ Settle(t) \/ DropOther(t) \/ StopQueued(t)
      PROVE  Locking
  BY <1>1 DEF Locking, Arrive, RefuseWake, Settle, DropOther, TurnGone, StopQueued, entryVars, States,
              Writing
<1>2. ASSUME NEW t \in Turns,
             \/ Grant(t) \/ KeepMessage(t) \/ KeepNothing(t) \/ KeepFails(t) \/ LockBack(t)
      PROVE  Locking
  BY <1>2 DEF Locking, Grant, KeepMessage, KeepNothing, KeepFails, LockBack, entryVars, States
<1>3. ASSUME NEW t \in Turns,
             \/ FindConversation(t) \/ SaveMessage(t) \/ SaveAnswer(t) \/ SaveNothing(t)
             \/ CallModel(t) \/ CallAgain(t) \/ SaveCall(t) \/ SaveResults(t) \/ Stream(t)
             \/ NotifyUser(t) \/ FinishAgent(t) \/ AskUser(t)
      PROVE  Locking
  BY <1>3 DEF Locking, FindConversation, SaveMessage, SaveAnswer, SaveNothing, CallModel, CallAgain,
              SaveCall, SaveResults, Stream, NotifyUser, FinishAgent, AskUser, entryVars, turnVars,
              States, Writing
<1>4. ASSUME NEW t \in Turns, AdmitByUser(t) \/ AdmitNotice(t) \/ QueueBetween(t)
      PROVE  Locking
  BY <1>4 DEF Locking, AdmitByUser, AdmitNotice, Admit, QueueBetween, States, Writing
<1>5. ASSUME NEW t \in Turns,
             \/ ConfirmRefused(t) \/ SaveBetween(t) \/ FindGone(t) \/ SaveInGone(t) \/ FailEarly(t)
             \/ EndWithNothing(t) \/ (\E a \in {None, CutOff} : SaveReply(t, a)) \/ EndAfterTools(t)
             \/ Fail(t) \/ FailAtTop(t) \/ EndStopped(t)
      PROVE  Locking
  <2>1. LeaveQueue(t) /\ UNCHANGED lock
    BY <1>5 DEF ConfirmRefused, SaveBetween, FindGone, SaveInGone, FailEarly, EndWithNothing,
                SaveReply, EndAfterTools, Fail, FailAtTop, FailBody, EndStopped, End, entryVars
  <2>2. \E s \in {"settled", "after", "ended"} : pc' = [pc EXCEPT ![t] = s]
    BY <1>5 DEF ConfirmRefused, SaveBetween, FindGone, SaveInGone, FailEarly, EndWithNothing,
                SaveReply, EndAfterTools, Fail, FailAtTop, FailBody, EndStopped, End
  <2> QED BY <2>1, <2>2 DEF Locking, States, Writing
<1>6. ASSUME NEW t \in Turns, StopBody(t) \/ Requeue(t)
      PROVE  Locking
  BY <1>6 DEF Locking, StopBody, Requeue, entryVars, States, Writing
<1>7. ASSUME NEW t \in Turns, DropLast(t) \/ AfterBetween(t)
      PROVE  Locking
  BY <1>7 DEF Locking, DropLast, TurnGone, AfterBetween, ReleaseIdle, States, Writing
<1>8. CASE Outside
  BY <1>8 DEF Locking, Outside, Stop, StopTurnNow, ShowError, CheckAfterWrite, TrustDecided,
              DeleteMark, DeleteRows, DeleteFails, DeleteForget, Forget, Exists, entryVars, turnVars
<1>9. CASE UNCHANGED vars
  BY <1>9 DEF Locking, vars, entryVars, turnVars
<1> QED BY <1>1, <1>2, <1>3, <1>4, <1>5, <1>6, <1>7, <1>8, <1>9
        DEF Next, Admission, Start, RunBody, Streaming, Stopping, Ending, Between, Faulty

\* Writers go on holding a lock.
LEMMA WritersStep ==
    ASSUME TypeOK, WritersHold, Locking
    PROVE  WritersHold'
<1> SUFFICES ASSUME NEW u \in Turns, pc'[u] \in Writing
             PROVE  Holds(u)'
  BY DEF WritersHold
<1>1. CASE UNCHANGED lockVars
  <2>1. pc[u] \in Writing \/ Holds(u)
    BY DEF Locking, TypeOK, TurnsOK
  <2>2. Holds(u)
    BY <2>1 DEF WritersHold
  <2> QED BY <1>1, <2>2 DEF Holds, lockVars
<1>2. CASE ~ UNCHANGED lockVars
  <2>1. PICK t \in Turns, s \in States \ Writing :
          /\ pc' = [pc EXCEPT ![t] = s]
          /\ \/ JoinQueue(t)
             \/ LeaveQueue(t)
             \/ ref' = ref /\ queue' = [queue EXCEPT ![ref[t]] = Without(@, t)]
             \/ ref' = ref /\ queue' = [queue EXCEPT ![ref[t]] = Append(@, t)]
    BY <1>2 DEF Locking, lockVars
  <2>2. u # t /\ pc[u] \in Writing
    BY <2>1 DEF TypeOK, TurnsOK
  <2>3. Holds(u)
    BY <2>2 DEF WritersHold
  <2> QED BY <2>1, <2>2, <2>3, HoldsStill DEF TypeOK
<1> QED BY <1>1, <1>2

\* The handles go on agreeing: a lock is made only when nobody has a handle
\* on one, and dropped only then.
LEMMA LocksStep ==
    ASSUME TypeOK, LocksAgree, Locking, Exists' => Exists
    PROVE  LocksAgree'
<1> SUFFICES ASSUME Exists', NEW u \in Turns, ref'[u] # NoLock
             PROVE  ref'[u] = lock'
  BY DEF LocksAgree
<1>1. Exists /\ (ref[u] # NoLock => ref[u] = lock)
  BY DEF LocksAgree
<1>2. CASE \E t \in Turns : JoinQueue(t)
  BY <1>1, <1>2 DEF JoinQueue, TypeOK, TurnsOK, LocksAgree
<1>3. CASE \E t \in Turns : UNCHANGED lock /\ LeaveQueue(t)
  BY <1>1, <1>3 DEF LeaveQueue, TypeOK, TurnsOK
<1>4. CASE UNCHANGED <<lock, ref>>
  BY <1>1, <1>4
<1>5. CASE UNCHANGED lockVars /\ lock' = IF \E v \in Turns : ref[v] = lock THEN lock ELSE NoLock
  BY <1>1, <1>5 DEF lockVars
<1> QED BY <1>1, <1>2, <1>3, <1>4, <1>5 DEF Locking, lockVars

-----------------------------------------------------------------------------
(* Stops.                                                                  *)

Caught == {"stopQueued", "stopBody", "stopWait", "noting"}

\* A step that no receiver and no Stop has a part in: at most one turn moves,
\* and neither begins to listen nor is caught by it.
Unheard ==
    /\ UNCHANGED <<hearing, seen, counter, due>>
    /\ "stops" \in flags => "stops" \in flags'
    /\ "paused" \in flags' => "paused" \in flags
    /\ \/ UNCHANGED <<pc, outcome>>
       \/ \E t \in Turns, s \in States :
             /\ pc' = [pc EXCEPT ![t] = s]
             /\ s \in Listening => pc[t] \in Listening
             /\ s \in Caught => pc[t] \in Caught
             /\ s \in {"idle", "checked"} => pc[t] = "idle"
             /\ \/ outcome' = outcome
                \/ \E how \in {"ok", "failed"} : outcome' = [outcome EXCEPT ![t] = how]
                \/ outcome' = [outcome EXCEPT ![t] = "stopped"] /\ pc[t] \in Caught

\* Such a step keeps what is known of stops.
LEMMA UnheardKeeps ==
    ASSUME TypeOK, ReceiversFit, AllDueFit, Unheard
    PROVE  ReceiversFit' /\ AllDueFit'
<1>1. ReceiversFit'
  BY DEF ReceiversFit, Unheard
<1>2. ASSUME NEW u \in Turns
      PROVE  DueFits(u)'
  <2>1. DueFits(u)
    BY DEF AllDueFit
  <2>2. (News(u)' <=> News(u)) /\ (Paused' => Paused) /\ due' = due
    BY DEF Unheard, News, Paused
  <2>3. /\ pc'[u] \in Listening => pc[u] \in Listening
        /\ pc'[u] \in Caught => pc[u] \in Caught
        /\ pc'[u] \in {"idle", "checked"} => pc[u] \in {"idle", "checked"}
        /\ outcome'[u] = "stopped" => outcome[u] = "stopped" \/ pc[u] \in Caught
    BY DEF Unheard, TypeOK, TurnsOK
  <2> QED BY <2>1, <2>2, <2>3 DEF DueFits, Caught
<1> QED BY <1>1, <1>2 DEF AllDueFit

\* Most actions are such steps.
LEMMA UnheardSteps ==
    ASSUME TypeOK, NEW t \in Turns,
           \/ Arrive(t) \/ RefuseWake(t) \/ QueueBetween(t) \/ ConfirmRefused(t) \/ Start(t)
           \/ RunBody(t) \/ Streaming(t) \/ Faulty(t) \/ KeepMessage(t) \/ KeepNothing(t)
           \/ Requeue(t) \/ LockBack(t) \/ EndStopped(t) \/ Settle(t) \/ SaveBetween(t)
    PROVE  Unheard
<1> USE DEF States, Listening, Caught
<1>1. CASE Arrive(t) \/ RefuseWake(t) \/ QueueBetween(t) \/ ConfirmRefused(t)
  BY <1>1 DEF Unheard, Arrive, RefuseWake, QueueBetween, ConfirmRefused, entryVars, histVars
<1>2. CASE Grant(t) \/ FindConversation(t) \/ SaveMessage(t) \/ SaveAnswer(t) \/ SaveNothing(t)
  BY <1>2 DEF Unheard, Grant, FindConversation, SaveMessage, SaveAnswer, SaveNothing, entryVars,
              histVars
<1>3. CASE FindGone(t) \/ SaveInGone(t) \/ FailEarly(t) \/ EndWithNothing(t)
  BY <1>3 DEF Unheard, FindGone, SaveInGone, FailEarly, EndWithNothing, End, entryVars, histVars
<1>4. CASE CallModel(t) \/ CallAgain(t) \/ SaveCall(t) \/ SaveResults(t) \/ Stream(t)
  BY <1>4 DEF Unheard, CallModel, CallAgain, SaveCall, SaveResults, Stream, entryVars, turnVars,
              histVars
<1>5. CASE (\E a \in {None, CutOff} : SaveReply(t, a)) \/ EndAfterTools(t)
  BY <1>5 DEF Unheard, SaveReply, EndAfterTools, End, entryVars, histVars
<1>10. CASE NotifyUser(t) \/ FinishAgent(t) \/ AskUser(t)
  BY <1>10 DEF Unheard, NotifyUser, FinishAgent, AskUser, entryVars, histVars
<1>6. CASE Fail(t) \/ FailAtTop(t)
  BY <1>6 DEF Unheard, Fail, FailAtTop, FailBody, End, histVars
<1>7. CASE KeepMessage(t) \/ KeepNothing(t) \/ KeepFails(t) \/ Requeue(t) \/ LockBack(t)
  BY <1>7 DEF Unheard, KeepMessage, KeepNothing, KeepFails, Requeue, LockBack, entryVars, histVars
<1>8. CASE EndStopped(t)
  BY <1>8 DEF Unheard, EndStopped, End, histVars
<1>9. CASE Settle(t) \/ SaveBetween(t)
  BY <1>9 DEF Unheard, Settle, SaveBetween, entryVars, histVars
<1> QED BY <1>1, <1>2, <1>3, <1>4, <1>5, <1>6, <1>7, <1>8, <1>9, <1>10
        DEF Start, RunBody, Streaming, Faulty

\* A turn admitted listens for the Stops to come, and was due at none before.
LEMMA AdmitKeeps ==
    ASSUME TypeOK, ReceiversFit, AllDueFit, NEW t \in Turns, AdmitByUser(t) \/ AdmitNotice(t)
    PROVE  ReceiversFit' /\ AllDueFit'
<1>1. /\ pc[t] = "checked" /\ pc' = [pc EXCEPT ![t] = "queued"]
      /\ hearing' = hearing \cup {t} /\ seen' = [seen EXCEPT ![t] = counter]
      /\ counter' = counter /\ due' = due /\ outcome' = outcome
      /\ "stops" \in flags' /\ "paused" \notin flags'
  BY DEF AdmitByUser, AdmitNotice, Admit, Paused
<1>2. counter \in Nat /\ seen'[t] = counter /\ pc'[t] = "queued"
  BY <1>1 DEF TypeOK, EntryOK, TurnsOK
<1>3. ReceiversFit'
  BY <1>1, <1>2 DEF ReceiversFit, TypeOK, TurnsOK
<1>4. DueFits(t)'
  <2>1. t \notin due /\ outcome[t] # "stopped"
    BY <1>1 DEF AllDueFit, DueFits
  <2>2. ~ News(t)'
    BY <1>1, <1>2 DEF News
  <2> QED BY <1>1, <1>2, <2>1, <2>2 DEF DueFits, Paused
<1>5. ASSUME NEW u \in Turns, u # t
      PROVE  DueFits(u)'
  <2>1. DueFits(u) /\ pc'[u] = pc[u] /\ (News(u)' <=> News(u))
    BY <1>1, <1>5 DEF AllDueFit, News, TypeOK, TurnsOK
  <2> QED BY <1>1, <2>1 DEF DueFits, Paused
<1> QED BY <1>3, <1>4, <1>5 DEF AllDueFit

\* A turn is caught by a Stop it was due at.
LEMMA CaughtKeeps ==
    ASSUME TypeOK, ReceiversFit, AllDueFit, NEW t \in Turns, StopQueued(t) \/ StopBody(t)
    PROVE  ReceiversFit' /\ AllDueFit'
<1>1. /\ pc[t] \in Listening /\ News(t)
      /\ \E s \in {"stopQueued", "stopBody"} : pc' = [pc EXCEPT ![t] = s]
      /\ seen' = [seen EXCEPT ![t] = StoppedBy(t)]
      /\ UNCHANGED <<flags, counter, hearing, due, outcome>>
  BY DEF StopQueued, StopBody, Body, Listening, entryVars, histVars
<1>2. ReceiversFit'
  BY <1>1 DEF ReceiversFit, StoppedBy, TypeOK, EntryOK, TurnsOK
<1>3. DueFits(t)'
  BY <1>1 DEF AllDueFit, DueFits, Listening, TypeOK, TurnsOK
<1>4. ASSUME NEW u \in Turns, u # t
      PROVE  DueFits(u)'
  <2>1. DueFits(u) /\ pc'[u] = pc[u] /\ (News(u)' <=> News(u)) /\ Paused' = Paused
    BY <1>1, <1>4 DEF AllDueFit, News, Paused, TypeOK, TurnsOK
  <2> QED BY <1>1, <2>1 DEF DueFits
<1> QED BY <1>2, <1>3, <1>4 DEF AllDueFit

\* release_idle frees no counter that a turn listens to.
LEMMA ReleaseKeeps ==
    ASSUME TypeOK, ReceiversFit, AllDueFit, NEW t \in Turns,
           DropLast(t) \/ DropOther(t) \/ AfterBetween(t)
    PROVE  ReceiversFit' /\ AllDueFit'
<1>1. /\ pc' = [pc EXCEPT ![t] = "done"]
      /\ hearing' \in {hearing, hearing \ {t}}
      /\ \A u \in Turns : u # t => seen'[u] = seen[u]
      /\ t \in hearing' => seen'[t] = seen[t]
      /\ UNCHANGED <<due, outcome>>
  BY DEF DropLast, DropOther, TurnGone, AfterBetween, TypeOK, TurnsOK, histVars
<1>2. hearing' # {} => counter' = counter
  BY DEF DropLast, DropOther, TurnGone, AfterBetween, ReleaseIdle
<1>3. hearing' # {} /\ "stops" \in flags => "stops" \in flags'
  BY DEF DropLast, DropOther, TurnGone, AfterBetween, ReleaseIdle, Tidy
<1>4. flags' \subseteq flags
  BY DEF DropLast, DropOther, AfterBetween, ReleaseIdle, Tidy
<1>5. ReceiversFit'
  <2> SUFFICES ASSUME NEW u \in hearing'
               PROVE  "stops" \in flags' /\ seen'[u] <= counter'
    BY DEF ReceiversFit
  <2>1. u \in hearing /\ u \in Turns /\ seen'[u] = seen[u]
    BY <1>1 DEF TypeOK, TurnsOK
  <2> QED BY <1>2, <1>3, <2>1 DEF ReceiversFit
<1>6. DueFits(t)'
  BY <1>1 DEF AllDueFit, DueFits, Listening, TypeOK, TurnsOK
<1>7. ASSUME NEW u \in Turns, u # t
      PROVE  DueFits(u)'
  <2>1. DueFits(u) /\ pc'[u] = pc[u] /\ (Paused' => Paused)
    BY <1>1, <1>4, <1>7 DEF AllDueFit, Paused, TypeOK, TurnsOK
  <2>2. News(u)' <=> News(u)
    BY <1>1, <1>2, <1>7 DEF News
  <2> QED BY <1>1, <2>1, <2>2 DEF DueFits
<1> QED BY <1>5, <1>6, <1>7 DEF AllDueFit

\* A Stop is heard by every turn in flight, and by no other.
LEMMA StopKeeps ==
    ASSUME TypeOK, ReceiversFit, AllDueFit, StopTurnNow
    PROVE  ReceiversFit' /\ AllDueFit'
<1>1. /\ UNCHANGED <<pc, outcome, hearing, seen>>
      /\ due' = due \cup InFlight
      /\ "stops" \in flags => "stops" \in flags' /\ counter' = counter + 1
      /\ "stops" \notin flags => counter' = counter
  BY DEF StopTurnNow, turnVars
<1>2. counter \in Nat /\ hearing \subseteq Turns /\ seen \in [Turns -> Nat]
  BY DEF TypeOK, EntryOK, TurnsOK
<1>3. ReceiversFit'
  <2> SUFFICES ASSUME NEW u \in hearing
               PROVE  "stops" \in flags' /\ seen[u] <= counter'
    BY <1>1 DEF ReceiversFit
  <2>1. "stops" \in flags /\ seen[u] <= counter /\ seen[u] \in Nat
    BY <1>2 DEF ReceiversFit
  <2> QED BY <1>1, <1>2, <2>1
<1>4. ASSUME NEW u \in Turns
      PROVE  DueFits(u)'
  <2>1. DueFits(u)
    BY DEF AllDueFit
  <2>2. pc[u] \in Listening => u \in due' /\ News(u)'
    <3>1. SUFFICES ASSUME pc[u] \in Listening PROVE u \in due' /\ News(u)'
      OBVIOUS
    <3>2. u \in due'
      BY <1>1, <3>1 DEF InFlight, Listening, Counted
    <3>3. CASE u \in hearing
      <4>1. "stops" \in flags /\ seen[u] <= counter /\ seen[u] \in Nat
        BY <1>2, <3>3 DEF ReceiversFit
      <4> QED BY <1>1, <1>2, <3>2, <4>1 DEF News
    <3>4. CASE u \notin hearing
      BY <1>1, <3>2, <3>4 DEF News
    <3> QED BY <3>3, <3>4
  <2>3. pc[u] \in {"idle", "checked"} => u \notin due'
    BY <1>1, <2>1 DEF DueFits, InFlight, Counted
  <2> QED BY <1>1, <2>1, <2>2, <2>3 DEF DueFits
<1> QED BY <1>3, <1>4 DEF AllDueFit

\* So is a forget: every receiver finds its counter gone.
LEMMA ForgetKeeps ==
    ASSUME TypeOK, ReceiversFit, AllDueFit, Forget, UNCHANGED <<pc, outcome>>
    PROVE  ReceiversFit' /\ AllDueFit'
<1>1. CASE "entry" \in flags
  <2>1. hearing' = {} /\ due' = due \cup InFlight
    BY <1>1 DEF Forget
  <2>2. ASSUME NEW u \in Turns
        PROVE  DueFits(u)'
    <3>1. DueFits(u) /\ News(u)'
      BY <2>1 DEF AllDueFit, News
    <3>2. pc[u] \in Listening => u \in due'
      BY <2>1 DEF InFlight, Listening, Counted
    <3>3. pc[u] \in {"idle", "checked"} => u \notin due'
      BY <2>1, <3>1 DEF DueFits, InFlight, Counted
    <3> QED BY <2>1, <3>1, <3>2, <3>3 DEF DueFits
  <2> QED BY <2>1, <2>2 DEF ReceiversFit, AllDueFit
<1>2. CASE "entry" \notin flags
  <2>1. Unheard
    BY <1>2 DEF Forget, Unheard, entryVars
  <2> QED BY <2>1, UnheardKeeps
<1> QED BY <1>1, <1>2

\* Every step keeps what is known of stops.
LEMMA StopsStep ==
    ASSUME TypeOK, ReceiversFit, AllDueFit, [Next]_vars
    PROVE  ReceiversFit' /\ AllDueFit'
<1>1. ASSUME NEW t \in Turns,
             \/ Admission(t) \/ Start(t) \/ RunBody(t) \/ Streaming(t) \/ Stopping(t)
             \/ Ending(t) \/ Between(t) \/ Faulty(t)
      PROVE  ReceiversFit' /\ AllDueFit'
  BY <1>1, UnheardSteps, UnheardKeeps, AdmitKeeps, CaughtKeeps, ReleaseKeeps
     DEF Admission, Stopping, Ending, Between
<1>2. CASE Stop \/ DeleteMark
  BY <1>2, StopKeeps DEF Stop, DeleteMark
<1>3. CASE CheckAfterWrite \/ DeleteForget
  <2>1. (Forget /\ UNCHANGED <<pc, outcome>>) \/ Unheard
    BY <1>3 DEF CheckAfterWrite, DeleteForget, Unheard, entryVars
  <2> QED BY <2>1, ForgetKeeps, UnheardKeeps
<1>4. CASE ShowError \/ TrustDecided \/ DeleteRows \/ DeleteFails \/ UNCHANGED vars
  <2>1. Unheard
    BY <1>4 DEF Unheard, ShowError, TrustDecided, Tidy, DeleteRows, DeleteFails, vars, entryVars,
                turnVars, histVars
  <2> QED BY <2>1, UnheardKeeps
<1> QED BY <1>1, <1>2, <1>3, <1>4 DEF Next, Outside

\* At startup nobody has a lock, listens or is due at a Stop.
LEMMA InitInductive == Init => IndInv
<1> SUFFICES ASSUME Init PROVE IndInv
  OBVIOUS
<1> USE DEF Init
<1>1. EntryOK
  BY DEF EntryOK, Flags, Attentions, None
<1>2. TurnsOK
  BY TurnStateAssumption DEF TurnsOK, States
<1>3. OutsideOK /\ HistoryOK
  BY DEF OutsideOK, HistoryOK
<1>4. LocksAgree /\ WritersHold /\ ReceiversFit
  BY DEF LocksAgree, WritersHold, Writing, ReceiversFit
<1>5. AllDueFit
  BY DEF AllDueFit, DueFits, Listening
<1> QED BY <1>1, <1>2, <1>3, <1>4, <1>5 DEF IndInv, TypeOK

\* Every step keeps IndInv.
LEMMA InductiveStep ==
    ASSUME IndInv, [Next]_vars
    PROVE  IndInv'
BY TypeStep, StaysGone, LockingStep, WritersStep, LocksStep, StopsStep DEF IndInv

-----------------------------------------------------------------------------
(* The strengthening of TurnState's other invariants: turns in flight and  *)
(* the entry they keep, what is written, and what a delete leaves.         *)

\* Where a turn, or a notice saved between turns, has a handle on a turn lock.
Using == (Counted \ {"ended", "settled"}) \cup {"between"}

UsersFit   == \A t \in Turns : ref[t] # NoLock <=> pc[t] \in Using
HearersFit == /\ \A t \in hearing : pc[t] \in Counted
              /\ Exists => \A t \in Turns : pc[t] \in Counted => t \in hearing

\* update_existing: an entry is there, or there is nothing to keep in one.
EntryKept == "entry" \in flags \/ (flags = {} /\ RestIdle)

\* A spell's end leaves no reply and owes nothing.
SpellOver == flights = 0 => att = None /\ reply = {}

\* Who will release an idle lock and counter: the spell's end, or a notice's.
Releasing == flights # 0 \/ \E t \in Turns : pc[t] \in {"between", "after"}
LockUsed  == lock # NoLock \/ "stops" \in flags => Releasing

\* A turn that no Stop and no forget has reached has its handle on the entry's lock.
HeardAgree == \A t \in Turns : pc[t] \in Listening /\ ~ News(t) => ref[t] = lock

SpellInv ==
    CountExact /\ UsersFit /\ HearersFit /\ EntryKept /\ SpellOver /\ LockUsed /\ HeardAgree

\* A turn whose calls have no results yet wrote them last.
Calls    == {"tools", "asked", "finished"}
CallLast == Exists => \A t \in Turns : pc[t] \in Calls =>
                          log # <<>> /\ log[Len(log)] = <<"call", t>>

\* A reply in progress is of one turn: of the one in its model call, unless
\* that was told of a Stop.
ReplyFits == /\ \A t \in Turns : pc[t] = "call" /\ ~ News(t) => reply \subseteq {t}
             /\ \A t, u \in reply : t = u

\* There is a Stop for each note, and one more for each value of the counter
\* that was not noted.
NotesFit == /\ Cardinality(Notes) <= stopped
            /\ Exists => noted <= counter /\ Cardinality(Notes) + counter <= stopped + noted

\* t wrote a call or a result that no note comes after.
Open(t) == \E i \in 1..Len(log) : /\ log[i][2] = t /\ log[i][1] \in {"call", "result"}
                                  /\ \A j \in Notes : j < i

\* While its work is open no Stop is noted that t has not seen, nor is the
\* one that ends it: it will be noted after that work.
WorkFits(t) ==
    /\ outcome[t] = "stopped" => ~ Open(t)
    /\ pc[t] \in {"idle", "checked"} => ~ Open(t)
    /\ pc[t] \in Listening \cup {"idle", "checked"} => outcome[t] # "stopped"
    /\ Open(t) /\ pc[t] \in Listening => noted <= seen[t]
    /\ Open(t) /\ pc[t] \in Caught => noted < seen[t]
WorkNoted == Exists /\ faults = 0 => \A t \in Turns : WorkFits(t)

LogInv == CallLast /\ ResultsFollowCalls /\ ReplyFits /\ NotesFit /\ WorkNoted

\* The user's turn has a generation to keep its error under.
MineKept == \A t \in Turns : ByUser(t) /\ pc[t] \in Counted => mine[t] # 0

\* t will find the conversation gone, and clear the generation and the error.
Clears(t) == pc[t] = "granted" \/ (pc[t] = "queued" /\ ~ News(t))

\* Once a delete is over, whatever is left of the entry has someone to clear
\* it: a check, a turn yet to find the conversation gone, or the one that
\* releases the lock and the counter; and nothing is published any more.
OverFits ==
    /\ "notified" \notin flags /\ published = {} /\ notice = {}
    /\ "paused" \in flags => checks > 0
    /\ gen # 0 \/ err # {} => checks > 0 \/ \E t \in Turns : Clears(t)
    /\ att # None => "forgotten" \in flags
    /\ \A t \in Turns : pc[t] \in Body \cup {"saving"} => t \notin hearing /\ "forgotten" \in flags
    /\ \A t \in Turns : pc[t] = "ended" /\ outcome[t] = "failed" => "forgotten" \in flags
    /\ flags # {} => \/ ~ RestIdle \/ "stops" \in flags \/ checks > 0
                     \/ \E t \in Turns : pc[t] \in {"between", "after"}
OverInv == faults = 0 /\ deleting = "over" => OverFits

-----------------------------------------------------------------------------
(* Who is in flight, and what releases the entry.                          *)

\* The turns in flight are finitely many, and none if the count is zero.
LEMMA FlightsFinite ==
    ASSUME CountExact
    PROVE  IsFiniteSet(InFlight) /\ (flights = 0 <=> InFlight = {})
<1>1. IsFiniteSet(InFlight)
  BY TurnStateAssumption, FS_Subset DEF InFlight
<1> QED BY <1>1, FS_EmptySet DEF CountExact

\* So after a step.
LEMMA FlightsAfter ==
    ASSUME CountExact'
    PROVE  \A t \in Turns : pc'[t] \in Counted => flights' # 0
<1>1. IsFiniteSet(InFlight')
  BY TurnStateAssumption, FS_Subset DEF InFlight
<1>2. flights' = 0 => InFlight' = {}
  BY <1>1, FS_EmptySet DEF CountExact
<1> QED BY <1>2 DEF InFlight

\* A step of a turn in flight that leaves it in flight, and drops nothing of
\* the entry but a notification.
Works(t) ==
    /\ pc[t] \in Counted
    /\ UNCHANGED <<flights, counter, hearing, lock, deleting, checks, stopped>>
    /\ flags \ {"notified"} \subseteq flags'
    /\ "paused" \in flags' => "paused" \in flags
    /\ \A u \in Turns \ {t} : seen'[u] = seen[u]
    /\ \E s \in Counted :
          /\ pc' = [pc EXCEPT ![t] = s]
          /\ s \in Listening => pc[t] \in Listening /\ seen'[t] = seen[t]
          /\ \/ ref' = ref /\ (s \in Using <=> pc[t] \in Using)
             \/ ref' = [ref EXCEPT ![t] = NoLock] /\ s \notin Using

\* Such are all steps of a turn from its place in the queue to its end.
LEMMA WorksSteps ==
    ASSUME TypeOK, NEW t \in Turns,
           \/ ConfirmRefused(t) \/ Start(t) \/ RunBody(t) \/ Streaming(t) \/ Stopping(t)
           \/ Settle(t) \/ Faulty(t)
    PROVE  Works(t)
<1> USE DEF Counted, Listening, Using
<1>1. CASE ConfirmRefused(t) \/ FindGone(t) \/ SaveInGone(t) \/ FailEarly(t) \/ EndWithNothing(t)
  BY <1>1 DEF Works, ConfirmRefused, FindGone, SaveInGone, FailEarly, EndWithNothing, End, LeaveQueue,
              entryVars, envVars
<1>2. CASE Grant(t) \/ FindConversation(t) \/ SaveMessage(t) \/ SaveAnswer(t) \/ SaveNothing(t)
  BY <1>2 DEF Works, Grant, FindConversation, SaveMessage, SaveAnswer, SaveNothing, entryVars, lockVars,
              envVars
<1>3. CASE CallModel(t) \/ CallAgain(t) \/ SaveCall(t) \/ SaveResults(t)
  BY <1>3 DEF Works, CallModel, CallAgain, SaveCall, SaveResults, entryVars, lockVars, envVars
<1>4. CASE NotifyUser(t) \/ FinishAgent(t) \/ AskUser(t)
  BY <1>4 DEF Works, NotifyUser, FinishAgent, AskUser, entryVars, lockVars, envVars
<1>5. CASE Stream(t)
  <2>1. pc' = [pc EXCEPT ![t] = "call"]
    BY <1>5 DEF Stream, turnVars, TypeOK, TurnsOK
  <2> QED BY <1>5, <2>1 DEF Works, Stream, turnVars, lockVars, envVars
<1>6. CASE (\E a \in {None, CutOff} : SaveReply(t, a)) \/ EndAfterTools(t)
  BY <1>6 DEF Works, SaveReply, EndAfterTools, End, LeaveQueue, entryVars, envVars
<1>7. CASE Fail(t) \/ FailAtTop(t)
  BY <1>7 DEF Works, Fail, FailAtTop, FailBody, Body, End, LeaveQueue, envVars
<1>8. CASE StopQueued(t) \/ StopBody(t)
  BY <1>8 DEF Works, StopQueued, StopBody, Body, entryVars, lockVars, envVars, TypeOK, TurnsOK
<1>9. CASE KeepMessage(t) \/ KeepNothing(t) \/ KeepFails(t) \/ Requeue(t) \/ LockBack(t)
  BY <1>9 DEF Works, KeepMessage, KeepNothing, KeepFails, Requeue, LockBack, entryVars, lockVars, envVars
<1>10. CASE EndStopped(t)
  BY <1>10 DEF Works, EndStopped, End, LeaveQueue
<1>11. CASE Settle(t)
  BY <1>11 DEF Works, Settle, lockVars, envVars
<1> QED BY <1>1, <1>2, <1>3, <1>4, <1>5, <1>6, <1>7, <1>8, <1>9, <1>10, <1>11
        DEF Start, RunBody, Streaming, Stopping, Faulty

\* The entry is there while a turn is in flight.
LEMMA FlightHasEntry ==
    ASSUME SpellInv, NEW t \in Turns, pc[t] \in Counted
    PROVE  flights # 0 /\ "entry" \in flags
<1>1. flights # 0
  BY FlightsFinite DEF SpellInv, InFlight
<1> QED BY <1>1 DEF SpellInv, EntryKept, RestIdle

\* A turn's step keeps what is known of the spell: it stays counted, and its
\* handle goes as it ends.
LEMMA WorksSpell ==
    ASSUME TypeOK, TypeOK', SpellInv, NEW t \in Turns, Works(t)
    PROVE  SpellInv'
<1>1. flights # 0 /\ flights' = flights /\ "entry" \in flags'
  BY FlightHasEntry DEF Works
<1>2. PICK s \in Counted :
          /\ pc' = [pc EXCEPT ![t] = s]
          /\ s \in Listening => pc[t] \in Listening /\ seen'[t] = seen[t]
          /\ \/ ref' = ref /\ (s \in Using <=> pc[t] \in Using)
             \/ ref' = [ref EXCEPT ![t] = NoLock] /\ s \notin Using
  BY DEF Works
<1>3. pc'[t] = s /\ \A u \in Turns \ {t} : pc'[u] = pc[u] /\ ref'[u] = ref[u]
  BY <1>2 DEF TypeOK, TurnsOK
<1>4. CountExact'
  <2>1. InFlight' = InFlight
    BY <1>3 DEF InFlight, Works
  <2> QED BY <1>1, <2>1 DEF SpellInv, CountExact
<1>5. UsersFit'
  BY <1>2, <1>3 DEF SpellInv, UsersFit, TypeOK, TurnsOK
<1>6. HearersFit'
  BY <1>3 DEF SpellInv, HearersFit, Works, Exists
<1>7. EntryKept' /\ SpellOver' /\ LockUsed'
  BY <1>1 DEF EntryKept, SpellOver, LockUsed, Releasing
<1>8. HeardAgree'
  <2> SUFFICES ASSUME NEW u \in Turns, pc'[u] \in Listening, ~ News(u)'
               PROVE  ref'[u] = lock'
    BY DEF HeardAgree
  <2>1. CASE u # t
    BY <1>3, <2>1 DEF SpellInv, HeardAgree, News, Works
  <2>2. CASE u = t
    <3>1. s \in Listening /\ ref' = ref
      BY <1>2, <1>3, <2>2 DEF Listening, Using, Counted
    <3>2. pc[t] \in Listening /\ ~ News(t)
      BY <1>2, <2>2, <3>1 DEF News, Works
    <3> QED BY <2>2, <3>1, <3>2 DEF SpellInv, HeardAgree, Works
  <2> QED BY <2>1, <2>2
<1> QED BY <1>4, <1>5, <1>6, <1>7, <1>8 DEF SpellInv

\* So does an admission, which counts its turn and has the entry made.
LEMMA AdmitSpell ==
    ASSUME TypeOK, TypeOK', SpellInv, NEW t \in Turns, AdmitByUser(t) \/ AdmitNotice(t)
    PROVE  SpellInv'
<1>1. /\ pc[t] = "checked" /\ pc' = [pc EXCEPT ![t] = "queued"]
      /\ flights' = flights + 1 /\ JoinQueue(t)
      /\ hearing' = hearing \cup {t} /\ seen' = [seen EXCEPT ![t] = counter]
      /\ UNCHANGED <<counter, deleting>> /\ "entry" \in flags'
  BY DEF AdmitByUser, AdmitNotice, Admit, envVars
<1>2. /\ pc'[t] = "queued" /\ seen'[t] = counter
      /\ \A u \in Turns \ {t} : pc'[u] = pc[u] /\ seen'[u] = seen[u]
  BY <1>1 DEF TypeOK, TurnsOK
<1>3. /\ ref'[t] = lock' /\ lock' # NoLock
      /\ \A u \in Turns \ {t} : ref'[u] = ref[u]
      /\ lock # NoLock => lock' = lock
  BY <1>1, TurnStateAssumption DEF JoinQueue, TypeOK, TurnsOK
<1>4. CountExact' /\ flights' # 0
  <2>1. InFlight' = InFlight \cup {t} /\ t \notin InFlight
    BY <1>1, <1>2 DEF InFlight, Counted
  <2>2. Cardinality(InFlight') = Cardinality(InFlight) + 1
    BY <2>1, FlightsFinite, FS_AddElement DEF SpellInv
  <2> QED BY <1>1, <2>2 DEF SpellInv, CountExact, TypeOK, EntryOK
<1>5. UsersFit'
  BY <1>1, <1>2, <1>3 DEF SpellInv, UsersFit, Using, Counted
<1>6. HearersFit'
  BY <1>1, <1>2 DEF SpellInv, HearersFit, Exists, Counted
<1>7. EntryKept' /\ SpellOver' /\ LockUsed'
  BY <1>1, <1>4 DEF EntryKept, SpellOver, LockUsed, Releasing
<1>8. HeardAgree'
  <2> SUFFICES ASSUME NEW u \in Turns, u # t, pc'[u] \in Listening, ~ News(u)'
               PROVE  ref'[u] = lock'
    BY <1>3 DEF HeardAgree
  <2>1. pc[u] \in Listening /\ ~ News(u)
    BY <1>1, <1>2 DEF News
  <2>2. ref[u] = lock /\ ref[u] # NoLock
    BY <2>1 DEF SpellInv, HeardAgree, UsersFit, Listening, Using, Counted
  <2> QED BY <1>3, <2>2
<1> QED BY <1>4, <1>5, <1>6, <1>7, <1>8 DEF SpellInv

\* A turn not yet admitted, or refused, changes nothing here.
LEMMA AsideSpell ==
    ASSUME TypeOK, TypeOK', SpellInv, NEW t \in Turns, Arrive(t) \/ RefuseWake(t)
    PROVE  SpellInv'
<1>1. /\ pc[t] \in {"idle", "checked"} /\ pc' \in {[pc EXCEPT ![t] = "checked"], [pc EXCEPT ![t] = "done"]}
      /\ UNCHANGED <<entryVars, ref, hearing, seen, deleting>>
  BY DEF Arrive, RefuseWake, lockVars, envVars
<1>2. /\ pc'[t] \in {"checked", "done"} /\ \A u \in Turns \ {t} : pc'[u] = pc[u]
  BY <1>1 DEF TypeOK, TurnsOK
<1>3. CountExact'
  <2>1. InFlight' = InFlight
    BY <1>1, <1>2 DEF InFlight, Counted
  <2> QED BY <1>1, <2>1 DEF SpellInv, CountExact, entryVars
<1>4. UsersFit' /\ HearersFit'
  <2>1. /\ \A u \in Turns : (pc'[u] \in Counted <=> pc[u] \in Counted) /\ (pc'[u] \in Using <=> pc[u] \in Using)
        /\ UNCHANGED <<ref, hearing, deleting>> /\ hearing \subseteq Turns
    BY <1>1, <1>2 DEF Using, Counted, TypeOK, TurnsOK
  <2> QED BY <2>1 DEF SpellInv, UsersFit, HearersFit, Exists
<1>5. EntryKept' /\ SpellOver' /\ (Releasing => Releasing')
  BY <1>1, <1>2 DEF SpellInv, EntryKept, SpellOver, RestIdle, Releasing, entryVars, keptVars, owedVars
<1>6. LockUsed'
  BY <1>1, <1>5 DEF SpellInv, LockUsed, entryVars
<1>7. HeardAgree'
  BY <1>1, <1>2 DEF SpellInv, HeardAgree, News, Listening, entryVars
<1> QED BY <1>3, <1>4, <1>5, <1>6, <1>7 DEF SpellInv

\* A notice saved between turns has a handle on the lock till it is saved,
\* and releases the entry after.
LEMMA BetweenSpell ==
    ASSUME TypeOK, TypeOK', SpellInv, NEW t \in Turns, QueueBetween(t) \/ SaveBetween(t)
    PROVE  SpellInv'
<1>1. /\ UNCHANGED <<flights, hearing, counter, seen, deleting, att, reply>>
      /\ \/ /\ pc[t] = "checked" /\ pc' = [pc EXCEPT ![t] = "between"]
            /\ JoinQueue(t) /\ flags' = flags \cup {"entry"}
         \/ /\ pc[t] = "between" /\ pc' = [pc EXCEPT ![t] = "after"]
            /\ ref' = [ref EXCEPT ![t] = NoLock] /\ UNCHANGED entryVars
  BY DEF QueueBetween, SaveBetween, LeaveQueue, envVars, entryVars, owedVars
<1>2. /\ pc'[t] \in {"between", "after"} /\ \A u \in Turns \ {t} : pc'[u] = pc[u] /\ ref'[u] = ref[u]
      /\ pc'[t] = "between" => pc[t] = "checked" /\ ref'[t] # NoLock
      /\ pc'[t] = "after" => pc[t] = "between" /\ ref'[t] = NoLock
      /\ lock # NoLock => lock' = lock
  BY <1>1, TurnStateAssumption DEF JoinQueue, TypeOK, TurnsOK, EntryOK, entryVars
<1>3. CountExact'
  <2>1. InFlight' = InFlight
    BY <1>1, <1>2 DEF InFlight, Counted
  <2> QED BY <1>1, <2>1 DEF SpellInv, CountExact
<1>4. UsersFit'
  BY <1>2 DEF SpellInv, UsersFit, Using, Counted
<1>5. HearersFit'
  <2>1. /\ \A u \in Turns : pc'[u] \in Counted <=> pc[u] \in Counted
        /\ UNCHANGED <<hearing, deleting>> /\ hearing \subseteq Turns
    BY <1>1, <1>2 DEF Counted, TypeOK, TurnsOK
  <2> QED BY <2>1 DEF SpellInv, HearersFit, Exists
<1>6. EntryKept'
  BY <1>1 DEF SpellInv, EntryKept, RestIdle, entryVars, keptVars, owedVars
<1>7. SpellOver' /\ LockUsed'
  BY <1>1, <1>2 DEF SpellInv, SpellOver, LockUsed, Releasing
<1>8. HeardAgree'
  <2> SUFFICES ASSUME NEW u \in Turns, pc'[u] \in Listening, ~ News(u)'
               PROVE  ref'[u] = lock'
    BY DEF HeardAgree
  <2>1. u # t /\ pc[u] \in Listening /\ ~ News(u)
    BY <1>1, <1>2 DEF News, Listening
  <2>2. ref[u] = lock /\ ref[u] # NoLock
    BY <2>1 DEF SpellInv, HeardAgree, UsersFit, Listening, Using, Counted
  <2> QED BY <1>2, <2>1, <2>2
<1> QED BY <1>3, <1>4, <1>5, <1>6, <1>7, <1>8 DEF SpellInv

\* release_idle leaves the lock to notices in between, and the counter to
\* nobody, once no turn is in flight.
LEMMA Released ==
    ASSUME TypeOK, TypeOK', CountExact', UsersFit', HearersFit', flights' = 0, NEW f, ref' = ref,
           ReleaseIdle(f, hearing'), "entry" \in f
    PROVE  /\ EntryKept' /\ LockUsed'
           /\ \A u \in Turns : ref[u] = lock => lock' = lock
<1>1. InFlight' = {} /\ hearing' \subseteq Turns
  BY FlightsAfter DEF InFlight, TypeOK, TurnsOK
<1>2. hearing' = {}
  BY <1>1 DEF HearersFit, InFlight
<1>3. EntryKept'
  BY <1>2 DEF ReleaseIdle, Tidy, EntryKept
<1>4. "stops" \notin flags'
  BY <1>2 DEF ReleaseIdle, Tidy
<1>5. ASSUME lock' # NoLock
      PROVE  \E u \in Turns : pc'[u] = "between"
  <2>1. PICK u \in Turns : ref'[u] # NoLock
    BY <1>5 DEF ReleaseIdle
  <2>2. pc'[u] \in Using /\ pc'[u] \notin Counted
    BY <1>1, <2>1 DEF UsersFit, InFlight
  <2> QED BY <2>2 DEF Using
<1>6. LockUsed'
  BY <1>4, <1>5 DEF LockUsed, Releasing
<1> QED BY <1>3, <1>6 DEF ReleaseIdle

\* The end of a turn counts it out; the last one releases.
LEMMA DropSpell ==
    ASSUME TypeOK, TypeOK', SpellInv, NEW t \in Turns, DropLast(t) \/ DropOther(t)
    PROVE  SpellInv'
<1>1. /\ pc[t] = "settled" /\ pc' = [pc EXCEPT ![t] = "done"] /\ hearing' = hearing \ {t}
      /\ seen' = [seen EXCEPT ![t] = 0] /\ UNCHANGED <<ref, deleting>>
      /\ flights' = flights - 1 /\ flights \in Nat /\ flights # 0
  BY DEF DropLast, DropOther, TurnGone, lockVars, envVars, TypeOK, EntryOK
<1>2. /\ pc'[t] = "done" /\ \A u \in Turns \ {t} : pc'[u] = pc[u] /\ seen'[u] = seen[u]
  BY <1>1 DEF TypeOK, TurnsOK
<1>3. CountExact'
  <2>1. InFlight' = InFlight \ {t} /\ t \in InFlight
    BY <1>1, <1>2 DEF InFlight, Counted
  <2>2. Cardinality(InFlight') = Cardinality(InFlight) - 1
    BY <2>1, FlightsFinite, FS_RemoveElement DEF SpellInv
  <2> QED BY <1>1, <2>2 DEF SpellInv, CountExact
<1>4. UsersFit'
  BY <1>1, <1>2 DEF SpellInv, UsersFit, Using, Counted
<1>5. HearersFit'
  BY <1>1, <1>2 DEF SpellInv, HearersFit, Exists, Counted
<1>6. "entry" \in flags
  BY <1>1, FlightHasEntry DEF Counted
<1>7. /\ EntryKept' /\ LockUsed' /\ SpellOver'
      /\ \A u \in Turns : ref[u] = lock => lock' = lock
      /\ hearing' # {} => counter' = counter
  <2>1. CASE DropLast(t)
    <3>1. ReleaseIdle(flags \ {"notified"}, hearing') /\ "entry" \in flags \ {"notified"}
      BY <1>1, <1>6, <2>1 DEF DropLast
    <3>2. flights' = 0 /\ SpellOver'
      BY <2>1 DEF DropLast, SpellOver
    <3> QED BY <1>1, <1>3, <1>4, <1>5, <3>1, <3>2, Released DEF ReleaseIdle
  <2>2. CASE DropOther(t)
    BY <1>1, <1>6, <2>2 DEF DropOther, EntryKept, LockUsed, SpellOver, Releasing
  <2> QED BY <2>1, <2>2
<1>8. HeardAgree'
  BY <1>1, <1>2, <1>7 DEF SpellInv, HeardAgree, News, Listening
<1> QED BY <1>3, <1>4, <1>5, <1>7, <1>8 DEF SpellInv

\* So does a saved notice, unless a turn is in flight.
LEMMA AfterSpell ==
    ASSUME TypeOK, TypeOK', SpellInv, NEW t \in Turns, AfterBetween(t)
    PROVE  SpellInv'
<1>1. /\ pc[t] = "after" /\ pc' = [pc EXCEPT ![t] = "done"]
      /\ UNCHANGED <<flights, att, reply, keptVars, owedVars, ref, hearing, seen, deleting>>
  BY DEF AfterBetween, lockVars, envVars, owedVars
<1>2. /\ pc'[t] = "done" /\ \A u \in Turns \ {t} : pc'[u] = pc[u]
  BY <1>1 DEF TypeOK, TurnsOK
<1>3. CountExact'
  <2>1. InFlight' = InFlight
    BY <1>1, <1>2 DEF InFlight, Counted
  <2> QED BY <1>1, <2>1 DEF SpellInv, CountExact
<1>4. UsersFit'
  BY <1>1, <1>2 DEF SpellInv, UsersFit, Using, Counted
<1>5. HearersFit'
  <2>1. /\ \A u \in Turns : pc'[u] \in Counted <=> pc[u] \in Counted
        /\ UNCHANGED <<hearing, deleting>> /\ hearing \subseteq Turns
    BY <1>1, <1>2 DEF Counted, TypeOK, TurnsOK
  <2> QED BY <2>1 DEF SpellInv, HearersFit, Exists
<1>6. SpellOver'
  BY <1>1 DEF SpellInv, SpellOver
<1>7. /\ EntryKept' /\ LockUsed'
      /\ \A u \in Turns : ref[u] = lock => lock' = lock
      /\ hearing' # {} => counter' = counter
  <2>1. CASE flights = 0 /\ "entry" \in flags
    <3>1. ReleaseIdle(flags, hearing') /\ flights' = 0
      BY <1>1, <2>1 DEF AfterBetween
    <3> QED BY <1>1, <1>3, <1>4, <1>5, <2>1, <3>1, Released DEF ReleaseIdle
  <2>2. CASE ~ (flights = 0 /\ "entry" \in flags)
    <3>1. UNCHANGED <<flags, lock, counter>>
      BY <2>2 DEF AfterBetween
    <3>2. EntryKept'
      BY <1>1, <3>1 DEF SpellInv, EntryKept, RestIdle, keptVars, owedVars
    <3>3. LockUsed'
      BY <1>1, <2>2, <3>1 DEF SpellInv, EntryKept, RestIdle, LockUsed, Releasing
    <3> QED BY <3>1, <3>2, <3>3
  <2> QED BY <2>1, <2>2
<1>8. HeardAgree'
  BY <1>1, <1>2, <1>7 DEF SpellInv, HeardAgree, News, Listening
<1> QED BY <1>3, <1>4, <1>5, <1>6, <1>7, <1>8 DEF SpellInv

\* A forget leaves what goes on in the entry, and nothing else.
LEMMA ForgetSpell ==
    ASSUME TypeOK, TypeOK', SpellInv, Forget, UNCHANGED <<pc, ref>>, ~ Exists'
    PROVE  SpellInv'
<1>1. CASE "entry" \notin flags
  <2>1. UNCHANGED <<entryVars, hearing, seen>>
    BY <1>1 DEF Forget
  <2> QED BY <2>1 DEF SpellInv, CountExact, InFlight, UsersFit, HearersFit, EntryKept, RestIdle, SpellOver,
                      LockUsed, Releasing, HeardAgree, News, entryVars, keptVars, owedVars
<1>2. CASE "entry" \in flags
  <2>1. /\ lock' = NoLock /\ hearing' = {} /\ att' = None /\ UNCHANGED <<flights, reply>>
        /\ Tidy((flags \ {"stops", "paused", "notified"}) \cup {"forgotten"})
    BY <1>2 DEF Forget
  <2>2. EntryKept' /\ "stops" \notin flags'
    BY <1>2, <2>1 DEF Tidy, EntryKept
  <2>3. CountExact' /\ UsersFit'
    BY <2>1 DEF SpellInv, CountExact, InFlight, UsersFit
  <2>4. HearersFit' /\ SpellOver' /\ LockUsed' /\ HeardAgree'
    BY <2>1, <2>2 DEF SpellInv, HearersFit, SpellOver, LockUsed, HeardAgree, News
  <2> QED BY <2>2, <2>3, <2>4 DEF SpellInv
<1> QED BY <1>1, <1>2

\* Every step keeps the count, and who releases the entry.
LEMMA SpellStep ==
    ASSUME TypeOK, TypeOK', SpellInv, [Next]_vars
    PROVE  SpellInv'
<1>1. ASSUME NEW t \in Turns,
             \/ Admission(t) \/ Start(t) \/ RunBody(t) \/ Streaming(t) \/ Stopping(t)
             \/ Ending(t) \/ Between(t) \/ Faulty(t)
      PROVE  SpellInv'
  BY <1>1, WorksSteps, WorksSpell, AdmitSpell, AsideSpell, BetweenSpell, DropSpell, AfterSpell
     DEF Admission, Ending, Between
<1>2. CASE Forget /\ ~ Exists' /\ UNCHANGED <<pc, ref>>
  BY <1>2, ForgetSpell
<1>3. CASE TrustDecided
  <2>1. /\ UNCHANGED <<lock, counter, flights, att, reply, ref, pc, hearing, seen, deleting>>
        /\ \E p \in published : TRUE
        /\ Tidy(flags)
    BY <1>3 DEF TrustDecided, lockVars, turnVars, envVars
  <2>2. "entry" \in flags
    BY <2>1 DEF SpellInv, EntryKept, RestIdle
  <2>3. EntryKept' /\ ("stops" \in flags' => "stops" \in flags)
    BY <2>1, <2>2 DEF Tidy, EntryKept
  <2> QED BY <2>1, <2>3 DEF SpellInv, CountExact, InFlight, UsersFit, HearersFit, Exists, SpellOver,
                            LockUsed, Releasing, HeardAgree, News
<1>4. CASE \/ Stop \/ DeleteMark \/ ShowError \/ DeleteRows \/ DeleteFails \/ UNCHANGED vars
           \/ CheckAfterWrite /\ UNCHANGED <<entryVars, hearing, seen>>
  <2>1. /\ UNCHANGED <<lock, flights, gen, att, published, notice, reply, ref, pc, hearing, seen>>
        /\ counter' \in {counter, counter + 1}
        /\ "stops" \in flags' => "stops" \in flags
        /\ "entry" \in flags' \/ UNCHANGED <<flags, err>>
        /\ Exists' => Exists
    BY <1>4 DEF Stop, DeleteMark, StopTurnNow, ShowError, DeleteRows, DeleteFails, CheckAfterWrite, vars,
                entryVars, keptVars, owedVars, turnVars, lockVars, envVars, Exists
  <2>2. /\ counter \in Nat /\ seen \in [Turns -> Nat]
    BY DEF TypeOK, EntryOK, TurnsOK
  <2>3. \A u \in Turns : ~ News(u)' => ~ News(u)
    BY <2>1, <2>2 DEF News
  <2>4. CountExact' /\ UsersFit' /\ HearersFit' /\ SpellOver'
    BY <2>1 DEF SpellInv, CountExact, InFlight, UsersFit, HearersFit, SpellOver
  <2>5. EntryKept' /\ LockUsed' /\ HeardAgree'
    BY <2>1, <2>3 DEF SpellInv, EntryKept, RestIdle, LockUsed, Releasing, HeardAgree
  <2> QED BY <2>4, <2>5 DEF SpellInv
<1>5. CheckAfterWrite \/ DeleteForget =>
         \/ Forget /\ ~ Exists' /\ UNCHANGED <<pc, ref>>
         \/ CheckAfterWrite /\ UNCHANGED <<entryVars, hearing, seen>>
  BY DEF CheckAfterWrite, DeleteForget, Exists, lockVars
<1> QED BY <1>1, <1>2, <1>3, <1>4, <1>5 DEF Next, Outside

\* At first nothing is in flight.
LEMMA InitSpell == Init => SpellInv
<1> SUFFICES ASSUME Init PROVE SpellInv
  OBVIOUS
<1>1. InFlight = {} /\ Cardinality(InFlight) = 0
  BY FS_EmptySet DEF Init, InFlight, Counted
<1> QED BY <1>1 DEF Init, SpellInv, CountExact, UsersFit, HearersFit, EntryKept, RestIdle, SpellOver, LockUsed,
                    HeardAgree, Using, Counted, Listening, Exists

-----------------------------------------------------------------------------
(* What is left of a deleted conversation's entry.                         *)

\* A user's turn in flight has taken a generation.
LEMMA MineStep ==
    ASSUME TypeOK, MineKept, [Next]_vars
    PROVE  MineKept'
<1> USE DEF Counted
<1>0. gen \in Nat /\ pc \in [Turns -> States] /\ mine \in [Turns -> Nat]
  BY DEF TypeOK, EntryOK, TurnsOK
<1>1. ASSUME NEW t \in Turns, ConfirmRefused(t) \/ Start(t) \/ RunBody(t) \/ Streaming(t) \/ Faulty(t)
      PROVE  kind' = kind /\ (mine' = mine \/ mine' = [mine EXCEPT ![t] = gen + 1])
  BY <1>1 DEF ConfirmRefused, Start, Grant, FindConversation, FindGone, SaveMessage, SaveInGone,
              SaveAnswer, SaveNothing, TakeGeneration, RunBody, Streaming, EndWithNothing, CallModel,
              SaveReply, CallAgain, SaveCall, SaveResults, NotifyUser, FinishAgent, AskUser,
              EndAfterTools, Fail, FailAtTop, FailBody, Stream, Faulty, FailEarly, KeepFails, turnVars
<1>2. ASSUME NEW t \in Turns, Stopping(t) \/ Settle(t)
      PROVE  kind' = kind /\ mine' = mine
  BY <1>2 DEF Stopping, StopQueued, KeepMessage, KeepNothing, StopBody, Requeue, LockBack, EndStopped,
              Settle
<1>3. ASSUME NEW t \in Turns,
             ConfirmRefused(t) \/ Start(t) \/ RunBody(t) \/ Streaming(t) \/ Faulty(t) \/ Stopping(t) \/ Settle(t)
      PROVE  MineKept'
  <2>1. kind' = kind /\ (mine' = mine \/ mine' = [mine EXCEPT ![t] = gen + 1])
    BY <1>1, <1>2, <1>3
  <2>2. \A u \in Turns : pc'[u] \in Counted => pc[u] \in Counted
    BY <1>0, <1>3, WorksSteps DEF Works
  <2>3. \A u \in Turns : mine[u] # 0 => mine'[u] # 0
    BY <1>0, <2>1
  <2> QED BY <2>1, <2>2, <2>3 DEF MineKept, ByUser
<1>4. ASSUME NEW t \in Turns, AdmitByUser(t) \/ AdmitNotice(t)
      PROVE  MineKept'
  <2>1. kind' = kind /\ pc' = [pc EXCEPT ![t] = "queued"]
    BY <1>4 DEF AdmitByUser, AdmitNotice, Admit
  <2>2. \/ mine' = [mine EXCEPT ![t] = gen + 1]
        \/ mine' = mine /\ ~ ByUser(t)
    BY <1>4 DEF AdmitByUser, AdmitNotice
  <2> QED BY <1>0, <2>1, <2>2 DEF MineKept, ByUser
<1>5. ASSUME NEW t \in Turns,
             Arrive(t) \/ RefuseWake(t) \/ QueueBetween(t) \/ Between(t) \/ DropLast(t) \/ DropOther(t)
      PROVE  MineKept'
  <2>1. kind' = kind /\ \A u \in Turns \ {t} : mine'[u] = mine[u]
    BY <1>0, <1>5 DEF Arrive, RefuseWake, QueueBetween, Between, SaveBetween, AfterBetween, DropLast,
                      DropOther, TurnGone
  <2>2. \E s \in {"checked", "done", "between", "after"} : pc' = [pc EXCEPT ![t] = s]
    BY <1>5 DEF Arrive, RefuseWake, QueueBetween, Between, SaveBetween, AfterBetween, DropLast,
                DropOther, TurnGone
  <2> QED BY <1>0, <2>1, <2>2 DEF MineKept, ByUser
<1>6. CASE Outside \/ UNCHANGED vars
  <2>1. UNCHANGED <<kind, mine, pc>>
    BY <1>6 DEF Outside, Stop, StopTurnNow, ShowError, CheckAfterWrite, TrustDecided, DeleteMark, DeleteRows,
                DeleteFails, DeleteForget, vars, turnVars
  <2> QED BY <2>1 DEF MineKept, ByUser
<1> QED BY <1>1, <1>2, <1>3, <1>4, <1>5, <1>6 DEF Next, Admission, Ending

\* What a turn in flight does to a deleted conversation's entry.
LEMMA OverWorks ==
    ASSUME TypeOK, TypeOK', SpellInv, SpellInv', MineKept, OverFits, deleting = "over", faults' = 0,
           NEW t \in Turns,
           \/ ConfirmRefused(t) \/ Start(t) \/ RunBody(t) \/ Streaming(t) \/ Stopping(t)
           \/ Settle(t) \/ Faulty(t)
    PROVE  OverFits'
<1>1. /\ pc[t] \in Counted /\ checks' = checks /\ flags \ {"notified"} \subseteq flags' /\ hearing' = hearing
      /\ "paused" \in flags' => "paused" \in flags
      /\ counter' = counter /\ \A u \in Turns \ {t} : pc'[u] = pc[u] /\ seen'[u] = seen[u]
  <2>1. Works(t)
    BY WorksSteps
  <2>2. \A u \in Turns \ {t} : pc'[u] = pc[u]
    BY <2>1 DEF Works, TypeOK, TurnsOK
  <2> QED BY <2>1, <2>2 DEF Works
<1>2. ~ Exists /\ ~ RestIdle' /\ ~ Fault
  <2>1. flights # 0 /\ flights' = flights
    BY WorksSteps, FlightHasEntry DEF Works
  <2>2. faults \in Nat
    BY DEF TypeOK, OutsideOK
  <2> QED BY <2>1, <2>2 DEF Exists, RestIdle, Fault
<1>3. ~ (RunBody(t) \/ Streaming(t))
  <2>1. RunBody(t) \/ Streaming(t) => pc[t] \in Body
    BY DEF RunBody, Streaming, EndWithNothing, CallModel, SaveReply, CallAgain, SaveCall, SaveResults, NotifyUser,
           FinishAgent, AskUser, EndAfterTools, Fail, FailAtTop, Stream, Body
  <2> QED BY <2>1 DEF OverFits, RunBody, Streaming, Unstopped, News
<1>4. \A u \in Turns \ {t} : /\ Clears(u) => Clears(u)'
                             /\ outcome'[u] = outcome[u]
  <2>1. \A u \in Turns \ {t} : outcome'[u] = outcome[u]
    BY <1>3 DEF ConfirmRefused, Start, Grant, FindConversation, FindGone, SaveMessage, SaveInGone,
                SaveAnswer, SaveNothing, Stopping, StopQueued, KeepMessage, KeepNothing, StopBody, Requeue,
                LockBack, EndStopped, Settle, Faulty, FailEarly, KeepFails, End, TypeOK, TurnsOK
  <2> QED BY <1>1, <2>1 DEF Clears, News
<1>5. CASE Grant(t)
  <2>1. pc'[t] = "granted" /\ UNCHANGED <<flags, att, published, notice, outcome>>
    BY <1>5 DEF Grant, owedVars, TypeOK, TurnsOK
  <2> QED BY <1>1, <1>2, <2>1 DEF OverFits, Clears, Body
<1>6. CASE FindGone(t)
  <2>1. /\ pc'[t] = "ended" /\ gen' = 0 /\ err' = {} /\ published' = {} /\ UNCHANGED <<att, notice>>
        /\ flags' = flags \cup {"forgotten"}
    BY <1>6 DEF FindGone, End, TypeOK, TurnsOK
  <2> QED BY <1>1, <1>2, <2>1 DEF OverFits, Body
<1>7. CASE SaveInGone(t)
  <2>1. pc[t] = "saving" /\ pc'[t] = "ended" /\ UNCHANGED entryVars
    BY <1>7 DEF SaveInGone, End, TypeOK, TurnsOK
  <2>2. \A u \in Turns : Clears(u) => Clears(u)'
    BY <1>4, <2>1 DEF Clears
  <2> QED BY <1>1, <1>2, <1>4, <2>1, <2>2 DEF OverFits, Body, entryVars, keptVars, owedVars
<1>8. CASE SaveNothing(t) \/ StopQueued(t) \/ KeepNothing(t) \/ StopBody(t) \/ Requeue(t) \/ LockBack(t)
  <2>1. /\ pc'[t] \in {"top", "stopQueued", "noting", "stopBody", "stopWait"} /\ ~ Clears(t)
        /\ pc'[t] = "top" => pc[t] = "saving"
        /\ UNCHANGED entryVars
    BY <1>8 DEF SaveNothing, StopQueued, KeepNothing, StopBody, Body, Requeue, LockBack, Clears, TypeOK, TurnsOK
  <2>2. \A u \in Turns : Clears(u) => Clears(u)'
    BY <1>4, <2>1
  <2> QED BY <1>1, <1>2, <1>4, <2>1, <2>2 DEF OverFits, Body, entryVars, keptVars, owedVars
<1>9. CASE EndStopped(t)
  <2>1. /\ pc'[t] = "ended" /\ outcome'[t] = "stopped" /\ ~ Clears(t)
        /\ UNCHANGED <<gen, err, att, published, notice>> /\ flags' = flags \cup {"entry", "stops"}
    BY <1>9 DEF EndStopped, End, Clears, keptVars, owedVars, TypeOK, TurnsOK
  <2>2. \A u \in Turns : Clears(u) => Clears(u)'
    BY <1>4, <2>1
  <2> QED BY <1>1, <1>2, <1>4, <2>1, <2>2 DEF OverFits, Body
<1>10. CASE Settle(t)
  <2>1. /\ pc[t] = "ended" /\ pc'[t] = "settled" /\ ~ Clears(t)
        /\ UNCHANGED <<gen, published, notice>> /\ flags' \subseteq flags
        /\ err' # {} => err # {} \/ (gen = mine[t] /\ ByUser(t))
    BY <1>10 DEF Settle, Clears, TypeOK, TurnsOK
  <2>2. \A u \in Turns : Clears(u) => Clears(u)'
    BY <1>4, <2>1
  <2>3. gen' # 0 \/ err' # {} => gen # 0 \/ err # {}
    BY <1>1, <2>1 DEF MineKept
  <2>4. att' # None => "forgotten" \in flags
    <3>1. att' # None => att # None \/ outcome[t] = "failed"
      BY <1>10 DEF Settle, Forgone, OwedAfter
    <3> QED BY <2>1, <3>1 DEF OverFits
  <2> QED BY <1>1, <1>2, <1>4, <2>1, <2>2, <2>3, <2>4 DEF OverFits, Body
<1>11. ~ (ConfirmRefused(t) \/ FindConversation(t) \/ SaveMessage(t) \/ SaveAnswer(t) \/ KeepMessage(t)
          \/ Faulty(t))
  BY <1>2 DEF ConfirmRefused, FindConversation, SaveMessage, SaveAnswer, KeepMessage, Faulty, FailEarly, KeepFails
<1> QED BY <1>3, <1>5, <1>6, <1>7, <1>8, <1>9, <1>10, <1>11 DEF Start, Stopping

\* A turn admitted late will find the conversation gone.
LEMMA OverAdmit ==
    ASSUME TypeOK, TypeOK', SpellInv', OverFits, NEW t \in Turns, AdmitByUser(t) \/ AdmitNotice(t)
    PROVE  OverFits'
<1>1. /\ pc' = [pc EXCEPT ![t] = "queued"] /\ hearing' = hearing \cup {t}
      /\ seen' = [seen EXCEPT ![t] = counter] /\ UNCHANGED <<counter, notice, outcome, checks>>
      /\ flags \ {"paused", "notified"} \subseteq flags' /\ flags' \subseteq flags \cup {"entry", "stops"}
      /\ published' \in {published, {}} /\ att' \in {att, None}
  BY DEF AdmitByUser, AdmitNotice, Admit, envVars
<1>2. pc'[t] = "queued" /\ seen'[t] = counter /\ counter \in Nat /\ \A u \in Turns \ {t} : pc'[u] = pc[u]
  BY <1>1 DEF TypeOK, TurnsOK, EntryOK
<1>3. Clears(t)'
  BY <1>1, <1>2 DEF Clears, News
<1>4. ~ RestIdle'
  BY <1>2, FlightsAfter DEF SpellInv, Counted, RestIdle
<1> QED BY <1>1, <1>2, <1>3, <1>4 DEF OverFits, Body

\* An entry made for a notice, or left by a turn in a conversation gone, is released.
LEMMA OverReleased ==
    ASSUME TypeOK, TypeOK', SpellInv', OverFits, flights' = 0, NEW f, f \subseteq flags,
           ReleaseIdle(f, hearing'), UNCHANGED <<gen, err, published, notice, outcome, checks>>, att' = None,
           \A u \in Turns : Clears(u) => pc'[u] = pc[u] /\ seen'[u] = seen[u] /\ (u \in hearing => u \in hearing')
    PROVE  OverFits'
<1>1. \A u \in Turns : pc'[u] \notin Counted
  BY FlightsAfter DEF SpellInv
<1>2. flags' \subseteq f /\ (hearing' # {} => counter' = counter)
  BY DEF ReleaseIdle, Tidy
<1>3. \A u \in Turns : Clears(u) => Clears(u)'
  BY <1>2 DEF Clears, News
<1>4. flags' # {} => ~ RestIdle' \/ "stops" \in flags' \/ "paused" \in f \/ "notified" \in f
  BY DEF ReleaseIdle, Tidy
<1> QED BY <1>1, <1>2, <1>3, <1>4 DEF OverFits, Body, Counted

\* What the others do to it that use it.
LEMMA OverOthers ==
    ASSUME TypeOK, TypeOK', SpellInv, SpellInv', OverFits, NEW t \in Turns,
           Arrive(t) \/ RefuseWake(t) \/ QueueBetween(t) \/ Between(t) \/ DropLast(t) \/ DropOther(t)
    PROVE  OverFits'
<1> USE DEF Body
<1>1. CASE Arrive(t) \/ RefuseWake(t) \/ QueueBetween(t) \/ SaveBetween(t)
  <2>1. /\ UNCHANGED <<flights, gen, err, att, published, notice, reply, counter, hearing, seen, outcome, checks>>
        /\ \/ UNCHANGED <<flags, lock>> \/ flags' = flags \cup {"entry"}
    BY <1>1 DEF Arrive, RefuseWake, QueueBetween, SaveBetween, entryVars, keptVars, owedVars, envVars
  <2>2. /\ pc[t] \in {"idle", "checked", "between"} /\ pc'[t] \in {"checked", "done", "between", "after"}
        /\ pc'[t] \in {"checked", "done"} => pc[t] # "between" /\ UNCHANGED <<flags, lock>>
        /\ \A u \in Turns \ {t} : pc'[u] = pc[u]
    BY <1>1 DEF Arrive, RefuseWake, QueueBetween, SaveBetween, entryVars, TypeOK, TurnsOK
  <2>3. \A u \in Turns : Clears(u) => Clears(u)'
    BY <2>1, <2>2 DEF Clears, News
  <2>4. flags' # {} => \/ ~ RestIdle' \/ "stops" \in flags' \/ checks' > 0
                       \/ \E u \in Turns : pc'[u] \in {"between", "after"}
    BY <2>1, <2>2 DEF OverFits, RestIdle
  <2> QED BY <2>1, <2>2, <2>3, <2>4 DEF OverFits
<1>2. CASE AfterBetween(t)
  <2>1. /\ pc[t] = "after" /\ pc' = [pc EXCEPT ![t] = "done"]
        /\ UNCHANGED <<flights, gen, err, att, published, notice, reply, hearing, seen, outcome, checks>>
    BY <1>2 DEF AfterBetween, keptVars, owedVars, envVars
  <2>2. pc'[t] = "done" /\ \A u \in Turns \ {t} : pc'[u] = pc[u]
    BY <2>1 DEF TypeOK, TurnsOK
  <2>3. CASE flights = 0 /\ "entry" \in flags
    <3>1. ReleaseIdle(flags, hearing') /\ att' = None
      BY <1>2, <2>1, <2>3 DEF AfterBetween, SpellInv, SpellOver
    <3> QED BY <2>1, <2>2, <2>3, <3>1, OverReleased DEF Clears
  <2>4. CASE ~ (flights = 0 /\ "entry" \in flags)
    <3>1. UNCHANGED <<flags, lock, counter>>
      BY <1>2, <2>4 DEF AfterBetween
    <3>2. flags = {} \/ ~ RestIdle'
      BY <2>1, <2>4 DEF SpellInv, EntryKept, RestIdle
    <3>3. \A u \in Turns : Clears(u) => Clears(u)'
      BY <2>1, <2>2, <3>1 DEF Clears, News
    <3> QED BY <2>1, <2>2, <3>1, <3>2, <3>3 DEF OverFits
  <2> QED BY <2>3, <2>4
<1>3. CASE DropLast(t) \/ DropOther(t)
  <2>1. /\ pc[t] = "settled" /\ pc' = [pc EXCEPT ![t] = "done"] /\ hearing' = hearing \ {t}
        /\ seen' = [seen EXCEPT ![t] = 0] /\ UNCHANGED <<gen, err, outcome, checks>>
    BY <1>3 DEF DropLast, DropOther, TurnGone, keptVars, envVars
  <2>2. pc'[t] = "done" /\ \A u \in Turns \ {t} : pc'[u] = pc[u] /\ seen'[u] = seen[u]
    BY <2>1 DEF TypeOK, TurnsOK
  <2>3. CASE DropLast(t)
    <3>1. /\ flights' = 0 /\ att' = None /\ ReleaseIdle(flags \ {"notified"}, hearing')
          /\ UNCHANGED <<published, notice>>
      BY <2>1, <2>3 DEF DropLast, Publish, OverFits
    <3> QED BY <2>1, <2>2, <3>1, OverReleased DEF Clears
  <2>4. CASE DropOther(t)
    <3>1. UNCHANGED <<flags, counter, att, published, notice>> /\ flights' # 0
      BY <2>4 DEF DropOther, owedVars, TypeOK, EntryOK
    <3>2. \A u \in Turns : Clears(u) => Clears(u)'
      BY <2>1, <2>2, <3>1 DEF Clears, News
    <3> QED BY <2>1, <2>2, <3>1, <3>2 DEF OverFits, RestIdle
  <2> QED BY <1>3, <2>3, <2>4
<1> QED BY <1>1, <1>2, <1>3 DEF Between

\* A forget clears it all, or finds nothing.
LEMMA OverForget ==
    ASSUME TypeOK, TypeOK', SpellInv, SpellInv', Forget, UNCHANGED <<pc, outcome>>
    PROVE  OverFits'
<1>1. \A t \in Turns : pc[t] \in Body \cup {"saving", "ended"} => flights # 0
  BY FlightHasEntry DEF Body, Counted
<1>2. CASE "entry" \notin flags
  <2>1. flags = {} /\ RestIdle /\ UNCHANGED entryVars
    BY <1>2 DEF Forget, SpellInv, EntryKept
  <2> QED BY <1>1, <2>1 DEF OverFits, RestIdle, entryVars, keptVars, owedVars
<1>3. CASE "entry" \in flags
  <2>1. /\ hearing' = {} /\ gen' = 0 /\ err' = {} /\ att' = None /\ published' = {} /\ notice' = {}
        /\ flights' = flights
        /\ Tidy((flags \ {"stops", "paused", "notified"}) \cup {"forgotten"})
    BY <1>3 DEF Forget
  <2>2. flags' = IF RestIdle' THEN {} ELSE (flags \ {"stops", "paused", "notified"}) \cup {"forgotten"}
    BY <2>1 DEF Tidy
  <2>3. flights # 0 => "forgotten" \in flags'
    BY <2>1, <2>2 DEF RestIdle
  <2> QED BY <1>1, <2>1, <2>2, <2>3 DEF OverFits
<1> QED BY <1>2, <1>3

\* A step of a turn undeletes nothing, and one call at most fails in a step.
LEMMA TurnFaults ==
    ASSUME NEW t \in Turns,
           \/ Admission(t) \/ Start(t) \/ RunBody(t) \/ Streaming(t) \/ Stopping(t)
           \/ Ending(t) \/ Between(t) \/ Faulty(t)
    PROVE  deleting' = deleting /\ (faults' = faults \/ faults' = faults + 1)
BY DEF Admission, Arrive, AdmitByUser, AdmitNotice, Admit, RefuseWake, QueueBetween,
       ConfirmRefused, Start, Grant, FindConversation, FindGone, SaveMessage, SaveInGone,
       SaveAnswer, SaveNothing, RunBody, Streaming, EndWithNothing, CallModel, SaveReply,
       CallAgain, SaveCall, SaveResults, NotifyUser, FinishAgent, AskUser, EndAfterTools, Fail,
       FailAtTop, FailBody, Stream, Stopping, StopQueued, KeepMessage, KeepNothing, StopBody, Requeue,
       LockBack, EndStopped, Ending, Settle, DropLast, DropOther, Between, SaveBetween, AfterBetween,
       Faulty, FailEarly, KeepFails, Fault, envVars

\* Every step leaves no more of it than some turn or check will clear.
LEMMA OverStep ==
    ASSUME TypeOK, TypeOK', SpellInv, SpellInv', MineKept, OverInv, [Next]_vars
    PROVE  OverInv'
<1> SUFFICES ASSUME faults' = 0, deleting' = "over" PROVE OverFits'
  BY DEF OverInv
<1>1. faults \in Nat /\ checks \in Nat
  BY DEF TypeOK, OutsideOK
<1>3. ASSUME NEW t \in Turns,
             \/ Admission(t) \/ Start(t) \/ RunBody(t) \/ Streaming(t) \/ Stopping(t)
             \/ Ending(t) \/ Between(t) \/ Faulty(t)
      PROVE  OverFits'
  <2>1. faults = 0 /\ deleting = "over" /\ OverFits
    BY <1>1, <1>3, TurnFaults DEF OverInv
  <2> QED BY <1>3, <2>1, OverWorks, OverAdmit, OverOthers DEF Admission, Ending
<1>4. CASE CheckAfterWrite \/ DeleteForget
  <2>1. faults' # faults + 1
    BY <1>1
  <2>2. Forget /\ UNCHANGED <<pc, outcome>>
    BY <1>4, <2>1 DEF CheckAfterWrite, DeleteForget, Exists, Fault
  <2> QED BY <2>2, OverForget
<1>5. CASE Stop \/ ShowError \/ TrustDecided \/ DeleteMark \/ DeleteRows \/ DeleteFails \/ UNCHANGED vars
  <2>1. ~ (DeleteMark \/ DeleteRows \/ DeleteFails)
    BY DEF DeleteMark, DeleteRows, DeleteFails
  <2>2. faults = 0 /\ deleting = "over" /\ OverFits
    BY <1>5, <2>1 DEF Stop, StopTurnNow, ShowError, TrustDecided, vars, envVars, OverInv
  <2>3. ~ TrustDecided
    BY <2>2 DEF OverFits, TrustDecided
  <2>4. CASE Stop \/ ShowError
    <3>1. /\ checks' > 0 /\ UNCHANGED <<att, published, notice, hearing, pc, outcome>>
          /\ flags \subseteq flags' /\ flags' \subseteq flags \cup {"entry", "paused"}
      BY <1>1, <2>4 DEF Stop, StopTurnNow, ShowError, owedVars, turnVars
    <3> QED BY <2>2, <3>1 DEF OverFits
  <2>5. CASE UNCHANGED vars
    <3>1. UNCHANGED <<entryVars, turnVars, checks>>
      BY <2>5 DEF vars, envVars
    <3> QED BY <2>2, <3>1 DEF OverFits, Clears, News, RestIdle, entryVars, keptVars, owedVars, turnVars
  <2> QED BY <1>5, <2>1, <2>3, <2>4, <2>5
<1> QED BY <1>3, <1>4, <1>5 DEF Next, Outside

-----------------------------------------------------------------------------
(* What is written, and what is shown of a reply.                          *)

\* What a step of a turn writes: nothing, or one message under the lock; its
\* calls as they are made, then their results, and a note once it is stopped.
Says(t) ==
    /\ \A u \in Turns \ {t} : pc'[u] = pc[u]
    /\ \/ log' = log /\ (pc'[t] \in Calls => pc[t] \in Calls)
       \/ \E w \in Writes :
             /\ Exists /\ Holds(t) /\ log' = Append(log, <<w, t>>)
             /\ pc'[t] \in Calls => w = "call"
             /\ w = "result" => pc[t] \in Calls
             /\ w \in {"call", "result"} => pc[t] \in Listening /\ ~ News(t)
             /\ w = "note" => EndStopped(t)

\* Every step of a turn is such.
LEMMA SaysSteps ==
    ASSUME TypeOK, WritersHold, NEW t \in Turns,
           \/ Admission(t) \/ Start(t) \/ RunBody(t) \/ Streaming(t) \/ Stopping(t)
           \/ Ending(t) \/ Between(t) \/ Faulty(t)
    PROVE  Says(t)
<1> USE DEF Calls, Listening
<1>1. CASE Admission(t)
  BY <1>1 DEF Says, Admission, Arrive, AdmitByUser, AdmitNotice, Admit, RefuseWake, QueueBetween,
              ConfirmRefused, TypeOK, TurnsOK
<1>2. CASE Grant(t) \/ FindConversation(t) \/ FindGone(t) \/ SaveInGone(t) \/ SaveNothing(t) \/ Faulty(t)
  BY <1>2 DEF Says, Grant, FindConversation, FindGone, SaveInGone, SaveNothing, Faulty, FailEarly,
              KeepFails, End, TypeOK, TurnsOK
<1>3. CASE SaveMessage(t) \/ SaveAnswer(t)
  <2>1. pc[t] = "saving" /\ pc' = [pc EXCEPT ![t] = "top"] /\ Exists /\ Write("message", t)
    BY <1>3 DEF SaveMessage, SaveAnswer
  <2>2. Holds(t)
    BY <2>1 DEF WritersHold, Writing
  <2> QED BY <2>1, <2>2 DEF Says, Write, Writes, TypeOK, TurnsOK
<1>4. CASE RunBody(t)
  <2>1. pc[t] \in Body /\ ~ News(t)
    BY <1>4 DEF RunBody, Unstopped, EndWithNothing, CallModel, SaveReply, CallAgain, SaveCall, SaveResults,
                NotifyUser, FinishAgent, AskUser, EndAfterTools, Fail, FailAtTop, Body
  <2>2. Holds(t)
    BY <2>1 DEF WritersHold, Writing, Body
  <2>3. CASE EndWithNothing(t) \/ NotifyUser(t) \/ FinishAgent(t) \/ AskUser(t)
    BY <2>3 DEF Says, EndWithNothing, NotifyUser, FinishAgent, AskUser, End, TypeOK, TurnsOK
  <2>4. CASE CallModel(t)
    <3>1. pc'[t] = "call" /\ \A u \in Turns \ {t} : pc'[u] = pc[u]
      BY <2>4 DEF CallModel, TypeOK, TurnsOK
    <3>2. log' = log \/ (Exists /\ log' = Append(log, <<"message", t>>))
      BY <2>4 DEF CallModel, Write
    <3> QED BY <2>2, <3>1, <3>2 DEF Says, Writes
  <2>5. CASE (\E a \in {None, CutOff} : SaveReply(t, a)) \/ CallAgain(t)
    <3>1. pc'[t] \in {"ended", "top"} /\ \A u \in Turns \ {t} : pc'[u] = pc[u]
      BY <2>5 DEF SaveReply, CallAgain, End, TypeOK, TurnsOK
    <3>2. Exists /\ log' = Append(log, <<"reply", t>>)
      BY <2>5 DEF SaveReply, CallAgain, Write
    <3> QED BY <2>2, <3>1, <3>2 DEF Says, Writes
  <2>6. CASE SaveCall(t)
    <3>1. pc[t] = "call" /\ pc'[t] = "tools" /\ \A u \in Turns \ {t} : pc'[u] = pc[u]
      BY <2>6 DEF SaveCall, TypeOK, TurnsOK
    <3>2. Exists /\ log' = Append(log, <<"call", t>>)
      BY <2>6 DEF SaveCall, Write
    <3> QED BY <2>1, <2>2, <3>1, <3>2 DEF Says, Writes
  <2>7. CASE SaveResults(t) \/ EndAfterTools(t)
    <3>1. pc[t] \in Calls /\ pc'[t] \in {"ended", "top"} /\ \A u \in Turns \ {t} : pc'[u] = pc[u]
      BY <2>7 DEF SaveResults, EndAfterTools, End, TypeOK, TurnsOK
    <3>2. log' = log \/ (Exists /\ log' = Append(log, <<"result", t>>))
      BY <2>7 DEF SaveResults, EndAfterTools, Write
    <3> QED BY <2>1, <2>2, <3>1, <3>2 DEF Says, Writes
  <2>8. CASE Fail(t) \/ FailAtTop(t)
    <3>1. pc'[t] = "ended" /\ \A u \in Turns \ {t} : pc'[u] = pc[u]
      BY <2>8 DEF Fail, FailAtTop, FailBody, End, TypeOK, TurnsOK
    <3>2. log' = log \/ (Exists /\ log' = Append(log, <<"failure", t>>))
      BY <2>8 DEF Fail, FailAtTop, FailBody, Write
    <3> QED BY <2>2, <3>1, <3>2 DEF Says, Writes
  <2> QED BY <1>4, <2>3, <2>4, <2>5, <2>6, <2>7, <2>8 DEF RunBody
<1>5. CASE Streaming(t) \/ Ending(t) \/ AfterBetween(t)
  BY <1>5 DEF Says, Streaming, Stream, Ending, Settle, DropLast, DropOther, TurnGone, AfterBetween, turnVars,
              TypeOK, TurnsOK
<1>6. CASE StopQueued(t) \/ KeepNothing(t) \/ StopBody(t) \/ Requeue(t) \/ LockBack(t)
  BY <1>6 DEF Says, StopQueued, KeepNothing, StopBody, Requeue, LockBack, TypeOK, TurnsOK
<1>7. CASE KeepMessage(t) \/ SaveBetween(t)
  <2>1. Holds(t) /\ pc'[t] \in {"noting", "after"} /\ \A u \in Turns \ {t} : pc'[u] = pc[u]
    BY <1>7 DEF KeepMessage, SaveBetween, TypeOK, TurnsOK
  <2>2. log' = log \/ (Exists /\ log' = Append(log, <<"message", t>>))
    BY <1>7 DEF KeepMessage, SaveBetween, Write
  <2> QED BY <2>1, <2>2 DEF Says, Writes
<1>8. CASE EndStopped(t)
  <2>1. pc[t] = "noting" /\ pc'[t] = "ended" /\ \A u \in Turns \ {t} : pc'[u] = pc[u]
    BY <1>8 DEF EndStopped, End, TypeOK, TurnsOK
  <2>2. Holds(t)
    BY <2>1 DEF WritersHold, Writing
  <2>3. log' = log \/ (Exists /\ log' = Append(log, <<"note", t>>))
    BY <1>8 DEF EndStopped, Write
  <2> QED BY <1>8, <2>1, <2>2, <2>3 DEF Says, Writes
<1> QED BY <1>1, <1>2, <1>3, <1>4, <1>5, <1>6, <1>7, <1>8 DEF Start, Stopping, Between

\* Nothing outside the turns writes, or moves one.
LEMMA OutsideSilent ==
    ASSUME Outside \/ UNCHANGED vars
    PROVE  UNCHANGED <<log, pc, outcome, reply, mine, kind>>
BY DEF Outside, Stop, StopTurnNow, ShowError, CheckAfterWrite, TrustDecided, DeleteMark, DeleteRows, DeleteFails,
       DeleteForget, Forget, vars, entryVars, turnVars

\* A turn's results follow its calls: whoever waits for results has the lock.
LEMMA CallsStep ==
    ASSUME IndInv, CallLast, ResultsFollowCalls, [Next]_vars
    PROVE  CallLast' /\ ResultsFollowCalls'
<1> USE DEF IndInv
<1>0. log \in Seq(Writes \X Turns) /\ Len(log) \in Nat
  BY DEF TypeOK, OutsideOK
<1>1. CASE UNCHANGED <<log, pc>>
  BY <1>1, StaysGone DEF CallLast, ResultsFollowCalls
<1>2. ASSUME NEW t \in Turns, Says(t)
      PROVE  CallLast' /\ ResultsFollowCalls'
  <2>1. CASE log' = log /\ (pc'[t] \in Calls => pc[t] \in Calls)
    <3>1. \A u \in Turns : pc'[u] \in Calls => pc[u] \in Calls
      BY <1>2, <2>1 DEF Says
    <3> QED BY <2>1, <3>1, StaysGone DEF CallLast, ResultsFollowCalls
  <2>2. ASSUME NEW w \in Writes, Exists, Holds(t), log' = Append(log, <<w, t>>),
               pc'[t] \in Calls => w = "call", w = "result" => pc[t] \in Calls
        PROVE  CallLast' /\ ResultsFollowCalls'
    <3>1. /\ Len(log') = Len(log) + 1 /\ log'[Len(log')] = <<w, t>> /\ log' # <<>>
          /\ \A i \in 1..Len(log) : log'[i] = log[i]
      BY <1>0, <2>2
    <3>2. ASSUME NEW u \in Turns, u # t
          PROVE  pc'[u] \notin Calls
      <4>1. pc'[u] \in Calls => Holds(u)
        BY <1>2, <3>2 DEF Says, WritersHold, Writing, Calls
      <4>2. Holds(u) => u = t
        BY <2>2 DEF LocksAgree, Holds
      <4> QED BY <3>2, <4>1, <4>2
    <3>3. CallLast'
      BY <2>2, <3>1, <3>2 DEF CallLast
    <3>4. ASSUME NEW i \in 1..Len(log'), log'[i][1] = "result"
          PROVE  i > 1 /\ log'[i - 1] = <<"call", log'[i][2]>>
      <4>1. CASE i \in 1..Len(log)
        <5>1. i > 1 /\ log[i - 1] = <<"call", log[i][2]>>
          BY <3>1, <3>4, <4>1 DEF ResultsFollowCalls
        <5>2. i - 1 \in 1..Len(log)
          BY <1>0, <4>1, <5>1
        <5> QED BY <3>1, <4>1, <5>1, <5>2
      <4>2. CASE i = Len(log) + 1
        <5>1. w = "result" /\ log'[i][2] = t
          BY <3>1, <3>4, <4>2
        <5>2. log # <<>> /\ log[Len(log)] = <<"call", t>>
          BY <2>2, <5>1 DEF CallLast
        <5>3. Len(log) \in 1..Len(log)
          BY <1>0, <5>2
        <5> QED BY <1>0, <3>1, <4>2, <5>1, <5>2, <5>3
      <4> QED BY <1>0, <3>1, <3>4, <4>1, <4>2
    <3> QED BY <3>3, <3>4 DEF ResultsFollowCalls
  <2> QED BY <1>2, <2>1, <2>2 DEF Says
<1> QED BY <1>1, <1>2, SaysSteps, OutsideSilent DEF Next

\* A turn that streams still listened to no Stop when it called the model,
\* which began a clean reply.
LEMMA ReplyStep ==
    ASSUME IndInv, SpellInv, ReplyFits, [Next]_vars
    PROVE  ReplyFits'
<1> USE DEF IndInv
<1>0. /\ counter \in Nat /\ seen \in [Turns -> Nat] /\ pc \in [Turns -> States] /\ hearing \subseteq Turns
  BY DEF TypeOK, EntryOK, TurnsOK
<1>1. ASSUME NEW t \in Turns,
             \/ ConfirmRefused(t) \/ Start(t) \/ RunBody(t) \/ Stopping(t) \/ Settle(t) \/ Faulty(t)
      PROVE  (reply' = reply \/ reply' = {}) /\ (pc'[t] = "call" => reply' = {})
  <2>1. CASE ConfirmRefused(t) \/ Start(t) \/ Faulty(t)
    BY <1>0, <2>1 DEF ConfirmRefused, Start, Grant, FindConversation, FindGone, SaveMessage, SaveInGone, SaveAnswer,
                SaveNothing, Faulty, FailEarly, KeepFails, End, entryVars
  <2>2. CASE RunBody(t)
    BY <1>0, <2>2 DEF RunBody, EndWithNothing, CallModel, SaveReply, CallAgain, SaveCall, SaveResults, NotifyUser,
                FinishAgent, AskUser, EndAfterTools, Fail, FailAtTop, FailBody, End, entryVars
  <2>3. CASE Stopping(t) \/ Settle(t)
    BY <1>0, <2>3 DEF Stopping, StopQueued, KeepMessage, KeepNothing, StopBody, Requeue, LockBack, EndStopped,
                Settle, End, entryVars
  <2> QED BY <1>1, <2>1, <2>2, <2>3
<1>2. ASSUME NEW t \in Turns, Works(t), reply' = reply \/ reply' = {}, pc'[t] = "call" => reply' = {}
      PROVE  ReplyFits'
  <2>1. \A u \in Turns \ {t} : pc'[u] = pc[u] /\ (News(u)' <=> News(u))
    BY <1>0, <1>2 DEF Works, News
  <2> QED BY <1>2, <2>1 DEF ReplyFits
<1>3. ASSUME NEW t \in Turns, Streaming(t)
      PROVE  ReplyFits'
  <2>1. /\ pc[t] = "call" /\ ~ News(t) /\ reply' = reply \cup {t}
        /\ UNCHANGED <<pc, hearing, counter, seen>>
    BY <1>3 DEF Streaming, Stream, Unstopped, turnVars
  <2>2. reply' = {t}
    BY <2>1 DEF ReplyFits
  <2>3. ASSUME NEW u \in Turns, pc[u] = "call", ~ News(u)
        PROVE  u = t
    <3>1. ref[u] = lock /\ ref[t] = lock /\ Holds(u) /\ Holds(t)
      BY <2>1, <2>3 DEF SpellInv, HeardAgree, Listening, WritersHold, Writing
    <3> QED BY <3>1 DEF Holds
  <2> QED BY <2>1, <2>2, <2>3 DEF ReplyFits, News
<1>4. ASSUME NEW t \in Turns, AdmitByUser(t) \/ AdmitNotice(t)
      PROVE  ReplyFits'
  <2>1. /\ pc' = [pc EXCEPT ![t] = "queued"] /\ hearing' = hearing \cup {t}
        /\ seen' = [seen EXCEPT ![t] = counter] /\ UNCHANGED <<counter, reply>>
    BY <1>4 DEF AdmitByUser, AdmitNotice, Admit
  <2> QED BY <1>0, <2>1 DEF ReplyFits, News
<1>5. ASSUME NEW t \in Turns, Arrive(t) \/ RefuseWake(t) \/ QueueBetween(t) \/ Between(t)
      PROVE  ReplyFits'
  <2>1. /\ \E s \in {"checked", "done", "between", "after"} : pc' = [pc EXCEPT ![t] = s]
        /\ UNCHANGED <<reply, hearing, seen>>
        /\ hearing # {} => counter' = counter
    BY <1>5 DEF Arrive, RefuseWake, QueueBetween, Between, SaveBetween, AfterBetween, ReleaseIdle, entryVars
  <2>2. \A u \in Turns : ~ News(u)' => ~ News(u)
    BY <2>1 DEF News
  <2> QED BY <1>0, <2>1, <2>2 DEF ReplyFits
<1>6. ASSUME NEW t \in Turns, DropLast(t) \/ DropOther(t)
      PROVE  ReplyFits'
  <2>1. /\ pc' = [pc EXCEPT ![t] = "done"] /\ hearing' = hearing \ {t} /\ seen' = [seen EXCEPT ![t] = 0]
        /\ reply' = {} \/ UNCHANGED <<reply, counter>>
    BY <1>6 DEF DropLast, DropOther, TurnGone
  <2> QED BY <1>0, <2>1 DEF ReplyFits, News
<1>7. CASE Outside \/ UNCHANGED vars
  <2>1. UNCHANGED <<pc, reply>>
    BY <1>7, OutsideSilent
  <2>2. \A u \in Turns : ~ News(u)' => ~ News(u)
    <3>1. \/ hearing' = {}
          \/ UNCHANGED <<hearing, seen>> /\ counter' \in {counter, counter + 1}
      BY <1>7 DEF Outside, Stop, StopTurnNow, ShowError, CheckAfterWrite, TrustDecided, DeleteMark, DeleteRows,
                  DeleteFails, DeleteForget, Forget, vars, entryVars, turnVars
    <3> QED BY <1>0, <3>1 DEF News
  <2> QED BY <2>1, <2>2 DEF ReplyFits
<1> QED BY <1>1, <1>2, <1>3, <1>4, <1>5, <1>6, <1>7, WorksSteps DEF Next, Admission, Ending

-----------------------------------------------------------------------------
(* Stops' notes, and the work they cut short.                              *)

\* The notes after a write.
LEMMA NotesAfter ==
    ASSUME TypeOK
    PROVE  /\ IsFiniteSet(Notes) /\ Cardinality(Notes) \in Nat
           /\ log' = log => Notes' = Notes
           /\ \A w \in Writes, t \in Turns :
                 log' = Append(log, <<w, t>>) =>
                    IF w = "note"
                    THEN Notes' = Notes \cup {Len(log) + 1} /\ Cardinality(Notes') = Cardinality(Notes) + 1
                    ELSE Notes' = Notes
<1>1. log \in Seq(Writes \X Turns) /\ Len(log) \in Nat
  BY DEF TypeOK, OutsideOK
<1>2. IsFiniteSet(Notes) /\ Cardinality(Notes) \in Nat
  <2>1. IsFiniteSet(1..Len(log))
    BY <1>1, FS_Interval
  <2>2. Notes \in SUBSET (1..Len(log))
    BY DEF Notes
  <2>3. IsFiniteSet(Notes)
    BY <2>1, <2>2, FS_Subset
  <2> QED BY <2>3, FS_CardinalityType
<1>3. log' = log => Notes' = Notes
  BY DEF Notes
<1>4. ASSUME NEW w \in Writes, NEW t \in Turns, log' = Append(log, <<w, t>>)
      PROVE  Notes' = IF w = "note" THEN Notes \cup {Len(log) + 1} ELSE Notes
  <2>1. /\ Len(log') = Len(log) + 1 /\ log'[Len(log) + 1] = <<w, t>>
        /\ \A i \in 1..Len(log) : log'[i] = log[i]
    BY <1>1, <1>4
  <2>2. log'[Len(log) + 1][1] = w
    BY <2>1
  <2>3. 1..Len(log') = (1..Len(log)) \cup {Len(log) + 1}
    BY <1>1, <2>1
  <2>4. Notes' = {i \in 1..Len(log') : log'[i][1] = "note"}
    BY DEF Notes
  <2> QED BY <2>1, <2>2, <2>3, <2>4 DEF Notes
<1>5. Len(log) + 1 \notin Notes
  BY <1>1 DEF Notes
<1>6. Cardinality(Notes \cup {Len(log) + 1}) = Cardinality(Notes) + 1
  BY <1>2, <1>5, FS_AddElement
<1> QED BY <1>2, <1>3, <1>4, <1>6

\* A note is written by a turn that ends stopped, and nobody else.
LEMMA NotesOf ==
    ASSUME TypeOK, NEW t \in Turns, Says(t), ~ EndStopped(t)
    PROVE  Notes' = Notes
BY NotesAfter DEF Says

\* Each note is of a stop of its own: each raises the stop noted last, which
\* the counter, raised by a Stop, is never behind.
LEMMA NotesStep ==
    ASSUME IndInv, SpellInv, NotesFit, [Next]_vars
    PROVE  NotesFit'
<1> USE DEF IndInv
<1>0. /\ counter \in Nat /\ noted \in Nat /\ stopped \in Nat /\ Cardinality(Notes) \in Nat
      /\ seen \in [Turns -> Nat]
      /\ Exists' => Exists
  BY NotesAfter, StaysGone DEF TypeOK, EntryOK, TurnsOK, OutsideOK
<1>1. ASSUME Notes' = Notes, stopped' = stopped, UNCHANGED <<counter, noted>> \/ (counter' = 0 /\ noted' = 0) \/ ~ Exists'
      PROVE  NotesFit'
  BY <1>0, <1>1 DEF NotesFit
<1>2. ASSUME NEW t \in Turns,
             \/ Admission(t) \/ Start(t) \/ RunBody(t) \/ Streaming(t) \/ Faulty(t) \/ StopQueued(t)
             \/ KeepMessage(t) \/ KeepNothing(t) \/ StopBody(t) \/ Requeue(t) \/ LockBack(t)
             \/ Ending(t) \/ Between(t)
      PROVE  NotesFit'
  <2>1. ~ EndStopped(t)
    <3>1. outcome'[t] # "stopped" \/ pc[t] # "noting"
      BY <1>2 DEF Admission, Arrive, AdmitByUser, AdmitNotice, Admit, RefuseWake, QueueBetween, ConfirmRefused,
           Start, Grant, FindConversation, FindGone, SaveMessage, SaveInGone, SaveAnswer, SaveNothing,
           RunBody, EndWithNothing, CallModel, SaveReply, CallAgain, SaveCall, SaveResults, NotifyUser, FinishAgent,
           AskUser, EndAfterTools, Fail, FailAtTop, Body, Streaming, Stream, Faulty, FailEarly, KeepFails,
           StopQueued, KeepMessage, KeepNothing, StopBody, Requeue, LockBack, Ending, Settle, DropLast, DropOther,
           Between, SaveBetween, AfterBetween
    <3> QED BY <3>1 DEF EndStopped, End, TypeOK, TurnsOK
  <2>2. Notes' = Notes
    BY <1>2, <2>1, SaysSteps, NotesOf DEF Stopping
  <2>3. UNCHANGED stopped
    BY <1>2 DEF Admission, Arrive, AdmitByUser, AdmitNotice, Admit, RefuseWake, QueueBetween, ConfirmRefused,
           Start, Grant, FindConversation, FindGone, SaveMessage, SaveInGone, SaveAnswer, SaveNothing,
           RunBody, EndWithNothing, CallModel, SaveReply, CallAgain, SaveCall, SaveResults, NotifyUser, FinishAgent,
           AskUser, EndAfterTools, Fail, FailAtTop, Streaming, Stream, Faulty, FailEarly, KeepFails,
           StopQueued, KeepMessage, KeepNothing, StopBody, Requeue, LockBack, Ending, Settle, DropLast, DropOther,
           Between, SaveBetween, AfterBetween, envVars
  <2>4. UNCHANGED <<counter, noted>> \/ (counter' = 0 /\ noted' = 0)
    BY <1>2 DEF Admission, Arrive, AdmitByUser, AdmitNotice, Admit, RefuseWake, QueueBetween, ConfirmRefused,
           Start, Grant, FindConversation, FindGone, SaveMessage, SaveInGone, SaveAnswer, SaveNothing,
           RunBody, EndWithNothing, CallModel, SaveReply, CallAgain, SaveCall, SaveResults, NotifyUser, FinishAgent,
           AskUser, EndAfterTools, Fail, FailAtTop, FailBody, Streaming, Stream, Faulty, FailEarly, KeepFails,
           StopQueued, KeepMessage, KeepNothing, StopBody, Requeue, LockBack, Ending, Settle, DropLast, DropOther,
           Between, SaveBetween, AfterBetween, ReleaseIdle, entryVars
  <2> QED BY <1>1, <2>2, <2>3, <2>4
<1>3. ASSUME NEW t \in Turns, EndStopped(t)
      PROVE  NotesFit'
  <2>1. /\ pc[t] = "noting" /\ noted' = Larger(noted, seen[t]) /\ UNCHANGED <<counter, stopped, deleting>>
        /\ log' = log \/ (log' = Append(log, <<"note", t>>) /\ seen[t] > noted /\ Exists)
    BY <1>3 DEF EndStopped, FirstNoted, Write
  <2>2. Exists => seen[t] <= counter
    BY <2>1 DEF SpellInv, HearersFit, Counted, ReceiversFit
  <2>3. seen[t] \in Nat /\ noted' \in {noted, seen[t]} /\ noted' >= noted /\ noted' >= seen[t]
    BY <1>0, <2>1 DEF Larger
  <2>4. CASE log' = log
    <3>1. Notes' = Notes
      BY <2>4, NotesAfter
    <3> QED BY <1>0, <2>1, <2>2, <2>3, <3>1 DEF NotesFit, Exists
  <2>5. CASE log' = Append(log, <<"note", t>>) /\ seen[t] > noted /\ Exists
    <3>1. Cardinality(Notes') = Cardinality(Notes) + 1
      BY <2>5, NotesAfter DEF Writes
    <3>2. Cardinality(Notes) + counter <= stopped + noted
      BY <2>5 DEF NotesFit
    <3> QED BY <1>0, <2>1, <2>2, <2>3, <2>5, <3>1, <3>2 DEF NotesFit
  <2> QED BY <2>1, <2>4, <2>5
<1>4. CASE Stop \/ DeleteMark
  <2>1. StopTurnNow
    BY <1>4 DEF Stop, DeleteMark
  <2>2. Notes' = Notes /\ noted' = noted /\ stopped' = stopped + 1 /\ counter' \in {counter, counter + 1}
    BY <2>1, NotesAfter DEF StopTurnNow
  <2> QED BY <1>0, <2>2 DEF NotesFit
<1>5. CASE ShowError \/ CheckAfterWrite \/ TrustDecided \/ DeleteRows \/ DeleteFails \/ DeleteForget \/ UNCHANGED vars
  <2>1. Notes' = Notes
    BY <1>5, NotesAfter, OutsideSilent DEF Outside
  <2>2. stopped' = stopped
    BY <1>5 DEF ShowError, CheckAfterWrite, TrustDecided, DeleteRows, DeleteFails, DeleteForget, vars, envVars
  <2>3. UNCHANGED <<counter, noted>> \/ (counter' = 0 /\ noted' = 0)
    BY <1>5 DEF ShowError, CheckAfterWrite, TrustDecided, DeleteRows, DeleteFails, DeleteForget, Forget, vars, entryVars
  <2> QED BY <1>1, <2>1, <2>2, <2>3
<1> QED BY <1>2, <1>3, <1>4, <1>5 DEF Next, Stopping, Outside

\* What is open after a turn's step was open, or is what it wrote; a note
\* closes everything before it.
LEMMA OpenAfter ==
    ASSUME TypeOK, NEW t \in Turns, Says(t), NEW u \in Turns, Open(u)'
    PROVE  /\ Open(u) \/ (u = t /\ pc[t] \in Listening /\ ~ News(t))
           /\ log' # Append(log, <<"note", t>>)
<1>1. log \in Seq(Writes \X Turns) /\ Len(log) \in Nat
  BY DEF TypeOK, OutsideOK
<1>2. CASE log' = log
  <2>1. Open(u)
    BY <1>2, NotesAfter DEF Open
  <2>2. log # Append(log, <<"note", t>>)
    <3>1. Len(Append(log, <<"note", t>>)) = Len(log) + 1
      BY <1>1 DEF Writes
    <3> QED BY <1>1, <3>1
  <2> QED BY <1>2, <2>1, <2>2
<1>3. ASSUME NEW w \in Writes, log' = Append(log, <<w, t>>),
             w \in {"call", "result"} => pc[t] \in Listening /\ ~ News(t)
      PROVE  /\ Open(u) \/ (u = t /\ pc[t] \in Listening /\ ~ News(t))
             /\ log' # Append(log, <<"note", t>>)
  <2>1. /\ Len(log') = Len(log) + 1 /\ log'[Len(log) + 1] = <<w, t>>
        /\ \A i \in 1..Len(log) : log'[i] = log[i]
    BY <1>1, <1>3
  <2>2. PICK i \in 1..Len(log') : /\ log'[i][2] = u /\ log'[i][1] \in {"call", "result"}
                                  /\ \A j \in Notes' : j < i
    BY DEF Open
  <2>3. w # "note"
    <3>1. w = "note" => Len(log) + 1 \in Notes'
      BY <1>3, NotesAfter
    <3> QED BY <1>1, <2>1, <2>2, <3>1
  <2>4. Notes' = Notes
    BY <1>3, <2>3, NotesAfter
  <2>5. CASE i \in 1..Len(log)
    BY <2>1, <2>2, <2>3, <2>4, <2>5 DEF Open
  <2>6. CASE i = Len(log) + 1
    <3>1. u = t /\ w \in {"call", "result"}
      BY <2>1, <2>2, <2>6
    <3> QED BY <1>3, <2>1, <2>3, <3>1
  <2>7. log' # Append(log, <<"note", t>>)
    <3>1. Append(log, <<"note", t>>)[Len(log) + 1] = <<"note", t>>
      BY <1>1 DEF Writes
    <3> QED BY <2>1, <2>3, <3>1
  <2> QED BY <1>1, <2>1, <2>2, <2>5, <2>6, <2>7
<1> QED BY <1>2, <1>3 DEF Says

\* A step that ends nobody as stopped, and notes nothing.
Unnoted == /\ Unheard /\ noted' = noted
           /\ \A u \in Turns : outcome'[u] = "stopped" => outcome[u] = "stopped"

\* All a turn does but to be admitted, caught, ended as stopped and dropped.
LEMMA UnnotedSteps ==
    ASSUME TypeOK, NEW t \in Turns,
           \/ Arrive(t) \/ RefuseWake(t) \/ QueueBetween(t) \/ ConfirmRefused(t) \/ Start(t)
           \/ RunBody(t) \/ Streaming(t) \/ Faulty(t) \/ KeepMessage(t) \/ KeepNothing(t)
           \/ Requeue(t) \/ LockBack(t) \/ Settle(t) \/ SaveBetween(t)
    PROVE  Unnoted
<1>1. Unheard
  BY UnheardSteps
<1>2. CASE \/ Arrive(t) \/ RefuseWake(t) \/ QueueBetween(t) \/ ConfirmRefused(t) \/ KeepMessage(t) \/ KeepNothing(t)
           \/ Requeue(t) \/ LockBack(t) \/ Settle(t) \/ SaveBetween(t) \/ Streaming(t)
  BY <1>1, <1>2 DEF Unnoted, Arrive, RefuseWake, QueueBetween, ConfirmRefused, KeepMessage, KeepNothing, Requeue,
                    LockBack, Settle, SaveBetween, Streaming, Stream, entryVars, turnVars
<1>3. CASE Start(t) \/ Faulty(t)
  BY <1>1, <1>3 DEF Unnoted, Start, Grant, FindConversation, FindGone, SaveMessage, SaveInGone, SaveAnswer,
                    SaveNothing, Faulty, FailEarly, KeepFails, End, entryVars, TypeOK, TurnsOK
<1>4. CASE RunBody(t)
  BY <1>1, <1>4 DEF Unnoted, RunBody, EndWithNothing, CallModel, SaveReply, CallAgain, SaveCall, SaveResults,
                    NotifyUser, FinishAgent, AskUser, EndAfterTools, Fail, FailAtTop, FailBody, End, entryVars,
                    TypeOK, TurnsOK
<1> QED BY <1>1, <1>2, <1>3, <1>4

\* Work that a Stop cut short is noted after it: until a turn that did some
\* is told of a Stop, no Stop it has not seen is noted.
LEMMA WorkStep ==
    ASSUME IndInv, SpellInv, NotesFit, WorkNoted, [Next]_vars
    PROVE  WorkNoted'
<1> USE DEF IndInv
<1>0. /\ counter \in Nat /\ noted \in Nat /\ seen \in [Turns -> Nat] /\ faults \in Nat
      /\ pc \in [Turns -> States]
      /\ outcome \in [Turns -> {"none", "ok", "failed", "stopped"}]
  BY DEF TypeOK, EntryOK, TurnsOK, OutsideOK
<1>1. faults' = 0 => faults = 0
  <2>1. faults' \in {faults, faults + 1}
    BY TurnFaults DEF Next, Outside, Stop, StopTurnNow, ShowError, CheckAfterWrite, TrustDecided, DeleteMark,
                      DeleteRows, DeleteFails, DeleteForget, Fault, vars, envVars
  <2> QED BY <1>0, <2>1
<1> SUFFICES ASSUME Exists', faults' = 0, NEW u \in Turns
             PROVE  WorkFits(u)'
  BY DEF WorkNoted
<1>2. Exists /\ noted <= counter /\ \A v \in Turns : WorkFits(v)
  BY <1>1, StaysGone DEF WorkNoted, NotesFit
<1>3. WorkFits(u)
  BY <1>2
<1>4. ASSUME NEW t \in Turns, Unnoted, Says(t)
      PROVE  WorkFits(u)'
  <2>1. /\ UNCHANGED <<seen, noted>>
        /\ outcome'[u] = "stopped" => outcome[u] = "stopped"
        /\ pc'[u] \in Listening => pc[u] \in Listening
        /\ pc'[u] \in Caught => pc[u] \in Caught
        /\ pc'[u] \in {"idle", "checked"} => pc[u] \in {"idle", "checked"}
    BY <1>0, <1>4 DEF Unnoted, Unheard
  <2>2. Open(u)' => Open(u) \/ (pc[u] \in Listening /\ ~ News(u))
    BY <1>4, OpenAfter
  <2>3. ~ News(u) => noted <= seen[u]
    BY <1>0, <1>2 DEF News
  <2> QED BY <1>3, <2>1, <2>2, <2>3 DEF WorkFits, Listening, Caught
<1>5. ASSUME NEW t \in Turns, EndStopped(t)
      PROVE  WorkFits(u)'
  <2>1. /\ pc[t] = "noting" /\ pc' = [pc EXCEPT ![t] = "ended"] /\ outcome' = [outcome EXCEPT ![t] = "stopped"]
        /\ noted' = Larger(noted, seen[t]) /\ UNCHANGED seen
    BY <1>5 DEF EndStopped, End
  <2>2. CASE log' = Append(log, <<"note", t>>)
    <3>1. ~ Open(u)'
      BY <1>5, <2>2, SaysSteps, OpenAfter DEF Stopping
    <3> QED BY <1>0, <1>3, <2>1, <3>1 DEF WorkFits, Listening, Caught
  <2>3. CASE log' = log /\ LastIsNote
    <3>1. Len(log) \in Notes /\ Len(log) \in Nat
      BY <2>3 DEF LastIsNote, Notes, TypeOK, OutsideOK
    <3>2. ~ Open(u)
      BY <3>1 DEF Open
    <3>3. ~ Open(u)'
      BY <2>3, <3>2, NotesAfter DEF Open
    <3> QED BY <1>0, <1>3, <2>1, <3>3 DEF WorkFits, Listening, Caught
  <2>4. CASE log' = log /\ ~ (seen[t] > noted)
    <3>1. noted' = noted
      BY <1>0, <2>1, <2>4 DEF Larger
    <3>2. Open(u)' <=> Open(u)
      BY <2>4, NotesAfter DEF Open
    <3>3. ~ Open(t)
      BY <1>0, <1>2, <2>1, <2>4 DEF WorkFits, Caught
    <3>4. CASE u = t
      BY <1>0, <2>1, <3>2, <3>3, <3>4 DEF WorkFits, Listening, Caught
    <3>5. CASE u # t
      BY <1>0, <1>3, <2>1, <3>1, <3>2, <3>5 DEF WorkFits, Caught
    <3> QED BY <3>4, <3>5
  <2> QED BY <1>0, <1>2, <1>5, <2>2, <2>3, <2>4 DEF EndStopped, Write, Fault, FirstNoted
<1>6. ASSUME UNCHANGED <<log, outcome>>
      PROVE  Open(u)' <=> Open(u)
  BY <1>6, NotesAfter DEF Open
<1>7. ASSUME NEW t \in Turns, StopQueued(t) \/ StopBody(t)
      PROVE  WorkFits(u)'
  <2>1. /\ pc[t] \in Listening /\ News(t) /\ UNCHANGED <<log, outcome, noted>>
        /\ \E s \in {"stopQueued", "stopBody"} : pc' = [pc EXCEPT ![t] = s]
        /\ seen' = [seen EXCEPT ![t] = StoppedBy(t)]
    BY <1>7 DEF StopQueued, StopBody, Body, Listening, entryVars
  <2>2. t \in hearing
    BY <1>2, <2>1 DEF SpellInv, HearersFit, Listening, Counted
  <2>3. counter > seen[t] /\ seen' = [seen EXCEPT ![t] = counter]
    BY <2>1, <2>2 DEF News, StoppedBy
  <2>4. CASE u = t
    <3>1. seen'[t] = counter /\ pc'[t] \notin Listening /\ pc'[t] \notin {"idle", "checked"}
      BY <1>0, <2>1, <2>3 DEF Listening
    <3> QED BY <1>0, <1>3, <1>6, <2>1, <2>3, <2>4, <3>1 DEF WorkFits, Caught
  <2>5. CASE u # t
    BY <1>0, <1>3, <1>6, <2>1, <2>5 DEF WorkFits, Caught
  <2> QED BY <2>4, <2>5
<1>8. ASSUME NEW t \in Turns, AdmitByUser(t) \/ AdmitNotice(t)
      PROVE  WorkFits(u)'
  <2>1. /\ pc[t] = "checked" /\ pc' = [pc EXCEPT ![t] = "queued"] /\ UNCHANGED <<log, outcome, noted>>
        /\ seen' = [seen EXCEPT ![t] = counter]
    BY <1>8 DEF AdmitByUser, AdmitNotice, Admit
  <2>2. CASE u = t
    BY <1>0, <1>3, <1>6, <2>1, <2>2 DEF WorkFits, Listening, Caught
  <2>3. CASE u # t
    BY <1>0, <1>3, <1>6, <2>1, <2>3 DEF WorkFits, Caught
  <2> QED BY <2>2, <2>3
<1>9. ASSUME NEW t \in Turns, DropLast(t) \/ DropOther(t) \/ AfterBetween(t)
      PROVE  WorkFits(u)'
  <2>1. /\ pc' = [pc EXCEPT ![t] = "done"] /\ UNCHANGED <<log, outcome>> /\ noted' \in {noted, 0}
        /\ \A v \in Turns : v # t => seen'[v] = seen[v]
    BY <1>0, <1>9 DEF DropLast, DropOther, TurnGone, AfterBetween, ReleaseIdle
  <2>2. CASE u = t
    BY <1>0, <1>3, <1>6, <2>1, <2>2 DEF WorkFits, Listening, Caught
  <2>3. CASE u # t
    BY <1>0, <1>3, <1>6, <2>1, <2>3 DEF WorkFits, Caught
  <2> QED BY <2>2, <2>3
<1>10. CASE Outside \/ UNCHANGED vars
  <2>1. UNCHANGED <<log, pc, outcome>>
    BY <1>10, OutsideSilent
  <2>2. UNCHANGED <<noted, seen>>
    BY <1>2, <1>10 DEF Outside, Stop, StopTurnNow, ShowError, CheckAfterWrite, TrustDecided, DeleteMark, DeleteRows,
                DeleteFails, DeleteForget, Exists, vars, entryVars, turnVars
  <2> QED BY <1>3, <1>6, <2>1, <2>2 DEF WorkFits, Caught
<1> QED BY <1>4, <1>5, <1>7, <1>8, <1>9, <1>10, SaysSteps, UnnotedSteps
        DEF Next, Admission, Stopping, Ending, Between

\* At startup nothing is in flight, and nothing was written.
LEMMA InitWhole == Init => MineKept /\ OverInv /\ LogInv
<1> SUFFICES ASSUME Init PROVE MineKept /\ OverInv /\ LogInv
  OBVIOUS
<1>1. log = <<>> /\ Len(log) = 0 /\ 1..Len(log) = {} /\ Notes = {} /\ Cardinality(Notes) = 0
  BY FS_EmptySet DEF Init, Notes
<1>2. MineKept /\ OverInv
  BY DEF Init, MineKept, OverInv, Counted
<1>3. CallLast /\ ResultsFollowCalls /\ ReplyFits
  BY <1>1 DEF Init, CallLast, Calls, ResultsFollowCalls, ReplyFits
<1>4. NotesFit
  BY <1>1 DEF Init, NotesFit
<1>5. WorkNoted
  BY <1>1 DEF Init, WorkNoted, WorkFits, Open
<1> QED BY <1>2, <1>3, <1>4, <1>5 DEF LogInv

-----------------------------------------------------------------------------
(* The order of the turns, in the queue and in the log.                    *)

\* Where a turn has the place in the queue that its admission gave it,
Placed == {"queued", "stopQueued", "granted", "saving", "top", "call", "tools", "asked", "finished"}
\* or one it took later.
InQueue == Placed \cup {"stopWait", "noting", "between"}

QueuesFit ==
    \A l \in Turns : /\ Once(queue[l])
                     /\ \A i \in 1..Len(queue[l]) : ref[queue[l][i]] = l /\ pc[queue[l][i]] \in InQueue
PlacesKept == \A t \in Turns : pc[t] \in Placed =>
                  ref[t] # NoLock /\ \E i \in 1..Len(queue[ref[t]]) : queue[ref[t]][i] = t

\* Each turn is admitted once, on its way into the count.
OrderFits == /\ Once(order)
             /\ \A i \in 1..Len(order) : pc[order[i]] \in Counted \cup {"done"}
             /\ \A t \in Turns : pc[t] \in Counted => t \in Admitted

\* u is admitted before t.
Earlier(u, t) == \E i, j \in 1..Len(order) : i < j /\ order[i] = u /\ order[j] = t

\* While u has its place those after it wait behind it, or were refused.
BehindFits(u, t) ==
    pc[u] \in Placed =>
        /\ pc[t] \in {"queued", "stopQueued", "settled", "done"} /\ ~ Saved(t)
        /\ \A i, j \in 1..Len(queue[ref[u]]) : queue[ref[u]][i] = u /\ queue[ref[u]][j] = t => i < j
QueueInOrder == Exists => \A u, t \in Turns : Earlier(u, t) => BehindFits(u, t)

\* A turn's message is saved once, and after those of the turns before it.
Unsaved    == {"idle", "checked", "queued", "stopQueued", "granted", "saving", "between"}
SavesFit   == \A t \in Turns : pc[t] \in Unsaved => ~ Saved(t)
SavedOnce  == \A i, j \in 1..Len(log) : log[i][1] = "message" /\ log[i] = log[j] => i = j
LogInOrder == \A i, j \in 1..Len(log) :
                  log[i][1] = "message" /\ log[j][1] = "message" /\ Earlier(log[i][2], log[j][2]) => i < j

OrderInv == QueuesFit /\ PlacesKept /\ OrderFits /\ QueueInOrder /\ SavesFit /\ SavedOnce /\ LogInOrder

-----------------------------------------------------------------------------
(* What is told, and kept, of a failure.                                   *)

\* A turn has an outcome once it has ended, and is of the spell it is in
\* flight in.
OutcomesFit == \A t \in Turns : outcome[t] # "none" => pc[t] \in {"ended", "settled", "done"}
SpellFits   == \A t \in Turns : pc[t] \in Counted => t \in spell

\* What is owed covers the failures settled so far.
Owed        == (Exists /\ ~ Child /\ flights # 0 /\ \A t \in spell : outcome[t] # "stopped") =>
                  \A t \in spell : outcome[t] = "failed" /\ pc[t] # "ended" => att >= Failed
ToldInv == OutcomesFit /\ SpellFits /\ Owed /\ (Exists => "forgotten" \notin flags)

\* No turn after t is the user's, or had something to tell the model.
Newest(t) == \A u \in Turns : Earlier(t, u) => ~ ByUser(u) /\ u \notin took

\* Where a turn has been granted the lock, and no Stop has ended it.
Running == {"granted", "saving", "top", "call", "tools", "asked", "finished"}

\* A turn takes its generation holding the lock, before it calls the model;
\* then the generation is its own while it is the newest.
KeepFits(t) ==
    /\ pc[t] \in {"idle", "checked", "queued"} => t \notin took
    /\ pc[t] \in {"call", "tools", "asked", "finished"} => t \in took
    /\ pc[t] = "ended" /\ outcome[t] = "failed" => t \in took
    /\ (/\ pc[t] \in Running \/ (pc[t] = "ended" /\ outcome[t] = "failed")
        /\ t \in took /\ Newest(t)) => gen = mine[t]
KeepInv == Exists /\ faults = 0 => \A t \in Turns : KeepFits(t)

-----------------------------------------------------------------------------
(* What a step does to the order.                                          *)

\* Where a turn waits behind another that has its place, or never got one.
Behind == {"queued", "stopQueued", "settled", "done"}

\* t is admitted: it joins the queue, and the order.
Admits(t) ==
    /\ pc[t] = "checked" /\ pc' = [pc EXCEPT ![t] = "queued"]
    /\ JoinQueue(t) /\ order' = Append(order, t) /\ log' = log

\* Who joins or leaves the queue in a step of t's.
Queueing(t) ==
    \/ UNCHANGED lockVars /\ (pc'[t] \in InQueue <=> pc[t] \in InQueue)
    \/ JoinQueue(t) /\ pc[t] = "checked" /\ pc'[t] = "between"
    \/ LeaveQueue(t) /\ pc[t] \in InQueue /\ pc'[t] \notin InQueue
    \/ /\ pc[t] \in InQueue /\ pc'[t] = "stopBody"
       /\ ref' = ref /\ queue' = [queue EXCEPT ![ref[t]] = Without(@, t)]
    \/ /\ pc[t] = "stopBody" /\ pc'[t] = "stopWait"
       /\ ref' = ref /\ queue' = [queue EXCEPT ![ref[t]] = Append(@, t)]

\* A step of t's but its admission: it gets no place in the queue, nor leaves
\* the back of it without the lock, and saves its message once.
Goes(t) ==
    /\ pc' = [pc EXCEPT ![t] = pc'[t]] /\ order' = order
    /\ pc[t] \in Behind /\ pc'[t] \notin Behind => Holds(t)
    /\ pc'[t] \in Placed => pc[t] \in Placed
    /\ pc'[t] \in Unsaved => pc[t] \in Unsaved
    /\ pc'[t] \in Counted => pc[t] \in Counted
    /\ pc[t] \in Counted \cup {"done"} => pc'[t] \in Counted \cup {"done"}
    /\ Queueing(t)
    /\ \/ log' = log
       \/ \E w \in Writes \ {"message"} : log' = Append(log, <<w, t>>)
       \/ /\ log' = Append(log, <<"message", t>>)
          /\ Exists /\ Holds(t) /\ pc[t] \in Placed \cup {"between"} /\ pc'[t] \notin Unsaved
          /\ ~ Saved(t)

\* Every step of a turn is one or the other.
LEMMA GoesSteps ==
    ASSUME TypeOK, WritersHold, SavesFit, NEW t \in Turns,
           \/ Admission(t) \/ Start(t) \/ RunBody(t) \/ Streaming(t) \/ Stopping(t)
           \/ Ending(t) \/ Between(t) \/ Faulty(t)
    PROVE  Admits(t) \/ Goes(t)
<1> USE DEF Behind, Placed, InQueue, Unsaved, Counted
<1>0. pc \in [Turns -> States]
  BY DEF TypeOK, TurnsOK
<1>1. CASE AdmitByUser(t) \/ AdmitNotice(t)
  BY <1>1 DEF Admits, AdmitByUser, AdmitNotice, Admit
<1>2. CASE Arrive(t) \/ RefuseWake(t) \/ QueueBetween(t) \/ ConfirmRefused(t)
  BY <1>0, <1>2 DEF Goes, Queueing, Arrive, RefuseWake, QueueBetween, ConfirmRefused, histVars
<1>3. CASE Grant(t) \/ FindConversation(t) \/ FindGone(t) \/ SaveInGone(t) \/ SaveNothing(t) \/ FailEarly(t)
  BY <1>0, <1>3 DEF Goes, Queueing, Grant, FindConversation, FindGone, SaveInGone, SaveNothing, FailEarly, End,
                    histVars
<1>4. CASE SaveMessage(t) \/ SaveAnswer(t)
  <2>1. Holds(t) /\ ~ Saved(t)
    BY <1>4 DEF SaveMessage, SaveAnswer, WritersHold, Writing, SavesFit
  <2> QED BY <1>0, <1>4, <2>1 DEF Goes, Queueing, SaveMessage, SaveAnswer, Write, histVars
<1>5. CASE CallModel(t)
  <2>1. Holds(t)
    BY <1>5 DEF CallModel, WritersHold, Writing
  <2> QED BY <1>0, <1>5, <2>1 DEF Goes, Queueing, CallModel, Write, histVars
<1>6. CASE EndWithNothing(t) \/ NotifyUser(t) \/ FinishAgent(t) \/ AskUser(t)
  BY <1>0, <1>6 DEF Goes, Queueing, EndWithNothing, NotifyUser, FinishAgent, AskUser, End, histVars
<1>7. CASE (\E a \in {None, CutOff} : SaveReply(t, a)) \/ CallAgain(t) \/ SaveCall(t)
  BY <1>0, <1>7 DEF Goes, Queueing, SaveReply, CallAgain, SaveCall, Write, Writes, End, histVars
<1>8. CASE SaveResults(t) \/ EndAfterTools(t)
  BY <1>0, <1>8 DEF Goes, Queueing, SaveResults, EndAfterTools, Write, Writes, End, histVars
<1>9. CASE Fail(t) \/ FailAtTop(t)
  BY <1>0, <1>9 DEF Goes, Queueing, Fail, FailAtTop, FailBody, Body, Write, Writes, End, histVars
<1>10. CASE Streaming(t) \/ Settle(t) \/ DropLast(t) \/ DropOther(t) \/ AfterBetween(t)
  BY <1>0, <1>10 DEF Goes, Queueing, Streaming, Stream, Settle, DropLast, DropOther, TurnGone, AfterBetween,
                     turnVars, histVars
<1>11. CASE StopQueued(t) \/ KeepNothing(t) \/ KeepFails(t) \/ LockBack(t)
  BY <1>0, <1>11 DEF Goes, Queueing, StopQueued, KeepNothing, KeepFails, LockBack, histVars
<1>12. CASE StopBody(t) \/ Requeue(t)
  BY <1>0, <1>12 DEF Goes, Queueing, StopBody, Requeue, Body, histVars
<1>13. CASE KeepMessage(t)
  <2>1. ~ Saved(t)
    BY <1>13 DEF KeepMessage, SavesFit
  <2> QED BY <1>0, <1>13, <2>1 DEF Goes, Queueing, KeepMessage, Write, histVars
<1>14. CASE EndStopped(t)
  BY <1>0, <1>14 DEF Goes, Queueing, EndStopped, End, Write, Writes, histVars
<1>15. CASE SaveBetween(t)
  <2>1. ~ Saved(t)
    BY <1>15 DEF SaveBetween, SavesFit
  <2> QED BY <1>0, <1>15, <2>1 DEF Goes, Queueing, SaveBetween, Write, histVars
<1> QED BY <1>1, <1>2, <1>3, <1>4, <1>5, <1>6, <1>7, <1>8, <1>9, <1>10, <1>11, <1>12, <1>13, <1>14, <1>15
        DEF Admission, Start, RunBody, Stopping, Ending, Between, Faulty

\* Nor does anything outside the turns touch the order.
LEMMA OutsideGoes ==
    ASSUME Outside \/ UNCHANGED vars
    PROVE  UNCHANGED <<log, pc, lockVars, order>>
BY DEF Outside, Stop, StopTurnNow, ShowError, CheckAfterWrite, TrustDecided, DeleteMark, DeleteRows, DeleteFails,
       DeleteForget, Forget, vars, entryVars, turnVars, histVars

\* What joins and leaves, of those who were not in the queue, only goes to
\* the back of it.
OrderlyAt(t, l, i, j) ==
    \/ \E k, m \in 1..Len(queue[l]) :
          queue[l][k] = queue'[l][i] /\ queue[l][m] = queue'[l][j] /\ (k < m => i < j)
    \/ queue'[l][i] = t /\ pc[t] \notin InQueue
    \/ queue'[l][j] = t /\ pc[t] \notin InQueue /\ i < j
Orderly(t) == \A l \in Turns : \A i, j \in 1..Len(queue'[l]) : OrderlyAt(t, l, i, j)

\* A turn that joins a queue is in no other, and goes to the back.
LEMMA QueuesJoined ==
    ASSUME TypeOK, QueuesFit, PlacesKept, NEW t \in Turns, NEW l \in Turns,
           pc' = [pc EXCEPT ![t] = pc'[t]], pc[t] \notin InQueue, pc'[t] \in InQueue,
           queue' = [queue EXCEPT ![l] = Append(queue[l], t)],
           \A u \in Turns : ref'[u] = IF u = t THEN l ELSE ref[u]
    PROVE  QueuesFit' /\ PlacesKept' /\ Orderly(t)
<1>0. /\ queue \in [Turns -> Seq(Turns)] /\ ref \in [Turns -> Turns \cup {NoLock}] /\ pc \in [Turns -> States]
      /\ \A k \in Turns : Len(queue[k]) \in Nat /\ \A i \in 1..Len(queue[k]) : queue[k][i] \in Turns
  BY DEF TypeOK, TurnsOK
<1>1. \A k \in Turns : \A i \in 1..Len(queue[k]) : queue[k][i] # t
  BY DEF QueuesFit
<1>2. /\ \A k \in Turns : k # l => queue'[k] = queue[k]
      /\ Len(queue'[l]) = Len(queue[l]) + 1 /\ queue'[l][Len(queue[l]) + 1] = t
      /\ \A i \in 1..Len(queue[l]) : queue'[l][i] = queue[l][i]
      /\ Once(queue'[l])
  <2>1. queue'[l] = Append(queue[l], t) /\ queue[l] \in Seq(Turns)
    BY <1>0
  <2> QED BY <1>0, <1>1, <2>1, AppendKeepsOrder DEF QueuesFit
<1>3. QueuesFit'
  <2> SUFFICES ASSUME NEW k \in Turns
               PROVE  Once(queue'[k]) /\ \A i \in 1..Len(queue'[k]) :
                          ref'[queue'[k][i]] = k /\ pc'[queue'[k][i]] \in InQueue
    BY DEF QueuesFit
  <2>1. ASSUME NEW i \in 1..Len(queue[k])
        PROVE  ref'[queue[k][i]] = k /\ pc'[queue[k][i]] \in InQueue
    BY <1>0, <1>1, <2>1 DEF QueuesFit
  <2>2. CASE k = l
    BY <1>0, <1>2, <2>1, <2>2
  <2>3. CASE k # l
    BY <1>2, <2>1, <2>3 DEF QueuesFit
  <2> QED BY <2>2, <2>3
<1>4. PlacesKept'
  <2> SUFFICES ASSUME NEW u \in Turns, pc'[u] \in Placed
               PROVE  ref'[u] # NoLock /\ \E i \in 1..Len(queue'[ref'[u]]) : queue'[ref'[u]][i] = u
    BY DEF PlacesKept
  <2>1. CASE u = t
    BY <1>0, <1>2, <2>1, TurnStateAssumption
  <2>2. CASE u # t
    <3>1. pc[u] \in Placed /\ ref'[u] = ref[u]
      BY <1>0, <2>2
    <3>2. PICK i \in 1..Len(queue[ref[u]]) : queue[ref[u]][i] = u
      BY <1>0, <3>1 DEF PlacesKept
    <3>3. ref[u] \in Turns /\ ref[u] # NoLock
      BY <1>0, <3>1 DEF PlacesKept
    <3>4. i \in 1..Len(queue'[ref[u]]) /\ queue'[ref[u]][i] = u
      BY <1>0, <1>2, <3>2, <3>3
    <3> QED BY <3>1, <3>3, <3>4
  <2> QED BY <2>1, <2>2
<1>5. Orderly(t)
  <2> SUFFICES ASSUME NEW k \in Turns, NEW i \in 1..Len(queue'[k]), NEW j \in 1..Len(queue'[k])
               PROVE  OrderlyAt(t, k, i, j)
    BY DEF Orderly
  <2>1. CASE k = l /\ i \in 1..Len(queue[k]) /\ j \in 1..Len(queue[k])
    BY <1>2, <2>1 DEF OrderlyAt
  <2>2. CASE k = l /\ i = Len(queue[k]) + 1
    BY <1>2, <2>2 DEF OrderlyAt
  <2>3. CASE k = l /\ i \in 1..Len(queue[k]) /\ j = Len(queue[k]) + 1
    BY <1>0, <1>2, <2>3 DEF OrderlyAt
  <2>4. CASE k # l
    BY <1>2, <2>4 DEF OrderlyAt
  <2>5. k = l => /\ i \in 1..Len(queue[k]) \/ i = Len(queue[k]) + 1
                 /\ j \in 1..Len(queue[k]) \/ j = Len(queue[k]) + 1
    BY <1>0, <1>2
  <2> QED BY <2>1, <2>2, <2>3, <2>4, <2>5
<1> QED BY <1>3, <1>4, <1>5

\* One that leaves a queue leaves the others their places.
LEMMA QueuesLeft ==
    ASSUME TypeOK, UsersFit, QueuesFit, PlacesKept, NEW t \in Turns,
           pc' = [pc EXCEPT ![t] = pc'[t]], pc[t] \in InQueue, pc'[t] \notin InQueue,
           queue' = [queue EXCEPT ![ref[t]] = Without(queue[ref[t]], t)],
           \A u \in Turns \ {t} : ref'[u] = ref[u]
    PROVE  QueuesFit' /\ PlacesKept' /\ Orderly(t)
<1>0. /\ queue \in [Turns -> Seq(Turns)] /\ ref \in [Turns -> Turns \cup {NoLock}] /\ pc \in [Turns -> States]
      /\ \A k \in Turns : Len(queue[k]) \in Nat /\ \A i \in 1..Len(queue[k]) : queue[k][i] \in Turns
  BY DEF TypeOK, TurnsOK
<1> DEFINE l == ref[t]
<1>1. l \in Turns
  <2>1. pc[t] \in Using
    BY DEF InQueue, Placed, Using, Counted
  <2>2. ref[t] # NoLock
    BY <2>1 DEF UsersFit
  <2> QED BY <1>0, <2>2
<1> HIDE DEF l
<1>2. queue'[l] = Without(queue[l], t) /\ queue[l] \in Seq(Turns) /\ Once(queue[l])
  BY <1>0, <1>1 DEF QueuesFit, l
<1>3. \A k \in Turns : k # l => queue'[k] = queue[k]
  BY <1>0 DEF l
<1> DEFINE q == queue[l]
           w == queue'[l]
<1>4. q \in Seq(Turns) /\ Once(q) /\ w = Without(q, t)
  BY <1>2
<1>5. /\ Once(w)
      /\ \A i \in 1..Len(w) : \E n \in 1..Len(q) : w[i] = q[n] /\ q[n] # t
      /\ \A i, j \in 1..Len(w) : \E n, m \in 1..Len(q) : w[i] = q[n] /\ w[j] = q[m] /\ (i < j <=> n < m)
      /\ \A n \in 1..Len(q) : q[n] # t => \E i \in 1..Len(w) : w[i] = q[n]
  <2> HIDE DEF q, w
  <2>1. Once(w) /\ NoneBut(w, q, t) /\ InOrder(w, q) /\ HasOthers(w, q, t)
    BY <1>4, LeftInOrder
  <2> QED BY <2>1 DEF NoneBut, InOrder, HasOthers
<1> HIDE DEF q, w
<1>7. ASSUME NEW n \in 1..Len(queue[l]), queue[l][n] # t
      PROVE  \E i \in 1..Len(queue'[l]) : queue'[l][i] = queue[l][n]
  BY <1>5, <1>7 DEF q, w
<1>8. QueuesFit'
  <2> SUFFICES ASSUME NEW k \in Turns
               PROVE  Once(queue'[k]) /\ \A i \in 1..Len(queue'[k]) :
                          ref'[queue'[k][i]] = k /\ pc'[queue'[k][i]] \in InQueue
    BY DEF QueuesFit
  <2>1. ASSUME NEW i \in 1..Len(queue[k]), queue[k][i] # t
        PROVE  ref'[queue[k][i]] = k /\ pc'[queue[k][i]] \in InQueue
    BY <1>0, <2>1 DEF QueuesFit
  <2>2. CASE k = l
    <3>1. ASSUME NEW i \in 1..Len(queue'[l])
          PROVE  ref'[queue'[l][i]] = l /\ pc'[queue'[l][i]] \in InQueue
      <4>1. PICK n \in 1..Len(queue[l]) : queue'[l][i] = queue[l][n] /\ queue[l][n] # t
        BY <1>5 DEF q, w
      <4> QED BY <2>1, <2>2, <4>1
    <3> QED BY <1>5, <2>2, <3>1 DEF w
  <2>3. CASE k # l
    <3>1. \A i \in 1..Len(queue[k]) : queue[k][i] # t
      BY <2>3 DEF QueuesFit, l
    <3> QED BY <1>3, <2>1, <2>3, <3>1 DEF QueuesFit
  <2> QED BY <2>2, <2>3
<1>9. PlacesKept'
  <2> SUFFICES ASSUME NEW u \in Turns, pc'[u] \in Placed
               PROVE  ref'[u] # NoLock /\ \E i \in 1..Len(queue'[ref'[u]]) : queue'[ref'[u]][i] = u
    BY DEF PlacesKept
  <2>1. u # t /\ pc[u] \in Placed /\ ref'[u] = ref[u]
    BY <1>0 DEF InQueue
  <2>2. PICK n \in 1..Len(queue[ref[u]]) : queue[ref[u]][n] = u
    BY <2>1 DEF PlacesKept
  <2>3. ref[u] \in Turns /\ ref[u] # NoLock
    BY <1>0, <2>1 DEF PlacesKept
  <2>4. \E i \in 1..Len(queue'[ref[u]]) : queue'[ref[u]][i] = u
    <3>1. CASE ref[u] = l
      <4>1. n \in 1..Len(queue[l]) /\ queue[l][n] = u
        BY <2>2, <3>1
      <4>2. \E i \in 1..Len(queue'[l]) : queue'[l][i] = queue[l][n]
        BY <1>7, <2>1, <4>1
      <4> QED BY <3>1, <4>1, <4>2
    <3>2. CASE ref[u] # l
      BY <1>3, <2>2, <2>3, <3>2
    <3> QED BY <3>1, <3>2
  <2> QED BY <2>1, <2>3, <2>4
<1>10. Orderly(t)
  <2> SUFFICES ASSUME NEW k \in Turns, NEW i \in 1..Len(queue'[k]), NEW j \in 1..Len(queue'[k])
               PROVE  OrderlyAt(t, k, i, j)
    BY DEF Orderly
  <2>1. CASE k = l
    <3>1. i \in 1..Len(w) /\ j \in 1..Len(w)
      BY <2>1 DEF w
    <3>2. PICK n, m \in 1..Len(q) : w[i] = q[n] /\ w[j] = q[m] /\ (i < j <=> n < m)
      BY <1>5, <3>1
    <3> QED BY <2>1, <3>2 DEF OrderlyAt, q, w
  <2>2. CASE k # l
    BY <1>3, <2>2 DEF OrderlyAt
  <2> QED BY <2>1, <2>2
<1> QED BY <1>8, <1>9, <1>10

\* So do those who only move on.
LEMMA QueuesStay ==
    ASSUME TypeOK, QueuesFit, PlacesKept, NEW t \in Turns,
           pc' = [pc EXCEPT ![t] = pc'[t]], UNCHANGED lockVars,
           pc[t] \in InQueue => pc'[t] \in InQueue, pc'[t] \in Placed => pc[t] \in Placed
    PROVE  QueuesFit' /\ PlacesKept' /\ Orderly(t)
<1>0. /\ queue' = queue /\ ref' = ref /\ pc \in [Turns -> States]
      /\ \A u \in Turns : /\ pc[u] \in InQueue => pc'[u] \in InQueue
                          /\ pc'[u] \in Placed => pc[u] \in Placed
      /\ \A k \in Turns : \A i \in 1..Len(queue[k]) : queue[k][i] \in Turns
  <2>1. queue' = queue /\ ref' = ref /\ pc \in [Turns -> States] /\ queue \in [Turns -> Seq(Turns)]
    BY DEF lockVars, TypeOK, TurnsOK
  <2>2. \A u \in Turns : /\ pc[u] \in InQueue => pc'[u] \in InQueue
                         /\ pc'[u] \in Placed => pc[u] \in Placed
    BY <2>1
  <2>3. \A k \in Turns : \A i \in 1..Len(queue[k]) : queue[k][i] \in Turns
    BY <2>1
  <2> QED BY <2>1, <2>2, <2>3
<1>1. QueuesFit'
  BY <1>0 DEF QueuesFit
<1>2. PlacesKept'
  BY <1>0 DEF PlacesKept
<1>3. Orderly(t)
  BY <1>0 DEF Orderly, OrderlyAt
<1> QED BY <1>1, <1>2, <1>3

\* So the queues keep their order through every step of a turn.
LEMMA QueuesStep ==
    ASSUME TypeOK, UsersFit, QueuesFit, PlacesKept, NEW t \in Turns, Admits(t) \/ Goes(t)
    PROVE  QueuesFit' /\ PlacesKept' /\ Orderly(t)
<1> USE DEF InQueue, Placed
<1>0. /\ pc \in [Turns -> States] /\ ref \in [Turns -> Turns \cup {NoLock}] /\ lock \in Turns \cup {NoLock}
  BY DEF TypeOK, TurnsOK, EntryOK
<1>1. pc' = [pc EXCEPT ![t] = pc'[t]]
  BY <1>0 DEF Admits, Goes
<1>2. ASSUME JoinQueue(t), pc[t] = "checked", pc'[t] \in {"queued", "between"}
      PROVE  QueuesFit' /\ PlacesKept' /\ Orderly(t)
  <2> DEFINE l == IF lock = NoLock THEN t ELSE lock
  <2>1. /\ l \in Turns /\ queue' = [queue EXCEPT ![l] = Append(queue[l], t)]
        /\ \A u \in Turns : ref'[u] = IF u = t THEN l ELSE ref[u]
    BY <1>0, <1>2 DEF JoinQueue
  <2> HIDE DEF l
  <2> QED BY <1>1, <1>2, <2>1, QueuesJoined
<1>3. CASE Admits(t)
  <2>1. pc'[t] = "queued"
    BY <1>0, <1>3 DEF Admits
  <2> QED BY <1>2, <1>3, <2>1 DEF Admits
<1>4. CASE Goes(t)
  <2>1. CASE UNCHANGED lockVars /\ (pc'[t] \in InQueue <=> pc[t] \in InQueue)
    BY <1>1, <1>4, <2>1, QueuesStay DEF Goes
  <2>2. CASE LeaveQueue(t) /\ pc[t] \in InQueue /\ pc'[t] \notin InQueue
    <3>1. /\ queue' = [queue EXCEPT ![ref[t]] = Without(queue[ref[t]], t)]
          /\ \A u \in Turns \ {t} : ref'[u] = ref[u]
      BY <1>0, <2>2 DEF LeaveQueue
    <3> QED BY <1>1, <2>2, <3>1, QueuesLeft
  <2>3. CASE /\ pc[t] \in InQueue /\ pc'[t] = "stopBody" /\ ref' = ref
             /\ queue' = [queue EXCEPT ![ref[t]] = Without(@, t)]
    BY <1>1, <2>3, QueuesLeft
  <2>4. CASE /\ pc[t] = "stopBody" /\ pc'[t] = "stopWait" /\ ref' = ref
             /\ queue' = [queue EXCEPT ![ref[t]] = Append(@, t)]
    <3>1. ref[t] \in Turns
      BY <1>0, <2>4 DEF UsersFit, Using, Counted
    <3>2. \A u \in Turns : ref'[u] = IF u = t THEN ref[t] ELSE ref[u]
      BY <2>4
    <3> QED BY <1>1, <2>4, <3>1, <3>2, QueuesJoined
  <2> QED BY <1>2, <1>4, <2>1, <2>2, <2>3, <2>4 DEF Goes, Queueing
<1> QED BY <1>3, <1>4

\* What t's admission adds to the order: t, after all the others.
LEMMA AdmittedLast ==
    ASSUME TypeOK, OrderFits, NEW t \in Turns, Admits(t)
    PROVE  /\ OrderFits'
           /\ \A u, v \in Turns : Earlier(u, v)' => u # t /\ (Earlier(u, v) \/ v = t)
<1>0. /\ order \in Seq(Turns) /\ Len(order) \in Nat /\ pc \in [Turns -> States]
      /\ \A i \in 1..Len(order) : order[i] \in Turns
  BY DEF TypeOK, TurnsOK, HistoryOK
<1>1. pc[t] = "checked" /\ pc' = [pc EXCEPT ![t] = "queued"] /\ order' = Append(order, t)
  BY DEF Admits
<1>2. \A i \in 1..Len(order) : order[i] # t
  BY <1>1 DEF OrderFits, Counted
<1>3. /\ Len(order') = Len(order) + 1 /\ order'[Len(order) + 1] = t
      /\ \A i \in 1..Len(order) : order'[i] = order[i]
      /\ Once(order')
  BY <1>0, <1>1, <1>2, AppendKeepsOrder DEF OrderFits
<1>4. OrderFits'
  <2>1. \A i \in 1..Len(order') : pc'[order'[i]] \in Counted \cup {"done"}
    <3> SUFFICES ASSUME NEW i \in 1..Len(order') PROVE pc'[order'[i]] \in Counted \cup {"done"}
      OBVIOUS
    <3>1. i \in 1..Len(order) \/ i = Len(order) + 1
      BY <1>0, <1>3
    <3> QED BY <1>0, <1>1, <1>3, <3>1 DEF OrderFits, Counted
  <2>2. ASSUME NEW u \in Turns, pc'[u] \in Counted
        PROVE  u \in Admitted'
    <3>1. CASE u = t
      <4>1. Len(order) + 1 \in 1..Len(order')
        BY <1>0, <1>3
      <4> QED BY <1>3, <3>1, <4>1 DEF Admitted
    <3>2. CASE u # t
      <4>1. u \in Admitted
        BY <1>0, <1>1, <2>2, <3>2 DEF OrderFits
      <4>2. PICK i \in 1..Len(order) : order[i] = u
        BY <4>1 DEF Admitted
      <4>3. i \in 1..Len(order') /\ order'[i] = u
        BY <1>0, <1>3, <4>2
      <4> QED BY <4>3 DEF Admitted
    <3> QED BY <3>1, <3>2
  <2> QED BY <1>3, <2>1, <2>2 DEF OrderFits
<1>5. ASSUME NEW u \in Turns, NEW v \in Turns, Earlier(u, v)'
      PROVE  u # t /\ (Earlier(u, v) \/ v = t)
  <2>1. PICK i \in 1..Len(order'), j \in 1..Len(order') : i < j /\ order'[i] = u /\ order'[j] = v
    BY <1>5 DEF Earlier
  <2>2. i \in 1..Len(order) /\ (j \in 1..Len(order) \/ j = Len(order) + 1)
    BY <1>0, <1>3, <2>1
  <2> QED BY <1>2, <1>3, <2>1, <2>2 DEF Earlier
<1> QED BY <1>4, <1>5

\* Nobody is before himself.
LEMMA NotBeforeOneself ==
    ASSUME TypeOK, OrderFits, NEW t \in Turns
    PROVE  ~ Earlier(t, t)
BY DEF OrderFits, Once, Earlier, TypeOK, HistoryOK

\* Those before the holder of the lock have left their places.
LEMMA HolderFirst ==
    ASSUME TypeOK, LocksAgree, PlacesKept, QueueInOrder, Exists,
           NEW t \in Turns, NEW u \in Turns, Holds(t), Earlier(u, t)
    PROVE  pc[u] \notin Placed
<1> SUFFICES ASSUME pc[u] \in Placed PROVE FALSE
  OBVIOUS
<1>1. PICK i \in 1..Len(queue[ref[u]]) : queue[ref[u]][i] = u
  BY DEF PlacesKept
<1>2. ref[u] = ref[t] /\ ref[u] \in Turns
  BY DEF PlacesKept, LocksAgree, Holds, TypeOK, TurnsOK
<1>3. queue[ref[u]] \in Seq(Turns)
  BY <1>2 DEF TypeOK, TurnsOK
<1>4. 1 \in 1..Len(queue[ref[u]]) /\ queue[ref[u]][1] = t
  BY <1>2, <1>3 DEF Holds
<1>5. i < 1
  BY <1>1, <1>4 DEF QueueInOrder, BehindFits
<1> QED BY <1>5

\* What a turn's step saves is its own message, at most.
LEMMA SavedAfter ==
    ASSUME TypeOK, NEW t \in Turns, Admits(t) \/ Goes(t), NEW u \in Turns, Saved(u)'
    PROVE  Saved(u) \/ (u = t /\ log' = Append(log, <<"message", t>>))
<1>0. log \in Seq(Writes \X Turns) /\ Len(log) \in Nat
  BY DEF TypeOK, OutsideOK
<1>1. CASE log' = log
  BY <1>1 DEF Saved
<1>2. ASSUME NEW w \in Writes, log' = Append(log, <<w, t>>)
      PROVE  Saved(u) \/ (u = t /\ w = "message")
  <2>1. /\ Len(log') = Len(log) + 1 /\ log'[Len(log) + 1] = <<w, t>>
        /\ \A i \in 1..Len(log) : log'[i] = log[i]
    BY <1>0, <1>2
  <2>2. PICK i \in 1..Len(log') : log'[i] = <<"message", u>>
    BY DEF Saved
  <2>3. i \in 1..Len(log) \/ i = Len(log) + 1
    BY <1>0, <2>1
  <2> QED BY <2>1, <2>2, <2>3 DEF Saved
<1> QED BY <1>1, <1>2 DEF Admits, Goes, Writes

\* Where a turn has its place, it keeps its handle on that queue.
LEMMA PlacedStays ==
    ASSUME TypeOK, NEW t \in Turns, Goes(t), NEW u \in Turns, pc'[u] \in Placed
    PROVE  ref'[u] = ref[u] /\ pc[u] \in Placed
<1>0. pc \in [Turns -> States] /\ ref \in [Turns -> Turns \cup {NoLock}]
  BY DEF TypeOK, TurnsOK
<1>1. pc[u] \in Placed
  BY <1>0 DEF Goes
<1>2. CASE u = t
  BY <1>0, <1>1, <1>2 DEF Goes, Queueing, lockVars, Placed, InQueue
<1>3. CASE u # t
  BY <1>0, <1>1, <1>3 DEF Goes, Queueing, lockVars, JoinQueue, LeaveQueue
<1> QED BY <1>1, <1>2, <1>3

\* Those admitted after a turn stay behind it while it has its place: the
\* lock is granted in the order of the admissions.
LEMMA QueueOrderStep ==
    ASSUME IndInv, SpellInv, OrderInv, NEW t \in Turns, Admits(t) \/ Goes(t), Exists
    PROVE  \A u, v \in Turns : Earlier(u, v)' => BehindFits(u, v)'
<1> USE DEF IndInv, OrderInv
<1>0. /\ pc \in [Turns -> States] /\ ref \in [Turns -> Turns \cup {NoLock}]
      /\ QueuesFit' /\ PlacesKept' /\ Orderly(t)
  BY QueuesStep DEF TypeOK, TurnsOK, SpellInv
<1> SUFFICES ASSUME NEW u \in Turns, NEW v \in Turns, Earlier(u, v)', pc'[u] \in Placed
             PROVE  /\ pc'[v] \in Behind /\ ~ Saved(v)'
                    /\ \A i, j \in 1..Len(queue'[ref'[u]]) :
                          queue'[ref'[u]][i] = u /\ queue'[ref'[u]][j] = v => i < j
  BY DEF BehindFits, Behind
<1>1. ref'[u] \in Turns
  <2>1. CASE Admits(t)
    <3>1. u # t
      BY <2>1, AdmittedLast
    <3>2. pc[u] \in Placed /\ ref'[u] = ref[u]
      BY <1>0, <2>1, <3>1 DEF Admits, JoinQueue
    <3> QED BY <1>0, <3>2 DEF PlacesKept
  <2>2. CASE Goes(t)
    BY <1>0, <2>2, PlacedStays DEF PlacesKept
  <2> QED BY <2>1, <2>2
<1>2. ASSUME Earlier(u, v), pc[u] \in Placed, ref'[u] = ref[u]
      PROVE  /\ pc[v] \in Behind /\ ~ Saved(v) /\ u # v
             /\ \A k, m \in 1..Len(queue[ref'[u]]) :
                   queue[ref'[u]][k] = u /\ queue[ref'[u]][m] = v => k < m
  <2>1. u # v
    BY <1>2, NotBeforeOneself
  <2> QED BY <1>2, <2>1 DEF QueueInOrder, BehindFits, Behind
<1>3. CASE Admits(t)
  <2>1. /\ pc[t] = "checked" /\ pc'[t] = "queued" /\ log' = log /\ u # t
        /\ Earlier(u, v) \/ v = t
    BY <1>0, <1>3, AdmittedLast DEF Admits
  <2>2. pc'[u] = pc[u] /\ ref'[u] = ref[u]
    BY <1>0, <1>3, <2>1 DEF Admits, JoinQueue
  <2>3. ~ Saved(v)' <=> ~ Saved(v)
    BY <2>1 DEF Saved
  <2>4. ASSUME NEW i \in 1..Len(queue'[ref'[u]]), NEW j \in 1..Len(queue'[ref'[u]]),
               queue'[ref'[u]][i] = u, queue'[ref'[u]][j] = v
        PROVE  OrderlyAt(t, ref'[u], i, j)
    BY <1>0, <1>1 DEF Orderly
  <2>5. CASE v = t
    <3>1. ~ Saved(v)
      BY <2>1, <2>5 DEF SavesFit, Unsaved
    <3>2. \A l \in Turns : \A k \in 1..Len(queue[l]) : queue[l][k] # t
      BY <2>1 DEF QueuesFit, InQueue, Placed
    <3> QED BY <1>1, <2>1, <2>3, <2>4, <2>5, <3>1, <3>2 DEF OrderlyAt, Behind
  <2>6. CASE v # t
    <3>1. pc'[v] = pc[v]
      BY <1>0, <1>3, <2>6 DEF Admits
    <3> QED BY <1>2, <2>1, <2>2, <2>3, <2>4, <2>6, <3>1 DEF OrderlyAt
  <2> QED BY <2>5, <2>6
<1>4. CASE Goes(t)
  <2>1. order' = order /\ pc' = [pc EXCEPT ![t] = pc'[t]]
    BY <1>4 DEF Goes
  <2>2. Earlier(u, v) /\ pc[u] \in Placed /\ ref'[u] = ref[u]
    BY <1>4, <2>1, PlacedStays DEF Earlier
  <2>3. /\ pc[v] \in Behind /\ ~ Saved(v) /\ u # v
        /\ \A k, m \in 1..Len(queue[ref'[u]]) :
              queue[ref'[u]][k] = u /\ queue[ref'[u]][m] = v => k < m
    BY <1>2, <2>2
  <2>4. v = t => ~ Holds(t)
    BY <2>2, HolderFirst
  <2>5. pc'[v] \in Behind
    BY <1>0, <1>4, <2>1, <2>3, <2>4 DEF Goes
  <2>6. ~ Saved(v)'
    <3> SUFFICES ASSUME Saved(v)' PROVE FALSE
      OBVIOUS
    <3>1. v = t /\ log' = Append(log, <<"message", t>>)
      BY <1>4, <2>3, SavedAfter
    <3>2. \A w \in Writes \ {"message"} : Append(log, <<"message", t>>) # Append(log, <<w, t>>)
      <4>1. log \in Seq(Writes \X Turns) /\ Len(log) \in Nat
        BY DEF TypeOK, OutsideOK
      <4>2. \A w \in Writes : Append(log, <<w, t>>)[Len(log) + 1] = <<w, t>>
        BY <4>1
      <4> QED BY <4>2 DEF Writes
    <3>3. Append(log, <<"message", t>>) # log
      <4>1. log \in Seq(Writes \X Turns) /\ Len(log) \in Nat
        BY DEF TypeOK, OutsideOK
      <4>2. Len(Append(log, <<"message", t>>)) = Len(log) + 1
        BY <4>1 DEF Writes
      <4> QED BY <4>1, <4>2
    <3> QED BY <1>4, <2>4, <3>1, <3>2, <3>3 DEF Goes
  <2>7. ASSUME NEW i \in 1..Len(queue'[ref'[u]]), NEW j \in 1..Len(queue'[ref'[u]]),
               queue'[ref'[u]][i] = u, queue'[ref'[u]][j] = v
        PROVE  i < j
    <3>1. OrderlyAt(t, ref'[u], i, j)
      BY <1>0, <1>1 DEF Orderly
    <3>2. ~ (u = t /\ pc[t] \notin InQueue)
      BY <2>2 DEF InQueue
    <3> QED BY <2>3, <2>7, <3>1, <3>2 DEF OrderlyAt
  <2> QED BY <2>5, <2>6, <2>7
<1> QED BY <1>3, <1>4

\* A turn's message is saved once, and not before it has to be.
LEMMA SavesStep ==
    ASSUME TypeOK, SavesFit, SavedOnce, NEW t \in Turns, Admits(t) \/ Goes(t)
    PROVE  SavesFit' /\ SavedOnce'
<1>0. /\ pc \in [Turns -> States] /\ log \in Seq(Writes \X Turns) /\ Len(log) \in Nat
  BY DEF TypeOK, TurnsOK, OutsideOK
<1>1. SavesFit'
  <2> SUFFICES ASSUME NEW u \in Turns, pc'[u] \in Unsaved, Saved(u)'
               PROVE  FALSE
    BY DEF SavesFit
  <2>1. pc[u] \in Unsaved
    BY <1>0 DEF Admits, Goes, Unsaved
  <2>2. u = t /\ log' = Append(log, <<"message", t>>) /\ log' # log
    <3>1. u = t /\ log' = Append(log, <<"message", t>>)
      BY <2>1, SavedAfter DEF SavesFit
    <3>2. Len(Append(log, <<"message", t>>)) = Len(log) + 1
      BY <1>0 DEF Writes
    <3> QED BY <1>0, <3>1, <3>2
  <2>3. \A w \in Writes \ {"message"} : Append(log, <<"message", t>>) # Append(log, <<w, t>>)
    <3>1. \A w \in Writes : Append(log, <<w, t>>)[Len(log) + 1] = <<w, t>>
      BY <1>0
    <3> QED BY <3>1 DEF Writes
  <2> QED BY <2>1, <2>2, <2>3 DEF Admits, Goes
<1>2. SavedOnce'
  <2>1. CASE log' = log
    BY <2>1 DEF SavedOnce
  <2>2. ASSUME NEW w \in Writes, log' = Append(log, <<w, t>>), w = "message" => ~ Saved(t)
        PROVE  SavedOnce'
    <3>1. /\ Len(log') = Len(log) + 1 /\ log'[Len(log) + 1] = <<w, t>>
          /\ \A i \in 1..Len(log) : log'[i] = log[i]
      BY <1>0, <2>2
    <3> SUFFICES ASSUME NEW i \in 1..Len(log'), NEW j \in 1..Len(log'), log'[i][1] = "message", log'[i] = log'[j]
                 PROVE  i = j
      BY DEF SavedOnce
    <3>2. CASE i \in 1..Len(log) /\ j \in 1..Len(log)
      BY <3>1, <3>2 DEF SavedOnce
    <3>3. CASE i = Len(log) + 1 /\ j \in 1..Len(log)
      BY <2>2, <3>1, <3>3 DEF Saved
    <3>4. CASE j = Len(log) + 1 /\ i \in 1..Len(log)
      BY <2>2, <3>1, <3>4 DEF Saved
    <3> QED BY <1>0, <3>1, <3>2, <3>3, <3>4
  <2> QED BY <2>1, <2>2 DEF Admits, Goes, Writes
<1> QED BY <1>1, <1>2

\* The messages are saved in the order of the admissions.
LEMMA LogOrderStep ==
    ASSUME IndInv, OrderInv, NEW t \in Turns, Admits(t) \/ Goes(t)
    PROVE  LogInOrder'
<1> USE DEF IndInv, OrderInv
<1>0. /\ pc \in [Turns -> States] /\ log \in Seq(Writes \X Turns) /\ Len(log) \in Nat
  BY DEF TypeOK, TurnsOK, OutsideOK
<1>1. \A i \in 1..Len(log) : log[i][2] \in Turns /\ (log[i][1] = "message" => log[i] = <<"message", log[i][2]>>)
  BY <1>0
<1>2. CASE Admits(t)
  <2>1. log' = log /\ pc[t] = "checked"
    BY <1>2 DEF Admits
  <2>2. ~ Saved(t)
    BY <2>1 DEF SavesFit, Unsaved
  <2>3. ASSUME NEW i \in 1..Len(log), NEW j \in 1..Len(log), NEW u \in Turns, NEW v \in Turns,
               log[i] = <<"message", u>>, log[j] = <<"message", v>>, Earlier(u, v)'
        PROVE  i < j
    <3>1. v # t
      BY <2>2, <2>3 DEF Saved
    <3>2. Earlier(u, v)
      BY <1>2, <2>3, <3>1, AdmittedLast
    <3> QED BY <2>3, <3>2 DEF LogInOrder
  <2> SUFFICES ASSUME NEW i \in 1..Len(log), NEW j \in 1..Len(log), log[i][1] = "message", log[j][1] = "message",
                      NEW k \in 1..Len(order'), NEW m \in 1..Len(order'),
                      k < m, order'[k] = log[i][2], order'[m] = log[j][2]
               PROVE  i < j
    BY <2>1 DEF LogInOrder, Earlier
  <2> DEFINE u == log[i][2]
             v == log[j][2]
  <2>4. u \in Turns /\ v \in Turns /\ log[i] = <<"message", u>> /\ log[j] = <<"message", v>>
    BY <1>1
  <2>5. order'[k] = u /\ order'[m] = v
    OBVIOUS
  <2> HIDE DEF u, v
  <2>6. \E n, w \in 1..Len(order') : n < w /\ order'[n] = u /\ order'[w] = v
    BY <2>5
  <2> QED BY <2>3, <2>4, <2>6 DEF Earlier
<1>3. CASE Goes(t)
  <2>0. order' = order
    BY <1>3 DEF Goes
  <2>1. CASE log' = log
    BY <2>0, <2>1 DEF LogInOrder, Earlier
  <2>2. ASSUME NEW w \in Writes, log' = Append(log, <<w, t>>),
               w = "message" => Exists /\ pc[t] \in Placed \cup {"between"}
        PROVE  LogInOrder'
    <3>1. /\ Len(log') = Len(log) + 1 /\ log'[Len(log) + 1] = <<w, t>>
          /\ \A i \in 1..Len(log) : log'[i] = log[i]
      BY <1>0, <2>2
    <3> SUFFICES ASSUME NEW i \in 1..Len(log'), NEW j \in 1..Len(log'),
                        log'[i][1] = "message", log'[j][1] = "message", Earlier(log'[i][2], log'[j][2])
                 PROVE  i < j
      BY <2>0 DEF LogInOrder, Earlier
    <3>2. CASE i \in 1..Len(log) /\ j \in 1..Len(log)
      BY <3>1, <3>2 DEF LogInOrder
    <3>3. CASE i = Len(log) + 1 /\ j \in 1..Len(log)
      <4>1. w = "message" /\ Earlier(t, log[j][2]) /\ log[j][1] = "message"
        BY <3>1, <3>3
      <4>2. Saved(log[j][2]) /\ log[j][2] \in Turns
        BY <1>1, <3>3, <4>1 DEF Saved
      <4>3. pc[t] # "between"
        BY <4>1 DEF Earlier, OrderFits, Counted
      <4>4. BehindFits(t, log[j][2]) /\ pc[t] \in Placed
        BY <2>2, <4>1, <4>2, <4>3 DEF QueueInOrder
      <4> QED BY <4>2, <4>4 DEF BehindFits
    <3>4. CASE j = Len(log) + 1 /\ i \in 1..Len(log)
      BY <1>0, <3>4
    <3>5. CASE i = Len(log) + 1 /\ j = Len(log) + 1
      BY <3>1, <3>5, NotBeforeOneself
    <3> QED BY <1>0, <3>1, <3>2, <3>3, <3>4, <3>5
  <2> QED BY <1>3, <2>1, <2>2 DEF Goes, Writes
<1> QED BY <1>2, <1>3

\* So the turns' order is kept by every step.
LEMMA OrderStep ==
    ASSUME IndInv, SpellInv, OrderInv, [Next]_vars
    PROVE  OrderInv'
<1>1. ASSUME NEW t \in Turns, Admits(t) \/ Goes(t)
      PROVE  OrderInv'
  <2>1. QueuesFit' /\ PlacesKept'
    BY <1>1, QueuesStep DEF IndInv, SpellInv, OrderInv
  <2>2. SavesFit' /\ SavedOnce'
    BY <1>1, SavesStep DEF IndInv, OrderInv
  <2>3. LogInOrder'
    BY <1>1, LogOrderStep
  <2>4. QueueInOrder'
    <3>1. Exists' => Exists
      BY StaysGone
    <3> QED BY <1>1, <3>1, QueueOrderStep DEF QueueInOrder
  <2>5. OrderFits'
    <3>1. CASE Admits(t)
      BY <3>1, AdmittedLast DEF IndInv, OrderInv
    <3>2. CASE Goes(t)
      <4>1. /\ order' = order /\ pc' = [pc EXCEPT ![t] = pc'[t]] /\ pc \in [Turns -> States]
            /\ order \in Seq(Turns) /\ Len(order) \in Nat /\ \A i \in 1..Len(order) : order[i] \in Turns
        BY <3>2 DEF Goes, IndInv, TypeOK, TurnsOK, HistoryOK
      <4>2. \A u \in Turns : /\ pc[u] \in Counted \cup {"done"} => pc'[u] \in Counted \cup {"done"}
                             /\ pc'[u] \in Counted => pc[u] \in Counted
        BY <3>2, <4>1 DEF Goes
      <4> QED BY <4>1, <4>2 DEF OrderInv, OrderFits, Admitted
    <3> QED BY <1>1, <3>1, <3>2
  <2> QED BY <2>1, <2>2, <2>3, <2>4, <2>5 DEF OrderInv
<1>2. CASE Outside \/ UNCHANGED vars
  <2>1. UNCHANGED <<log, pc, ref, queue, order>>
    BY <1>2, OutsideGoes DEF lockVars
  <2>2. Exists' => Exists
    BY StaysGone
  <2>3. QueuesFit' /\ PlacesKept'
    BY <2>1 DEF OrderInv, QueuesFit, PlacesKept
  <2>4. OrderFits' /\ SavesFit' /\ SavedOnce' /\ LogInOrder'
    <3>1. OrderFits'
      BY <2>1 DEF OrderInv, OrderFits, Admitted
    <3>2. SavesFit'
      BY <2>1 DEF OrderInv, SavesFit, Saved
    <3>3. SavedOnce'
      BY <2>1 DEF OrderInv, SavedOnce
    <3>4. LogInOrder'
      BY <2>1 DEF OrderInv, LogInOrder, Earlier
    <3> QED BY <3>1, <3>2, <3>3, <3>4
  <2>5. QueueInOrder'
    BY <2>1, <2>2 DEF OrderInv, QueueInOrder, Earlier, BehindFits, Saved
  <2> QED BY <2>3, <2>4, <2>5 DEF OrderInv
<1>3. TypeOK /\ WritersHold /\ SavesFit
  BY DEF IndInv, OrderInv
<1> QED BY <1>1, <1>2, <1>3, GoesSteps DEF Next

\* Nobody is in order yet at startup.
LEMMA InitOrder == Init => OrderInv
<1> SUFFICES ASSUME Init PROVE OrderInv
  OBVIOUS
<1>1. /\ \A l \in Turns : queue[l] = <<>>
      /\ \A t \in Turns : pc[t] = "idle"
      /\ order = <<>> /\ log = <<>>
  BY DEF Init
<1>2. QueuesFit /\ PlacesKept
  BY <1>1 DEF QueuesFit, PlacesKept, Once, Placed
<1>3. OrderFits /\ SavesFit /\ SavedOnce /\ LogInOrder /\ QueueInOrder
  BY <1>1 DEF OrderFits, Once, Counted, SavesFit, Saved, SavedOnce, LogInOrder, QueueInOrder, Earlier
<1> QED BY <1>2, <1>3 DEF OrderInv

\* With the messages in that order, SavedInOrder holds.
LEMMA OrderedSaves ==
    ASSUME TypeOK, OrderInv
    PROVE  SavedInOrder
<1> SUFFICES ASSUME NEW t \in Admitted, NEW u \in Admitted, Saved(t), Saved(u), Place(t) < Place(u)
             PROVE  Position(<<"message", t>>) < Position(<<"message", u>>)
  BY DEF SavedInOrder
<1>1. Place(t) \in 1..Len(order) /\ order[Place(t)] = t /\ Place(u) \in 1..Len(order) /\ order[Place(u)] = u
  BY DEF Admitted, Place
<1>2. Earlier(t, u)
  BY <1>1 DEF Earlier
<1>3. \A v : Saved(v) => LET p == Position(<<"message", v>>) IN p \in 1..Len(log) /\ log[p] = <<"message", v>>
  BY DEF Saved, Position
<1> QED BY <1>2, <1>3 DEF OrderInv, LogInOrder

-----------------------------------------------------------------------------
(* What is owed.                                                           *)

\* A step of t's that takes nothing off what is owed, and fails nobody who
\* does not end by it.
Adds(t) ==
    /\ UNCHANGED <<flights, spell>>
    /\ \E a \in Attentions \cup {None} : att' \in {att, Larger(att, a)}
    /\ Exists /\ "forgotten" \in flags' => "forgotten" \in flags
    /\ pc' = [pc EXCEPT ![t] = pc'[t]] /\ pc[t] \notin {"ended", "settled", "done"}
    /\ pc'[t] \in Counted => pc[t] \in Counted
    /\ \/ outcome' = outcome /\ pc'[t] # "ended"
       \/ /\ pc'[t] = "ended"
          /\ \E how \in {"ok", "failed", "stopped"} : outcome' = [outcome EXCEPT ![t] = how]

\* All steps do but an admission, and a settled turn's.
LEMMA AddsSteps ==
    ASSUME TypeOK, NEW t \in Turns,
           \/ Arrive(t) \/ RefuseWake(t) \/ QueueBetween(t) \/ ConfirmRefused(t) \/ Start(t) \/ RunBody(t)
           \/ Streaming(t) \/ Stopping(t) \/ Between(t) \/ Faulty(t)
    PROVE  Adds(t)
<1> USE DEF Counted
<1>0. pc \in [Turns -> States] /\ None \in Attentions \cup {None}
  BY DEF TypeOK, TurnsOK
<1>1. CASE Arrive(t) \/ RefuseWake(t) \/ QueueBetween(t) \/ ConfirmRefused(t) \/ SaveBetween(t)
  BY <1>0, <1>1 DEF Adds, Arrive, RefuseWake, QueueBetween, ConfirmRefused, SaveBetween, entryVars, owedVars, histVars
<1>2. CASE FindGone(t) \/ SaveInGone(t) \/ FailEarly(t) \/ EndWithNothing(t)
  BY <1>0, <1>2 DEF Adds, FindGone, SaveInGone, FailEarly, EndWithNothing, End, entryVars, owedVars, histVars
<1>3. CASE Grant(t) \/ FindConversation(t) \/ SaveMessage(t) \/ SaveAnswer(t) \/ SaveNothing(t)
  BY <1>0, <1>3 DEF Adds, Grant, FindConversation, SaveMessage, SaveAnswer, SaveNothing, entryVars, owedVars, histVars
<1>4. CASE CallModel(t) \/ CallAgain(t) \/ SaveCall(t) \/ SaveResults(t)
  BY <1>0, <1>4 DEF Adds, CallModel, CallAgain, SaveCall, SaveResults, entryVars, owedVars, histVars
<1>5. CASE NotifyUser(t) \/ FinishAgent(t) \/ AskUser(t)
  <2>1. /\ UNCHANGED <<flights, spell, outcome>> /\ flags' \subseteq flags \cup {"notified"}
        /\ att' \in {att, Larger(att, Notified), Larger(att, Question)}
    BY <1>5 DEF NotifyUser, FinishAgent, AskUser, entryVars, owedVars, histVars
  <2>2. pc[t] = "tools" /\ \E s \in {"finished", "asked"} : pc' = [pc EXCEPT ![t] = s]
    BY <1>5 DEF NotifyUser, FinishAgent, AskUser
  <2> QED BY <1>0, <2>1, <2>2 DEF Adds, Attentions
<1>6. CASE Streaming(t)
  BY <1>0, <1>6 DEF Adds, Streaming, Stream, turnVars, owedVars, histVars
<1>7. CASE (\E a \in {None, CutOff} : SaveReply(t, a)) \/ EndAfterTools(t)
  BY <1>0, <1>7 DEF Adds, SaveReply, EndAfterTools, End, entryVars, owedVars, histVars, Attentions
<1>8. CASE Fail(t) \/ FailAtTop(t)
  BY <1>0, <1>8 DEF Adds, Fail, FailAtTop, FailBody, Body, End, owedVars, histVars
<1>9. CASE StopQueued(t) \/ StopBody(t) \/ KeepMessage(t) \/ KeepNothing(t) \/ KeepFails(t) \/ Requeue(t) \/ LockBack(t)
  BY <1>0, <1>9 DEF Adds, StopQueued, StopBody, Body, KeepMessage, KeepNothing, KeepFails, Requeue, LockBack,
                    entryVars, owedVars, histVars
<1>10. CASE EndStopped(t)
  BY <1>0, <1>10 DEF Adds, EndStopped, End, owedVars, histVars
<1>11. CASE AfterBetween(t)
  <2>1. flags' \subseteq flags
    BY <1>11 DEF AfterBetween, ReleaseIdle, Tidy
  <2> QED BY <1>0, <1>11, <2>1 DEF Adds, AfterBetween, owedVars, histVars
<1> QED BY <1>1, <1>2, <1>3, <1>4, <1>5, <1>6, <1>7, <1>8, <1>9, <1>10, <1>11
        DEF Start, RunBody, Stopping, Between, Faulty

\* Nor is anything owed less, while the conversation is there, for what goes on
\* outside the turns.
LEMMA OutsideOwes ==
    ASSUME Exists', Outside \/ UNCHANGED vars
    PROVE  UNCHANGED <<pc, outcome, spell, flights, att>> /\ ("forgotten" \in flags' => "forgotten" \in flags)
<1>1. CASE Stop \/ ShowError \/ DeleteMark \/ DeleteRows \/ DeleteFails \/ UNCHANGED vars
  BY <1>1 DEF Stop, StopTurnNow, ShowError, DeleteMark, DeleteRows, DeleteFails, vars, entryVars, owedVars,
              turnVars, histVars
<1>2. CASE TrustDecided
  BY <1>2 DEF TrustDecided, Tidy, turnVars, histVars
<1>3. CASE CheckAfterWrite
  BY <1>3 DEF CheckAfterWrite, Exists, entryVars, owedVars
<1>4. CASE DeleteForget
  BY <1>4 DEF DeleteForget, Exists
<1> QED BY <1>1, <1>2, <1>3, <1>4 DEF Outside

\* A failure stays owed until the spell ends.
LEMMA ToldStep ==
    ASSUME IndInv, SpellInv, ToldInv, [Next]_vars
    PROVE  ToldInv'
<1> USE DEF IndInv, ToldInv
<1>0. /\ pc \in [Turns -> States] /\ outcome \in [Turns -> {"none", "ok", "failed", "stopped"}]
      /\ att \in Nat /\ flights \in Nat /\ spell \subseteq Turns
      /\ \A a \in Attentions \cup {None} : a \in Nat
  BY DEF TypeOK, EntryOK, TurnsOK, HistoryOK, Attentions, None, Notified, CutOff, Failed, Question
<1>1. Exists' => Exists
  BY StaysGone
<1>2. ASSUME NEW t \in Turns, Adds(t)
      PROVE  ToldInv'
  <2>1. /\ flights' = flights /\ spell' = spell /\ pc[t] \notin {"ended", "settled", "done"}
        /\ pc' = [pc EXCEPT ![t] = pc'[t]]
        /\ outcome[t] = "none"
        /\ \A u \in Turns : u # t => pc'[u] = pc[u] /\ outcome'[u] = outcome[u]
        /\ outcome'[t] # "none" => pc'[t] = "ended"
    BY <1>0, <1>2 DEF Adds, OutcomesFit
  <2>2. att' \in Nat /\ att' >= att
    BY <1>0, <1>2 DEF Adds, Larger
  <2>3. OutcomesFit'
    BY <2>1 DEF OutcomesFit
  <2>4. SpellFits'
    BY <1>2, <2>1 DEF SpellFits, Adds
  <2>5. Owed'
    <3> SUFFICES ASSUME Exists', ~ Child, flights' # 0, \A u \in spell' : outcome'[u] # "stopped",
                        NEW u \in spell', outcome'[u] = "failed", pc'[u] # "ended"
                 PROVE  att' >= Failed
      BY DEF Owed
    <3>1. u # t /\ u \in Turns
      BY <1>0, <2>1
    <3>2. \A v \in spell : outcome[v] # "stopped"
      BY <1>0, <2>1
    <3>3. att >= Failed
      BY <1>1, <2>1, <3>1, <3>2 DEF Owed
    <3> QED BY <1>0, <2>2, <3>3 DEF Failed
  <2> QED BY <1>1, <1>2, <2>3, <2>4, <2>5 DEF Adds
<1>3. ASSUME NEW t \in Turns, AdmitByUser(t) \/ AdmitNotice(t)
      PROVE  ToldInv'
  <2>1. /\ pc[t] = "checked" /\ pc' = [pc EXCEPT ![t] = "queued"] /\ outcome' = outcome
        /\ spell' = IF flights = 0 THEN {t} ELSE spell \cup {t}
        /\ att' = IF flights = 0 THEN None ELSE att
        /\ "forgotten" \in flags' => "forgotten" \in flags
    BY <1>3 DEF AdmitByUser, AdmitNotice, Admit
  <2>2. outcome[t] = "none"
    BY <2>1 DEF OutcomesFit
  <2>3. OutcomesFit'
    BY <1>0, <2>1, <2>2 DEF OutcomesFit
  <2>4. SpellFits'
    <3>1. flights = 0 => \A u \in Turns : pc[u] \notin Counted
      BY FlightsFinite DEF SpellInv, InFlight
    <3> QED BY <1>0, <2>1, <3>1 DEF SpellFits, Counted
  <2>5. Owed'
    BY <1>0, <1>1, <2>1, <2>2 DEF Owed
  <2> QED BY <1>1, <2>1, <2>3, <2>4, <2>5
<1>4. ASSUME NEW t \in Turns, Settle(t)
      PROVE  ToldInv'
  <2>1. /\ pc[t] = "ended" /\ pc' = [pc EXCEPT ![t] = "settled"] /\ flags' \subseteq flags
        /\ UNCHANGED <<flights, spell, outcome>>
        /\ att' = Forgone(OwedAfter(t))
    BY <1>4 DEF Settle, histVars
  <2>2. OutcomesFit' /\ SpellFits'
    BY <1>0, <2>1 DEF OutcomesFit, SpellFits, Counted
  <2>3. Owed'
    <3> SUFFICES ASSUME Exists', ~ Child, flights' # 0, \A u \in spell' : outcome'[u] # "stopped",
                        NEW u \in spell', outcome'[u] = "failed", pc'[u] # "ended"
                 PROVE  att' >= Failed
      BY DEF Owed
    <3>1. t \in spell /\ outcome[t] # "stopped"
      BY <2>1 DEF SpellFits, Counted
    <3>2. att' = IF outcome[t] = "failed" THEN Larger(att, Failed) ELSE att
      BY <2>1, <3>1 DEF Forgone, OwedAfter
    <3>3. u # t => att >= Failed
      BY <1>0, <1>1, <2>1 DEF Owed
    <3> QED BY <1>0, <2>1, <3>2, <3>3 DEF Larger, Failed
  <2> QED BY <1>1, <2>1, <2>2, <2>3
<1>5. ASSUME NEW t \in Turns, DropLast(t) \/ DropOther(t)
      PROVE  ToldInv'
  <2>1. /\ pc[t] = "settled" /\ pc' = [pc EXCEPT ![t] = "done"] /\ UNCHANGED <<spell, outcome>>
        /\ flights' = 0 \/ (att' = att /\ flights # 0)
    BY <1>0, <1>5 DEF DropLast, DropOther, TurnGone, histVars, owedVars
  <2>2. flags' \subseteq flags
    BY <1>5 DEF DropLast, DropOther, ReleaseIdle, Tidy
  <2>3. OutcomesFit' /\ SpellFits'
    BY <1>0, <2>1 DEF OutcomesFit, SpellFits, Counted
  <2>4. Owed'
    BY <1>0, <1>1, <2>1 DEF Owed
  <2> QED BY <1>1, <2>1, <2>2, <2>3, <2>4
<1>6. CASE Outside \/ UNCHANGED vars
  <2>1. UNCHANGED <<pc, outcome, spell>>
    BY <1>6 DEF Outside, Stop, StopTurnNow, ShowError, CheckAfterWrite, TrustDecided, DeleteMark, DeleteRows,
                DeleteFails, DeleteForget, vars, turnVars, histVars
  <2>2. OutcomesFit' /\ SpellFits'
    BY <2>1 DEF OutcomesFit, SpellFits
  <2>3. Owed'
    BY <1>1, <1>6, OutsideOwes DEF Owed
  <2>4. Exists' => "forgotten" \notin flags'
    BY <1>1, <1>6, OutsideOwes
  <2> QED BY <2>2, <2>3, <2>4
<1> QED BY <1>2, <1>3, <1>4, <1>5, <1>6, AddsSteps DEF Next, Admission, Ending

\* Nothing is owed at startup.
LEMMA InitTold == Init => ToldInv
BY DEF Init, ToldInv, OutcomesFit, SpellFits, Owed, Counted

\* So the spell's end tells of it.
LEMMA FailureTold ==
    ASSUME IndInv, SpellInv, ToldInv, [Next]_vars
    PROVE  FailureToldStep
<1> USE DEF IndInv, ToldInv
<1> SUFFICES ASSUME flights = 1, flights' = 0, Exists, ~ Child, NEW u \in spell, outcome[u] = "failed",
                    \A t \in spell : outcome[t] # "stopped"
             PROVE  \E p \in published' : p[2] >= Failed
  BY DEF FailureToldStep
<1>0. /\ att \in Attentions \cup {None} /\ flights \in Nat /\ spell \subseteq Turns
  BY DEF TypeOK, EntryOK, HistoryOK
<1>1. PICK t \in Turns : DropLast(t)
  <2>1. ASSUME NEW t \in Turns, Adds(t) \/ AdmitByUser(t) \/ AdmitNotice(t) \/ Settle(t) \/ DropOther(t)
        PROVE  FALSE
    BY <1>0, <2>1 DEF Adds, AdmitByUser, AdmitNotice, Admit, Settle, DropOther
  <2>2. CASE Outside \/ UNCHANGED vars
    BY <2>2 DEF Outside, Stop, StopTurnNow, ShowError, CheckAfterWrite, TrustDecided, DeleteMark, DeleteRows,
                DeleteFails, DeleteForget, Forget, vars, entryVars
  <2> QED BY <2>1, <2>2, AddsSteps DEF Next, Admission, Ending
<1>2. pc[u] # "ended"
  <2>1. t \in InFlight /\ Cardinality(InFlight) = 1 /\ IsFiniteSet(InFlight)
    BY <1>1, FlightsFinite DEF DropLast, InFlight, Counted, SpellInv, CountExact
  <2>2. \E v : InFlight = {v}
    BY <2>1, FS_CardinalityType, FS_Singleton
  <2>3. pc[u] = "ended" => u \in InFlight
    BY <1>0 DEF InFlight, Counted
  <2> QED BY <1>1, <2>1, <2>2, <2>3 DEF DropLast
<1>3. att >= Failed /\ "forgotten" \notin flags
  BY <1>2 DEF Owed
<1>4. att # None /\ published' = Publish
  BY <1>1, <1>3 DEF DropLast, None, Failed
<1>5. CASE Repeats(att)
  <2>1. PICK p \in published : p[2] = Failed
    BY <1>5 DEF Repeats
  <2> QED BY <1>4, <1>5, <2>1 DEF Publish, Failed
<1>6. CASE ~ Repeats(att)
  BY <1>3, <1>4, <1>6 DEF Publish
<1> QED BY <1>5, <1>6

-----------------------------------------------------------------------------
(* What is kept of a failure.                                              *)

Waiting  == {"idle", "checked", "queued"}
Speaking == {"call", "tools", "asked", "finished"}
Failing(t) == pc[t] = "ended" /\ outcome[t] = "failed"

\* A step of t's that takes no generation.
Keeps(t) ==
    /\ UNCHANGED <<gen, took, order, kind>>
    /\ \A u \in Turns \ {t} : pc'[u] = pc[u] /\ mine'[u] = mine[u] /\ outcome'[u] = outcome[u]
    /\ pc'[t] \in Waiting => pc[t] \in Waiting
    /\ pc'[t] \in Speaking => pc[t] \in Speaking \/ t \in took
    /\ pc'[t] \in Running \/ Failing(t)' => mine'[t] = mine[t]
    /\ pc'[t] \in Running => pc[t] \in Running \/ (pc[t] = "queued" /\ t \notin took)
    /\ Failing(t)' => (pc[t] \in Running /\ t \in took) \/ Failing(t)

\* A step of t's that takes a generation: it has the lock.
Takes(t) ==
    /\ pc[t] \in Placed /\ pc'[t] \in Running /\ pc' = [pc EXCEPT ![t] = pc'[t]]
    /\ gen' = gen + 1 /\ mine' = [mine EXCEPT ![t] = gen + 1] /\ took' = took \cup {t}
    /\ UNCHANGED <<order, kind, outcome>>

\* While no database call fails and the conversation is there, every step but
\* an admission is one or the other.
LEMMA KeepsSteps ==
    ASSUME IndInv, KeepInv, Exists, faults' = 0, NEW t \in Turns,
           \/ Arrive(t) \/ RefuseWake(t) \/ QueueBetween(t) \/ ConfirmRefused(t) \/ Start(t) \/ RunBody(t)
           \/ Streaming(t) \/ Stopping(t) \/ Ending(t) \/ Between(t) \/ Faulty(t)
    PROVE  Keeps(t) \/ Takes(t)
<1> USE DEF Waiting, Speaking, Running, Failing
<1>0. /\ pc \in [Turns -> States] /\ outcome \in [Turns -> {"none", "ok", "failed", "stopped"}]
      /\ mine \in [Turns -> Nat] /\ faults \in Nat
  BY DEF IndInv, TypeOK, TurnsOK, OutsideOK
<1>1. ~ Fault /\ faults = 0
  <2>1. ~ Fault
    BY <1>0 DEF Fault
  <2>2. faults' = faults \/ faults' = faults + 1
    BY TurnFaults DEF Admission
  <2> QED BY <1>0, <2>1, <2>2
<1>2. KeepFits(t)
  BY <1>1 DEF KeepInv
<1>3. pc[t] = "queued" => t \notin took
  BY <1>2 DEF KeepFits
<1>4. pc[t] \in Speaking => t \in took
  BY <1>2 DEF KeepFits
<1>5. Holds(t) => ref[t] = lock
  BY DEF IndInv, LocksAgree, Holds
<1>6. pc[t] \in Writing => Holds(t)
  BY DEF IndInv, WritersHold
<1>7. CASE Arrive(t) \/ RefuseWake(t) \/ QueueBetween(t) \/ ConfirmRefused(t)
  BY <1>0, <1>7 DEF Keeps, Arrive, RefuseWake, QueueBetween, ConfirmRefused, entryVars, keptVars, histVars
<1>8. CASE Grant(t)
  <2>1. CASE HasMessage(t)
    <3>1. TakeGeneration(t) /\ ref[t] = lock
      BY <1>5, <1>8, <2>1 DEF Grant
    <3> QED BY <1>0, <1>8, <3>1 DEF Takes, Placed, Grant, TakeGeneration, histVars
  <2>2. CASE ~ HasMessage(t)
    BY <1>0, <1>3, <1>8, <2>2 DEF Keeps, Grant, keptVars, histVars
  <2> QED BY <2>1, <2>2
<1>9. CASE FindConversation(t) \/ FindGone(t) \/ SaveMessage(t) \/ SaveInGone(t) \/ SaveNothing(t)
  BY <1>0, <1>9 DEF Keeps, FindConversation, FindGone, SaveMessage, SaveInGone, SaveNothing, entryVars, keptVars,
                    histVars
<1>10. CASE SaveAnswer(t)
  <2>1. TakeGeneration(t) /\ ref[t] = lock
    BY <1>5, <1>6, <1>10 DEF SaveAnswer, Writing
  <2> QED BY <1>0, <1>10, <2>1 DEF Takes, Placed, SaveAnswer, TakeGeneration, histVars
<1>11. CASE CallModel(t)
  <2>1. CASE t \in took
    BY <1>0, <1>11, <2>1 DEF Keeps, CallModel, keptVars, histVars
  <2>2. CASE t \notin took
    <3>1. TakeGeneration(t) /\ ref[t] = lock
      BY <1>5, <1>6, <1>11, <2>2 DEF CallModel, Writing
    <3> QED BY <1>0, <1>11, <3>1 DEF Takes, Placed, CallModel, TakeGeneration, histVars
  <2> QED BY <2>1, <2>2
<1>12. CASE EndWithNothing(t) \/ CallAgain(t) \/ SaveCall(t) \/ SaveResults(t)
  BY <1>0, <1>12 DEF Keeps, EndWithNothing, CallAgain, SaveCall, SaveResults, End, entryVars, keptVars, histVars
<1>13. CASE NotifyUser(t) \/ FinishAgent(t) \/ AskUser(t) \/ EndAfterTools(t)
  BY <1>0, <1>13 DEF Keeps, NotifyUser, FinishAgent, AskUser, EndAfterTools, End, entryVars, keptVars, histVars
<1>14. CASE Streaming(t) \/ \E a \in {None, CutOff} : SaveReply(t, a)
  BY <1>0, <1>14 DEF Keeps, Streaming, Stream, SaveReply, End, turnVars, keptVars, histVars
<1>15. CASE Fail(t)
  <2>1. t \in took
    BY <1>4, <1>15 DEF Fail, Body
  <2> QED BY <1>0, <1>15, <2>1 DEF Keeps, Fail, FailBody, Body, End, keptVars, histVars
<1>16. CASE StopQueued(t) \/ StopBody(t) \/ KeepMessage(t) \/ KeepNothing(t) \/ Requeue(t) \/ LockBack(t)
  BY <1>0, <1>16 DEF Keeps, StopQueued, StopBody, KeepMessage, KeepNothing, Requeue, LockBack, entryVars, keptVars,
                     histVars
<1>17. CASE EndStopped(t) \/ Settle(t)
  BY <1>0, <1>17 DEF Keeps, EndStopped, Settle, End, keptVars, histVars
<1>18. CASE DropLast(t) \/ DropOther(t) \/ SaveBetween(t) \/ AfterBetween(t)
  BY <1>0, <1>18 DEF Keeps, DropLast, DropOther, TurnGone, SaveBetween, AfterBetween, entryVars, keptVars, histVars
<1>19. ~ (FailAtTop(t) \/ FailEarly(t) \/ KeepFails(t))
  BY <1>1 DEF FailAtTop, FailEarly, KeepFails
<1> QED BY <1>7, <1>8, <1>9, <1>10, <1>11, <1>12, <1>13, <1>14, <1>15, <1>16, <1>17, <1>18, <1>19
        DEF Start, RunBody, Stopping, Ending, Between, Faulty

\* Of two admitted turns one is before the other.
LEMMA EitherFirst ==
    ASSUME TypeOK, NEW t \in Admitted, NEW u \in Admitted, t # u
    PROVE  Earlier(t, u) \/ Earlier(u, t)
<1>1. PICK i \in 1..Len(order) : order[i] = t
  BY DEF Admitted
<1>2. PICK j \in 1..Len(order) : order[j] = u
  BY DEF Admitted
<1>3. i < j \/ j < i
  BY <1>1, <1>2
<1> QED BY <1>1, <1>2, <1>3 DEF Earlier

\* A turn that failed has the newest generation, if none admitted after it is
\* the user's or took one: whoever takes one has the lock, so those before it
\* have ended, and those after it still wait.
LEMMA KeepStep ==
    ASSUME IndInv, OrderInv, KeepInv, [Next]_vars
    PROVE  KeepInv'
<1> USE DEF IndInv, OrderInv, Failing
<1>0. /\ pc \in [Turns -> States] /\ mine \in [Turns -> Nat] /\ faults \in Nat
      /\ outcome \in [Turns -> {"none", "ok", "failed", "stopped"}]
  BY DEF TypeOK, TurnsOK, OutsideOK
<1> SUFFICES ASSUME Exists', faults' = 0, NEW u \in Turns
             PROVE  KeepFits(u)'
  BY DEF KeepInv
<1>1. Exists /\ faults = 0
  <2>1. faults' \in {faults, faults + 1}
    BY TurnFaults DEF Next, Outside, Stop, StopTurnNow, ShowError, CheckAfterWrite, TrustDecided, DeleteMark,
                      DeleteRows, DeleteFails, DeleteForget, Fault, vars, envVars
  <2> QED BY <1>0, <2>1, StaysGone
<1>2. KeepFits(u)
  BY <1>1 DEF KeepInv
<1>3. ASSUME NEW t \in Turns, Keeps(t)
      PROVE  KeepFits(u)'
  <2>1. Newest(u)' <=> Newest(u)
    BY <1>3 DEF Keeps, Newest, Earlier, ByUser
  <2>2. CASE u = t
    BY <1>2, <1>3, <2>1, <2>2 DEF Keeps, KeepFits, Waiting, Speaking, Running
  <2>3. CASE u # t
    BY <1>2, <1>3, <2>1, <2>3 DEF Keeps, KeepFits
  <2> QED BY <2>2, <2>3
<1>4. ASSUME NEW t \in Turns, Takes(t)
      PROVE  KeepFits(u)'
  <2>1. CASE u = t
    BY <1>0, <1>4, <2>1 DEF Takes, KeepFits, Running
  <2>2. CASE u # t
    <3>1. pc'[u] = pc[u] /\ outcome'[u] = outcome[u] /\ (u \in took' <=> u \in took)
      BY <1>0, <1>4, <2>2 DEF Takes
    <3>2. ASSUME pc[u] \in Running \/ Failing(u), Newest(u)'
          PROVE  FALSE
      <4>1. u \in Admitted /\ t \in Admitted
        BY <1>4, <3>2 DEF OrderFits, Takes, Placed, Running, Counted
      <4>2. ~ Earlier(u, t)
        BY <1>4, <3>2 DEF Newest, Earlier, Takes
      <4>3. Earlier(t, u)
        BY <2>2, <4>1, <4>2, EitherFirst
      <4>4. pc[u] \in Behind
        BY <1>1, <1>4, <4>3 DEF QueueInOrder, BehindFits, Takes, Behind
      <4> QED BY <3>2, <4>4 DEF Running, Behind
    <3> QED BY <1>2, <3>1, <3>2 DEF KeepFits
  <2> QED BY <2>1, <2>2
<1>5. ASSUME NEW t \in Turns, AdmitByUser(t) \/ AdmitNotice(t)
      PROVE  KeepFits(u)'
  <2>1. /\ pc[t] = "checked" /\ pc' = [pc EXCEPT ![t] = "queued"] /\ order' = Append(order, t)
        /\ UNCHANGED <<took, outcome, kind>>
        /\ \A v \in Turns \ {t} : mine'[v] = mine[v]
        /\ gen' = gen \/ ByUser(t)
    BY <1>0, <1>5 DEF AdmitByUser, AdmitNotice, Admit, keptVars
  <2>2. CASE u = t
    BY <1>0, <1>2, <2>1, <2>2 DEF KeepFits, Running
  <2>3. CASE u # t
    <3>0. /\ order \in Seq(Turns) /\ Len(order) \in Nat
          /\ Len(order') = Len(order) + 1 /\ order'[Len(order) + 1] = t
          /\ \A i \in 1..Len(order) : order'[i] = order[i]
      BY <2>1 DEF TypeOK, HistoryOK
    <3>1. \A v \in Turns : Earlier(u, v) => Earlier(u, v)'
      <4> SUFFICES ASSUME NEW v \in Turns, NEW i \in 1..Len(order), NEW j \in 1..Len(order),
                          i < j, order[i] = u, order[j] = v
                   PROVE  Earlier(u, v)'
        BY DEF Earlier
      <4>1. i \in 1..Len(order') /\ j \in 1..Len(order') /\ order'[i] = u /\ order'[j] = v
        BY <3>0
      <4> QED BY <4>1 DEF Earlier
    <3>2. Newest(u)' => Newest(u)
      BY <2>1, <3>1 DEF Newest, ByUser
    <3>3. ASSUME pc[u] \in Running \/ Failing(u), ByUser(t), Newest(u)'
          PROVE  FALSE
      <4>1. u \in Admitted
        BY <3>3 DEF OrderFits, Running, Counted
      <4>2. PICK i \in 1..Len(order) : order[i] = u
        BY <4>1 DEF Admitted
      <4>3. i \in 1..Len(order') /\ Len(order) + 1 \in 1..Len(order') /\ i < Len(order) + 1 /\ order'[i] = u
        BY <3>0, <4>2
      <4>4. Earlier(u, t)'
        BY <3>0, <4>3 DEF Earlier
      <4> QED BY <2>1, <3>3, <4>4 DEF Newest, ByUser
    <3> QED BY <1>0, <1>2, <2>1, <2>3, <3>2, <3>3 DEF KeepFits
  <2> QED BY <2>2, <2>3
<1>6. CASE Outside \/ UNCHANGED vars
  <2>1. UNCHANGED <<pc, order, took, kind, mine, outcome, gen>>
    <3>1. CASE \/ Stop \/ ShowError \/ TrustDecided \/ DeleteMark \/ DeleteRows \/ DeleteFails \/ UNCHANGED vars
      BY <3>1 DEF Stop, StopTurnNow, ShowError, TrustDecided, DeleteMark, DeleteRows, DeleteFails, vars,
                  entryVars, keptVars, turnVars, histVars
    <3>2. CASE CheckAfterWrite \/ DeleteForget
      BY <1>1, <3>2 DEF CheckAfterWrite, DeleteForget, Exists, entryVars, keptVars
    <3> QED BY <1>6, <3>1, <3>2 DEF Outside
  <2> QED BY <1>2, <2>1 DEF KeepFits, Newest, Earlier, ByUser
<1> QED BY <1>1, <1>3, <1>4, <1>5, <1>6, KeepsSteps DEF Next, Admission

\* At startup nobody has failed.
LEMMA InitKeep == Init => KeepInv
BY DEF Init, KeepInv, KeepFits, Running

\* So its error is kept as it settles.
LEMMA FailureKept ==
    ASSUME IndInv, OrderInv, KeepInv, faults = 0, [Next]_vars
    PROVE  UserFailureKeptStep
<1> USE DEF IndInv, OrderInv
<1> SUFFICES ASSUME NEW t \in Turns, pc[t] = "ended", pc'[t] = "settled", ByUser(t), outcome[t] = "failed", Exists,
                    \A u \in Admitted : Place(u) > Place(t) => ~ ByUser(u) /\ u \notin took
             PROVE  err' = {t}
  BY DEF UserFailureKeptStep
<1>0. pc \in [Turns -> States] /\ order \in Seq(Turns)
  BY DEF TypeOK, TurnsOK, HistoryOK
<1>1. Settle(t)
  <2>1. ASSUME NEW u \in Turns, Adds(u)
        PROVE  FALSE
    BY <1>0, <2>1 DEF Adds
  <2>2. ASSUME NEW u \in Turns, AdmitByUser(u) \/ AdmitNotice(u) \/ DropLast(u) \/ DropOther(u)
        PROVE  FALSE
    BY <1>0, <2>2 DEF AdmitByUser, AdmitNotice, Admit, DropLast, DropOther, TurnGone
  <2>3. CASE Outside \/ UNCHANGED vars
    BY <2>3, OutsideGoes
  <2>4. ASSUME NEW u \in Turns, Settle(u)
        PROVE  u = t
    BY <1>0, <2>4 DEF Settle
  <2> QED BY <2>1, <2>2, <2>3, <2>4, AddsSteps DEF Next, Admission, Ending
<1>2. Newest(t)
  <2> SUFFICES ASSUME NEW u \in Turns, Earlier(t, u) PROVE ~ ByUser(u) /\ u \notin took
    BY DEF Newest
  <2>1. PICK i \in 1..Len(order), j \in 1..Len(order) : i < j /\ order[i] = t /\ order[j] = u
    BY DEF Earlier
  <2>2. Place(t) = i /\ Place(u) = j
    BY <2>1 DEF Place, OrderFits, Once
  <2>3. u \in Admitted
    BY <2>1 DEF Admitted
  <2> QED BY <2>1, <2>2, <2>3
<1>3. gen = mine[t]
  BY <1>2 DEF KeepInv, KeepFits
<1> QED BY <1>1, <1>3 DEF Settle

-----------------------------------------------------------------------------
(* Theorems.                                                               *)

\* IndInv holds of every reachable state.
THEOREM TurnStateInductive == Spec => []IndInv
BY InitInductive, InductiveStep, PTL DEF Spec

\* Every variable keeps its type (TurnState's state).
THEOREM TurnStateTypes == Spec => []TypeOK
BY TurnStateInductive, PTL DEF IndInv

\* One turn at most writes to a conversation that exists: a turn lock in use
\* is never replaced (release_idle, forget_conversation_lock).
THEOREM TurnStateOneWriter == Spec => []OneWriter
<1>1. IndInv => OneWriter
  BY DEF IndInv, OneWriter, WritersHold, LocksAgree, Holds
<1> QED BY <1>1, TurnStateInductive, PTL

\* A Stop ends exactly the turns in flight (admit, stop_turn_now).
THEOREM TurnStateStopsExactly == Spec => []StopEndsExactly
<1>1. IndInv => StopEndsExactly
  BY DEF IndInv, StopEndsExactly, AllDueFit, DueFits
<1> QED BY <1>1, TurnStateInductive, PTL

\* No turn goes on unaware in a paused conversation (admit, stop_turn_now).
THEOREM TurnStateNoneGoesOnPaused == Spec => []NoTurnGoesOnPaused
<1>1. IndInv => NoTurnGoesOnPaused
  BY DEF IndInv, NoTurnGoesOnPaused, AllDueFit, DueFits
<1> QED BY <1>1, TurnStateInductive, PTL

\* All of it holds of every reachable state.
THEOREM TurnStateWhole == Spec => [](IndInv /\ SpellInv /\ MineKept /\ OverInv /\ LogInv)
<1> DEFINE Whole == IndInv /\ SpellInv /\ MineKept /\ OverInv /\ LogInv
<1>1. Init => IndInv
  BY InitInductive
<1>2. Init => Whole
  BY <1>1, InitSpell, InitWhole
<1>3. Whole /\ [Next]_vars => Whole'
  <2> SUFFICES ASSUME Whole, [Next]_vars PROVE Whole'
    OBVIOUS
  <2>1. IndInv'
    BY InductiveStep
  <2>2. TypeOK /\ TypeOK'
    BY <2>1 DEF IndInv
  <2>3. SpellInv'
    BY <2>2, SpellStep
  <2>4. MineKept'
    BY <2>2, MineStep
  <2>5. OverInv'
    BY <2>2, <2>3, OverStep
  <2>6. LogInv'
    BY CallsStep, ReplyStep, NotesStep, WorkStep DEF LogInv
  <2> QED BY <2>1, <2>3, <2>4, <2>5, <2>6
<1>4. Whole => IndInv /\ SpellInv /\ MineKept /\ OverInv /\ LogInv
  OBVIOUS
<1> HIDE DEF Whole
<1> QED BY <1>2, <1>3, <1>4, PTL DEF Spec

\* The count of turns in flight is exact, through every stop, forget and late
\* end (admit, TurnInFlight's drop, forget_conversation_lock).
THEOREM TurnStateCountExact == Spec => []CountExact
<1>1. SpellInv => CountExact
  BY DEF SpellInv
<1> QED BY <1>1, TurnStateWhole, PTL

\* No two turns mix in the messages or in the reply in progress (append_reply,
\* save_notice_between_turns).
THEOREM TurnStateTurnsDontMix == Spec => []TurnsDontMix
<1>1. LogInv => TurnsDontMix
  <2> SUFFICES ASSUME LogInv PROVE TurnsDontMix
    OBVIOUS
  <2>1. \A t, u \in reply : t = u
    BY DEF LogInv, ReplyFits
  <2>2. reply = {} \/ \E t : reply = {t}
    BY <2>1
  <2>3. Cardinality({}) = 0 /\ \A t : Cardinality({t}) = 1
    BY FS_EmptySet, FS_Singleton
  <2>4. Cardinality(reply) = 0 \/ Cardinality(reply) = 1
    BY <2>2, <2>3, Zenon
  <2> QED BY <2>4 DEF LogInv, TurnsDontMix
<1> QED BY <1>1, TurnStateWhole, PTL

\* A stop that cut work short is noted after it, and no stop twice (note_stop,
\* record_stop).
THEOREM TurnStateStopNoted == Spec => []StopNoted
<1>1. IndInv /\ LogInv => StopNoted
  <2> SUFFICES ASSUME IndInv, LogInv PROVE StopNoted
    OBVIOUS
  <2>1. StopNotedOnce
    BY DEF LogInv, NotesFit, StopNotedOnce
  <2>2. ASSUME Exists, faults = 0, NEW t \in Turns, outcome[t] = "stopped", NEW i \in 1..Len(log),
               log[i][2] = t, log[i][1] \in {"call", "result"}
        PROVE  \E j \in Notes : j > i
    <3>1. ~ Open(t)
      BY <2>2 DEF LogInv, WorkNoted, WorkFits
    <3>2. PICK j \in Notes : ~ (j < i)
      BY <2>2, <3>1 DEF Open
    <3>3. log[j][1] = "note" /\ j \in 1..Len(log)
      BY DEF Notes
    <3>4. j # i
      BY <2>2, <3>3
    <3>5. Len(log) \in Nat
      BY DEF IndInv, TypeOK, OutsideOK
    <3> QED BY <3>2, <3>3, <3>4, <3>5
  <2> QED BY <2>1, <2>2 DEF StopNoted, StopNotedAfterWork
<1> QED BY <1>1, TurnStateWhole, PTL

\* Nothing is left of the entry that nobody needs (release_idle,
\* forget_turn_generation, after_turn_state_write).
THEOREM TurnStateNothingLeft == Spec => []NothingLeft
<1>1. SpellInv /\ OverInv => NothingLeft
  <2> SUFFICES ASSUME SpellInv, OverInv, faults = 0, \A t \in Turns : pc[t] \in Resting
               PROVE  /\ lock = NoLock /\ "stops" \notin flags
                      /\ deleting = "over" /\ checks = 0 => flags = {}
    BY DEF NothingLeft
  <2>1. InFlight = {} /\ flights = 0
    BY FlightsFinite DEF SpellInv, InFlight, Resting, Counted
  <2>2. ~ Releasing
    BY <2>1 DEF Releasing, Resting
  <2>3. lock = NoLock /\ "stops" \notin flags
    BY <2>2 DEF SpellInv, LockUsed
  <2>4. ASSUME deleting = "over", checks = 0
        PROVE  flags = {}
    <3>1. OverFits
      BY <2>4 DEF OverInv
    <3>2. gen = 0 /\ err = {} /\ published = {} /\ notice = {}
      BY <2>4, <3>1 DEF OverFits, Clears, Resting
    <3>3. RestIdle
      BY <2>1, <2>3, <3>2 DEF SpellInv, SpellOver, RestIdle
    <3> QED BY <2>3, <2>4, <3>1, <3>3 DEF OverFits, Resting
  <2> QED BY <2>3, <2>4
<1> QED BY <1>1, TurnStateWhole, PTL

\* Messages are saved in the order their turns were admitted in, of the turns
\* that run and of those stopped while queued (admit, run_turn_stoppable).
THEOREM TurnStateSavedInOrder == Spec => []SavedInOrder
<1>1. Init => OrderInv
  BY InitOrder
<1>2. IndInv /\ SpellInv /\ OrderInv /\ [Next]_vars => OrderInv'
  BY OrderStep
<1>3. IndInv /\ OrderInv => SavedInOrder
  BY OrderedSaves DEF IndInv
<1> QED BY <1>1, <1>2, <1>3, TurnStateWhole, PTL DEF Spec

\* A failure of a root's busy spell is told as the spell ends, whatever its
\* later turns owe and whichever database calls fail (note_attention,
\* TurnInFlight's drop).
THEOREM TurnStateFailureTold == Spec => [][FailureToldStep]_vars
<1>1. IndInv /\ SpellInv /\ ToldInv /\ [Next]_vars => ToldInv'
  BY ToldStep
<1>2. IndInv /\ SpellInv /\ ToldInv /\ [Next]_vars => [FailureToldStep]_vars
  BY FailureTold
<1> QED BY <1>1, <1>2, InitTold, TurnStateWhole, PTL DEF Spec

\* A failure of a root's busy spell is told as the spell ends, and the user's
\* own is kept for the tabs, while no database call fails: one that fails
\* before its generation is taken has nothing to keep its error under
\* (TurnInFlight's drop, keep_turn_error).
THEOREM TurnStateFailuresKept == Spec /\ [](faults = 0) => FailuresKept
<1>1. Init => OrderInv /\ ToldInv /\ KeepInv
  BY InitOrder, InitTold, InitKeep
<1>2. IndInv /\ SpellInv /\ OrderInv /\ ToldInv /\ KeepInv /\ [Next]_vars => (OrderInv /\ ToldInv /\ KeepInv)'
  BY OrderStep, ToldStep, KeepStep
<1>3. IndInv /\ SpellInv /\ OrderInv /\ ToldInv /\ KeepInv /\ faults = 0 /\ [Next]_vars
         => [FailureToldStep /\ UserFailureKeptStep]_vars
  BY FailureTold, FailureKept
<1> QED BY <1>1, <1>2, <1>3, TurnStateWhole, PTL DEF Spec, FailuresKept
==============================================================================
