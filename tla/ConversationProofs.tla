-------------------------- MODULE ConversationProofs --------------------------
(***************************************************************************)
(* Proofs about what a conversation keeps.  Its pause (PauseStore): for     *)
(* every number of tasks, tries, faults and crashes the row ends up with    *)
(* the pause memory holds.  Its questions and its agents' mail (Mailbox):   *)
(* for any number of the user's events, tool calls and restarts a question  *)
(* has its one result, nothing queued is stranded, and the parent is told.  *)
(***************************************************************************)
EXTENDS PauseStore, Mailbox, FiniteSetTheorems, TLAPS

-----------------------------------------------------------------------------
(* The stored pause.                                                       *)

\* Nothing but a store's own steps ends its duty to read memory again: a
\* store that will mend still will after a step that leaves it, and the row,
\* alone.
LEMMA MendsStill ==
    ASSUME NEW k \in Tasks, WillMend(k), at'[k] = at[k], value'[k] = value[k], row' = row
    PROVE  WillMend(k)'
BY DEF WillMend

\* Every step keeps the types.
LEMMA TypeStep ==
    ASSUME TypeOK, [Next]_vars
    PROVE  TypeOK'
<1> USE PauseStoreAssumption DEF TypeOK, Pauses, Places, Fault
<1>1. ASSUME NEW k \in Tasks, Stop(k) PROVE TypeOK'
  BY <1>1 DEF Stop
<1>2. ASSUME NEW k \in Tasks, Write(k) PROVE TypeOK'
  BY <1>2 DEF Write
<1>3. ASSUME NEW k \in Tasks, Read(k) PROVE TypeOK'
  BY <1>3 DEF Read
<1>4. ASSUME NEW k \in Tasks, SetPaused(k) PROVE TypeOK'
  BY <1>4 DEF SetPaused
<1>5. ASSUME NEW k \in Tasks, SetFails(k) PROVE TypeOK'
  BY <1>5 DEF SetFails, Stored
<1>6. ASSUME NEW k \in Tasks, Reread(k) PROVE TypeOK'
  <2>1. CASE tries[k] < MaxTries
    <3>1. tries[k] + 1 \in 0..MaxTries
      BY <2>1
    <3> QED BY <1>6, <3>1 DEF Reread, Stored
  <2>2. CASE ~ (tries[k] < MaxTries)
    BY <1>6, <2>2 DEF Reread, Stored
  <2> QED BY <2>1, <2>2
<1>7. ASSUME NEW k \in Tasks, CheckRow(k) PROVE TypeOK'
  BY <1>7 DEF CheckRow
<1>8. CASE DeleteMark \/ DeleteRows \/ DeleteFails \/ DeleteForget
  <2>1. /\ row' \in {row, "gone"} /\ paused' \in Pauses
        /\ deleting' \in {"no", "marked", "deleted"}
    BY <1>8 DEF DeleteMark, DeleteRows, DeleteFails, DeleteForget
  <2>2. (faults' = faults \/ faults' = faults + 1) /\ crashes' = crashes
    BY <1>8 DEF DeleteMark, DeleteRows, DeleteFails, DeleteForget
  <2>4. lapses' = lapses \/ lapses' = lapses \cup {"undone"}
    BY <1>8 DEF DeleteMark, DeleteRows, DeleteFails, DeleteForget
  <2>3. UNCHANGED taskVars
    BY <1>8 DEF DeleteMark, DeleteRows, DeleteFails, DeleteForget
  <2>5. faults' \in Nat /\ crashes' \in Nat
    BY <2>2
  <2>6. lapses' \subseteq {"missed", "undone"}
    BY <2>4
  <2>7. at' = at /\ stop' = stop /\ value' = value /\ tries' = tries
    BY <2>3 DEF taskVars
  <2> QED BY <2>1, <2>5, <2>6, <2>7
<1>9. CASE Restart
  BY <1>9 DEF Restart, Over
<1>10. CASE UNCHANGED vars
  BY <1>10 DEF vars, taskVars
<1> QED BY <1>1, <1>2, <1>3, <1>4, <1>5, <1>6, <1>7, <1>8, <1>9, <1>10 DEF Next, StorePause

\* Every step keeps a store about that will see the row is not what memory
\* holds: a change of memory starts one, a write leaves its own, and one that
\* reads memory again ends only where row and memory agree, or writes again.
LEMMA MendingStep ==
    ASSUME IndInv, [Next]_vars
    PROVE  Mending'
<1> SUFFICES ASSUME row' # "gone", deleting' = "no", lapses' = {}, row' # paused'
             PROVE  \E k \in Tasks : WillMend(k)'
  BY DEF Mending, Exists
<1> USE DEF IndInv, TypeOK
<1>1. ASSUME NEW k \in Tasks, Stop(k) \/ Write(k) PROVE WillMend(k)'
  BY <1>1 DEF Stop, Write, WillMend
<1>2. ASSUME NEW k \in Tasks, Read(k) \/ SetPaused(k) PROVE WillMend(k)'
  BY <1>2 DEF Read, SetPaused, WillMend, Exists
<1>3. ASSUME NEW k \in Tasks, Reread(k) PROVE \E m \in Tasks : WillMend(m)'
  <2>1. PICK m \in Tasks : WillMend(m)
    BY <1>3 DEF Reread, Mending, Exists
  <2>2. CASE at'[k] = "writing"
    BY <2>2 DEF WillMend
  <2>3. CASE at'[k] # "writing"
    <3>1. paused = value[k] /\ row' = row /\ value' = value /\ paused' = paused
      BY <1>3, <2>3 DEF Reread, Places
    <3>2. m # k
      BY <1>3, <2>1, <3>1 DEF Reread, WillMend
    <3>3. at'[m] = at[m]
      BY <1>3, <3>2 DEF Reread
    <3> QED BY <2>1, <3>1, <3>3, MendsStill
  <2> QED BY <2>2, <2>3
<1>4. ASSUME NEW k \in Tasks, CheckRow(k) PROVE \E m \in Tasks : WillMend(m)'
  <2>1. PICK m \in Tasks : WillMend(m)
    BY <1>4 DEF CheckRow, Mending, Exists, Fault
  <2>2. m # k /\ row' = row /\ value' = value
    BY <1>4, <2>1 DEF CheckRow, WillMend
  <2>3. at'[m] = at[m]
    BY <1>4, <2>2 DEF CheckRow
  <2> QED BY <2>1, <2>2, <2>3, MendsStill
<1>5. ASSUME NEW k \in Tasks, SetFails(k) PROVE FALSE
  BY <1>5 DEF SetFails
<1>6. CASE DeleteMark \/ DeleteRows \/ DeleteFails \/ DeleteForget
  BY <1>6 DEF DeleteMark, DeleteRows, DeleteFails, DeleteForget, Exists
<1>7. CASE Restart
  BY <1>7 DEF Restart, Pauses
<1>8. CASE UNCHANGED vars
  BY <1>8 DEF vars, taskVars, Mending, Exists, WillMend
<1> QED BY <1>1, <1>2, <1>3, <1>4, <1>5, <1>6, <1>7, <1>8 DEF Next, StorePause

\* IndInv holds of every reachable state.
THEOREM PauseStoreInductive == Spec => []IndInv
<1>1. Init => IndInv
  BY PauseStoreAssumption DEF Init, IndInv, TypeOK, Mending, Pauses, Places
<1>2. IndInv /\ [Next]_vars => IndInv'
  <2> SUFFICES ASSUME IndInv, [Next]_vars PROVE IndInv'
    OBVIOUS
  <2>1. TypeOK'
    BY TypeStep DEF IndInv
  <2>2. Mending'
    BY MendingStep
  <2>3. (deleting = "deleted" => ~ Exists)'
    BY DEF IndInv, Next, StorePause, vars, taskVars, Exists, Stop, Write, Read, SetPaused,
           SetFails, Reread, CheckRow, DeleteMark, DeleteRows, DeleteFails, DeleteForget,
           Restart
  <2> QED BY <2>1, <2>2, <2>3 DEF IndInv
<1> QED BY <1>1, <1>2, PTL DEF Spec

\* Every variable keeps its type (PauseStore's state).
THEOREM PauseStoreTypes == Spec => []TypeOK
BY PauseStoreInductive, PTL DEF IndInv

\* Once the stores are over the row holds the pause memory does, however the
\* stores interleave (store_pause).
THEOREM PauseIsStored == Spec => []StoredMirrorsMemory
<1>1. IndInv => StoredMirrorsMemory
  BY DEF IndInv, Mending, WillMend, StoredMirrorsMemory, Quiet
<1> QED BY <1>1, PauseStoreInductive, PTL

-----------------------------------------------------------------------------
(* What the steps do to a conversation's queue of turns.                   *)

\* The turns of every other conversation stay.
Only(c) == \A d \in Convs : d # c => turns'[d] = turns[d]

\* The head of the queue is t now.
HeadNow(c, t) ==
  /\ t \in Turns
  /\ Len(turns[c]) > 0 /\ Len(turns'[c]) = Len(turns[c])
  /\ turns'[c][1] = t
  /\ \A i \in 1..Len(turns[c]) : i > 1 => turns'[c][i] = turns[c][i]

\* The head has left.
HeadGone(c) ==
  /\ Len(turns[c]) > 0 /\ Len(turns'[c]) = Len(turns[c]) - 1
  /\ \A i \in 1..Len(turns'[c]) : turns'[c][i] = turns[c][i + 1]

\* A turn of kind k has joined.
OneMore(c, k) ==
  /\ k \in TurnKinds
  /\ Len(turns'[c]) = Len(turns[c]) + 1
  /\ \A i \in 1..Len(turns[c]) : turns'[c][i] = turns[c][i]
  /\ turns'[c][Len(turns[c]) + 1] = NewTurn(k)

\* All are stopped.
AllStopped(c) ==
  /\ Len(turns'[c]) = Len(turns[c])
  /\ \A i \in 1..Len(turns[c]) : turns'[c][i] = [turns[c][i] EXCEPT !.stopped = TRUE]

TurnsOK == turns \in [Convs -> Seq(Turns)]

\* The head of a queue is its first.
LEMMA HeadIsFirst ==
  ASSUME TurnsOK, NEW c \in Convs
  PROVE  /\ turns[c] # <<>> <=> Len(turns[c]) > 0
         /\ Turn(c) = turns[c][1]
         /\ turns[c] # <<>> => Turn(c) \in Turns
         /\ Len(turns[c]) \in Nat
         /\ DOMAIN turns[c] = 1..Len(turns[c])
         /\ \A i \in 1..Len(turns[c]) : turns[c][i] \in Turns
BY DEF TurnsOK, Turn

\* What `Becomes` makes of the queue.
LEMMA BecomesIs ==
  ASSUME TurnsOK, NEW c \in Convs, NEW t \in Turns, turns[c] # <<>>, Becomes(c, t)
  PROVE  TurnsOK' /\ HeadNow(c, t) /\ Only(c)
<1>1. turns[c] \in Seq(Turns) /\ Len(turns[c]) > 0
  BY DEF TurnsOK
<1>2. turns'[c] = [turns[c] EXCEPT ![1] = t]
  BY DEF Becomes, TurnsOK
<1>3. Only(c)
  BY DEF Becomes, TurnsOK, Only
<1>4. [turns[c] EXCEPT ![1] = t] \in Seq(Turns) /\ Len([turns[c] EXCEPT ![1] = t]) = Len(turns[c])
  BY <1>1
<1>5. HeadNow(c, t)
  BY <1>1, <1>2, <1>4 DEF HeadNow
<1>6. TurnsOK'
  BY <1>2, <1>4, Zenon DEF Becomes, TurnsOK
<1> QED BY <1>3, <1>5, <1>6

\* What `Leaves` makes of it.
LEMMA LeavesIs ==
  ASSUME TurnsOK, NEW c \in Convs, turns[c] # <<>>, Leaves(c)
  PROVE  TurnsOK' /\ HeadGone(c) /\ Only(c)
<1>1. turns[c] \in Seq(Turns) /\ Len(turns[c]) > 0
  BY DEF TurnsOK
<1>2. turns'[c] = Tail(turns[c])
  BY DEF Leaves, TurnsOK
<1>3. Only(c)
  BY DEF Leaves, TurnsOK, Only
<1>4. /\ Tail(turns[c]) \in Seq(Turns) /\ Len(Tail(turns[c])) = Len(turns[c]) - 1
      /\ \A i \in 1..(Len(turns[c]) - 1) : Tail(turns[c])[i] = turns[c][i + 1]
  BY <1>1
<1>5. HeadGone(c)
  BY <1>1, <1>2, <1>4 DEF HeadGone
<1>6. TurnsOK'
  BY <1>2, <1>4, Zenon DEF Leaves, TurnsOK
<1> QED BY <1>3, <1>5, <1>6

\* What a new turn makes of it.
LEMMA JoinsIs ==
  ASSUME TurnsOK, NEW c \in Convs, NEW k \in TurnKinds,
         turns' = [turns EXCEPT ![c] = Append(@, NewTurn(k))]
  PROVE  TurnsOK' /\ OneMore(c, k) /\ Only(c)
<1>0. NewTurn(k) \in Turns
  BY DEF NewTurn, Turns, TurnPcs
<1>1. turns[c] \in Seq(Turns)
  BY DEF TurnsOK
<1>2. turns'[c] = Append(turns[c], NewTurn(k))
  BY DEF TurnsOK
<1>3. Only(c)
  BY DEF TurnsOK, Only
<1>4. /\ Append(turns[c], NewTurn(k)) \in Seq(Turns)
      /\ Len(Append(turns[c], NewTurn(k))) = Len(turns[c]) + 1
      /\ \A i \in 1..Len(turns[c]) : Append(turns[c], NewTurn(k))[i] = turns[c][i]
      /\ Append(turns[c], NewTurn(k))[Len(turns[c]) + 1] = NewTurn(k)
  BY <1>0, <1>1
<1>5. OneMore(c, k)
  BY <1>1, <1>2, <1>4 DEF OneMore
<1>6. TurnsOK'
  BY <1>2, <1>4, Zenon DEF TurnsOK
<1> QED BY <1>3, <1>5, <1>6

\* A turn stays one when it is stopped.
LEMMA StoppedTurn ==
  ASSUME NEW t \in Turns
  PROVE  [t EXCEPT !.stopped = TRUE] \in Turns
BY DEF Turns

\* What `Halted` makes of a queue: the same turns, stopped.
LEMMA HaltedIs ==
  ASSUME NEW q \in Seq(Turns)
  PROVE  /\ Halted(q) \in Seq(Turns) /\ Len(Halted(q)) = Len(q)
         /\ \A i \in 1..Len(q) : Halted(q)[i] = [q[i] EXCEPT !.stopped = TRUE]
<1>1. \A i \in 1..Len(q) : [q[i] EXCEPT !.stopped = TRUE] \in Turns
  <2> TAKE i \in 1..Len(q)
  <2>1. q[i] \in Turns
    OBVIOUS
  <2> QED BY <2>1, StoppedTurn
<1>2. DOMAIN q = 1..Len(q) /\ Len(q) \in Nat
  OBVIOUS
<1>3. Halted(q) \in [1..Len(q) -> Turns]
  BY <1>1, <1>2 DEF Halted
<1>4. Halted(q) \in Seq(Turns) /\ Len(Halted(q)) = Len(q)
  BY <1>2, <1>3
<1> QED BY <1>2, <1>4 DEF Halted

\* What a Stop makes of it.
LEMMA StopsIs ==
  ASSUME TurnsOK, NEW c \in Convs, turns' = [turns EXCEPT ![c] = Halted(@)]
  PROVE  TurnsOK' /\ AllStopped(c) /\ Only(c)
<1>1. turns[c] \in Seq(Turns)
  BY DEF TurnsOK
<1>2. turns'[c] = Halted(turns[c])
  BY DEF TurnsOK
<1>3. Only(c)
  BY DEF TurnsOK, Only
<1>5. AllStopped(c)
  BY <1>1, <1>2, HaltedIs DEF AllStopped
<1>6. TurnsOK'
  BY <1>1, <1>2, HaltedIs, Zenon DEF TurnsOK
<1> QED BY <1>3, <1>5, <1>6

\* Only c's queue changes.
Changed(c) == TurnsOK' /\ Only(c)

\* What a turn's own tool leaves its turn as.
RanTool(c) == \E e \in BOOLEAN : HeadNow(c, After(c, e))

\* The steps that begin a turn, or stop some.
LEMMA TurnsJoin ==
  ASSUME TurnsOK, NEW c \in Convs
  PROVE  /\ Send(c) => Changed(c) /\ OneMore(c, "user")
         /\ Deliver(c) => \/ Changed(c) /\ OneMore(c, "deliver") /\ Admits(c) /\ c \notin pausedConvs
                          \/ turns' = turns
         /\ AnswerAdmitted(c) => \/ Changed(c) /\ OneMore(c, "answer") /\ Admits(c)
                                 \/ turns' = turns /\ ~Admits(c)
         /\ Wake(c) => \/ Changed(c) /\ OneMore(c, "wake") /\ Admits(c) /\ c \notin pausedConvs
                       \/ /\ turns' = turns
                          /\ (mail[c] = <<>> /\ ~Answered(c)) \/ ~Admits(c) \/ c \in pausedConvs
         /\ UserStop(c) => Changed(c) /\ AllStopped(c)
<1>0. \A k \in TurnKinds : turns' = [turns EXCEPT ![c] = Append(@, NewTurn(k))] =>
                              Changed(c) /\ OneMore(c, k)
  BY JoinsIs DEF Changed
<1>k. "user" \in TurnKinds /\ "deliver" \in TurnKinds /\ "answer" \in TurnKinds /\ "wake" \in TurnKinds
  BY DEF TurnKinds
<1>1. Send(c) => Changed(c) /\ OneMore(c, "user")
  BY <1>0, <1>k DEF Send
<1>2. ASSUME Deliver(c)
      PROVE  \/ Changed(c) /\ OneMore(c, "deliver") /\ Admits(c) /\ c \notin pausedConvs
             \/ turns' = turns
  BY <1>0, <1>2, <1>k DEF Deliver
<1>3. ASSUME AnswerAdmitted(c)
      PROVE  \/ Changed(c) /\ OneMore(c, "answer") /\ Admits(c)
             \/ turns' = turns /\ ~Admits(c)
  BY <1>0, <1>3, <1>k DEF AnswerAdmitted
<1>4. ASSUME Wake(c)
      PROVE  \/ Changed(c) /\ OneMore(c, "wake") /\ Admits(c) /\ c \notin pausedConvs
             \/ /\ turns' = turns
                /\ (mail[c] = <<>> /\ ~Answered(c)) \/ ~Admits(c) \/ c \in pausedConvs
  BY <1>0, <1>4, <1>k DEF Wake
<1>5. UserStop(c) => Changed(c) /\ AllStopped(c)
  BY StopsIs DEF UserStop, Changed
<1> QED BY <1>1, <1>2, <1>3, <1>4, <1>5

\* A turn's fields are set to what they may be.
LEMMA TurnSet ==
  ASSUME NEW t \in Turns, NEW p \in TurnPcs, NEW b \in BOOLEAN, NEW d \in BOOLEAN, NEW n \in Nat
  PROVE  /\ [t EXCEPT !.pc = p] \in Turns
         /\ [t EXCEPT !.pc = p, !.own = b, !.saved = d] \in Turns
         /\ [t EXCEPT !.pc = p, !.saved = b] \in Turns
         /\ [t EXCEPT !.pc = p, !.left = n] \in Turns
         /\ [t EXCEPT !.left = n, !.saved = b] \in Turns
         /\ [t EXCEPT !.pc = p, !.ends = b] \in Turns
BY DEF Turns

\* The steps of a turn: what its head becomes, or that it leaves.
LEMMA TurnsMove ==
  ASSUME TurnsOK, NEW c \in Convs, Len(mail[c]) \in Nat
  PROVE  /\ Begin(c) => /\ Changed(c)
                        /\ LET saves == Saves(c, Turn(c).kind) IN
                             HeadNow(c, [Turn(c) EXCEPT !.pc = "top", !.own = saves, !.saved = saves])
         /\ (EndQueued(c) \/ EndStopped(c) \/ Reply(c)) => Changed(c) /\ HeadGone(c)
         /\ TakeAnswer(c) =>
              /\ Changed(c)
              /\ HeadNow(c, [Turn(c) EXCEPT !.pc = "look", !.saved = @ \/ Answered(c)])
         /\ Look(c) =>
              /\ Changed(c)
              /\ \/ /\ question[c].id = 0
                    /\ HeadNow(c, [Turn(c) EXCEPT !.pc = "drain", !.left = Len(mail[c])])
                 \/ Answered(c) /\ HeadNow(c, [Turn(c) EXCEPT !.pc = "top"])
                 \/ Waits(c) /\ HeadGone(c)
         /\ Drain(c) =>
              Changed(c) /\ HeadNow(c, [Turn(c) EXCEPT !.left = @ - 1, !.saved = TRUE])
         /\ Drained(c) =>
              /\ Changed(c)
              /\ HeadGone(c) \/ HeadNow(c, [Turn(c) EXCEPT !.pc = "call"])
         /\ CallTool(c) => Changed(c) /\ HeadNow(c, [Turn(c) EXCEPT !.pc = "tool"])
         /\ SaveResults(c) =>
              /\ Changed(c)
              /\ HeadGone(c) \/ HeadNow(c, [Turn(c) EXCEPT !.pc = "top"])
<1> DEFINE f == [Turn(c) EXCEPT !.left = @ - 1, !.saved = TRUE]
<1>1. \A t \in Turns : turns[c] # <<>> /\ Becomes(c, t) => Changed(c) /\ HeadNow(c, t)
  BY BecomesIs DEF Changed
<1>2. turns[c] # <<>> /\ Leaves(c) => Changed(c) /\ HeadGone(c)
  BY LeavesIs DEF Changed
<1>3. \A p : Holds(c, p) => turns[c] # <<>> /\ Turn(c) \in Turns
  BY HeadIsFirst DEF Holds
<1>4. \A p \in TurnPcs : turns[c] # <<>> /\ To(c, p) => Changed(c) /\ HeadNow(c, [Turn(c) EXCEPT !.pc = p])
  BY <1>1, HeadIsFirst, TurnSet DEF To
<1>p. \A p \in {"top", "look", "drain", "call", "tool"} : p \in TurnPcs
  BY DEF TurnPcs
<1>5. ASSUME Begin(c)
      PROVE  /\ Changed(c)
             /\ LET saves == Saves(c, Turn(c).kind) IN
                  HeadNow(c, [Turn(c) EXCEPT !.pc = "top", !.own = saves, !.saved = saves])
  <2>1. Saves(c, Turn(c).kind) \in BOOLEAN
    BY DEF Saves
  <2>2. turns[c] # <<>> /\ Turn(c) \in Turns
    BY <1>3, <1>5 DEF Begin, Runs
  <2>3. [Turn(c) EXCEPT !.pc = "top", !.own = Saves(c, Turn(c).kind), !.saved = Saves(c, Turn(c).kind)] \in Turns
    BY <2>1, <2>2, <1>p, TurnSet
  <2>4. Becomes(c, [Turn(c) EXCEPT !.pc = "top", !.own = Saves(c, Turn(c).kind), !.saved = Saves(c, Turn(c).kind)])
    BY <1>5 DEF Begin
  <2> QED BY <2>2, <2>3, <2>4, <1>1
<1>6. EndQueued(c) \/ EndStopped(c) \/ Reply(c) => Changed(c) /\ HeadGone(c)
  BY <1>2, <1>3 DEF EndQueued, EndStopped, Reply, Runs, Ends, Leaves
<1>7. ASSUME TakeAnswer(c)
      PROVE  /\ Changed(c)
             /\ HeadNow(c, [Turn(c) EXCEPT !.pc = "look", !.saved = @ \/ Answered(c)])
  <2>1. turns[c] # <<>> /\ Turn(c) \in Turns
    BY <1>3, <1>7 DEF TakeAnswer, Runs
  <2>2. (Turn(c).saved \/ Answered(c)) \in BOOLEAN
    OBVIOUS
  <2>3. [Turn(c) EXCEPT !.pc = "look", !.saved = @ \/ Answered(c)] \in Turns
    BY <2>1, <2>2, <1>p, TurnSet
  <2> QED BY <1>1, <1>7, <2>1, <2>3 DEF TakeAnswer
<1>8. ASSUME Look(c)
      PROVE  /\ Changed(c)
             /\ \/ /\ question[c].id = 0
                   /\ HeadNow(c, [Turn(c) EXCEPT !.pc = "drain", !.left = Len(mail[c])])
                \/ Answered(c) /\ HeadNow(c, [Turn(c) EXCEPT !.pc = "top"])
                \/ Waits(c) /\ HeadGone(c)
  <2>1. turns[c] # <<>> /\ Turn(c) \in Turns
    BY <1>3, <1>8 DEF Look, Runs
  <2>2. CASE question[c].id = 0 /\ ListMail(c)
    <3>1. [Turn(c) EXCEPT !.pc = "drain", !.left = Len(mail[c])] \in Turns
      BY <2>1, <1>p, TurnSet
    <3> QED BY <1>1, <2>1, <2>2, <3>1 DEF ListMail
  <2>3. CASE Answered(c) /\ To(c, "top")
    BY <1>4, <1>p, <2>1, <2>3
  <2>4. CASE Waits(c) /\ Ends(c)
    BY <1>2, <2>1, <2>4 DEF Ends, Leaves
  <2> QED BY <1>8, <2>2, <2>3, <2>4 DEF Look
<1>9. ASSUME Drain(c)
      PROVE  Changed(c) /\ HeadNow(c, f)
  <2>1. turns[c] # <<>> /\ Turn(c) \in Turns /\ Turn(c).left > 0
    BY <1>3, <1>9 DEF Drain, Runs
  <2>2. Turn(c).left - 1 \in Nat
    BY <2>1 DEF Turns
  <2>3. f \in Turns
    BY <2>1, <2>2 DEF Turns
  <2>4. Becomes(c, f)
    BY <1>9 DEF Drain
  <2> HIDE DEF f
  <2> QED BY <1>1, <2>1, <2>3, <2>4
<1>10. ASSUME Drained(c)
       PROVE  Changed(c) /\ (HeadGone(c) \/ HeadNow(c, [Turn(c) EXCEPT !.pc = "call"]))
  <2>1. turns[c] # <<>>
    BY <1>3, <1>10 DEF Drained, Runs
  <2>2. Leaves(c) \/ To(c, "call")
    BY <1>10 DEF Drained, Ends, Leaves
  <2> QED BY <1>2, <1>4, <1>p, <2>1, <2>2
<1>11. CallTool(c) => Changed(c) /\ HeadNow(c, [Turn(c) EXCEPT !.pc = "tool"])
  BY <1>3, <1>4, <1>p DEF CallTool, Runs
<1>12. ASSUME SaveResults(c)
       PROVE  Changed(c) /\ (HeadGone(c) \/ HeadNow(c, [Turn(c) EXCEPT !.pc = "top"]))
  <2>1. turns[c] # <<>>
    BY <1>3, <1>12 DEF SaveResults, Runs
  <2>2. Leaves(c) \/ To(c, "top")
    BY <1>12 DEF SaveResults, Ends, Leaves
  <2> QED BY <1>2, <1>4, <1>p, <2>1, <2>2
<1> QED BY <1>5, <1>6, <1>7, <1>8, <1>9, <1>10, <1>11, <1>12

\* The tools, and a restart.
LEMMA TurnsRun ==
  ASSUME TurnsOK
  PROVE  /\ \A c \in Convs : OtherTool(c) \/ AskUser(c) => Changed(c) /\ RanTool(c)
         /\ AskParent \/ MessageParent \/ Finish => Changed("child") /\ RanTool("child")
         /\ MessageChild => Changed("root") /\ RanTool("root")
         /\ StopAgent => TurnsOK' /\ HeadNow("root", After("root", FALSE)) /\ AllStopped("child")
         /\ MailRestart => TurnsOK' /\ \A c \in Convs : turns'[c] = <<>>
<1>1. \A c \in Convs, e \in BOOLEAN :
        turns[c] # <<>> => /\ After(c, e) \in Turns
                           /\ Ran(c, e) => Changed(c) /\ RanTool(c)
  <2> TAKE c \in Convs, e \in BOOLEAN
  <2> SUFFICES ASSUME turns[c] # <<>> PROVE After(c, e) \in Turns /\ (Ran(c, e) => Changed(c) /\ RanTool(c))
    OBVIOUS
  <2>1. Turn(c) \in Turns /\ "results" \in TurnPcs
    BY HeadIsFirst DEF TurnPcs
  <2>2. After(c, e) \in Turns
    BY <2>1, TurnSet DEF After
  <2> QED BY <2>2, BecomesIs DEF Ran, Changed, RanTool
<1>2. \A c \in Convs : Runs(c, "tool") => turns[c] # <<>>
  BY DEF Runs, Holds
<1>3. "root" \in Convs /\ "child" \in Convs /\ TRUE \in BOOLEAN /\ FALSE \in BOOLEAN
  BY DEF Convs
<1>4. \A c \in Convs : OtherTool(c) \/ AskUser(c) => Changed(c) /\ RanTool(c)
  BY <1>1, <1>2, <1>3 DEF OtherTool, AskUser
<1>5. AskParent \/ MessageParent \/ Finish => Changed("child") /\ RanTool("child")
  BY <1>1, <1>2, <1>3 DEF AskParent, MessageParent, Finish
<1>6. MessageChild => Changed("root") /\ RanTool("root")
  BY <1>1, <1>2, <1>3 DEF MessageChild
<1>7. ASSUME StopAgent
      PROVE  TurnsOK' /\ HeadNow("root", After("root", FALSE)) /\ AllStopped("child")
  <2> DEFINE t == After("root", FALSE)
             q == [turns["root"] EXCEPT ![1] = t]
  <2>1. turns["root"] # <<>> /\ t \in Turns
    BY <1>1, <1>2, <1>3, <1>7 DEF StopAgent
  <2>2. turns' = [turns EXCEPT !["child"] = Halted(@), !["root"] = [@ EXCEPT ![1] = t]]
    BY <1>7 DEF StopAgent
  <2> HIDE DEF t
  <2>3. turns["root"] \in Seq(Turns) /\ turns["child"] \in Seq(Turns) /\ Len(turns["root"]) > 0
    BY <1>3, <2>1 DEF TurnsOK
  <2>4. turns'["root"] = q /\ turns'["child"] = Halted(turns["child"]) /\ DOMAIN turns' = Convs
    BY <1>3, <2>2 DEF TurnsOK
  <2>5. /\ q \in Seq(Turns) /\ Len(q) = Len(turns["root"])
        /\ q[1] = t /\ \A i \in 1..Len(turns["root"]) : i > 1 => q[i] = turns["root"][i]
    BY <2>1, <2>3
  <2> HIDE DEF q
  <2>6. HeadNow("root", t)
    BY <2>1, <2>3, <2>4, <2>5 DEF HeadNow
  <2>7. AllStopped("child")
    BY <2>3, <2>4, HaltedIs DEF AllStopped
  <2>8. turns' = [c \in Convs |-> turns'[c]]
    BY <2>2 DEF TurnsOK
  <2>9. \A c \in Convs : turns'[c] \in Seq(Turns)
    BY <2>3, <2>4, <2>5, HaltedIs DEF Convs
  <2>10. TurnsOK'
    BY <2>8, <2>9 DEF TurnsOK
  <2> QED BY <2>6, <2>7, <2>10 DEF t
<1>8. ASSUME MailRestart
      PROVE  TurnsOK' /\ \A c \in Convs : turns'[c] = <<>>
  BY <1>8 DEF MailRestart, TurnsOK
<1> QED BY <1>4, <1>5, <1>6, <1>7, <1>8

-----------------------------------------------------------------------------
(* The types.                                                              *)

\* Every step keeps the queues.
LEMMA TurnsTyped ==
  ASSUME MailTypeOK, [MailNext]_mvars
  PROVE  TurnsOK'
<1>0. TurnsOK /\ \A c \in Convs : Len(mail[c]) \in Nat
  BY DEF MailTypeOK, TurnsOK
<1>1. ASSUME NEW c \in Convs, User(c) PROVE TurnsOK'
  <2>1. turns' = turns \/ TurnsOK'
    BY <1>0, <1>1, TurnsJoin DEF User, Answer, Changed
  <2> QED BY <1>0, <2>1 DEF TurnsOK
<1>2. ASSUME NEW c \in Convs, Wake(c) \/ AnswerAdmitted(c) PROVE TurnsOK'
  <2>1. turns' = turns \/ TurnsOK'
    BY <1>0, <1>2, TurnsJoin DEF Changed
  <2> QED BY <1>0, <2>1 DEF TurnsOK
<1>3. ASSUME NEW c \in Convs, Body(c) PROVE TurnsOK'
  BY <1>0, <1>3, TurnsMove DEF Body, Changed
<1>4. ASSUME NEW c \in Convs, Tool(c) PROVE TurnsOK'
  BY <1>0, <1>4, TurnsRun DEF Tool, Changed
<1>5. CASE ChildTool \/ RootTool \/ MailRestart
  BY <1>0, <1>5, TurnsRun DEF ChildTool, RootTool, Changed
<1>6. CASE TellStopped \/ AfterCheck \/ AfterTell
  BY <1>0, <1>6 DEF TellStopped, AfterCheck, AfterTell, TurnsOK
<1>7. CASE UNCHANGED mvars
  BY <1>0, <1>7 DEF mvars, TurnsOK
<1> QED BY <1>1, <1>2, <1>3, <1>4, <1>5, <1>6, <1>7 DEF MailNext

-----------------------------------------------------------------------------
(* Questions.                                                              *)

questionVars == <<question, asked, accepted, results>>

\* The four things that can happen to questions: nothing,
\* one is asked,
Asks(c) ==
  /\ question[c].id = 0 /\ asked < tools
  /\ Runs(c, "tool") /\ RanTool(c) /\ Only(c)
  /\ \E of \in {"user", "parent"} : AskRow(c, of)
  /\ UNCHANGED <<accepted, results>>

\* one is answered,
Records(c) ==
  /\ Waits(c)
  /\ question[c].of = "user" \/ question[c].id \in read
  /\ question' = [question EXCEPT ![c].answered = TRUE]
  /\ accepted' = accepted \cup {question[c].id}
  /\ UNCHANGED <<asked, results>>

\* or one is taken with its result.
Taken(c) ==
  /\ Takes(c, Turn(c).kind)
  /\ TakeResult(c)
  /\ UNCHANGED <<asked, accepted>>

\* Every step does one of the four: a tool asks, an answer is recorded, a turn
\* takes what there is, or questions stay as they were.
LEMMA QuestionMove ==
  ASSUME AskInv, [MailNext]_mvars
  PROVE  UNCHANGED questionVars \/ \E c \in Convs : Asks(c) \/ Records(c) \/ Taken(c)
<1>0. "root" \in Convs /\ "child" \in Convs
  BY DEF Convs
<1>t. TurnsOK
  BY DEF AskInv, MailTypeOK, TurnsOK
<1>1. ASSUME NEW c \in Convs, User(c)
      PROVE  UNCHANGED questionVars \/ Records(c)
  BY <1>1 DEF User, Send, Deliver, Answer, UserStop, questionVars, history, Records
<1>2. ASSUME NEW c \in Convs, Begin(c) \/ EndQueued(c)
      PROVE  UNCHANGED questionVars \/ Taken(c)
  BY <1>2 DEF Begin, EndQueued, SaveTurnMessage, Taken, questionVars
<1>3. ASSUME NEW c \in Convs, TakeAnswer(c)
      PROVE  UNCHANGED questionVars \/ Taken(c)
  BY <1>3 DEF TakeAnswer, Takes, Taken, questionVars
<1>4. ASSUME NEW c \in Convs, EndStopped(c) \/ Look(c) \/ Drain(c) \/ Drained(c) \/ Reply(c)
                              \/ CallTool(c) \/ SaveResults(c) \/ Wake(c) \/ AnswerAdmitted(c)
      PROVE  UNCHANGED questionVars
  BY <1>4 DEF EndStopped, Look, Drain, Drained, Reply, CallTool, SaveResults, Wake, AnswerAdmitted,
     questionVars, history, dbs
<1>5. \A c \in Convs : Runs(c, "tool") => question[c].id = 0 /\ asked < tools
  BY DEF Runs, AskInv, HeadFits, AsksFit
<1>6. ASSUME NEW c \in Convs, Tool(c)
      PROVE  UNCHANGED questionVars \/ Asks(c)
  <2>1. CASE OtherTool(c)
    BY <2>1 DEF OtherTool, questionVars, history, dbs
  <2>2. CASE AskUser(c)
    BY <1>5, <1>t, <2>2, TurnsRun DEF AskUser, Asks, Changed
  <2> QED BY <1>6, <2>1, <2>2 DEF Tool
<1>7. CASE ChildTool
  <2>1. UNCHANGED questionVars \/ Asks("child")
    <3>1. CASE AskParent
      BY <1>0, <1>5, <1>t, <3>1, TurnsRun DEF AskParent, Asks, Changed
    <3>2. CASE MessageParent \/ Finish
      BY <3>2 DEF MessageParent, Finish, questionVars, history
    <3> QED BY <1>7, <3>1, <3>2 DEF ChildTool
  <2> QED BY <1>0, <2>1
<1>8. CASE RootTool
  <2>1. UNCHANGED questionVars \/ Records("child")
    BY <1>8 DEF RootTool, MessageChild, StopAgent, Records, questionVars, history
  <2> QED BY <1>0, <2>1
<1>9. CASE TellStopped \/ AfterCheck \/ AfterTell \/ MailRestart \/ UNCHANGED mvars
  BY <1>9 DEF TellStopped, AfterCheck, AfterTell, MailRestart, mvars, questionVars, history, dbs
<1> QED BY <1>1, <1>2, <1>3, <1>4, <1>6, <1>7, <1>8, <1>9 DEF MailNext, Body

\* The types of what is about questions.
QuestionTypes ==
  /\ question \in [Convs -> [id : Nat, of : {"user", "parent"}, answered : BOOLEAN]]
  /\ asked \in Nat
  /\ accepted \subseteq 1..asked
  /\ results \in [Questions -> Seq({"answer"} \cup TurnKinds)]

\* Each question has a row or its result.
Accounted ==
  /\ RowsFit
  /\ \A q \in Questions : IF q <= asked THEN ResultFits(q) ELSE results[q] = <<>>

\* Two conversations' questions are two.
LEMMA OneRow ==
  ASSUME QuestionTypes, RowsFit, NEW c \in Convs, NEW d \in Convs, c # d, question[c].id # 0
  PROVE  question[d].id # question[c].id
BY DEF QuestionTypes, RowsFit, Convs

\* Whichever it is, each question keeps its one row or its one result.
LEMMA AccountStep ==
  ASSUME AskInv, [MailNext]_mvars
  PROVE  QuestionTypes' /\ Accounted'
<1>0. /\ QuestionTypes /\ Accounted /\ tools \in 0..MaxTools /\ MaxTools \in Nat
      /\ RowsFit /\ \A q \in Questions : IF q <= asked THEN ResultFits(q) ELSE results[q] = <<>>
  BY MailAssumption DEF AskInv, MailTypeOK, QuestionTypes, Accounted
<1>1. CASE UNCHANGED questionVars
  <2>1. question' = question /\ asked' = asked /\ accepted' = accepted /\ results' = results
    BY <1>1 DEF questionVars
  <2>2. QuestionTypes'
    BY <1>0, <2>1 DEF QuestionTypes
  <2>3. RowsFit'
    BY <1>0, <2>1 DEF RowsFit
  <2>4. \A q \in Questions : ResultFits(q) => ResultFits(q)'
    BY <2>1 DEF ResultFits, Rows
  <2> QED BY <1>0, <2>1, <2>2, <2>3, <2>4 DEF Accounted
<1>2. ASSUME NEW c \in Convs, Asks(c)
      PROVE  QuestionTypes' /\ Accounted'
  <2>1. PICK of \in {"user", "parent"} : AskRow(c, of)
    BY <1>2 DEF Asks
  <2>2. /\ asked' = asked + 1 /\ asked + 1 \in Questions
        /\ question[c].id = 0 /\ accepted' = accepted /\ results' = results
    BY <1>0, <1>2, <2>1 DEF Asks, AskRow, Questions, QuestionTypes
  <2>3. /\ question'[c] = [id |-> asked + 1, of |-> of, answered |-> FALSE]
        /\ \A d \in Convs : d # c => question'[d] = question[d]
    BY <1>0, <2>1 DEF AskRow, QuestionTypes
  <2>4. QuestionTypes'
    <3>1. question' = [question EXCEPT ![c] = [id |-> asked + 1, of |-> of, answered |-> FALSE]]
      BY <2>1 DEF AskRow
    <3>2. [id |-> asked + 1, of |-> of, answered |-> FALSE] \in [id : Nat, of : {"user", "parent"}, answered : BOOLEAN]
      BY <1>0 DEF QuestionTypes
    <3>3. accepted' \subseteq 1..asked'
      BY <1>0, <2>2 DEF QuestionTypes
    <3> QED BY <1>0, <2>2, <3>1, <3>2, <3>3 DEF QuestionTypes
  <2>5. RowsFit'
    BY <1>0, <2>2, <2>3 DEF RowsFit, QuestionTypes, Convs
  <2>6. ASSUME NEW q \in Questions, q <= asked
        PROVE  ResultFits(q)'
    <3>0. q # 0 /\ q # asked + 1
      BY <1>0, <2>6 DEF Questions, QuestionTypes
    <3>1. \A d \in Convs : question'[d].id = q <=> question[d].id = q
      BY <2>2, <2>3, <3>0
    <3>2. Rows(q)' = Rows(q)
      BY <3>1 DEF Rows
    <3>3. \A d \in Rows(q) : question'[d] = question[d]
      BY <2>2, <2>3, <2>6 DEF Rows, Questions
    <3>4. ResultFits(q)
      BY <1>0, <2>6
    <3> QED BY <2>2, <3>2, <3>3, <3>4 DEF ResultFits
  <2>7. ASSUME NEW n \in Questions, n = asked + 1
        PROVE  ResultFits(n)'
    <3>1. results[n] = <<>>
      BY <1>0, <2>7 DEF QuestionTypes
    <3>2. c \in Rows(n)'
      BY <2>3, <2>7 DEF Rows
    <3>3. n \notin accepted'
      BY <1>0, <2>2, <2>7 DEF QuestionTypes
    <3> QED BY <2>2, <3>1, <3>2, <3>3 DEF ResultFits
  <2>8. \A q \in Questions : IF q <= asked' THEN ResultFits(q)' ELSE results'[q] = <<>>
    <3> TAKE q \in Questions
    <3>1. CASE q <= asked
      BY <1>0, <2>2, <2>6, <3>1 DEF Questions, QuestionTypes
    <3>2. CASE q = asked + 1
      <4>1. q <= asked'
        BY <1>0, <2>2, <3>2 DEF QuestionTypes
      <4> QED BY <2>7, <3>2, <4>1
    <3>3. CASE q > asked + 1
      BY <1>0, <2>2, <3>3 DEF Questions, QuestionTypes
    <3> QED BY <1>0, <3>1, <3>2, <3>3 DEF Questions, QuestionTypes
  <2> QED BY <2>4, <2>5, <2>8 DEF Accounted, Questions
<1>3. ASSUME NEW c \in Convs, Records(c)
      PROVE  QuestionTypes' /\ Accounted'
  <2> DEFINE k == question[c].id
  <2>1. /\ asked' = asked /\ results' = results /\ accepted' = accepted \cup {k}
        /\ k \in 1..asked
    BY <1>0, <1>3 DEF Records, Waits, RowsFit, QuestionTypes
  <2>2. /\ question' = [question EXCEPT ![c].answered = TRUE]
        /\ question'[c] = [question[c] EXCEPT !.answered = TRUE]
        /\ \A d \in Convs : d # c => question'[d] = question[d]
    BY <1>0, <1>3 DEF Records, QuestionTypes
  <2>3. \A d \in Convs : question'[d].id = question[d].id
    BY <1>0, <2>2 DEF QuestionTypes
  <2>4. QuestionTypes'
    <3>1. question' \in [Convs -> [id : Nat, of : {"user", "parent"}, answered : BOOLEAN]]
      BY <1>0, <2>2 DEF QuestionTypes
    <3> QED BY <1>0, <2>1, <3>1 DEF QuestionTypes
  <2>5. RowsFit'
    BY <1>0, <2>1, <2>3 DEF RowsFit, Convs
  <2>6. ASSUME NEW q \in Questions, q <= asked
        PROVE  ResultFits(q)'
    <3>1. Rows(q)' = Rows(q)
      BY <2>3 DEF Rows
    <3>2. ResultFits(q)
      BY <1>0, <2>6
    <3>3. \A d \in Convs : question[d].answered => question'[d].answered
      BY <1>0, <2>2 DEF QuestionTypes
    <3>4. c \in Rows(k) /\ question'[c].answered
      BY <1>0, <2>2 DEF Rows, QuestionTypes
    <3>5. Rows(q) \subseteq Convs
      BY DEF Rows
    <3>6. CASE q = k
      BY <2>1, <3>1, <3>2, <3>4, <3>6 DEF ResultFits
    <3>7. CASE q # k
      BY <2>1, <3>1, <3>2, <3>3, <3>5, <3>7 DEF ResultFits
    <3> QED BY <3>6, <3>7
  <2> QED BY <1>0, <2>1, <2>4, <2>5, <2>6 DEF Accounted, Questions
<1>4. ASSUME NEW c \in Convs, Taken(c)
      PROVE  QuestionTypes' /\ Accounted'
  <2>0. PICK k : k = question[c].id
    OBVIOUS
  <2> DEFINE x == IF question[c].answered THEN "answer" ELSE Turn(c).kind
  <2>1. /\ asked' = asked /\ accepted' = accepted
        /\ question' = [question EXCEPT ![c] = NoRow]
        /\ results' = [results EXCEPT ![k] = Append(@, x)]
    BY <1>4, <2>0 DEF Taken, TakeResult
  <2>2. k \in Nat /\ k # 0 /\ (x = "answer" \/ x = "user") /\ (question[c].answered => x = "answer")
    BY <1>0, <1>4, <2>0 DEF Taken, Takes, Answered, Waits, QuestionTypes
  <2> HIDE DEF x
  <2>3. k \in Questions /\ k <= asked
    <3>1. k <= asked /\ asked <= tools /\ asked \in Nat
      BY <1>0, <2>0 DEF RowsFit, AskInv, AsksFit, QuestionTypes
    <3> QED BY <1>0, <2>2, <3>1 DEF Questions
  <2>4. /\ question'[c] = NoRow
        /\ \A d \in Convs : d # c => question'[d] = question[d]
    BY <1>0, <2>1 DEF QuestionTypes
  <2>5. c \in Rows(k)
    BY <2>0 DEF Rows
  <2>6. results[k] = <<>> /\ (k \in accepted => \E d \in Rows(k) : question[d].answered)
    BY <1>0, <2>3, <2>5 DEF ResultFits
  <2>7. \A d \in Convs : d # c => question[d].id # k
    BY <1>0, <2>0, <2>2, OneRow
  <2>8. results'[k] = <<x>> /\ \A q \in Questions : q # k => results'[q] = results[q]
    BY <1>0, <2>1, <2>3, <2>6 DEF QuestionTypes
  <2>9. Rows(k)' = {}
    BY <2>2, <2>4, <2>7 DEF Rows, NoRow
  <2>10. k \in accepted => x = "answer"
    BY <2>0, <2>2, <2>6, <2>7 DEF Rows
  <2>11. QuestionTypes'
    <3>1. NoRow \in [id : Nat, of : {"user", "parent"}, answered : BOOLEAN]
      BY DEF NoRow
    <3>2. question' \in [Convs -> [id : Nat, of : {"user", "parent"}, answered : BOOLEAN]]
      BY <1>0, <2>1, <3>1 DEF QuestionTypes
    <3>3. Append(results[k], x) \in Seq({"answer"} \cup TurnKinds)
      BY <1>0, <2>2, <2>3 DEF QuestionTypes, TurnKinds
    <3>4. results' \in [Questions -> Seq({"answer"} \cup TurnKinds)]
      BY <1>0, <2>1, <2>3, <3>3 DEF QuestionTypes
    <3> QED BY <1>0, <2>1, <3>2, <3>4 DEF QuestionTypes
  <2>12. RowsFit'
    BY <1>0, <2>1, <2>4 DEF RowsFit, Convs, NoRow, QuestionTypes
  <2>13. ASSUME NEW q \in Questions, q <= asked
         PROVE  ResultFits(q)'
    <3>1. CASE q = k
      BY <2>1, <2>2, <2>8, <2>9, <2>10, <3>1 DEF ResultFits
    <3>2. CASE q # k
      <4>1. \A d \in Convs : question'[d].id = q <=> question[d].id = q
        BY <2>0, <2>4, <3>2 DEF NoRow, Questions
      <4>2. Rows(q)' = Rows(q)
        BY <4>1 DEF Rows
      <4>3. \A d \in Rows(q) : question'[d] = question[d]
        BY <2>0, <2>4, <3>2 DEF Rows
      <4>4. ResultFits(q)
        BY <1>0, <2>13
      <4> QED BY <2>1, <2>8, <3>2, <4>2, <4>3, <4>4 DEF ResultFits
    <3> QED BY <3>1, <3>2
  <2> QED BY <1>0, <2>1, <2>3, <2>8, <2>11, <2>12, <2>13 DEF Accounted, Questions
<1> QED BY <1>1, <1>2, <1>3, <1>4, QuestionMove

-----------------------------------------------------------------------------
(* Mail, and the rest of the state.                                        *)

Row == [kind : {"row", "notice"}, id : Nat]
MailOK == mail \in [Convs -> Seq(Row)]

\* A row is queued to c, and its wake started.
Mailed(c) ==
  /\ \E id \in Nat : mail' = Queued(c, "row", id)
  /\ waking' = Woken(c)

\* What becomes of the mail.
LEMMA MailMove ==
  ASSUME MailTypeOK, [MailNext]_mvars
  PROVE  \/ mail' = mail \/ MailRestart
         \/ \E c \in Convs : Mailed(c) \/ Drain(c)
<1>0. "root" \in Convs /\ "child" \in Convs /\ 0 \in Nat /\ asked + 1 \in Nat
  BY DEF Convs, MailTypeOK
<1>1. ASSUME NEW c \in Convs, User(c) \/ Wake(c) \/ AnswerAdmitted(c)
      PROVE  mail' = mail
  BY <1>1 DEF User, Send, Deliver, Answer, UserStop, Wake, AnswerAdmitted, dbs
<1>2. ASSUME NEW c \in Convs, Body(c), ~Drain(c)
      PROVE  mail' = mail
  BY <1>2 DEF Body, Begin, EndQueued, EndStopped, TakeAnswer, Look, Drained, Reply, CallTool, SaveResults, dbs
<1>3. ASSUME NEW c \in Convs, Tool(c)
      PROVE  mail' = mail
  BY <1>3 DEF Tool, OtherTool, AskUser, dbs
<1>4. CASE ChildTool
  BY <1>0, <1>4 DEF ChildTool, AskParent, MessageParent, Finish, Mailed
<1>5. CASE RootTool
  BY <1>0, <1>5 DEF RootTool, MessageChild, StopAgent, Mailed
<1>6. CASE TellStopped \/ AfterCheck \/ AfterTell
  BY <1>0, <1>6 DEF TellStopped, AfterCheck, AfterTell, Mailed, dbs
<1>7. CASE MailRestart \/ UNCHANGED mvars
  BY <1>7 DEF mvars, dbs
<1> QED BY <1>1, <1>2, <1>3, <1>4, <1>5, <1>6, <1>7 DEF MailNext

\* What a queued row makes of the mail.
LEMMA QueuedIs ==
  ASSUME MailOK, NEW c \in Convs, NEW kind \in {"row", "notice"}, NEW id \in Nat,
         mail' = Queued(c, kind, id)
  PROVE  /\ MailOK'
         /\ Len(mail'[c]) = Len(mail[c]) + 1 /\ mail'[c] # <<>>
         /\ \A d \in Convs : d # c => mail'[d] = mail[d]
<1>1. mail[c] \in Seq(Row) /\ [kind |-> kind, id |-> id] \in Row
  BY DEF MailOK, Row
<1>2. mail'[c] = Append(mail[c], [kind |-> kind, id |-> id])
  BY DEF Queued, MailOK
<1> HIDE DEF Row
<1>3. Append(mail[c], [kind |-> kind, id |-> id]) \in Seq(Row)
  BY <1>1
<1>4. Len(mail'[c]) = Len(mail[c]) + 1 /\ mail'[c] # <<>>
  BY <1>1, <1>2
<1>5. MailOK'
  BY <1>1, <1>3 DEF Queued, MailOK
<1>6. \A d \in Convs : d # c => mail'[d] = mail[d]
  BY DEF Queued, MailOK
<1> QED BY <1>4, <1>5, <1>6

\* What a drain makes of it.
LEMMA DrainIs ==
  ASSUME AskInv, NEW c \in Convs, Drain(c)
  PROVE  /\ MailOK' /\ read' \subseteq Nat
         /\ Len(mail[c]) > 0 /\ Len(mail'[c]) = Len(mail[c]) - 1
         /\ \A d \in Convs : d # c => mail'[d] = mail[d]
<1>1. mail[c] \in Seq(Row) /\ MailOK
  BY DEF AskInv, MailTypeOK, Row, MailOK
<1>2. Turn(c) \in Turns /\ turns[c] # <<>>
  BY HeadIsFirst DEF Drain, Runs, Holds, AskInv, MailTypeOK, TurnsOK
<1>3. Len(mail[c]) > 0 /\ mail[c] # <<>>
  <2>1. Turn(c).left > 0 /\ Turn(c).left <= Len(mail[c]) /\ Turn(c).left \in Nat
    BY <1>2 DEF Drain, Runs, AskInv, HeadFits, Turns
  <2> QED BY <1>1, <2>1
<1>4. mail' = [mail EXCEPT ![c] = Tail(@)]
  BY DEF Drain
<1> HIDE DEF Row
<1>5. Tail(mail[c]) \in Seq(Row) /\ Len(Tail(mail[c])) = Len(mail[c]) - 1 /\ Head(mail[c]) \in Row
  BY <1>1, <1>3
<1>6. mail'[c] = Tail(mail[c]) /\ \A d \in Convs : d # c => mail'[d] = mail[d]
  BY <1>1, <1>4 DEF MailOK
<1>7. MailOK'
  BY <1>1, <1>4, <1>5 DEF MailOK
<1>8. read' \subseteq Nat
  <2>1. Head(mail[c]).id \in Nat
    BY <1>5 DEF Row
  <2> QED BY <2>1 DEF Drain, AskInv, MailTypeOK
<1> QED BY <1>3, <1>5, <1>6, <1>7, <1>8

\* The rest of the state: what is neither turns, mail nor questions.
OtherTypes ==
  /\ agent \in {"active", "finished", "stopped"}
  /\ pausedConvs \subseteq Convs
  /\ waking \in [Convs -> Nat]
  /\ answering \in [Convs -> Nat]
  /\ ending \in [check : Nat, tell : Nat]
  /\ telling \in Nat
  /\ events \in 0..MaxEvents
  /\ tools \in 0..MaxTools
  /\ restarts \in 0..MaxRestarts
  /\ owes \in BOOLEAN
  /\ hollow \in BOOLEAN

\* What a turn's end makes of the telling.
LEMMA EndsTypes ==
  ASSUME OtherTypes, NEW c \in Convs, Ends(c)
  PROVE  ending' \in [check : Nat, tell : Nat] /\ owes' \in BOOLEAN /\ hollow' \in BOOLEAN
<1>1. ending' = ending \/ ending' = [ending EXCEPT !.check = @ + 1]
  BY DEF Ends
<1>2. ending' \in [check : Nat, tell : Nat]
  BY <1>1 DEF OtherTypes
<1>3. owes' \in BOOLEAN
  BY DEF Ends
<1>4. hollow' \in BOOLEAN
  <2>1. hollow' = hollow \/ hollow' = ~(Len(turns[c]) = 1)
    BY DEF Ends
  <2> QED BY <2>1 DEF OtherTypes
<1> QED BY <1>2, <1>3, <1>4

\* Every step keeps the types of the rest of the state.
LEMMA OtherStep ==
  ASSUME MailTypeOK, [MailNext]_mvars
  PROVE  OtherTypes'
<1>0. OtherTypes /\ MaxEvents \in Nat /\ MaxTools \in Nat /\ MaxRestarts \in Nat
  BY MailAssumption DEF MailTypeOK, OtherTypes
<1>1. ASSUME NEW c \in Convs, Send(c) \/ Deliver(c) \/ Answer(c) \/ UserStop(c)
      PROVE  OtherTypes'
  <2>1. events' \in 0..MaxEvents
    BY <1>0, <1>1 DEF Send, Deliver, Answer, UserStop, Event, OtherTypes
  <2>2. agent' \in {agent, "active"} /\ pausedConvs' \subseteq Convs
    BY <1>0, <1>1 DEF Send, Deliver, Answer, UserStop, OtherTypes
  <2>3. answering' \in [Convs -> Nat] /\ (telling' = telling \/ telling' = telling + 1)
    <3>1. answering' = answering \/ answering' = [answering EXCEPT ![c] = @ + 1]
      BY <1>1 DEF Send, Deliver, Answer, UserStop, tasks
    <3>2. telling' = telling \/ telling' = telling + 1
      BY <1>1 DEF Send, Deliver, Answer, UserStop, tasks
    <3> QED BY <1>0, <3>1, <3>2 DEF OtherTypes
  <2>4. UNCHANGED <<waking, ending, tools, restarts, owes, hollow>>
    BY <1>1 DEF Send, Deliver, Answer, UserStop, tasks, history
  <2> QED BY <1>0, <2>1, <2>2, <2>3, <2>4 DEF OtherTypes
<1>2. ASSUME NEW c \in Convs, Wake(c) \/ AnswerAdmitted(c)
      PROVE  OtherTypes'
  <2>1. CASE Wake(c)
    <3>1. waking' \in [Convs -> Nat]
      BY <1>0, <2>1 DEF Wake, OtherTypes
    <3> QED BY <1>0, <2>1, <3>1 DEF Wake, OtherTypes, dbs, bounds, history
  <2>2. CASE AnswerAdmitted(c)
    <3>1. answering' \in [Convs -> Nat] /\ pausedConvs' \subseteq Convs
      BY <1>0, <2>2 DEF AnswerAdmitted, OtherTypes
    <3> QED BY <1>0, <2>2, <3>1 DEF AnswerAdmitted, OtherTypes, bounds, history
  <2> QED BY <1>2, <2>1, <2>2
<1>3. ASSUME NEW c \in Convs, Begin(c) \/ EndQueued(c) \/ EndStopped(c) \/ TakeAnswer(c) \/ Drain(c) \/ CallTool(c)
      PROVE  OtherTypes'
  <2>1. agent' \in {agent, "active"} /\ UNCHANGED <<pausedConvs, tasks, events, restarts, owes>>
    BY <1>3 DEF Begin, EndQueued, EndStopped, TakeAnswer, Drain, CallTool, dbs, bounds, history
  <2>2. tools' \in 0..MaxTools
    BY <1>0, <1>3 DEF Begin, EndQueued, EndStopped, TakeAnswer, Drain, CallTool, bounds, OtherTypes
  <2>3. hollow' = hollow \/ hollow' \in BOOLEAN
    BY <1>3 DEF Begin, EndQueued, EndStopped, TakeAnswer, Drain, CallTool, history
  <2> QED BY <1>0, <2>1, <2>2, <2>3 DEF OtherTypes, tasks
<1>4. ASSUME NEW c \in Convs, Look(c) \/ Drained(c) \/ Reply(c) \/ SaveResults(c)
      PROVE  OtherTypes'
  <2>1. Ends(c) \/ UNCHANGED <<ending, owes, hollow>>
    BY <1>4 DEF Look, Drained, Reply, SaveResults
  <2>2. UNCHANGED <<agent, pausedConvs, waking, answering, telling, bounds>>
    BY <1>4 DEF Look, Drained, Reply, SaveResults, dbs
  <2>3. ending' \in [check : Nat, tell : Nat] /\ owes' \in BOOLEAN /\ hollow' \in BOOLEAN
    BY <1>0, <2>1, EndsTypes DEF OtherTypes
  <2> QED BY <1>0, <2>2, <2>3 DEF OtherTypes, bounds
<1>5. ASSUME NEW c \in Convs, Tool(c)
      PROVE  OtherTypes'
  <2>1. UNCHANGED <<agent, pausedConvs, tasks, bounds, owes, hollow>>
    BY <1>5 DEF Tool, OtherTool, AskUser, dbs, history
  <2> QED BY <1>0, <2>1 DEF OtherTypes, tasks, bounds
<1>w. \A c \in Convs : waking' = Woken(c) => waking' \in [Convs -> Nat]
  BY <1>0 DEF Woken, OtherTypes
<1>c. "root" \in Convs /\ "child" \in Convs
  BY DEF Convs
<1>6. CASE ChildTool
  <2>1. waking' = Woken("root") /\ agent' \in {agent, "finished"} /\ owes' \in {owes, FALSE}
    BY <1>6 DEF ChildTool, AskParent, MessageParent, Finish, history
  <2>2. UNCHANGED <<pausedConvs, answering, ending, telling, bounds, hollow>>
    BY <1>6 DEF ChildTool, AskParent, MessageParent, Finish, history
  <2> QED BY <1>0, <1>c, <1>w, <2>1, <2>2 DEF OtherTypes, bounds
<1>7. CASE RootTool
  <2>1. waking' = Woken("child") \/ waking' = waking
    BY <1>7 DEF RootTool, MessageChild, StopAgent, tasks
  <2>2. agent' \in {"active", "stopped"} /\ (pausedConvs' = pausedConvs \/ pausedConvs' = pausedConvs \cup {"child"})
    BY <1>7 DEF RootTool, MessageChild, StopAgent
  <2>3. UNCHANGED <<answering, ending, telling, bounds, owes, hollow>>
    BY <1>7 DEF RootTool, MessageChild, StopAgent, tasks, history
  <2> QED BY <1>0, <1>c, <1>w, <2>1, <2>2, <2>3 DEF OtherTypes, bounds
<1>8. CASE TellStopped \/ AfterCheck \/ AfterTell
  <2>1. waking' = Woken("root") \/ waking' = waking
    BY <1>8 DEF TellStopped, AfterCheck, AfterTell
  <2>2. ending' \in [check : Nat, tell : Nat]
    <3>1. CASE TellStopped
      BY <1>0, <3>1 DEF TellStopped, OtherTypes
    <3>2. CASE AfterCheck
      <4>1. \/ ending' = [check |-> ending.check - 1, tell |-> ending.tell + 1]
            \/ ending' = [ending EXCEPT !.check = @ - 1]
        BY <3>2 DEF AfterCheck
      <4>2. ending.check - 1 \in Nat
        BY <1>0, <3>2 DEF AfterCheck, OtherTypes
      <4> QED BY <1>0, <4>1, <4>2 DEF OtherTypes
    <3>3. CASE AfterTell
      <4>1. ending.tell - 1 \in Nat
        BY <1>0, <3>3 DEF AfterTell, OtherTypes
      <4> QED BY <1>0, <3>3, <4>1 DEF AfterTell, OtherTypes
    <3> QED BY <1>8, <3>1, <3>2, <3>3
  <2>3. telling' \in Nat /\ owes' \in {owes, FALSE}
    <3>1. telling' = telling \/ (telling > 0 /\ telling' = telling - 1)
      BY <1>8 DEF TellStopped, AfterCheck, AfterTell
    <3>2. owes' \in {owes, FALSE}
      BY <1>8 DEF TellStopped, AfterCheck, AfterTell, history
    <3>3. telling' \in Nat
      BY <1>0, <3>1 DEF OtherTypes
    <3> QED BY <3>2, <3>3
  <2>4. UNCHANGED <<agent, pausedConvs, answering, bounds, hollow>>
    BY <1>8 DEF TellStopped, AfterCheck, AfterTell, dbs, history
  <2> QED BY <1>0, <1>c, <1>w, <2>1, <2>2, <2>3, <2>4 DEF OtherTypes, bounds
<1>9. CASE MailRestart
  <2>1. waking' \in [Convs -> Nat]
    BY <1>9 DEF MailRestart, SweepWakes
  <2>2. restarts' \in 0..MaxRestarts
    BY <1>0, <1>9 DEF MailRestart, OtherTypes
  <2> QED BY <1>0, <1>9, <2>1, <2>2 DEF MailRestart, OtherTypes, history
<1>10. CASE UNCHANGED mvars
  BY <1>0, <1>10 DEF mvars, OtherTypes, dbs, tasks, bounds, history
<1> QED BY <1>1, <1>2, <1>3, <1>4, <1>5, <1>6, <1>7, <1>8, <1>9, <1>10 DEF MailNext, User, Body

\* Every step keeps the types.
LEMMA MailTypes ==
  ASSUME AskInv, [MailNext]_mvars
  PROVE  MailTypeOK'
<1>0. MailTypeOK /\ MailOK /\ read \subseteq Nat
  BY DEF AskInv, MailTypeOK, MailOK, Row
<1>1. MailOK' /\ read' \subseteq Nat
  <2>1. ASSUME NEW c \in Convs, Drain(c)
        PROVE  MailOK' /\ read' \subseteq Nat
    BY <2>1, DrainIs
  <2>2. (\E c \in Convs : Drain(c)) \/ read' = read
    BY DEF MailNext, User, Send, Deliver, Answer, UserStop, Wake, AnswerAdmitted, Body, Begin, EndQueued,
       EndStopped, TakeAnswer, Look, Drained, Reply, CallTool, SaveResults, Tool, OtherTool, AskUser,
       ChildTool, AskParent, MessageParent, Finish, RootTool, MessageChild, StopAgent,
       TellStopped, AfterCheck, AfterTell, MailRestart, dbs, mvars
  <2>3. ASSUME NEW c \in Convs, Mailed(c)
        PROVE  MailOK'
    BY <1>0, <2>3, QueuedIs DEF Mailed
  <2>4. ASSUME MailRestart
        PROVE  MailOK'
    <3>1. mail' = mail \/ mail' = Queued("child", "notice", 0)
      BY <2>4 DEF MailRestart
    <3>2. "child" \in Convs /\ 0 \in Nat /\ "notice" \in {"row", "notice"} /\ MailOK
      BY <1>0 DEF Convs
    <3>4. mail' = Queued("child", "notice", 0) => MailOK'
      BY <3>2, QueuedIs
    <3>3. mail' = mail => MailOK'
      BY <1>0 DEF MailOK
    <3> QED BY <3>1, <3>3, <3>4
  <2>5. mail' = mail => MailOK'
    BY <1>0 DEF MailOK
  <2>6. MailOK'
    BY <1>0, <2>1, <2>3, <2>4, <2>5, MailMove
  <2>7. read' = read => read' \subseteq Nat
    BY <1>0
  <2>8. read' \subseteq Nat
    BY <2>1, <2>2, <2>7
  <2> QED BY <2>6, <2>8
<1>2. TurnsOK' /\ OtherTypes' /\ QuestionTypes'
  BY <1>0, TurnsTyped, OtherStep, AccountStep
<1> QED BY <1>1, <1>2 DEF MailTypeOK, MailOK, Row, TurnsOK, OtherTypes, QuestionTypes

-----------------------------------------------------------------------------
(* The rest of AskInv.                                                     *)

\* What is read stays read.
LEMMA ReadGrows ==
  ASSUME [MailNext]_mvars
  PROVE  read \subseteq read'
BY DEF MailNext, User, Send, Deliver, Answer, UserStop, Wake, AnswerAdmitted, Body, Begin, EndQueued,
   EndStopped, TakeAnswer, Look, Drain, Drained, Reply, CallTool, SaveResults, Tool, OtherTool, AskUser,
   ChildTool, AskParent, MessageParent, Finish, RootTool, MessageChild, StopAgent,
   TellStopped, AfterCheck, AfterTell, MailRestart, dbs, mvars

\* A question of the parent's is answered having been read.
LEMMA HavingReadStep ==
  ASSUME AskInv, [MailNext]_mvars
  PROVE  AnsweredHavingRead'
<1>0. QuestionTypes /\ AnsweredHavingRead /\ "child" \in Convs /\ read \subseteq read'
  BY ReadGrows DEF AskInv, MailTypeOK, QuestionTypes, Convs
<1>1. CASE UNCHANGED questionVars
  BY <1>0, <1>1 DEF questionVars, AnsweredHavingRead, Answered
<1>2. ASSUME NEW c \in Convs, Asks(c)
      PROVE  AnsweredHavingRead'
  BY <1>0, <1>2 DEF Asks, AskRow, AnsweredHavingRead, Answered, QuestionTypes
<1>3. ASSUME NEW c \in Convs, Records(c)
      PROVE  AnsweredHavingRead'
  BY <1>0, <1>3 DEF Records, AnsweredHavingRead, Answered, QuestionTypes
<1>4. ASSUME NEW c \in Convs, Taken(c)
      PROVE  AnsweredHavingRead'
  BY <1>0, <1>4 DEF Taken, TakeResult, NoRow, AnsweredHavingRead, Answered, QuestionTypes
<1> QED BY <1>1, <1>2, <1>3, <1>4, QuestionMove

\* The head of c's queue, by its place.
At(c, p) == Len(turns[c]) > 0 /\ turns[c][1].pc = p

\* `Holds`, by the place of the head,
LEMMA HoldsAt ==
  ASSUME TurnsOK, NEW c \in Convs
  PROVE  \A p : Holds(c, p) <=> At(c, p)
BY HeadIsFirst DEF Holds, At

\* before and after a step.
LEMMA HoldsAtNext ==
  ASSUME TurnsOK', NEW c \in Convs
  PROVE  \A p : Holds(c, p)' <=> At(c, p)'
<1>1. /\ turns'[c] # <<>> <=> Len(turns'[c]) > 0
      /\ Head(turns'[c]) = turns'[c][1]
  BY DEF TurnsOK
<1> QED BY <1>1 DEF Holds, At, Turn

\* The moves of a queue after which no turn holds more than it did.
Eases(d) ==
  \/ turns'[d] = turns[d] \/ HeadGone(d) \/ AllStopped(d) \/ turns'[d] = <<>>
  \/ \E k \in TurnKinds : OneMore(d, k)
  \/ \E t \in Turns : HeadNow(d, t) /\ t.pc \in {"top", "look", "results"}

\* The moves of a turn past its look.
Lists(d) ==
  /\ question[d].id = 0 /\ UNCHANGED <<mail, question>>
  /\ HeadNow(d, [Turn(d) EXCEPT !.pc = "drain", !.left = Len(mail[d])])
Calls(d) ==
  /\ At(d, "drain") /\ Turn(d).left = 0 /\ UNCHANGED <<mail, question>>
  /\ HeadNow(d, [Turn(d) EXCEPT !.pc = "call"])

\* Every step eases a queue, or is one of a turn's four past its look.
LEMMA QueueMove ==
  ASSUME MailTypeOK, [MailNext]_mvars
  PROVE  /\ \A d \in Convs : Eases(d) \/ Lists(d) \/ Drain(d) \/ Calls(d) \/ CallTool(d)
         /\ \A d \in Convs : Drain(d) \/ CallTool(d) => Changed(d)
<1>0. TurnsOK /\ \A c \in Convs : Len(mail[c]) \in Nat
  BY DEF MailTypeOK, TurnsOK
<1>1. \A c \in Convs : Only(c) => \A d \in Convs : d # c => Eases(d)
  BY DEF Only, Eases
<1>2. \A c \in Convs : Changed(c) /\ Eases(c) => \A d \in Convs : Eases(d)
  BY <1>1 DEF Changed
<1>3. turns' = turns => \A d \in Convs : Eases(d)
  BY DEF Eases
<1>4. \A d \in Convs, k \in TurnKinds : OneMore(d, k) => Eases(d)
  BY DEF Eases
<1>5. \A d \in Convs : HeadGone(d) \/ AllStopped(d) => Eases(d)
  BY DEF Eases
<1>6. \A d \in Convs : RanTool(d) => Eases(d)
  BY DEF RanTool, HeadNow, Eases, After, Turns
<1>k. "user" \in TurnKinds /\ "deliver" \in TurnKinds /\ "answer" \in TurnKinds /\ "wake" \in TurnKinds
  BY DEF TurnKinds
<1>c. "root" \in Convs /\ "child" \in Convs
  BY DEF Convs
<1>h. \A d \in Convs : \A p : Holds(d, p) => /\ Turn(d) \in Turns /\ At(d, p)
  BY <1>0, HeadIsFirst DEF Holds, At
<1>7. ASSUME NEW c \in Convs, User(c)
      PROVE  \A d \in Convs : Eases(d)
  <2>1. turns' = turns \/ (Changed(c) /\ Eases(c))
    BY <1>0, <1>4, <1>5, <1>7, <1>k, TurnsJoin DEF User, Answer
  <2> QED BY <1>2, <1>3, <2>1
<1>8. ASSUME NEW c \in Convs, Wake(c) \/ AnswerAdmitted(c)
      PROVE  \A d \in Convs : Eases(d)
  <2>1. turns' = turns \/ (Changed(c) /\ Eases(c))
    BY <1>0, <1>4, <1>8, <1>k, TurnsJoin
  <2> QED BY <1>2, <1>3, <2>1
<1>9. ASSUME NEW c \in Convs, Begin(c) \/ EndQueued(c) \/ EndStopped(c) \/ TakeAnswer(c) \/ Reply(c) \/ SaveResults(c)
      PROVE  \A d \in Convs : Eases(d)
  <2>1. ASSUME NEW t, HeadNow(c, t), t.pc \in {"top", "look"}
        PROVE  Eases(c)
    BY <2>1 DEF HeadNow, Eases
  <2>2. Turn(c) \in Turns
    BY <1>9, <1>h DEF Begin, EndQueued, EndStopped, TakeAnswer, Reply, SaveResults, Runs, Holds
  <2>3. CASE Begin(c)
    <3> DEFINE b == Saves(c, Turn(c).kind)
    <3>1. [Turn(c) EXCEPT !.pc = "top", !.own = b, !.saved = b].pc = "top"
      BY <2>2 DEF Turns
    <3> QED BY <1>0, <1>2, <2>1, <2>3, <3>1, TurnsMove
  <2>4. CASE TakeAnswer(c)
    <3>1. [Turn(c) EXCEPT !.pc = "look", !.saved = @ \/ Answered(c)].pc = "look"
      BY <2>2 DEF Turns
    <3> QED BY <1>0, <1>2, <2>1, <2>4, <3>1, TurnsMove
  <2>5. CASE SaveResults(c)
    <3>1. [Turn(c) EXCEPT !.pc = "top"].pc = "top"
      BY <2>2 DEF Turns
    <3> QED BY <1>0, <1>2, <1>5, <2>1, <2>5, <3>1, TurnsMove
  <2> QED BY <1>0, <1>2, <1>5, <1>9, <2>3, <2>4, <2>5, TurnsMove
<1>10. ASSUME NEW c \in Convs, Look(c)
       PROVE  \A d \in Convs : Eases(d) \/ Lists(d)
  <2>1. Changed(c) /\ UNCHANGED <<mail, question>> /\ Turn(c) \in Turns
    BY <1>0, <1>10, <1>h, TurnsMove DEF Look, Runs, dbs
  <2>2. [Turn(c) EXCEPT !.pc = "top"].pc = "top"
    BY <2>1 DEF Turns
  <2>3. HeadNow(c, [Turn(c) EXCEPT !.pc = "top"]) => Eases(c)
    BY <2>2 DEF HeadNow, Eases
  <2>4. Eases(c) \/ Lists(c)
    BY <1>0, <1>5, <1>10, <2>1, <2>3, TurnsMove DEF Lists
  <2> QED BY <1>1, <2>1, <2>4 DEF Changed
<1>11. ASSUME NEW c \in Convs, Drained(c)
       PROVE  \A d \in Convs : Eases(d) \/ Calls(d)
  <2>1. Changed(c) /\ UNCHANGED <<mail, question>> /\ At(c, "drain") /\ Turn(c).left = 0
    BY <1>0, <1>11, <1>h, TurnsMove DEF Drained, Runs, dbs
  <2>2. Eases(c) \/ Calls(c)
    BY <1>0, <1>5, <1>11, <2>1, TurnsMove DEF Calls
  <2> QED BY <1>1, <2>1, <2>2 DEF Changed
<1>12. ASSUME NEW c \in Convs, Drain(c) \/ CallTool(c)
       PROVE  /\ \A d \in Convs : Eases(d) \/ Drain(d) \/ CallTool(d)
              /\ Changed(c)
  BY <1>0, <1>1, <1>12, TurnsMove DEF Changed
<1>13. ASSUME NEW c \in Convs, Tool(c)
       PROVE  \A d \in Convs : Eases(d)
  BY <1>0, <1>2, <1>6, <1>13, TurnsRun DEF Tool
<1>14. CASE ChildTool \/ RootTool
  <2>1. CASE StopAgent
    <3>1. Eases("child")
      BY <1>0, <1>5, <1>c, <2>1, TurnsRun
    <3>2. Eases("root")
      BY <1>0, <1>6, <1>c, <2>1, TurnsRun DEF RanTool
    <3> QED BY <3>1, <3>2, <1>12 DEF Convs
  <2>2. CASE ~StopAgent
    <3>1. \A d \in Convs : Eases(d)
      BY <1>0, <1>2, <1>6, <1>c, <1>14, <2>2, TurnsRun DEF ChildTool, RootTool
    <3> QED BY <3>1, <1>12
  <2> QED BY <2>1, <2>2
<1>15. CASE TellStopped \/ AfterCheck \/ AfterTell \/ UNCHANGED mvars
  <2>1. turns' = turns
    BY <1>15 DEF TellStopped, AfterCheck, AfterTell, mvars
  <2> QED BY <1>3, <1>12, <2>1
<1>16. CASE MailRestart
  <2>1. \A d \in Convs : Eases(d)
    BY <1>0, <1>16, TurnsRun DEF Eases
  <2> QED BY <1>12, <2>1
<1> QED BY <1>7, <1>8, <1>9, <1>10, <1>11, <1>12, <1>13, <1>14, <1>15, <1>16 DEF MailNext, Body

\* A queue that eases has its head where it was, or out of the way.
LEMMA EasesHead ==
  ASSUME TurnsOK, NEW d \in Convs, Eases(d), HeadFits(d), NEW p \in {"drain", "call", "tool"}, At(d, p)'
  PROVE  At(d, p) /\ turns'[d][1].left = turns[d][1].left
<1>0. /\ Len(turns[d]) \in Nat /\ \A i \in 1..Len(turns[d]) : turns[d][i] \in Turns
      /\ \A i \in 1..Len(turns[d]) : i > 1 => turns[d][i].pc = "queued"
  BY HeadIsFirst DEF HeadFits
<1>1. Len(turns'[d]) > 0 /\ turns'[d][1].pc = p /\ p # "queued"
  BY DEF At
<1>2. CASE turns'[d] = turns[d]
  BY <1>1, <1>2 DEF At
<1>3. CASE HeadGone(d)
  <2>1. 1 \in 1..Len(turns'[d]) /\ 2 \in 1..Len(turns[d])
    BY <1>0, <1>1, <1>3 DEF HeadGone
  <2> QED BY <1>0, <1>1, <1>3, <2>1 DEF HeadGone
<1>4. CASE AllStopped(d)
  <2>1. 1 \in 1..Len(turns[d]) /\ turns[d][1] \in Turns
    BY <1>0, <1>1, <1>4 DEF AllStopped
  <2>2. turns'[d][1].pc = turns[d][1].pc /\ turns'[d][1].left = turns[d][1].left
    BY <1>4, <2>1 DEF AllStopped, Turns
  <2> QED BY <1>1, <2>1, <2>2 DEF At
<1>5. CASE turns'[d] = <<>>
  BY <1>1, <1>5
<1>6. ASSUME NEW k \in TurnKinds, OneMore(d, k)
      PROVE  At(d, p) /\ turns'[d][1].left = turns[d][1].left
  <2>1. CASE Len(turns[d]) = 0
    BY <1>1, <1>6, <2>1 DEF OneMore, NewTurn
  <2>2. CASE Len(turns[d]) > 0
    <3>1. turns'[d][1] = turns[d][1]
      BY <1>0, <1>6, <2>2 DEF OneMore
    <3> QED BY <1>1, <2>2, <3>1 DEF At
  <2> QED BY <1>0, <2>1, <2>2
<1>7. ASSUME NEW t \in Turns, HeadNow(d, t), t.pc \in {"top", "look", "results"}
      PROVE  FALSE
  BY <1>1, <1>7 DEF HeadNow
<1> QED BY <1>2, <1>3, <1>4, <1>5, <1>6, <1>7 DEF Eases

\* Those behind the head stay queued.
LEMMA BehindStep ==
  ASSUME AskInv, [MailNext]_mvars, NEW d \in Convs
  PROVE  \A i \in 1..Len(turns'[d]) : i > 1 => turns'[d][i].pc = "queued"
<1>0. /\ TurnsOK /\ MailTypeOK /\ Len(turns[d]) \in Nat
      /\ \A i \in 1..Len(turns[d]) : turns[d][i] \in Turns /\ (i > 1 => turns[d][i].pc = "queued")
      /\ \A c \in Convs : Len(mail[c]) \in Nat
  <2>1. TurnsOK /\ MailTypeOK /\ HeadFits(d)
    BY DEF AskInv, MailTypeOK, TurnsOK
  <2>2. \A c \in Convs : Len(mail[c]) \in Nat
    BY <2>1 DEF MailTypeOK
  <2> QED BY <2>1, <2>2, HeadIsFirst DEF HeadFits
<1>1. ASSUME NEW t, HeadNow(d, t)
      PROVE  \A i \in 1..Len(turns'[d]) : i > 1 => turns'[d][i].pc = "queued"
  BY <1>0, <1>1 DEF HeadNow
<1>2. CASE turns'[d] = turns[d]
  BY <1>0, <1>2
<1>3. CASE HeadGone(d)
  <2> TAKE i \in 1..Len(turns'[d])
  <2>1. i + 1 \in 1..Len(turns[d]) /\ i + 1 > 1
    BY <1>0, <1>3 DEF HeadGone
  <2> QED BY <1>0, <1>3, <2>1 DEF HeadGone
<1>4. CASE AllStopped(d)
  <2> TAKE i \in 1..Len(turns'[d])
  <2>1. i \in 1..Len(turns[d]) /\ turns[d][i] \in Turns /\ turns'[d][i] = [turns[d][i] EXCEPT !.stopped = TRUE]
    BY <1>0, <1>4 DEF AllStopped
  <2>2. turns'[d][i].pc = turns[d][i].pc
    BY <2>1 DEF Turns
  <2> QED BY <1>0, <2>1, <2>2
<1>5. CASE turns'[d] = <<>>
  BY <1>5
<1>6. ASSUME NEW k \in TurnKinds, OneMore(d, k)
      PROVE  \A i \in 1..Len(turns'[d]) : i > 1 => turns'[d][i].pc = "queued"
  <2> TAKE i \in 1..Len(turns'[d])
  <2>1. CASE i = Len(turns[d]) + 1
    BY <1>6, <2>1 DEF OneMore, NewTurn
  <2>2. CASE i # Len(turns[d]) + 1
    <3>1. i \in 1..Len(turns[d])
      BY <1>0, <1>6, <2>2 DEF OneMore
    <3> QED BY <1>0, <1>6, <3>1 DEF OneMore
  <2> QED BY <2>1, <2>2
<1>7. Drain(d) \/ CallTool(d) => \E t : HeadNow(d, t)
  BY <1>0, TurnsMove
<1> QED BY <1>0, <1>1, <1>2, <1>3, <1>4, <1>5, <1>6, <1>7, QueueMove DEF Eases, Lists, Calls

\* Mail that is listed stays, but for what is drained.
LEMMA MailStays ==
  ASSUME MailTypeOK, [MailNext]_mvars, NEW d \in Convs, ~Drain(d)
  PROVE  Len(mail'[d]) >= Len(mail[d])
<1>0. MailOK /\ Len(mail[d]) \in Nat
  BY DEF MailTypeOK, MailOK, Row
<1>1. CASE mail' = mail
  BY <1>0, <1>1
<1>2. ASSUME NEW c \in Convs, NEW kind \in {"row", "notice"}, NEW id \in Nat, mail' = Queued(c, kind, id)
      PROVE  Len(mail'[d]) >= Len(mail[d])
  BY <1>0, <1>2, QueuedIs
<1>3. CASE MailRestart
  <2>1. "child" \in Convs /\ "notice" \in {"row", "notice"} /\ 0 \in Nat
    BY DEF Convs
  <2> QED BY <1>1, <1>2, <1>3, <2>1 DEF MailRestart
<1>4. ASSUME NEW c \in Convs, Mailed(c)
      PROVE  Len(mail'[d]) >= Len(mail[d])
  <2>1. "row" \in {"row", "notice"}
    OBVIOUS
  <2> QED BY <1>2, <1>4, <2>1 DEF Mailed
<1>5. ASSUME NEW c \in Convs, Drain(c)
      PROVE  Len(mail'[d]) >= Len(mail[d])
  <2>1. mail'[d] = mail[d]
    BY <1>0, <1>5 DEF Drain, MailOK
  <2> QED BY <1>0, <2>1
<1> QED BY <1>1, <1>3, <1>4, <1>5, MailMove

\* A call is counted as it is made.
LEMMA AsksStep ==
  ASSUME AskInv, [MailNext]_mvars
  PROVE  AsksFit'
<1>0. /\ TurnsOK /\ TurnsOK' /\ MailTypeOK /\ asked \in Nat /\ tools \in Nat /\ asked <= tools
      /\ \A c \in Convs : HeadFits(c)
      /\ "root" \in Convs /\ "child" \in Convs /\ Convs = {"root", "child"}
  <2>1. MailTypeOK /\ AsksFit /\ \A c \in Convs : HeadFits(c)
    BY DEF AskInv
  <2>2. TurnsOK /\ TurnsOK'
    BY <2>1, TurnsTyped DEF MailTypeOK, TurnsOK
  <2>3. asked \in Nat /\ tools \in Nat
    BY <2>1, MailAssumption DEF MailTypeOK
  <2> QED BY <2>1, <2>2, <2>3 DEF AsksFit, Convs
<1>1. /\ \A c \in Convs : At(c, "tool") => asked < tools
      /\ (At("root", "tool") /\ At("child", "tool")) => asked + 1 < tools
  BY <1>0, HoldsAt DEF AskInv, AsksFit
<1>2. SUFFICES /\ asked' <= tools'
               /\ \A c \in Convs : At(c, "tool")' => asked' < tools'
               /\ (At("root", "tool")' /\ At("child", "tool")') => asked' + 1 < tools'
  BY <1>0, HoldsAtNext DEF AsksFit
<1>3. ASSUME NEW c \in Convs, CallTool(c)
      PROVE  /\ asked' <= tools'
             /\ \A d \in Convs : At(d, "tool")' => asked' < tools'
             /\ (At("root", "tool")' /\ At("child", "tool")') => asked' + 1 < tools'
  <2>1. asked' = asked /\ tools' = tools + 1
    BY <1>3 DEF CallTool, history
  <2>2. \A d \in Convs : d # c => (At(d, "tool")' => At(d, "tool"))
    BY <1>0, <1>3, QueueMove DEF Changed, Only, At
  <2> QED BY <1>0, <1>1, <2>1, <2>2
<1>4. CASE ~ \E c \in Convs : CallTool(c)
  <2>1. tools' = tools
    BY <1>4 DEF MailNext, User, Send, Deliver, Answer, UserStop, Wake, AnswerAdmitted, Body, Begin, EndQueued,
       EndStopped, TakeAnswer, Look, Drain, Drained, Reply, SaveResults, Tool, OtherTool, AskUser,
       ChildTool, AskParent, MessageParent, Finish, RootTool, MessageChild, StopAgent,
       TellStopped, AfterCheck, AfterTell, MailRestart, bounds, mvars
  <2>2. ASSUME NEW d \in Convs, At(d, "tool")'
        PROVE  At(d, "tool")
    <3>1. CASE Eases(d)
      BY <1>0, <2>2, <3>1, EasesHead
    <3>2. CASE Lists(d)
      BY <1>0, <2>2, <3>2, HeadIsFirst DEF Lists, HeadNow, At, Turns
    <3>3. CASE Calls(d)
      BY <1>0, <2>2, <3>3, HeadIsFirst DEF Calls, HeadNow, At, Turns
    <3>4. CASE Drain(d)
      <4>1. /\ HeadNow(d, [Turn(d) EXCEPT !.left = @ - 1, !.saved = TRUE])
            /\ Turn(d) \in Turns /\ Turn(d).pc = "drain"
        <5>1. turns[d] # <<>> /\ Turn(d).pc = "drain" /\ Len(mail[d]) \in Nat
          BY <1>0, <3>4 DEF Drain, Runs, Holds, MailTypeOK
        <5> QED BY <1>0, <3>4, <5>1, TurnsMove, HeadIsFirst
      <4> QED BY <2>2, <4>1 DEF HeadNow, At, Turns
    <3> QED BY <1>0, <1>4, <3>1, <3>2, <3>3, <3>4, QueueMove
  <2>3. CASE asked' = asked
    BY <1>0, <1>1, <2>1, <2>2, <2>3
  <2>4. ASSUME NEW c \in Convs, Asks(c)
        PROVE  /\ asked' <= tools'
               /\ \A d \in Convs : At(d, "tool")' => asked' < tools'
               /\ (At("root", "tool")' /\ At("child", "tool")') => asked' + 1 < tools'
    <3>1. asked' = asked + 1 /\ asked < tools /\ At(c, "tool")
      BY <1>0, <2>4, HoldsAt DEF Asks, AskRow, Runs
    <3>2. ~At(c, "tool")'
      <4>1. PICK e \in BOOLEAN : HeadNow(c, After(c, e))
        BY <2>4 DEF Asks, RanTool
      <4>2. turns[c] # <<>> /\ Turn(c) \in Turns
        BY <1>0, <4>1, HeadIsFirst DEF HeadNow
      <4> QED BY <4>1, <4>2 DEF HeadNow, After, At, Turns
    <3> QED BY <1>0, <1>1, <2>1, <2>2, <3>1, <3>2
  <2>5. asked' = asked \/ \E c \in Convs : Asks(c)
    BY QuestionMove DEF questionVars, Records, Taken
  <2> QED BY <2>3, <2>4, <2>5
<1> QED BY <1>3, <1>4

\* Only a tool asks.
LEMMA QuestionStays ==
  ASSUME AskInv, [MailNext]_mvars, NEW d \in Convs, question[d].id = 0, ~Asks(d)
  PROVE  question'[d].id = 0
<1>0. QuestionTypes
  BY DEF AskInv, MailTypeOK, QuestionTypes
<1>1. CASE UNCHANGED questionVars
  BY <1>1 DEF questionVars
<1>2. ASSUME NEW c \in Convs, Asks(c)
      PROVE  question'[d].id = 0
  <2>1. c # d
    BY <1>2
  <2> QED BY <1>0, <1>2, <2>1 DEF Asks, AskRow, QuestionTypes
<1>3. ASSUME NEW c \in Convs, Records(c)
      PROVE  question'[d].id = 0
  BY <1>0, <1>3 DEF Records, QuestionTypes
<1>4. ASSUME NEW c \in Convs, Taken(c)
      PROVE  question'[d].id = 0
  BY <1>0, <1>4 DEF Taken, TakeResult, NoRow, QuestionTypes
<1> QED BY <1>1, <1>2, <1>3, <1>4, QuestionMove

\* What is listed is there, and a turn past its look has nothing asked.
LEMMA HeadStep ==
  ASSUME AskInv, [MailNext]_mvars, NEW d \in Convs
  PROVE  HeadFits(d)'
<1>0. /\ TurnsOK /\ TurnsOK' /\ MailTypeOK /\ HeadFits(d) /\ QuestionTypes
      /\ Len(mail[d]) \in Nat
  <2>1. MailTypeOK /\ HeadFits(d)
    BY DEF AskInv
  <2>2. TurnsOK'
    BY <2>1, TurnsTyped
  <2>3. TurnsOK /\ QuestionTypes /\ Len(mail[d]) \in Nat
    BY <2>1 DEF MailTypeOK, TurnsOK, QuestionTypes
  <2> QED BY <2>1, <2>2, <2>3
<1>m. Len(mail'[d]) \in Nat
  <2>1. MailOK'
    BY MailTypes DEF MailTypeOK, MailOK, Row
  <2> QED BY <2>1 DEF MailOK
<1>1. /\ At(d, "drain") => turns[d][1].left <= Len(mail[d])
      /\ \A p \in {"drain", "call", "tool"} : At(d, p) => question[d].id = 0
      /\ turns[d] # <<>> => Turn(d) = turns[d][1] /\ Turn(d) \in Turns
  BY <1>0, HoldsAt, HeadIsFirst DEF HeadFits
<1>2. SUFFICES /\ At(d, "drain")' => turns'[d][1].left <= Len(mail'[d])
               /\ \A p \in {"drain", "call", "tool"} : At(d, p)' => question'[d].id = 0
  <2>1. DOMAIN turns'[d] = 1..Len(turns'[d])
    BY <1>0 DEF TurnsOK
  <2>2. Holds(d, "drain")' => Turn(d)' = turns'[d][1]
    BY <1>0 DEF TurnsOK, Holds, Turn
  <2> QED BY <1>0, <1>2, <2>1, <2>2, BehindStep, HoldsAtNext DEF HeadFits
<1>3. CASE Drain(d)
  <2>1. /\ HeadNow(d, [Turn(d) EXCEPT !.left = @ - 1, !.saved = TRUE])
        /\ turns[d] # <<>> /\ At(d, "drain") /\ question' = question
    BY <1>0, <1>3, TurnsMove, HoldsAt DEF Drain, Runs, Holds
  <2>2. Turn(d) = turns[d][1] /\ Turn(d) \in Turns
    BY <1>1, <2>1
  <2>3. turns'[d][1].pc = "drain" /\ turns'[d][1].left = turns[d][1].left - 1
    BY <2>1, <2>2 DEF HeadNow, At, Turns
  <2>4. Len(mail'[d]) = Len(mail[d]) - 1
    BY <1>3, DrainIs
  <2>5. turns[d][1].left \in Nat
    BY <2>2 DEF Turns
  <2> QED BY <1>0, <1>1, <2>1, <2>3, <2>4, <2>5 DEF At
<1>4. CASE Eases(d) /\ ~Drain(d)
  <2>1. ASSUME NEW p \in {"drain", "call", "tool"}, At(d, p)'
        PROVE  At(d, p) /\ turns'[d][1].left = turns[d][1].left
    BY <1>0, <1>4, <2>1, EasesHead
  <2>2. Len(mail'[d]) >= Len(mail[d])
    BY <1>0, <1>4, MailStays
  <2>3. ASSUME NEW p \in {"drain", "call", "tool"}, At(d, p)'
        PROVE  question'[d].id = 0
    <3>1. ~Asks(d)
      <4> SUFFICES ASSUME Asks(d) PROVE FALSE
        OBVIOUS
      <4>1. PICK e \in BOOLEAN : HeadNow(d, After(d, e))
        BY DEF Asks, RanTool
      <4>2. turns[d] # <<>> /\ Turn(d) \in Turns
        BY <1>0, <4>1, HeadIsFirst DEF HeadNow
      <4> QED BY <2>3, <4>1, <4>2 DEF HeadNow, After, At, Turns
    <3> QED BY <1>1, <2>1, <2>3, <3>1, QuestionStays
  <2>4. At(d, "drain") => turns[d][1].left \in Nat
    BY <1>0, HeadIsFirst DEF At, Turns
  <2> QED BY <1>0, <1>1, <1>m, <2>1, <2>2, <2>3, <2>4
<1>5. CASE Lists(d)
  <2>1. turns[d] # <<>> /\ question' = question /\ mail' = mail
    BY <1>0, <1>5, HeadIsFirst DEF Lists, HeadNow
  <2>2. turns'[d][1].pc = "drain" /\ turns'[d][1].left = Len(mail[d])
    BY <1>1, <1>5, <2>1 DEF Lists, HeadNow, Turns
  <2> QED BY <1>0, <1>5, <2>1, <2>2 DEF Lists, At
<1>6. CASE Calls(d)
  <2>1. turns[d] # <<>> /\ question' = question
    BY <1>0, <1>6, HeadIsFirst DEF Calls, HeadNow
  <2>2. turns'[d][1].pc = "call"
    BY <1>1, <1>6, <2>1 DEF Calls, HeadNow, Turns
  <2> QED BY <1>1, <1>6, <2>1, <2>2 DEF Calls, At
<1>7. CASE CallTool(d)
  <2>1. turns[d] # <<>> /\ question' = question /\ At(d, "call") /\ HeadNow(d, [Turn(d) EXCEPT !.pc = "tool"])
    BY <1>0, <1>7, TurnsMove, HoldsAt DEF CallTool, Runs, Holds
  <2>2. turns'[d][1].pc = "tool"
    BY <1>1, <2>1 DEF HeadNow, Turns
  <2> QED BY <1>1, <2>1, <2>2 DEF At
<1> QED BY <1>0, <1>3, <1>4, <1>5, <1>6, <1>7, QueueMove

\* AskInv is inductive.
LEMMA AskStep ==
  ASSUME AskInv, [MailNext]_mvars
  PROVE  AskInv'
<1>1. MailTypeOK' /\ AsksFit' /\ Accounted' /\ AnsweredHavingRead' /\ \A c \in Convs : HeadFits(c)'
  BY MailTypes, AsksStep, AccountStep, HavingReadStep, HeadStep
<1> QED BY <1>1 DEF AskInv, Accounted

\* AskInv holds at the start.
LEMMA AskInit == MailInit => AskInv
<1> SUFFICES ASSUME MailInit PROVE AskInv
  OBVIOUS
<1>1. \A c \in Convs : turns[c] = <<>> /\ question[c] = NoRow
  BY DEF MailInit
<1>2. MailTypeOK
  <2>1. question \in [Convs -> [id : Nat, of : {"user", "parent"}, answered : BOOLEAN]]
    BY DEF MailInit, NoRow
  <2>2. mail \in [Convs -> Seq([kind : {"row", "notice"}, id : Nat])]
    <3>1. /\ <<>> \in Seq([kind : {"row", "notice"}, id : Nat])
          /\ <<[kind |-> "row", id |-> 0]>> \in Seq([kind : {"row", "notice"}, id : Nat])
      OBVIOUS
    <3> QED BY <3>1 DEF MailInit
  <2>3. turns \in [Convs -> Seq(Turns)]
    <3>1. <<>> \in Seq(Turns)
      OBVIOUS
    <3> QED BY <3>1 DEF MailInit
  <2>4. results \in [Questions -> Seq({"answer"} \cup TurnKinds)]
    <3>1. <<>> \in Seq({"answer"} \cup TurnKinds)
      OBVIOUS
    <3> QED BY <3>1 DEF MailInit
  <2>5. waking \in [Convs -> Nat] /\ answering \in [Convs -> Nat] /\ ending \in [check : Nat, tell : Nat]
    BY DEF MailInit
  <2>6. /\ agent \in {"active", "finished", "stopped"} /\ pausedConvs \subseteq Convs
        /\ read \subseteq Nat /\ telling \in Nat /\ asked \in Nat /\ accepted \subseteq 1..asked
        /\ events \in 0..MaxEvents /\ tools \in 0..MaxTools /\ restarts \in 0..MaxRestarts
    BY MailAssumption DEF MailInit
  <2>7. owes \in BOOLEAN /\ hollow \in BOOLEAN
    BY DEF MailInit
  <2> QED BY <2>1, <2>2, <2>3, <2>4, <2>5, <2>6, <2>7 DEF MailTypeOK
<1>3. AsksFit /\ (\A c \in Convs : HeadFits(c)) /\ RowsFit /\ AnsweredHavingRead
  BY <1>1 DEF MailInit, AsksFit, HeadFits, Holds, RowsFit, AnsweredHavingRead, Answered, NoRow, Convs
<1>4. \A q \in Questions : results[q] = <<>> /\ ~(q <= asked)
  BY MailAssumption DEF MailInit, Questions
<1> QED BY <1>2, <1>3, <1>4 DEF AskInv

\* QuestionAccounted follows: the rows of a question are one, or none.
LEMMA AskImplies == AskInv => QuestionAccounted
<1> SUFFICES ASSUME AskInv PROVE QuestionAccounted
  OBVIOUS
<1>0. MailTypeOK /\ RowsFit /\ QuestionTypes
  BY DEF AskInv, MailTypeOK, QuestionTypes
<1>1. NoCallWhileAsking /\ AnsweredHavingRead
  BY DEF AskInv, HeadFits, NoCallWhileAsking
<1>2. ASSUME NEW q \in 1..asked
      PROVE  /\ Cardinality(Rows(q)) + Len(results[q]) = 1
             /\ results[q] \in {<<>>, <<"answer">>, <<"user">>}
             /\ q \in accepted => \/ \E c \in Rows(q) : question[c].answered
                                  \/ results[q] = <<"answer">>
  <2>1. q \in Questions /\ q <= asked /\ q # 0
    BY <1>0, MailAssumption DEF AskInv, AsksFit, MailTypeOK, Questions
  <2>2. ResultFits(q)
    BY <2>1 DEF AskInv
  <2>3. CASE Rows(q) = {}
    <3>1. Cardinality(Rows(q)) = 0
      BY <2>3, FS_EmptySet, Zenon
    <3>2. results[q] \in {<<"answer">>, <<"user">>} /\ (q \in accepted => results[q] = <<"answer">>)
      BY <2>2, <2>3 DEF ResultFits
    <3>3. Len(results[q]) = 1
      BY <3>2
    <3> QED BY <3>1, <3>2, <3>3
  <2>4. CASE Rows(q) # {}
    <3>1. PICK c \in Convs : question[c].id = q
      BY <2>4 DEF Rows
    <3>2. \A d \in Convs : d # c => question[d].id # q
      BY <1>0, <2>1, <3>1, OneRow
    <3>3. Rows(q) = {c}
      BY <3>1, <3>2 DEF Rows
    <3>4. Cardinality(Rows(q)) = 1
      BY <3>3, FS_Singleton
    <3>5. results[q] = <<>>
      BY <2>2, <2>4 DEF ResultFits
    <3> QED BY <2>2, <3>4, <3>5 DEF ResultFits
  <2> QED BY <2>3, <2>4
<1>3. OneResult
  BY <1>2 DEF OneResult, Rows
<1> QED BY <1>1, <1>3 DEF QuestionAccounted

-----------------------------------------------------------------------------
(* Mail and its readers.                                                   *)

\* Some turn will list what there is.
Looks(c) == \E i \in 1..Len(turns[c]) : WillLook(c, turns[c][i])

\* A queue's index set, before and after a step.
LEMMA Domains ==
  ASSUME TurnsOK, TurnsOK', NEW c \in Convs
  PROVE  /\ DOMAIN turns[c] = 1..Len(turns[c]) /\ DOMAIN turns'[c] = 1..Len(turns'[c])
         /\ Len(turns[c]) \in Nat /\ Len(turns'[c]) \in Nat
         /\ \A i \in 1..Len(turns[c]) : turns[c][i] \in Turns
         /\ \A i \in 1..Len(turns'[c]) : turns'[c][i] \in Turns
BY DEF TurnsOK

\* What the three parts of StopsFit say, by index.
Ordered(c) == \A i, j \in 1..Len(turns[c]) : i < j /\ turns[c][j].stopped => turns[c][i].stopped
SomeStopped(c) == \E i \in 1..Len(turns[c]) : turns[c][i].stopped
SomeRuns(c) == \E i \in 1..Len(turns[c]) : ~turns[c][i].stopped

\* StopsFit, by index, before and after a step.
LEMMA StopsByIndex ==
  ASSUME TurnsOK, TurnsOK', NEW c \in Convs
  PROVE  /\ StopsFit(c) <=>
              /\ Ordered(c)
              /\ c \in pausedConvs => ~SomeRuns(c)
              /\ SomeStopped(c) => c \in pausedConvs \/ ~Admits(c) \/ answering[c] > 0 \/ SomeRuns(c)
         /\ StopsFit(c)' <=>
              (/\ Ordered(c)
               /\ c \in pausedConvs => ~SomeRuns(c)
               /\ SomeStopped(c) => c \in pausedConvs \/ ~Admits(c) \/ answering[c] > 0 \/ SomeRuns(c))'
BY Domains DEF StopsFit, Ordered, SomeStopped, SomeRuns, AnyStopped, AnyRuns

\* The pause, the state and the answers on their way: what makes up for a
\* stopped turn is kept.
Keeps(d) ==
  /\ d \in pausedConvs' <=> d \in pausedConvs
  /\ answering[d] > 0 => answering'[d] > 0
  /\ ~Admits(d) => ~Admits(d)' \/ answering'[d] > 0

\* The moves of a queue, by what they do to its stops.
Flows(d) ==
  \/ turns'[d] = <<>>
  \/ Keeps(d) /\ turns'[d] = turns[d]
  \/ Keeps(d) /\ HeadGone(d)
  \/ Keeps(d) /\ \E t : HeadNow(d, t) /\ t.stopped = turns[d][1].stopped
  \/ d \notin pausedConvs' /\ \E k \in TurnKinds : OneMore(d, k) /\ (d \in pausedConvs => ~SomeRuns(d))
  \/ d \in pausedConvs' /\ AllStopped(d)
  \/ ~Admits(d)' /\ turns'[d] = turns[d] /\ (d \in pausedConvs' => d \in pausedConvs)

\* Each flow keeps StopsFit: what makes up for a stopped turn is another that
\* runs, the pause, the agent's state or an answer on its way.
LEMMA FlowStops ==
  ASSUME TurnsOK, TurnsOK', NEW d \in Convs, StopsFit(d), Flows(d)
  PROVE  StopsFit(d)'
<1>0. /\ Ordered(d)
      /\ d \in pausedConvs => ~SomeRuns(d)
      /\ SomeStopped(d) => d \in pausedConvs \/ ~Admits(d) \/ answering[d] > 0 \/ SomeRuns(d)
  BY StopsByIndex
<1>1. SUFFICES /\ Ordered(d)'
               /\ d \in pausedConvs' => ~SomeRuns(d)'
               /\ SomeStopped(d)' => d \in pausedConvs' \/ ~Admits(d)' \/ answering'[d] > 0 \/ SomeRuns(d)'
  BY StopsByIndex
<1>2. CASE turns'[d] = <<>>
  BY <1>2 DEF Ordered, SomeStopped, SomeRuns
<1>3. CASE Keeps(d) /\ turns'[d] = turns[d]
  BY <1>0, <1>3 DEF Keeps, Ordered, SomeStopped, SomeRuns
<1>4. CASE Keeps(d) /\ HeadGone(d)
  <2>0. \A i \in 1..Len(turns'[d]) : i + 1 \in 1..Len(turns[d]) /\ turns'[d][i] = turns[d][i + 1]
    BY <1>4, Domains DEF HeadGone
  <2>1. Ordered(d)'
    <3> SUFFICES ASSUME NEW i \in 1..Len(turns'[d]), NEW j \in 1..Len(turns'[d]), i < j, turns'[d][j].stopped
                 PROVE  turns'[d][i].stopped
      BY DEF Ordered
    <3>1. i + 1 < j + 1 /\ turns[d][j + 1].stopped
      BY <2>0, Domains
    <3> QED BY <1>0, <2>0, <3>1 DEF Ordered
  <2>2. (SomeRuns(d)' => SomeRuns(d)) /\ (SomeStopped(d)' => SomeStopped(d))
    BY <2>0 DEF SomeRuns, SomeStopped
  <2>3. SomeStopped(d)' /\ SomeRuns(d) => SomeRuns(d)'
    <3> SUFFICES ASSUME SomeStopped(d)', SomeRuns(d) PROVE SomeRuns(d)'
      OBVIOUS
    <3>1. PICK i \in 1..Len(turns[d]) : ~turns[d][i].stopped
      BY DEF SomeRuns
    <3>2. PICK j \in 1..Len(turns'[d]) : turns'[d][j].stopped
      BY DEF SomeStopped
    <3>3. i # 1
      <4>1. j + 1 \in 1..Len(turns[d]) /\ turns[d][j + 1].stopped /\ 1 < j + 1
        BY <2>0, <3>2, Domains
      <4> QED BY <1>0, <3>1, <4>1 DEF Ordered
    <3>4. i - 1 \in 1..Len(turns'[d]) /\ turns'[d][i - 1] = turns[d][i]
      BY <1>4, <3>1, <3>3, Domains DEF HeadGone
    <3> QED BY <3>1, <3>4 DEF SomeRuns
  <2> QED BY <1>0, <1>4, <2>1, <2>2, <2>3 DEF Keeps
<1>5. ASSUME NEW t, Keeps(d), HeadNow(d, t), t.stopped = turns[d][1].stopped
      PROVE  /\ Ordered(d)'
             /\ d \in pausedConvs' => ~SomeRuns(d)'
             /\ SomeStopped(d)' => d \in pausedConvs' \/ ~Admits(d)' \/ answering'[d] > 0 \/ SomeRuns(d)'
  <2>1. Len(turns'[d]) = Len(turns[d]) /\ \A i \in 1..Len(turns[d]) : turns'[d][i].stopped = turns[d][i].stopped
    <3>1. \A i \in 1..Len(turns[d]) : i = 1 \/ i > 1
      BY Domains
    <3> QED BY <1>5, <3>1 DEF HeadNow
  <2> QED BY <1>0, <1>5, <2>1 DEF Keeps, Ordered, SomeStopped, SomeRuns
<1>6. ASSUME NEW k \in TurnKinds, OneMore(d, k), d \notin pausedConvs'
      PROVE  /\ Ordered(d)' /\ SomeRuns(d)'
  <2>1. /\ Len(turns[d]) + 1 \in 1..Len(turns'[d]) /\ ~turns'[d][Len(turns[d]) + 1].stopped
        /\ \A i \in 1..Len(turns'[d]) : i # Len(turns[d]) + 1 => i \in 1..Len(turns[d]) /\ turns'[d][i] = turns[d][i]
    BY <1>6, Domains DEF OneMore, NewTurn
  <2>2. Ordered(d)'
    <3> SUFFICES ASSUME NEW i \in 1..Len(turns'[d]), NEW j \in 1..Len(turns'[d]), i < j, turns'[d][j].stopped
                 PROVE  turns'[d][i].stopped
      BY DEF Ordered
    <3>1. j # Len(turns[d]) + 1
      BY <2>1
    <3>2. i # Len(turns[d]) + 1
      BY <2>1, <3>1, Domains
    <3> QED BY <1>0, <2>1, <3>1, <3>2 DEF Ordered
  <2> QED BY <2>1, <2>2 DEF SomeRuns
<1>7. CASE d \in pausedConvs' /\ AllStopped(d)
  <2>1. \A i \in 1..Len(turns'[d]) : turns'[d][i].stopped
    <3> TAKE i \in 1..Len(turns'[d])
    <3>1. turns[d][i] \in Turns /\ turns'[d][i] = [turns[d][i] EXCEPT !.stopped = TRUE]
      BY <1>7, Domains DEF AllStopped
    <3> QED BY <3>1 DEF Turns
  <2> QED BY <1>7, <2>1 DEF Ordered, SomeRuns
<1>8. CASE ~Admits(d)' /\ turns'[d] = turns[d] /\ (d \in pausedConvs' => d \in pausedConvs)
  BY <1>0, <1>8 DEF Ordered, SomeRuns
<1> QED BY <1>2, <1>3, <1>4, <1>5, <1>6, <1>7, <1>8 DEF Flows

\* Only a Stop, a Send and an answer's admission change who is paused, and
\* only stop_agent stops an agent.
LEMMA KeepsMost ==
  ASSUME MailTypeOK, [MailNext]_mvars
  PROVE  \/ \A d \in Convs : Keeps(d)
         \/ \E c \in Convs : /\ Send(c) \/ AnswerAdmitted(c) \/ UserStop(c)
                             /\ \A d \in Convs : d # c => Keeps(d)
         \/ StopAgent /\ Keeps("root")
         \/ MailRestart
<1>0. /\ agent \in {"active", "finished", "stopped"} /\ pausedConvs \subseteq Convs
      /\ answering \in [Convs -> Nat]
  BY DEF MailTypeOK
<1>1. agent' = agent /\ pausedConvs' = pausedConvs /\ answering' = answering => \A d \in Convs : Keeps(d)
  BY DEF Keeps, Admits
<1>2. ASSUME NEW c \in Convs, Deliver(c) \/ Wake(c)
      PROVE  \A d \in Convs : Keeps(d)
  BY <1>1, <1>2 DEF Deliver, Wake, dbs, tasks
<1>3. ASSUME NEW c \in Convs, Answer(c)
      PROVE  \A d \in Convs : Keeps(d)
  <2>1. /\ agent' \in {agent, "active"} /\ (agent' # agent => c = "child")
        /\ pausedConvs' = pausedConvs /\ answering' = [answering EXCEPT ![c] = @ + 1]
    BY <1>3 DEF Answer
  <2> QED BY <1>0, <2>1 DEF Keeps, Admits, Convs
<1>4. ASSUME NEW c \in Convs, Send(c) \/ UserStop(c)
      PROVE  \A d \in Convs : d # c => Keeps(d)
  <2>1. /\ agent' \in {agent, "active"} /\ (agent' # agent => c = "child")
        /\ pausedConvs' \in {pausedConvs \ {c}, pausedConvs \cup {c}} /\ answering' = answering
    BY <1>4 DEF Send, UserStop, tasks
  <2> QED BY <1>0, <2>1 DEF Keeps, Admits, Convs
<1>5. ASSUME NEW c \in Convs, AnswerAdmitted(c)
      PROVE  \A d \in Convs : d # c => Keeps(d)
  <2>1. /\ agent' = agent
        /\ pausedConvs' = pausedConvs \ {c} /\ answering' = [answering EXCEPT ![c] = @ - 1]
    BY <1>5 DEF AnswerAdmitted
  <2> QED BY <1>0, <2>1 DEF Keeps, Admits, Convs
<1>6. ASSUME NEW c \in Convs, Body(c) \/ Tool(c)
      PROVE  \A d \in Convs : Keeps(d)
  <2>1. /\ agent' = agent \/ (agent = "finished" /\ agent' = "active")
        /\ pausedConvs' = pausedConvs /\ answering' = answering
    BY <1>6 DEF Body, Begin, EndQueued, EndStopped, TakeAnswer, Look, Drain, Drained, Reply, CallTool,
       SaveResults, Tool, OtherTool, AskUser, dbs, tasks
  <2> QED BY <1>0, <2>1 DEF Keeps, Admits
<1>7. CASE ChildTool \/ MessageChild \/ TellStopped \/ AfterCheck \/ AfterTell
  <2>1. /\ agent = "stopped" => agent' = "stopped"
        /\ pausedConvs' = pausedConvs /\ answering' = answering
    BY <1>7 DEF ChildTool, AskParent, MessageParent, Finish, MessageChild, TellStopped, AfterCheck,
       AfterTell, dbs
  <2> QED BY <1>0, <2>1 DEF Keeps, Admits
<1>8. CASE StopAgent
  <2>1. pausedConvs' = pausedConvs \cup {"child"} /\ answering' = answering
    BY <1>8 DEF StopAgent, tasks
  <2>2. Keeps("root")
    BY <1>0, <2>1 DEF Keeps, Admits, Convs
  <2> QED BY <1>8, <2>2
<1>9. CASE UNCHANGED mvars
  BY <1>1, <1>9 DEF mvars, dbs, tasks
<1> QED BY <1>2, <1>3, <1>4, <1>5, <1>6, <1>7, <1>8, <1>9 DEF MailNext, User, RootTool

\* A turn's own steps leave it stopped or not, as it was.
LEMMA BodyFlows ==
  ASSUME MailTypeOK, NEW c \in Convs, Body(c) \/ Tool(c)
  PROVE  /\ Changed(c)
         /\ HeadGone(c) \/ \E t : HeadNow(c, t) /\ t.stopped = turns[c][1].stopped
<1>0. TurnsOK /\ Len(mail[c]) \in Nat
  BY DEF MailTypeOK, TurnsOK
<1>1. turns[c] # <<>> => Turn(c) \in Turns
  BY <1>0, HeadIsFirst
<1>2. \A t : HeadNow(c, t) /\ t.stopped = Turn(c).stopped => t.stopped = turns[c][1].stopped
  BY <1>0, HeadIsFirst
<1>3. \A p : Holds(c, p) => turns[c] # <<>>
  BY DEF Holds
<1>4. CASE Begin(c)
  <2> DEFINE b == Saves(c, Turn(c).kind)
             t == [Turn(c) EXCEPT !.pc = "top", !.own = b, !.saved = b]
  <2>1. Changed(c) /\ HeadNow(c, t)
    BY <1>0, <1>4, TurnsMove
  <2>2. t.stopped = Turn(c).stopped
    BY <1>1, <1>3, <1>4 DEF Begin, Runs, Turns
  <2> HIDE DEF t
  <2> QED BY <1>2, <2>1, <2>2
<1>5. CASE EndQueued(c) \/ EndStopped(c) \/ Reply(c)
  BY <1>0, <1>5, TurnsMove
<1>6. CASE TakeAnswer(c)
  <2> DEFINE t == [Turn(c) EXCEPT !.pc = "look", !.saved = @ \/ Answered(c)]
  <2>1. Changed(c) /\ HeadNow(c, t)
    BY <1>0, <1>6, TurnsMove
  <2>2. t.stopped = Turn(c).stopped
    BY <1>1, <1>3, <1>6 DEF TakeAnswer, Runs, Turns
  <2> HIDE DEF t
  <2> QED BY <1>2, <2>1, <2>2
<1>7. CASE Look(c)
  <2> DEFINE t == [Turn(c) EXCEPT !.pc = "drain", !.left = Len(mail[c])]
             u == [Turn(c) EXCEPT !.pc = "top"]
  <2>1. Changed(c) /\ (HeadGone(c) \/ HeadNow(c, t) \/ HeadNow(c, u))
    BY <1>0, <1>7, TurnsMove
  <2>2. t.stopped = Turn(c).stopped /\ u.stopped = Turn(c).stopped
    BY <1>1, <1>3, <1>7 DEF Look, Runs, Turns
  <2> HIDE DEF t, u
  <2> QED BY <1>2, <2>1, <2>2
<1>8. CASE Drain(c)
  <2> DEFINE t == [Turn(c) EXCEPT !.left = @ - 1, !.saved = TRUE]
  <2>1. Changed(c) /\ HeadNow(c, t)
    BY <1>0, <1>8, TurnsMove
  <2>2. t.stopped = Turn(c).stopped
    BY <1>1, <1>3, <1>8 DEF Drain, Runs, Turns
  <2> HIDE DEF t
  <2> QED BY <1>2, <2>1, <2>2
<1>9. CASE Drained(c) \/ CallTool(c) \/ SaveResults(c)
  <2>1. Changed(c) /\ (HeadGone(c) \/ \E p \in {"call", "tool", "top"} : HeadNow(c, [Turn(c) EXCEPT !.pc = p]))
    BY <1>0, <1>9, TurnsMove
  <2>2. \A p \in {"call", "tool", "top"} : [Turn(c) EXCEPT !.pc = p].stopped = Turn(c).stopped
    BY <1>1, <1>3, <1>9 DEF Drained, CallTool, SaveResults, Runs, Turns
  <2> QED BY <1>2, <2>1, <2>2
<1>10. CASE Tool(c)
  <2>1. Changed(c) /\ RanTool(c)
    BY <1>0, <1>10, TurnsRun DEF Tool
  <2>2. \A e \in BOOLEAN : After(c, e).stopped = Turn(c).stopped
    BY <1>1, <1>3, <1>10 DEF Tool, OtherTool, AskUser, Runs, Turns, After
  <2>3. PICK e \in BOOLEAN : HeadNow(c, After(c, e))
    BY <2>1 DEF RanTool
  <2> QED BY <1>2, <2>1, <2>2, <2>3
<1> QED BY <1>4, <1>5, <1>6, <1>7, <1>8, <1>9, <1>10 DEF Body

\* Every step is one of the flows, for each of the two.
LEMMA FlowStep ==
  ASSUME MailTypeOK, \A c \in Convs : StopsFit(c), [MailNext]_mvars, NEW d \in Convs
  PROVE  Flows(d)
<1>0. TurnsOK /\ TurnsOK' /\ "root" \in Convs /\ "child" \in Convs /\ \A c \in Convs : Len(mail[c]) \in Nat
  <2>1. TurnsOK'
    BY TurnsTyped
  <2> QED BY <2>1 DEF MailTypeOK, TurnsOK, Convs
<1>1. \A c \in Convs : Changed(c) /\ c # d /\ Keeps(d) => Flows(d)
  BY DEF Changed, Only, Flows
<1>2. turns' = turns /\ Keeps(d) => Flows(d)
  BY DEF Flows
<1>3. (\E e \in BOOLEAN : HeadNow(d, After(d, e))) /\ Keeps(d) => Flows(d)
  <2> SUFFICES ASSUME NEW e \in BOOLEAN, HeadNow(d, After(d, e)), Keeps(d) PROVE Flows(d)
    OBVIOUS
  <2>1. turns[d][1] \in Turns /\ Turn(d) = turns[d][1]
    BY <1>0, HeadIsFirst DEF HeadNow
  <2>2. After(d, e).stopped = turns[d][1].stopped
    BY <2>1 DEF After, Turns
  <2> QED BY <2>2 DEF Flows
<1>r. d \in pausedConvs => ~SomeRuns(d)
  BY <1>0, StopsByIndex
<1>k. "user" \in TurnKinds /\ "deliver" \in TurnKinds /\ "answer" \in TurnKinds /\ "wake" \in TurnKinds
  BY DEF TurnKinds
<1>4. ASSUME NEW c \in Convs, Send(c) \/ AnswerAdmitted(c) \/ UserStop(c),
             d # c => Keeps(d)
      PROVE  Flows(d)
  <2>1. CASE d # c
    <3>1. turns'[d] = turns[d]
      BY <1>0, <1>4, <2>1, TurnsJoin DEF Changed, Only
    <3> QED BY <1>4, <2>1, <3>1 DEF Flows
  <2>2. CASE d = c
    <3>1. CASE Send(c)
      <4>1. d \notin pausedConvs' /\ OneMore(d, "user")
        BY <1>0, <2>2, <3>1, TurnsJoin DEF Send
      <4> QED BY <1>k, <1>r, <4>1 DEF Flows
    <3>2. CASE UserStop(c)
      <4>1. d \in pausedConvs' /\ AllStopped(d)
        BY <1>0, <2>2, <3>2, TurnsJoin DEF UserStop
      <4> QED BY <4>1 DEF Flows
    <3>3. CASE AnswerAdmitted(c)
      <4>1. pausedConvs' = pausedConvs \ {d} /\ agent' = agent
        BY <2>2, <3>3 DEF AnswerAdmitted
      <4>2. OneMore(d, "answer") \/ (turns' = turns /\ ~Admits(d))
        BY <1>0, <2>2, <3>3, TurnsJoin
      <4>3. ~Admits(d) => ~Admits(d)'
        BY <4>1 DEF Admits
      <4> QED BY <1>k, <1>r, <4>1, <4>2, <4>3 DEF Flows
    <3> QED BY <1>4, <3>1, <3>2, <3>3
  <2> QED BY <2>1, <2>2
<1>5. CASE StopAgent /\ Keeps("root")
  <2>1. CASE d = "root"
    <3>1. HeadNow(d, After(d, FALSE)) /\ Keeps(d)
      BY <1>0, <1>5, <2>1, TurnsRun
    <3> QED BY <1>3, <3>1
  <2>2. CASE d = "child"
    <3>1. AllStopped(d) /\ d \in pausedConvs'
      BY <1>0, <1>5, <2>2, TurnsRun DEF StopAgent
    <3> QED BY <3>1 DEF Flows
  <2> QED BY <2>1, <2>2 DEF Convs
<1>6. CASE MailRestart
  BY <1>0, <1>6, TurnsRun DEF Flows
<1>7. CASE Keeps(d)
  <2>1. ASSUME NEW c \in Convs, Body(c) \/ Tool(c)
        PROVE  Flows(d)
    BY <1>1, <1>7, <2>1, BodyFlows DEF Flows
  <2>2. ASSUME NEW c \in Convs, Deliver(c) \/ Wake(c)
        PROVE  Flows(d)
    <3>1. CASE turns' = turns
      BY <1>2, <1>7, <3>1
    <3>2. CASE Changed(c) /\ c # d
      BY <1>1, <1>7, <3>2
    <3>3. CASE c = d /\ (OneMore(d, "deliver") \/ OneMore(d, "wake")) /\ d \notin pausedConvs
      <4>1. d \notin pausedConvs'
        BY <1>7, <3>3 DEF Keeps
      <4> QED BY <1>k, <3>3, <4>1 DEF Flows
    <3> QED BY <1>0, <2>2, <3>1, <3>2, <3>3, TurnsJoin
  <2>3. ASSUME NEW c \in Convs, Answer(c)
        PROVE  Flows(d)
    BY <1>2, <1>7, <2>3 DEF Answer
  <2>4. CASE ChildTool \/ MessageChild
    <3>1. \E c \in Convs : Changed(c) /\ RanTool(c)
      BY <1>0, <2>4, TurnsRun DEF ChildTool
    <3> QED BY <1>1, <1>3, <1>7, <3>1 DEF RanTool
  <2>5. CASE TellStopped \/ AfterCheck \/ AfterTell \/ UNCHANGED mvars
    BY <1>2, <1>7, <2>5 DEF TellStopped, AfterCheck, AfterTell, mvars
  <2>6. ASSUME NEW c \in Convs, Send(c) \/ AnswerAdmitted(c) \/ UserStop(c)
        PROVE  Flows(d)
    BY <1>4, <1>7, <2>6
  <2>7. CASE StopAgent
    <3>1. CASE d = "root"
      BY <1>5, <1>7, <2>7, <3>1
    <3>2. CASE d = "child"
      <4>1. AllStopped(d) /\ d \in pausedConvs'
        BY <1>0, <2>7, <3>2, TurnsRun DEF StopAgent
      <4> QED BY <4>1 DEF Flows
    <3> QED BY <3>1, <3>2 DEF Convs
  <2> QED BY <1>6, <2>1, <2>2, <2>3, <2>4, <2>5, <2>6, <2>7 DEF MailNext, User, RootTool
<1> QED BY <1>4, <1>5, <1>6, <1>7, KeepsMost

\* StopsFit is inductive.
LEMMA StopsStep ==
  ASSUME MailTypeOK, \A c \in Convs : StopsFit(c), [MailNext]_mvars
  PROVE  \A d \in Convs : StopsFit(d)'
<1>1. TurnsOK /\ TurnsOK'
  <2>1. TurnsOK'
    BY TurnsTyped
  <2> QED BY <2>1 DEF MailTypeOK, TurnsOK
<1> QED BY <1>1, FlowStep, FlowStops

-----------------------------------------------------------------------------
(* Who reads it.                                                           *)

\* Attended, by index.
LEMMA AttendedByIndex ==
  ASSUME TurnsOK, TurnsOK', NEW d \in Convs
  PROVE  /\ Attended(d) <=>
              \/ d \in pausedConvs \/ ~Admits(d) \/ Waits(d) \/ waking[d] > 0 \/ answering[d] > 0
              \/ Looks(d)
              \/ mail[d] = <<>> /\ (Answered(d) => (d = "root" /\ restarts > 0))
         /\ Attended(d)' <=>
              (\/ d \in pausedConvs \/ ~Admits(d) \/ Waits(d) \/ waking[d] > 0 \/ answering[d] > 0
               \/ Looks(d)
               \/ mail[d] = <<>> /\ (Answered(d) => (d = "root" /\ restarts > 0)))'
BY Domains DEF Attended, Looks

\* Nothing that makes d attended is lost but, maybe, a turn.
Same(d) ==
  /\ question'[d] = question[d] /\ mail'[d] = mail[d] /\ restarts' = restarts
  /\ waking[d] > 0 => waking'[d] > 0
  /\ answering[d] > 0 => answering'[d] > 0
  /\ d \in pausedConvs => d \in pausedConvs'
  /\ ~Admits(d) => ~Admits(d)'

\* Then it stays attended if a turn that would look does.
LEMMA SameAttended ==
  ASSUME TurnsOK, TurnsOK', NEW d \in Convs, Attended(d), Same(d), Looks(d) => Looks(d)'
  PROVE  Attended(d)'
BY AttendedByIndex DEF Same, Waits, Answered

\* A turn that has joined, or has begun again, will look.
LEMMA NewLooks ==
  ASSUME TurnsOK, TurnsOK', NEW d \in Convs
  PROVE  /\ \A k \in TurnKinds : OneMore(d, k) => Looks(d)'
         /\ \A t : HeadNow(d, t) /\ ~t.stopped /\ t.pc \in {"top", "look"} => Looks(d)'
<1>1. ASSUME NEW k \in TurnKinds, OneMore(d, k)
      PROVE  Looks(d)'
  <2>1. Len(turns[d]) + 1 \in 1..Len(turns'[d]) /\ turns'[d][Len(turns[d]) + 1] = NewTurn(k)
    BY <1>1, Domains DEF OneMore
  <2>2. WillLook(d, NewTurn(k))'
    BY DEF WillLook, NewTurn
  <2> QED BY <2>1, <2>2 DEF Looks, WillLook
<1>2. ASSUME NEW t, HeadNow(d, t), ~t.stopped, t.pc \in {"top", "look"}
      PROVE  Looks(d)'
  <2>1. 1 \in 1..Len(turns'[d]) /\ turns'[d][1] = t
    BY <1>2, Domains DEF HeadNow
  <2> QED BY <1>2, <2>1 DEF Looks, WillLook
<1> QED BY <1>1, <1>2

\* Who would look behind the head still does when the head goes, or moves.
LEMMA BehindLooks ==
  ASSUME TurnsOK, TurnsOK', NEW d \in Convs, HeadFits(d), HeadGone(d) \/ \E t : HeadNow(d, t)
  PROVE  /\ Looks(d) => Looks(d)' \/ WillLook(d, turns[d][1])
         /\ SomeRuns(d) => Looks(d)' \/ ~turns[d][1].stopped
<1>1. ASSUME NEW i \in 1..Len(turns[d]), i # 1, ~turns[d][i].stopped
      PROVE  Looks(d)'
  <2>1. turns[d][i].pc = "queued"
    BY <1>1, Domains DEF HeadFits
  <2>2. CASE HeadGone(d)
    <3>1. i - 1 \in 1..Len(turns'[d]) /\ turns'[d][i - 1] = turns[d][i]
      BY <1>1, <2>2, Domains DEF HeadGone
    <3> QED BY <1>1, <2>1, <3>1 DEF Looks, WillLook
  <2>3. ASSUME NEW t, HeadNow(d, t)
        PROVE  Looks(d)'
    <3>1. i \in 1..Len(turns'[d]) /\ turns'[d][i] = turns[d][i]
      BY <1>1, <2>3, Domains DEF HeadNow
    <3> QED BY <1>1, <2>1, <3>1 DEF Looks, WillLook
  <2> QED BY <2>2, <2>3
<1> QED BY <1>1 DEF Looks, SomeRuns, WillLook

\* What is attended stays so through a step that leaves it alone.
LEMMA LeftAlone ==
  ASSUME TurnsOK, TurnsOK', NEW d \in Convs, Attended(d), Same(d), turns'[d] = turns[d]
  PROVE  Attended(d)'
<1>1. Looks(d) => Looks(d)'
  BY DEF Looks, WillLook, Same
<1> QED BY <1>1, SameAttended

\* A turn's own steps: a turn that leaves, or moves on past its look, has
\* nothing to read, waits for an answer, or leaves one to look behind it.
LEMMA BodyAttended ==
  ASSUME AskInv, NEW c \in Convs, StopsFit(c), Attended(c), Body(c), TurnsOK'
  PROVE  Attended(c)'
<1>0. /\ TurnsOK /\ HeadFits(c) /\ QuestionTypes /\ MailOK
      /\ Len(mail[c]) \in Nat
      /\ waking \in [Convs -> Nat] /\ answering \in [Convs -> Nat]
  BY DEF AskInv, MailTypeOK, TurnsOK, QuestionTypes, MailOK, Row
<1>1. /\ turns[c] # <<>> => Turn(c) \in Turns /\ Turn(c) = turns[c][1]
      /\ \A p : Holds(c, p) => turns[c] # <<>>
  BY <1>0, HeadIsFirst DEF Holds
<1>2. Looks(c)' => Attended(c)'
  BY <1>0, AttendedByIndex
<1>3. ASSUME NEW t, HeadNow(c, t), ~t.stopped, t.pc \in {"top", "look"}
      PROVE  Attended(c)'
  BY <1>0, <1>2, <1>3, NewLooks
<1>4. ASSUME HeadGone(c) \/ \E t : HeadNow(c, t), Same(c), ~WillLook(c, turns[c][1])
      PROVE  Attended(c)'
  BY <1>0, <1>4, BehindLooks, SameAttended
<1>5. CASE Begin(c)
  <2> DEFINE b == Saves(c, Turn(c).kind)
             t == [Turn(c) EXCEPT !.pc = "top", !.own = b, !.saved = b]
  <2>1. HeadNow(c, t)
    BY <1>0, <1>5, TurnsMove
  <2>2. t.pc = "top" /\ ~t.stopped
    BY <1>1, <1>5 DEF Begin, Runs, Turns
  <2> HIDE DEF t
  <2> QED BY <1>3, <2>1, <2>2
<1>6. CASE EndQueued(c) \/ EndStopped(c)
  <2>1. HeadGone(c) /\ turns[c] # <<>> /\ turns[c][1].stopped
    BY <1>0, <1>1, <1>6, TurnsMove DEF EndQueued, EndStopped
  <2>2. SomeStopped(c)
    BY <2>1, <1>0, HeadIsFirst DEF SomeStopped, HeadGone
  <2>3. c \in pausedConvs \/ ~Admits(c) \/ answering[c] > 0 \/ SomeRuns(c)
    BY <1>0, <2>2, StopsByIndex
  <2>4. agent' = agent /\ pausedConvs' = pausedConvs /\ answering' = answering
    BY <1>6 DEF EndQueued, EndStopped, tasks
  <2>5. SomeRuns(c) => Looks(c)'
    BY <1>0, <2>1, BehindLooks
  <2>6. c \in pausedConvs \/ ~Admits(c) \/ answering[c] > 0 => Attended(c)'
    BY <1>0, <2>4, AttendedByIndex DEF Admits
  <2> QED BY <1>2, <2>3, <2>5, <2>6
<1>7. CASE TakeAnswer(c)
  <2> DEFINE t == [Turn(c) EXCEPT !.pc = "look", !.saved = @ \/ Answered(c)]
  <2>1. HeadNow(c, t)
    BY <1>0, <1>7, TurnsMove
  <2>2. t.pc = "look" /\ ~t.stopped
    BY <1>1, <1>7 DEF TakeAnswer, Runs, Turns
  <2> HIDE DEF t
  <2> QED BY <1>3, <2>1, <2>2
<1>8. CASE Look(c)
  <2> DEFINE t == [Turn(c) EXCEPT !.pc = "drain", !.left = Len(mail[c])]
             u == [Turn(c) EXCEPT !.pc = "top"]
  <2>0. mail' = mail /\ question' = question
    BY <1>8 DEF Look, dbs
  <2>1. Turn(c) \in Turns /\ ~Turn(c).stopped
    BY <1>1, <1>8 DEF Look, Runs
  <2>2. CASE HeadNow(c, t)
    <3>1. ~t.stopped /\ t.pc = "drain" /\ t.left = Len(mail'[c])
      BY <2>0, <2>1 DEF Turns
    <3> HIDE DEF t
    <3>2. 1 \in 1..Len(turns'[c]) /\ turns'[c][1] = t
      BY <1>0, <2>2, Domains DEF HeadNow
    <3>3. Looks(c)'
      BY <3>1, <3>2 DEF Looks, WillLook
    <3> QED BY <1>2, <3>3
  <2>3. CASE HeadNow(c, u)
    <3>1. ~u.stopped /\ u.pc = "top"
      BY <2>1 DEF Turns
    <3> HIDE DEF u
    <3> QED BY <1>3, <2>3, <3>1
  <2>4. CASE Waits(c)
    <3>1. Waits(c)'
      BY <2>0, <2>4 DEF Waits
    <3> QED BY <1>0, <3>1, AttendedByIndex
  <2> QED BY <1>0, <1>8, <2>2, <2>3, <2>4, TurnsMove
<1>9. CASE Drain(c)
  <2> DEFINE t == [Turn(c) EXCEPT !.left = @ - 1, !.saved = TRUE]
  <2>1. HeadNow(c, t)
    BY <1>0, <1>9, TurnsMove
  <2>2. /\ Turn(c) \in Turns /\ Turn(c) = turns[c][1]
        /\ ~Turn(c).stopped /\ Turn(c).pc = "drain" /\ Turn(c).left > 0
    BY <1>1, <1>9 DEF Drain, Runs, Holds
  <2>3. Len(mail[c]) > 0 /\ Len(mail'[c]) = Len(mail[c]) - 1
    BY <1>9, DrainIs
  <2>4. ~t.stopped /\ t.pc = "drain" /\ t.left = Turn(c).left - 1
    BY <2>2 DEF Turns
  <2> HIDE DEF t
  <2>5. CASE WillLook(c, turns[c][1])
    <3>1. Turn(c).left = Len(mail[c])
      BY <2>2, <2>5 DEF WillLook
    <3>2. 1 \in 1..Len(turns'[c]) /\ turns'[c][1] = t
      BY <1>0, <2>1, Domains DEF HeadNow
    <3>3. Looks(c)'
      BY <2>3, <2>4, <3>1, <3>2 DEF Looks, WillLook
    <3> QED BY <1>2, <3>3
  <2>6. CASE ~WillLook(c, turns[c][1])
    <3>1. Looks(c) => Looks(c)'
      BY <1>0, <2>1, <2>6, BehindLooks
    <3>2. mail[c] # <<>>
      BY <2>3
    <3>3. UNCHANGED <<agent, pausedConvs, question, waking, answering>>
      BY <1>9 DEF Drain, tasks
    <3> QED BY <1>0, <1>2, <3>1, <3>2, <3>3, AttendedByIndex DEF Admits, Waits
  <2> QED BY <2>5, <2>6
<1>10. CASE Drained(c)
  <2>1. HeadGone(c) \/ \E t : HeadNow(c, t)
    BY <1>0, <1>10, TurnsMove
  <2>2. /\ Turn(c) = turns[c][1] /\ Turn(c).pc = "drain" /\ Turn(c).left = 0 /\ Holds(c, "drain")
    BY <1>1, <1>10 DEF Drained, Runs, Holds
  <2>3. UNCHANGED <<agent, pausedConvs, question, mail, waking, answering, restarts>>
    BY <1>10 DEF Drained, dbs, bounds
  <2>4. CASE WillLook(c, turns[c][1])
    <3>1. Len(mail[c]) = 0
      BY <2>2, <2>4 DEF WillLook
    <3>2. mail'[c] = <<>>
      BY <1>0, <2>3, <3>1 DEF MailOK
    <3>3. ~Answered(c)'
      BY <1>0, <2>2, <2>3 DEF HeadFits, Answered
    <3> QED BY <1>0, <3>2, <3>3, AttendedByIndex
  <2>5. CASE ~WillLook(c, turns[c][1])
    BY <1>4, <2>1, <2>3, <2>5 DEF Same, Admits
  <2> QED BY <2>4, <2>5
<1>11. CASE Reply(c) \/ CallTool(c)
  <2>1. HeadGone(c) \/ \E t : HeadNow(c, t)
    BY <1>0, <1>11, TurnsMove
  <2>2. ~WillLook(c, turns[c][1])
    BY <1>1, <1>11 DEF Reply, CallTool, Runs, Holds, WillLook
  <2>3. Same(c)
    BY <1>11 DEF Reply, CallTool, tasks, bounds, Same, Admits
  <2> QED BY <1>4, <2>1, <2>2, <2>3
<1>12. CASE SaveResults(c)
  <2>1. HeadGone(c) \/ \E t : HeadNow(c, t)
    BY <1>0, <1>12, TurnsMove
  <2>2. ~WillLook(c, turns[c][1])
    BY <1>1, <1>12 DEF SaveResults, Runs, Holds, WillLook
  <2>3. Same(c)
    BY <1>12 DEF SaveResults, bounds, Same, Admits
  <2> QED BY <1>4, <2>1, <2>2, <2>3
<1> QED BY <1>5, <1>6, <1>7, <1>8, <1>9, <1>10, <1>11, <1>12 DEF Body

\* A turn that runs a tool would not look before it has run.
LEMMA ToolLooks ==
  ASSUME AskInv, NEW c \in Convs, Attended(c), Runs(c, "tool"), RanTool(c), Same(c), TurnsOK'
  PROVE  Attended(c)'
<1>0. TurnsOK /\ HeadFits(c)
  BY DEF AskInv, MailTypeOK, TurnsOK
<1>1. turns[c][1].pc = "tool"
  BY <1>0, HeadIsFirst DEF Runs, Holds
<1>2. ~WillLook(c, turns[c][1])
  BY <1>1 DEF WillLook
<1> QED BY <1>0, <1>2, BehindLooks, SameAttended DEF RanTool

\* The tools: whoever is written to is woken, and whoever asks waits.
LEMMA ToolAttended ==
  ASSUME AskInv, \A c \in Convs : Attended(c), TurnsOK', NEW d \in Convs,
         (\E c \in Convs : Tool(c)) \/ ChildTool \/ RootTool
  PROVE  Attended(d)'
<1>0. /\ TurnsOK /\ QuestionTypes /\ waking \in [Convs -> Nat] /\ asked + 1 # 0
      /\ "root" \in Convs /\ "child" \in Convs /\ Convs = {"root", "child"}
      /\ mail \in [Convs -> Seq(Row)]
  <2>1. MailTypeOK /\ asked \in Nat
    BY DEF AskInv, MailTypeOK
  <2>2. asked + 1 # 0
    BY <2>1
  <2> QED BY <2>1, <2>2 DEF MailTypeOK, TurnsOK, QuestionTypes, Convs, Row
<1>1. \A c \in Convs : waking' = Woken(c) => waking'[c] > 0 /\ \A e \in Convs : e # c => waking'[e] = waking[e]
  BY <1>0 DEF Woken
<1>2. \A c \in Convs : waking'[c] > 0 \/ Waits(c)' \/ c \in pausedConvs' => Attended(c)'
  BY <1>0, AttendedByIndex
<1>3. \A c \in Convs : \A of : AskRow(c, of) => Waits(c)' /\ \A e \in Convs : e # c => question'[e] = question[e]
  BY <1>0 DEF AskRow, Waits, QuestionTypes
<1>4. \A c \in Convs : Runs(c, "tool") /\ RanTool(c) /\ Same(c) => Attended(c)'
  BY ToolLooks
<1>5. \A c, e \in Convs : Changed(c) /\ e # c /\ Same(e) => Attended(e)'
  BY <1>0, LeftAlone DEF Changed, Only
<1>6. ASSUME NEW c \in Convs, OtherTool(c)
      PROVE  Attended(d)'
  <2>1. Changed(c) /\ RanTool(c) /\ Runs(c, "tool") /\ Same(d)
    BY <1>0, <1>6, TurnsRun DEF OtherTool, dbs, tasks, bounds, Same, Admits
  <2> QED BY <1>4, <1>5, <2>1
<1>7. ASSUME NEW c \in Convs, AskUser(c)
      PROVE  Attended(d)'
  <2>1. Changed(c) /\ AskRow(c, "user")
    BY <1>0, <1>7, TurnsRun DEF AskUser
  <2>2. d # c => Same(d)
    BY <1>3, <1>7, <2>1 DEF AskUser, tasks, bounds, Same, Admits
  <2> QED BY <1>2, <1>3, <1>5, <2>1, <2>2
<1>8. CASE AskParent
  <2>1. waking' = Woken("root") /\ AskRow("child", "parent")
    BY <1>8 DEF AskParent
  <2> QED BY <1>0, <1>1, <1>2, <1>3, <2>1
<1>9. CASE MessageParent \/ Finish
  <2>1. /\ waking' = Woken("root") /\ Runs("child", "tool") /\ RanTool("child")
        /\ mail' = Queued("root", "row", 0) /\ UNCHANGED <<pausedConvs, question, answering, restarts>>
        /\ agent' = agent \/ agent = "active"
    BY <1>0, <1>9, TurnsRun DEF ChildTool, MessageParent, Finish, bounds
  <2>2. waking'["child"] = waking["child"] /\ mail'["child"] = mail["child"]
    BY <1>0, <1>1, <2>1 DEF Queued
  <2>3. Same("child")
    BY <2>1, <2>2 DEF Same, Admits
  <2> QED BY <1>0, <1>1, <1>2, <1>4, <2>1, <2>3
<1>10. CASE MessageChild
  <2>1. /\ waking' = Woken("child") /\ Runs("root", "tool") /\ RanTool("root")
        /\ UNCHANGED <<pausedConvs, answering, restarts>>
    BY <1>0, <1>10, TurnsRun DEF MessageChild, bounds
  <2>2. /\ mail' = mail \/ mail' = Queued("child", "row", 0)
        /\ question' = question \/ question' = [question EXCEPT !["child"].answered = TRUE]
    BY <1>10 DEF MessageChild
  <2>3. waking'["root"] = waking["root"] /\ mail'["root"] = mail["root"] /\ question'["root"] = question["root"]
    BY <1>0, <1>1, <2>1, <2>2 DEF Queued, QuestionTypes
  <2>4. Same("root")
    BY <2>1, <2>3 DEF Same, Admits
  <2> QED BY <1>0, <1>1, <1>2, <1>4, <2>1, <2>4
<1>11. CASE StopAgent
  <2>1. Runs("root", "tool") /\ RanTool("root") /\ "child" \in pausedConvs'
    BY <1>0, <1>11, TurnsRun DEF StopAgent, RanTool
  <2>2. Same("root")
    BY <1>11 DEF StopAgent, tasks, bounds, Same, Admits
  <2> QED BY <1>0, <1>2, <1>4, <2>1, <2>2
<1> QED BY <1>6, <1>7, <1>8, <1>9, <1>10, <1>11 DEF Tool, ChildTool, RootTool

\* Every step leaves both attended.
LEMMA AttendedStep ==
  ASSUME ReadInv, [MailNext]_mvars, NEW d \in Convs
  PROVE  Attended(d)'
<1>0. /\ AskInv /\ TurnsOK /\ TurnsOK' /\ QuestionTypes
      /\ waking \in [Convs -> Nat] /\ answering \in [Convs -> Nat] /\ restarts \in Nat
      /\ agent \in {"active", "finished", "stopped"}
      /\ "root" \in Convs /\ "child" \in Convs /\ Convs = {"root", "child"}
      /\ mail \in [Convs -> Seq(Row)]
      /\ \A c \in Convs : StopsFit(c) /\ Attended(c)
  <2>1. AskInv /\ MailTypeOK
    BY DEF ReadInv, AskInv
  <2>2. TurnsOK'
    BY <2>1, TurnsTyped
  <2>3. \A c \in Convs : StopsFit(c) /\ Attended(c)
    BY DEF ReadInv
  <2> QED BY <2>1, <2>2, <2>3, MailAssumption DEF MailTypeOK, TurnsOK, QuestionTypes, Convs, Row
<1>l. \A c \in Convs : Len(mail[c]) \in Nat
  BY <1>0
<1>1. waking'[d] > 0 \/ answering'[d] > 0 \/ d \in pausedConvs' \/ ~Admits(d)' \/ Looks(d)' => Attended(d)'
  BY <1>0, AttendedByIndex
<1>2. Same(d) /\ turns'[d] = turns[d] => Attended(d)'
  BY <1>0, LeftAlone
<1>3. \A c \in Convs : Changed(c) /\ d # c => turns'[d] = turns[d]
  BY DEF Changed, Only
<1>4. \A k \in TurnKinds : OneMore(d, k) => Attended(d)'
  BY <1>0, <1>1, NewLooks
<1>k. "user" \in TurnKinds /\ "deliver" \in TurnKinds /\ "answer" \in TurnKinds /\ "wake" \in TurnKinds
  BY DEF TurnKinds
<1>5. ASSUME NEW c \in Convs, Send(c)
      PROVE  Attended(d)'
  <2>1. Changed(c) /\ OneMore(c, "user")
    BY <1>0, <1>5, TurnsJoin
  <2>2. d # c => Same(d)
    BY <1>0, <1>5 DEF Send, tasks, Same, Admits
  <2> QED BY <1>2, <1>3, <1>4, <1>k, <2>1, <2>2
<1>6. ASSUME NEW c \in Convs, Deliver(c)
      PROVE  Attended(d)'
  <2>1. (Changed(c) /\ OneMore(c, "deliver")) \/ turns' = turns
    BY <1>0, <1>6, TurnsJoin
  <2>2. Same(d)
    BY <1>6 DEF Deliver, tasks, Same, Admits
  <2> QED BY <1>2, <1>3, <1>4, <1>k, <2>1, <2>2
<1>7. ASSUME NEW c \in Convs, Answer(c)
      PROVE  Attended(d)'
  <2>1. turns' = turns /\ answering' = [answering EXCEPT ![c] = @ + 1]
    BY <1>7 DEF Answer
  <2>2. d = c => answering'[d] > 0
    BY <1>0, <2>1
  <2>3. d # c => Same(d)
    BY <1>0, <1>7 DEF Answer, Same, Admits, QuestionTypes
  <2> QED BY <1>1, <1>2, <2>1, <2>2, <2>3
<1>8. ASSUME NEW c \in Convs, UserStop(c)
      PROVE  Attended(d)'
  <2>1. Changed(c) /\ c \in pausedConvs'
    BY <1>0, <1>8, TurnsJoin DEF UserStop
  <2>2. Same(d)
    BY <1>8 DEF UserStop, Same, Admits
  <2> QED BY <1>1, <1>2, <1>3, <2>1, <2>2
<1>9. ASSUME NEW c \in Convs, Wake(c)
      PROVE  Attended(d)'
  <2>0. UNCHANGED <<agent, pausedConvs, question, mail, answering, restarts>> /\ waking' = [waking EXCEPT ![c] = @ - 1]
    BY <1>9 DEF Wake, dbs, bounds
  <2>1. CASE d # c
    <3>1. turns'[d] = turns[d]
      BY <1>0, <1>3, <1>9, <2>1, TurnsJoin
    <3>2. Same(d)
      BY <1>0, <2>0, <2>1 DEF Same, Admits
    <3> QED BY <1>2, <3>1, <3>2
  <2>2. CASE d = c /\ OneMore(c, "wake")
    BY <1>4, <1>k, <2>2
  <2>3. CASE d = c /\ (~Admits(c) \/ c \in pausedConvs)
    BY <1>1, <2>0, <2>3 DEF Admits
  <2>4. CASE d = c /\ mail[c] = <<>> /\ ~Answered(c)
    <3>1. mail'[d] = <<>> /\ ~Answered(d)'
      BY <2>0, <2>4 DEF Answered
    <3> QED BY <1>0, <3>1, AttendedByIndex
  <2> QED BY <1>0, <1>9, <2>1, <2>2, <2>3, <2>4, TurnsJoin
<1>10. ASSUME NEW c \in Convs, AnswerAdmitted(c)
       PROVE  Attended(d)'
  <2>0. /\ UNCHANGED <<agent, question, mail, waking, restarts>> /\ pausedConvs' = pausedConvs \ {c}
        /\ answering' = [answering EXCEPT ![c] = @ - 1]
    BY <1>10 DEF AnswerAdmitted, bounds
  <2>1. CASE d # c
    <3>1. turns'[d] = turns[d]
      BY <1>0, <1>3, <1>10, <2>1, TurnsJoin
    <3>2. Same(d)
      BY <1>0, <2>0, <2>1 DEF Same, Admits
    <3> QED BY <1>2, <3>1, <3>2
  <2>2. CASE d = c /\ OneMore(c, "answer")
    BY <1>4, <1>k, <2>2
  <2>3. CASE d = c /\ ~Admits(c)
    BY <1>1, <2>0, <2>3 DEF Admits
  <2> QED BY <1>0, <1>10, <2>1, <2>2, <2>3, TurnsJoin
<1>11. ASSUME NEW c \in Convs, Body(c)
       PROVE  Attended(d)'
  <2>1. CASE d = c
    BY <1>0, <1>11, <2>1, BodyAttended
  <2>2. CASE d # c
    <3>1. turns'[d] = turns[d]
      BY <1>0, <1>3, <1>11, <2>2, BodyFlows DEF AskInv
    <3>2. mail'[d] = mail[d]
      <4>1. CASE Drain(c)
        BY <1>0, <2>2, <4>1, DrainIs
      <4>2. CASE ~Drain(c)
        BY <1>11, <4>2 DEF Body, Begin, EndQueued, EndStopped, TakeAnswer, Look, Drained, Reply, CallTool,
           SaveResults, dbs
      <4> QED BY <4>1, <4>2
    <3>3. question'[d] = question[d]
      BY <1>0, <1>11, <2>2 DEF Body, Begin, EndQueued, EndStopped, TakeAnswer, Look, Drain, Drained, Reply,
         CallTool, SaveResults, SaveTurnMessage, TakeResult, QuestionTypes, dbs
    <3>4. /\ UNCHANGED <<pausedConvs, waking, answering, restarts>>
          /\ agent' = agent \/ c = "child"
      BY <1>11 DEF Body, Begin, EndQueued, EndStopped, TakeAnswer, Look, Drain, Drained, Reply,
         CallTool, SaveResults, dbs, tasks, bounds
    <3>5. Same(d)
      BY <2>2, <3>2, <3>3, <3>4 DEF Same, Admits
    <3> QED BY <1>2, <3>1, <3>5
  <2> QED BY <2>1, <2>2
<1>12. CASE (\E c \in Convs : Tool(c)) \/ ChildTool \/ RootTool
  BY <1>0, <1>12, ToolAttended
<1>13. CASE TellStopped \/ AfterTell
  <2>1. /\ turns' = turns /\ waking' = Woken("root") /\ mail' = Queued("root", "row", 0)
        /\ UNCHANGED <<agent, pausedConvs, question, answering, restarts>>
    BY <1>13 DEF TellStopped, AfterTell, bounds
  <2>2. waking'["root"] > 0
    BY <1>0, <2>1 DEF Woken
  <2>3. d # "root" => Same(d)
    BY <1>0, <2>1 DEF Same, Admits, Woken, Queued
  <2> QED BY <1>1, <1>2, <2>1, <2>2, <2>3
<1>14. CASE AfterCheck \/ UNCHANGED mvars
  <2>1. turns' = turns /\ Same(d)
    BY <1>14 DEF AfterCheck, mvars, dbs, tasks, bounds, Same, Admits
  <2> QED BY <1>2, <2>1
<1>15. CASE MailRestart
  <2>1. /\ UNCHANGED <<agent, pausedConvs, question>> /\ restarts' = restarts + 1
        /\ waking' = SweepWakes(mail')
    BY <1>15 DEF MailRestart
  <2>2. CASE d \notin pausedConvs /\ Admits(d) /\ (mail'[d] # <<>> \/ (d = "child" /\ Answered(d)))
    <3>1. waking'[d] = 1
      BY <2>1, <2>2 DEF SweepWakes
    <3> QED BY <1>1, <3>1
  <2>3. CASE d \in pausedConvs \/ ~Admits(d)
    BY <1>1, <2>1, <2>3 DEF Admits
  <2>4. CASE mail'[d] = <<>> /\ ~(d = "child" /\ Answered(d))
    <3>1. Answered(d)' => d = "root" /\ restarts' > 0
      BY <1>0, <2>1, <2>4 DEF Answered
    <3> QED BY <1>0, <2>4, <3>1, AttendedByIndex
  <2> QED BY <2>2, <2>3, <2>4
<1> QED BY <1>5, <1>6, <1>7, <1>8, <1>9, <1>10, <1>11, <1>12, <1>13, <1>14, <1>15 DEF MailNext, User

\* ReadInv is inductive.
LEMMA ReadStep ==
  ASSUME ReadInv, [MailNext]_mvars
  PROVE  ReadInv'
<1>1. AskInv /\ MailTypeOK /\ \A c \in Convs : StopsFit(c)
  BY DEF ReadInv, AskInv
<1>2. AskInv' /\ \A c \in Convs : StopsFit(c)' /\ Attended(c)'
  BY <1>1, AskStep, StopsStep, AttendedStep
<1> QED BY <1>2 DEF ReadInv

\* ReadInv holds at the start.
LEMMA ReadInit == MailInit => ReadInv
<1> SUFFICES ASSUME MailInit PROVE ReadInv
  OBVIOUS
<1>1. AskInv /\ \A c \in Convs : turns[c] = <<>> /\ question[c] = NoRow
  BY AskInit DEF MailInit
<1>2. \A c \in Convs : StopsFit(c)
  BY <1>1 DEF MailInit, StopsFit, AnyRuns, AnyStopped
<1>3. \A c \in Convs : Attended(c)
  BY <1>1 DEF MailInit, Attended, Answered, NoRow
<1> QED BY <1>1, <1>2, <1>3 DEF ReadInv

\* NothingStranded follows: a conversation at rest has neither a task to
\* start a turn nor a turn to look.
LEMMA ReadImplies == ReadInv => NothingStranded
<1> SUFFICES ASSUME ReadInv, NEW c \in Convs, Resting(c)
             PROVE  \/ c \in pausedConvs \/ ~Admits(c) \/ Waits(c)
                    \/ /\ mail[c] = <<>>
                       /\ Answered(c) => (c = "root" /\ restarts > 0)
  BY DEF NothingStranded
<1>1. Attended(c)
  BY DEF ReadInv
<1>2. DOMAIN turns[c] = {} /\ ~(waking[c] > 0) /\ ~(answering[c] > 0)
  BY DEF Resting
<1> QED BY <1>1, <1>2 DEF Attended

-----------------------------------------------------------------------------
(* What the child owes its parent.                                         *)

\* The parts of TellInv, by index.
Says == \E i \in 1..Len(turns["child"]) : WillSay(turns["child"][i])
SavesAs(t) == IF t.pc = "queued" THEN ~t.saved ELSE HasMessage(t.kind) => t.saved
SavedTurns == \A i \in 1..Len(turns["child"]) : SavesAs(turns["child"][i])

Tell ==
  /\ SavedTurns
  /\ agent = "finished" => ~owes
  /\ (Owed /\ ("child" \in pausedConvs \/ SomeStopped("child"))) =>
       telling > 0 \/ Answered("child") \/ Says
  /\ (Owed /\ ~Waits("child") /\ "child" \notin pausedConvs) =>
       telling > 0 \/ ending.check > 0 \/ ending.tell > 0 \/ Answered("child") \/ Says

\* `Tell` is those parts, before and after a step.
LEMMA TellByIndex ==
  ASSUME TurnsOK, TurnsOK'
  PROVE  /\ SavedFit /\ HaltedTold /\ RunningTold <=> Tell
         /\ (SavedFit /\ HaltedTold /\ RunningTold)' <=> Tell'
<1>0. "child" \in Convs
  BY DEF Convs
<1>1. DOMAIN turns["child"] = 1..Len(turns["child"]) /\ DOMAIN turns'["child"] = 1..Len(turns'["child"])
  BY <1>0, Domains
<1>2. AnySays <=> Says
  BY <1>1 DEF AnySays, Says
<1>3. AnySays' <=> Says'
  BY <1>1 DEF AnySays, Says
<1>4. AnyStopped("child") <=> SomeStopped("child")
  BY <1>1 DEF AnyStopped, SomeStopped
<1>5. AnyStopped("child")' <=> SomeStopped("child")'
  BY <1>1 DEF AnyStopped, SomeStopped
<1>6. SavedFit <=> (SavedTurns /\ (agent = "finished" => ~owes))
  BY <1>1 DEF SavedFit, SavedTurns, SavesAs
<1>7. SavedFit' <=> (SavedTurns /\ (agent = "finished" => ~owes))'
  BY <1>1 DEF SavedFit, SavedTurns, SavesAs
<1>8. SavedFit /\ HaltedTold /\ RunningTold <=> Tell
  BY <1>2, <1>4, <1>6 DEF HaltedTold, RunningTold, Tell
<1>9. (SavedFit /\ HaltedTold /\ RunningTold)' <=> Tell'
  BY <1>3, <1>5, <1>7 DEF HaltedTold, RunningTold, Tell
<1> QED BY <1>8, <1>9

\* What the moves of the child's queue do to these.
LEMMA SaysMoves ==
  ASSUME TurnsOK, TurnsOK', SavedTurns
  PROVE  /\ HeadGone("child") =>
              /\ SavedTurns' /\ (SomeStopped("child")' => SomeStopped("child"))
              /\ Says => Says' \/ WillSay(turns["child"][1])
         /\ \A t : HeadNow("child", t) /\ SavesAs(t) =>
              /\ SavedTurns' /\ (WillSay(t) => Says')
              /\ Says => Says' \/ WillSay(turns["child"][1])
              /\ t.stopped = turns["child"][1].stopped => (SomeStopped("child")' => SomeStopped("child"))
         /\ \A k \in TurnKinds : OneMore("child", k) =>
              /\ SavedTurns' /\ (SomeStopped("child")' => SomeStopped("child"))
              /\ Says => Says'
              /\ HasMessage(k) => Says'
         /\ AllStopped("child") => SavedTurns'
<1>0. /\ Len(turns["child"]) \in Nat /\ Len(turns'["child"]) \in Nat
      /\ \A i \in 1..Len(turns["child"]) : turns["child"][i] \in Turns
  BY Domains DEF Convs
<1>1. ASSUME HeadGone("child")
      PROVE  /\ SavedTurns' /\ (SomeStopped("child")' => SomeStopped("child"))
             /\ Says => Says' \/ WillSay(turns["child"][1])
  <2>1. \A i \in 1..Len(turns'["child"]) : i + 1 \in 1..Len(turns["child"]) /\ turns'["child"][i] = turns["child"][i + 1]
    BY <1>0, <1>1 DEF HeadGone
  <2>2. \A i \in 1..Len(turns["child"]) :
          i = 1 \/ (i - 1 \in 1..Len(turns'["child"]) /\ turns'["child"][i - 1] = turns["child"][i])
    BY <1>0, <1>1 DEF HeadGone
  <2>3. SavedTurns'
    BY <2>1 DEF SavedTurns
  <2>4. SomeStopped("child")' => SomeStopped("child")
    BY <2>1 DEF SomeStopped
  <2>5. Says => Says' \/ WillSay(turns["child"][1])
    BY <2>2 DEF Says
  <2> QED BY <2>3, <2>4, <2>5
<1>2. ASSUME NEW t, HeadNow("child", t), SavesAs(t)
      PROVE  /\ SavedTurns' /\ (WillSay(t) => Says')
             /\ Says => Says' \/ WillSay(turns["child"][1])
             /\ t.stopped = turns["child"][1].stopped => (SomeStopped("child")' => SomeStopped("child"))
  <2>1. /\ Len(turns'["child"]) = Len(turns["child"])
        /\ 1 \in 1..Len(turns["child"]) /\ turns'["child"][1] = t
        /\ \A i \in 1..Len(turns["child"]) : i = 1 \/ turns'["child"][i] = turns["child"][i]
    BY <1>0, <1>2 DEF HeadNow
  <2>2. SavedTurns'
    BY <1>2, <2>1 DEF SavedTurns
  <2>3. WillSay(t) => Says'
    BY <2>1 DEF Says
  <2>4. Says => Says' \/ WillSay(turns["child"][1])
    BY <2>1 DEF Says
  <2>5. t.stopped = turns["child"][1].stopped => (SomeStopped("child")' => SomeStopped("child"))
    BY <2>1 DEF SomeStopped
  <2> QED BY <2>2, <2>3, <2>4, <2>5
<1>3. ASSUME NEW k \in TurnKinds, OneMore("child", k)
      PROVE  /\ SavedTurns' /\ (SomeStopped("child")' => SomeStopped("child"))
             /\ Says => Says'
             /\ HasMessage(k) => Says'
  <2>1. /\ \A i \in 1..Len(turns'["child"]) :
             \/ i = Len(turns["child"]) + 1
             \/ i \in 1..Len(turns["child"]) /\ turns'["child"][i] = turns["child"][i]
        /\ Len(turns["child"]) + 1 \in 1..Len(turns'["child"])
        /\ turns'["child"][Len(turns["child"]) + 1] = NewTurn(k)
        /\ \A i \in 1..Len(turns["child"]) : i \in 1..Len(turns'["child"]) /\ turns'["child"][i] = turns["child"][i]
    BY <1>0, <1>3 DEF OneMore
  <2>2. SavesAs(NewTurn(k)) /\ ~NewTurn(k).stopped /\ (HasMessage(k) => WillSay(NewTurn(k)))
    BY DEF NewTurn, SavesAs, WillSay
  <2>3. SavedTurns'
    BY <2>1, <2>2 DEF SavedTurns
  <2>4. SomeStopped("child")' => SomeStopped("child")
    BY <2>1, <2>2 DEF SomeStopped
  <2>5. Says => Says'
    BY <2>1 DEF Says
  <2>6. HasMessage(k) => Says'
    BY <2>1, <2>2 DEF Says
  <2> QED BY <2>3, <2>4, <2>5, <2>6
<1>4. ASSUME AllStopped("child")
      PROVE  SavedTurns'
  <2> SUFFICES ASSUME NEW i \in 1..Len(turns'["child"]) PROVE SavesAs(turns'["child"][i])
    BY DEF SavedTurns
  <2>1. turns["child"][i] \in Turns /\ turns'["child"][i] = [turns["child"][i] EXCEPT !.stopped = TRUE]
    BY <1>0, <1>4 DEF AllStopped
  <2>2. SavesAs(turns["child"][i])
    BY <1>4 DEF SavedTurns, AllStopped
  <2> QED BY <2>1, <2>2 DEF SavesAs, Turns
<1> QED BY <1>1, <1>2, <1>3, <1>4

\* What is owed, and what excuses it, stays, but for the queue.
TellRests ==
  /\ UNCHANGED <<agent, restarts, telling>>
  /\ (owes' => owes) /\ (hollow => hollow')
  /\ question'["child"] = question["child"]
  /\ "child" \in pausedConvs' <=> "child" \in pausedConvs
  /\ ending.check > 0 => ending'.check > 0
  /\ ending.tell > 0 => ending'.tell > 0

\* Then the parent is told as before, if who would say something still does,
LEMMA TellKept ==
  ASSUME Tell, TellRests, SavedTurns', Says => Says', SomeStopped("child")' => SomeStopped("child")
  PROVE  Tell'
BY DEF Tell, TellRests, Owed, Waits, Answered

\* as where the queue stays too.
LEMMA TellAlone ==
  ASSUME Tell, TellRests, turns'["child"] = turns["child"]
  PROVE  Tell'
<1>1. SavedTurns' /\ (Says => Says') /\ (SomeStopped("child")' => SomeStopped("child"))
  BY DEF Tell, SavedTurns, Says, SomeStopped
<1> QED BY <1>1, TellKept

\* Nothing is owed any more.
LEMMA TellSettled ==
  ASSUME SavedTurns', ~Owed', agent' = "finished" => ~owes'
  PROVE  Tell'
BY DEF Tell

\* Somebody will say something.
LEMMA TellSays ==
  ASSUME SavedTurns', agent' = "finished" => ~owes', Says' \/ Answered("child")' \/ telling' > 0
  PROVE  Tell'
BY DEF Tell

\* The end of the child's turn: one that has said something has its end
\* checked, or is not the last; one that has not leaves what was owed.
LEMMA TellEnds ==
  ASSUME MailTypeOK, TurnsOK', StopsFit("child"), Tell, Ends("child"), HeadGone("child"),
         ~turns["child"][1].stopped, turns["child"][1].pc # "queued",
         UNCHANGED <<agent, restarts, telling, pausedConvs>>, question'["child"] = question["child"]
  PROVE  Tell'
<1>0. TurnsOK /\ "child" \in Convs /\ ending \in [check : Nat, tell : Nat] /\ SavedTurns
  BY DEF MailTypeOK, TurnsOK, Convs, Tell
<1>1. /\ Turn("child") = turns["child"][1] /\ 1 \in 1..Len(turns["child"])
      /\ Len(turns["child"]) \in Nat /\ SavesAs(turns["child"][1])
  <2>1. 1 \in 1..Len(turns["child"]) /\ Len(turns["child"]) \in Nat /\ Turn("child") = turns["child"][1]
    BY <1>0, HeadIsFirst DEF HeadGone
  <2> QED BY <1>0, <2>1 DEF SavedTurns
<1>2. /\ SavedTurns' /\ (SomeStopped("child")' => SomeStopped("child"))
      /\ Says => Says' \/ WillSay(turns["child"][1])
  BY <1>0, SaysMoves
<1>3. CASE Turn("child").saved /\ Len(turns["child"]) = 1
  <2>1. ending'.check > 0 /\ agent' = "finished" => ~owes'
    BY <1>0, <1>3 DEF Ends, Tell
  <2>2. ending'.check > 0
    <3>1. ending' = [ending EXCEPT !.check = @ + 1]
      BY <1>3 DEF Ends
    <3> QED BY <1>0, <3>1
  <2>3. "child" \notin pausedConvs
    <3>1. SomeRuns("child")
      BY <1>1 DEF SomeRuns
    <3> QED BY <1>0, <3>1, StopsByIndex
  <2>4. ~SomeStopped("child")'
    BY <1>3, <1>0 DEF HeadGone, SomeStopped
  <2> QED BY <1>2, <2>1, <2>2, <2>3, <2>4 DEF Tell
<1>4. CASE Turn("child").saved /\ Len(turns["child"]) # 1
  <2>1. hollow' /\ (agent' = "finished" => ~owes')
    BY <1>4 DEF Ends, Tell
  <2> QED BY <1>2, <2>1, TellSettled DEF Owed
<1>5. CASE ~Turn("child").saved
  <2>1. ~WillSay(turns["child"][1])
    BY <1>1, <1>5 DEF SavesAs, WillSay
  <2>2. TellRests
    BY <1>5 DEF Ends, TellRests
  <2> QED BY <1>2, <2>1, <2>2, TellKept
<1> QED BY <1>3, <1>4, <1>5

\* The steps of the child's turn.
LEMMA TellBody ==
  ASSUME AskInv, TurnsOK', StopsFit("child"), Tell, Body("child")
  PROVE  Tell'
<1>0. /\ MailTypeOK /\ TurnsOK /\ "child" \in Convs /\ SavedTurns /\ QuestionTypes
      /\ Len(mail["child"]) \in Nat /\ (agent = "finished" => ~owes)
  <2>1. MailTypeOK /\ "child" \in Convs
    BY DEF AskInv, Convs
  <2>2. SavedTurns /\ (agent = "finished" => ~owes)
    BY DEF Tell
  <2>3. TurnsOK /\ QuestionTypes /\ Len(mail["child"]) \in Nat
    BY <2>1 DEF MailTypeOK, TurnsOK, QuestionTypes
  <2> QED BY <2>1, <2>2, <2>3
<1> DEFINE head == turns["child"][1]
<1>1. turns["child"] # <<>> => /\ Turn("child") = head /\ head \in Turns
                               /\ SavesAs(head) /\ 1 \in 1..Len(turns["child"])
  BY <1>0, HeadIsFirst DEF SavedTurns
<1>2. \A p : Holds("child", p) => turns["child"] # <<>>
  BY DEF Holds
<1>3. HeadGone("child") => /\ SavedTurns' /\ (SomeStopped("child")' => SomeStopped("child"))
                           /\ Says => Says' \/ WillSay(head)
  BY <1>0, SaysMoves
<1>4. \A t : HeadNow("child", t) /\ SavesAs(t) =>
         /\ SavedTurns' /\ (WillSay(t) => Says')
         /\ Says => Says' \/ WillSay(head)
         /\ t.stopped = head.stopped => (SomeStopped("child")' => SomeStopped("child"))
  BY <1>0, SaysMoves
<1>5. ASSUME NEW t, HeadNow("child", t), SavesAs(t), t.stopped = head.stopped,
             WillSay(head) => WillSay(t), TellRests
      PROVE  Tell'
  BY <1>4, <1>5, TellKept
<1> HIDE DEF head
<1>6. CASE Begin("child")
  <2> DEFINE b == Saves("child", Turn("child").kind)
             t == [Turn("child") EXCEPT !.pc = "top", !.own = b, !.saved = b]
  <2>1. HeadNow("child", t)
    BY <1>0, <1>6, TurnsMove
  <2>2. head \in Turns /\ Turn("child") = head /\ head.pc = "queued" /\ ~head.stopped /\ ~head.saved
    BY <1>1, <1>2, <1>6 DEF Begin, Runs, Holds, SavesAs
  <2>3. t.pc = "top" /\ t.saved = b /\ t.kind = head.kind /\ t.stopped = head.stopped
    BY <2>2 DEF Turns
  <2>4. HasMessage(head.kind) => b
    BY <2>2 DEF Saves
  <2>5. agent' = agent \/ (agent = "finished" /\ agent' = "active")
    BY <1>6 DEF Begin
  <2>6. UNCHANGED <<owes, hollow, restarts, telling, ending, pausedConvs>>
    BY <1>6 DEF Begin, tasks, bounds
  <2>7. ~Takes("child", Turn("child").kind) => question' = question
    BY <1>6 DEF Begin, SaveTurnMessage
  <2>8. Takes("child", Turn("child").kind) => b
    BY DEF Saves
  <2> HIDE DEF t, b
  <2>9. SavesAs(t) /\ (b => WillSay(t)) /\ (WillSay(head) => WillSay(t))
    BY <2>2, <2>3, <2>4 DEF SavesAs, WillSay
  <2>10. CASE b
    BY <1>0, <1>4, <2>1, <2>5, <2>6, <2>9, <2>10, TellSays
  <2>11. CASE ~b /\ agent' = agent
    BY <1>5, <2>1, <2>3, <2>6, <2>7, <2>8, <2>9, <2>11 DEF TellRests
  <2>12. CASE agent = "finished" /\ agent' = "active"
    <3>1. ~owes'
      BY <1>0, <2>6, <2>12
    <3> QED BY <1>4, <2>1, <2>9, <3>1, TellSettled DEF Owed
  <2> QED BY <2>5, <2>10, <2>11, <2>12
<1>7. CASE EndQueued("child") \/ EndStopped("child")
  <2>1. HeadGone("child") /\ turns["child"] # <<>> /\ head.stopped
    BY <1>0, <1>1, <1>2, <1>7, TurnsMove DEF EndQueued, EndStopped
  <2>2. SomeStopped("child") /\ ~WillSay(head)
    BY <1>1, <2>1 DEF SomeStopped, WillSay, head
  <2>3. /\ UNCHANGED <<agent, owes, restarts, telling, ending, pausedConvs>>
        /\ hollow => hollow'
        /\ question' = question \/ hollow' \/ ~Answered("child")
    <3>1. CASE EndStopped("child")
      BY <3>1 DEF EndStopped, history, tasks, bounds
    <3>2. CASE EndQueued("child")
      <4>1. UNCHANGED <<agent, owes, restarts, telling, ending, pausedConvs>>
        BY <3>2 DEF EndQueued, tasks, bounds
      <4>2. (hollow => hollow') /\ (HasMessage(Turn("child").kind) /\ Answered("child") => hollow')
        BY <3>2 DEF EndQueued
      <4>3. question' = question \/ HasMessage(Turn("child").kind)
        BY <3>2 DEF EndQueued
      <4> QED BY <4>1, <4>2, <4>3
    <3> QED BY <1>7, <3>1, <3>2
  <2>4. (Owed /\ ("child" \in pausedConvs \/ SomeStopped("child"))) =>
          telling > 0 \/ Answered("child") \/ Says
    BY DEF Tell
  <2> QED BY <1>0, <1>3, <2>1, <2>2, <2>3, <2>4 DEF Tell, Owed, Answered
<1>8. CASE TakeAnswer("child")
  <2> DEFINE b == Turn("child").saved \/ Answered("child")
             t == [Turn("child") EXCEPT !.pc = "look", !.saved = @ \/ Answered("child")]
  <2>1. HeadNow("child", t)
    BY <1>0, <1>8, TurnsMove
  <2>2. head \in Turns /\ Turn("child") = head /\ head.pc = "top" /\ ~head.stopped /\ SavesAs(head)
    BY <1>1, <1>2, <1>8 DEF TakeAnswer, Runs, Holds
  <2>3. t.pc = "look" /\ (t.saved <=> b) /\ t.kind = head.kind /\ t.stopped = head.stopped
    BY <2>2 DEF Turns
  <2>4. UNCHANGED <<agent, owes, hollow, restarts, telling, ending, pausedConvs>>
    BY <1>8 DEF TakeAnswer, tasks, bounds
  <2>5. ~Answered("child") => question' = question
    BY <1>8 DEF TakeAnswer
  <2> HIDE DEF t
  <2>6. SavesAs(t) /\ (b => WillSay(t)) /\ (WillSay(head) => WillSay(t))
    BY <2>2, <2>3 DEF SavesAs, WillSay
  <2>7. CASE Answered("child")
    BY <1>0, <1>4, <2>1, <2>4, <2>6, <2>7, TellSays
  <2>8. CASE ~Answered("child")
    BY <1>5, <2>1, <2>3, <2>4, <2>5, <2>6, <2>8 DEF TellRests
  <2> QED BY <2>7, <2>8
<1>e. ASSUME Ends("child"), HeadGone("child"), ~head.stopped, head.pc # "queued",
             UNCHANGED <<agent, restarts, telling, pausedConvs, question>>
      PROVE  Tell'
  BY <1>0, <1>e, TellEnds DEF head
<1>9. CASE Look("child")
  <2> DEFINE t == [Turn("child") EXCEPT !.pc = "drain", !.left = Len(mail["child"])]
             u == [Turn("child") EXCEPT !.pc = "top"]
  <2>1. head \in Turns /\ Turn("child") = head /\ head.pc = "look" /\ ~head.stopped /\ SavesAs(head)
    BY <1>1, <1>2, <1>9 DEF Look, Runs, Holds
  <2>2. UNCHANGED <<agent, restarts, telling, pausedConvs, question>>
    BY <1>9 DEF Look, dbs, bounds
  <2>3. /\ t.pc = "drain" /\ t.saved = head.saved /\ t.kind = head.kind /\ t.stopped = head.stopped
        /\ u.pc = "top" /\ u.saved = head.saved /\ u.kind = head.kind /\ u.stopped = head.stopped
    BY <2>1 DEF Turns
  <2>4. \/ UNCHANGED <<ending, owes, hollow>> /\ (HeadNow("child", t) \/ HeadNow("child", u))
        \/ Ends("child") /\ HeadGone("child")
    <3>1. CASE ListMail("child") /\ UNCHANGED <<ending, owes, hollow>>
      BY <1>0, <1>1, <1>2, <1>9, <3>1, BecomesIs, TurnSet DEF ListMail, Look, Runs, TurnPcs
    <3>2. CASE To("child", "top") /\ UNCHANGED <<ending, owes, hollow>>
      BY <1>0, <1>1, <1>2, <1>9, <3>2, BecomesIs, TurnSet DEF To, Look, Runs, TurnPcs
    <3>3. CASE Ends("child")
      BY <1>0, <1>2, <1>9, <3>3, LeavesIs DEF Ends, Look, Runs
    <3> QED BY <1>9, <3>1, <3>2, <3>3 DEF Look
  <2> HIDE DEF t, u
  <2>5. CASE UNCHANGED <<ending, owes, hollow>> /\ (HeadNow("child", t) \/ HeadNow("child", u))
    <3>1. TellRests /\ SavesAs(t) /\ SavesAs(u) /\ (WillSay(head) => WillSay(t) /\ WillSay(u))
      BY <2>1, <2>2, <2>3, <2>5 DEF TellRests, SavesAs, WillSay
    <3> QED BY <1>5, <2>3, <2>5, <3>1
  <2>6. CASE Ends("child") /\ HeadGone("child")
    BY <1>e, <2>1, <2>2, <2>6
  <2> QED BY <2>4, <2>5, <2>6
<1>10. CASE Drain("child")
  <2> DEFINE t == [Turn("child") EXCEPT !.left = @ - 1, !.saved = TRUE]
  <2>1. HeadNow("child", t)
    BY <1>0, <1>10, TurnsMove
  <2>2. head \in Turns /\ Turn("child") = head /\ head.pc = "drain" /\ ~head.stopped
    BY <1>1, <1>2, <1>10 DEF Drain, Runs, Holds
  <2>3. t.pc = "drain" /\ t.saved /\ ~t.stopped
    BY <2>2 DEF Turns
  <2> HIDE DEF t
  <2>4. SavesAs(t) /\ WillSay(t)
    BY <2>3 DEF SavesAs, WillSay
  <2>5. UNCHANGED <<agent, owes>>
    BY <1>10 DEF Drain, history
  <2> QED BY <1>0, <1>4, <2>1, <2>4, <2>5, TellSays
<1>11. CASE Drained("child") \/ Reply("child") \/ CallTool("child") \/ SaveResults("child")
  <2>1. /\ head \in Turns /\ Turn("child") = head /\ head.pc # "queued" /\ ~head.stopped /\ SavesAs(head)
        /\ turns["child"] # <<>>
    BY <1>1, <1>2, <1>11 DEF Drained, Reply, CallTool, SaveResults, Runs, Holds
  <2>2. UNCHANGED <<agent, restarts, telling, pausedConvs, question>>
    BY <1>11 DEF Drained, Reply, CallTool, SaveResults, dbs, bounds, tasks
  <2>3. ASSUME NEW p \in {"call", "tool", "top"}, To("child", p), UNCHANGED <<ending, owes, hollow>>
        PROVE  Tell'
    <3> DEFINE t == [Turn("child") EXCEPT !.pc = p]
    <3>1. p \in TurnPcs
      BY DEF TurnPcs
    <3>2. t \in Turns
      BY <2>1, <3>1, TurnSet
    <3>3. HeadNow("child", t)
      BY <1>0, <2>1, <2>3, <3>2, BecomesIs DEF To
    <3>4. t.pc = p /\ t.saved = head.saved /\ t.kind = head.kind /\ t.stopped = head.stopped
      BY <2>1 DEF Turns
    <3> HIDE DEF t
    <3>5. TellRests /\ SavesAs(t) /\ (WillSay(head) => WillSay(t))
      BY <2>1, <2>2, <2>3, <3>4 DEF TellRests, SavesAs, WillSay
    <3> QED BY <1>5, <3>3, <3>4, <3>5
  <2>4. CASE Ends("child")
    <3>1. HeadGone("child")
      BY <1>0, <2>1, <2>4, LeavesIs DEF Ends
    <3> QED BY <1>e, <2>1, <2>2, <2>4, <3>1
  <2>5. \/ Ends("child")
        \/ \E p \in {"call", "tool", "top"} : To("child", p) /\ UNCHANGED <<ending, owes, hollow>>
    BY <1>11 DEF Drained, Reply, CallTool, SaveResults, history, tasks
  <2> QED BY <2>3, <2>4, <2>5
<1> QED BY <1>6, <1>7, <1>8, <1>9, <1>10, <1>11 DEF Body

\* The tools: who asks has nothing answered yet, a report settles what is
\* owed, and a stopped agent is excused.
LEMMA TellTool ==
  ASSUME AskInv, TurnsOK', Tell,
         Tool("child") \/ ChildTool \/ RootTool
  PROVE  Tell'
<1>0. /\ MailTypeOK /\ TurnsOK /\ "child" \in Convs /\ "root" \in Convs /\ SavedTurns /\ QuestionTypes
      /\ HeadFits("child") /\ (agent = "finished" => ~owes)
  <2>1. MailTypeOK /\ "child" \in Convs /\ "root" \in Convs /\ HeadFits("child")
    BY DEF AskInv, Convs
  <2>2. SavedTurns /\ (agent = "finished" => ~owes)
    BY DEF Tell
  <2>3. TurnsOK /\ QuestionTypes
    BY <2>1 DEF MailTypeOK, TurnsOK, QuestionTypes
  <2> QED BY <2>1, <2>2, <2>3
<1> DEFINE head == turns["child"][1]
<1>1. ASSUME Runs("child", "tool"), RanTool("child")
      PROVE  /\ SavedTurns' /\ (Says => Says') /\ (SomeStopped("child")' => SomeStopped("child"))
             /\ question["child"].id = 0
  <2>1. PICK e \in BOOLEAN : HeadNow("child", After("child", e))
    BY <1>1 DEF RanTool
  <2>2. /\ head \in Turns /\ Turn("child") = head /\ head.pc = "tool" /\ SavesAs(head)
    BY <1>0, <1>1, HeadIsFirst DEF Runs, Holds, SavedTurns
  <2> DEFINE t == After("child", e)
  <2>3. t.pc = "results" /\ t.saved = head.saved /\ t.kind = head.kind /\ t.stopped = head.stopped
    BY <2>2 DEF After, Turns
  <2> HIDE DEF t
  <2>4. SavesAs(t) /\ (WillSay(head) => WillSay(t))
    BY <2>2, <2>3 DEF SavesAs, WillSay
  <2>5. /\ SavedTurns' /\ (WillSay(t) => Says')
        /\ Says => Says' \/ WillSay(head)
        /\ SomeStopped("child")' => SomeStopped("child")
    BY <1>0, <2>1, <2>3, <2>4, SaysMoves DEF t
  <2>6. question["child"].id = 0
    BY <1>0, <1>1 DEF HeadFits, Runs
  <2> QED BY <2>4, <2>5, <2>6
<1> HIDE DEF head
<1>2. ASSUME Runs("child", "tool"), RanTool("child"), \E of : AskRow("child", of),
             UNCHANGED <<agent, owes, hollow, restarts, telling, pausedConvs>>
      PROVE  Tell'
  <2>0. asked \in Nat
    BY <1>0 DEF MailTypeOK
  <2>1. Waits("child")' /\ ~Answered("child")
    BY <1>0, <1>1, <1>2, <2>0 DEF AskRow, Waits, Answered, QuestionTypes
  <2> QED BY <1>1, <1>2, <2>1 DEF Tell, Owed
<1>3. CASE OtherTool("child") \/ MessageParent
  <2>1. Runs("child", "tool") /\ RanTool("child")
    BY <1>0, <1>3, TurnsRun DEF OtherTool, MessageParent
  <2>2. UNCHANGED <<agent, owes, hollow, restarts, telling, ending, pausedConvs, question>>
    BY <1>3 DEF OtherTool, MessageParent, dbs, tasks, bounds, history
  <2>3. TellRests
    BY <2>2 DEF TellRests
  <2> QED BY <1>1, <2>1, <2>3, TellKept
<1>4. CASE AskUser("child") \/ AskParent
  <2>1. Runs("child", "tool") /\ RanTool("child")
    BY <1>0, <1>4, TurnsRun DEF AskUser, AskParent
  <2>2. \E of : AskRow("child", of)
    BY <1>4 DEF AskUser, AskParent
  <2>3. UNCHANGED <<agent, owes, hollow, restarts, telling, pausedConvs>>
    BY <1>4 DEF AskUser, AskParent, tasks, bounds
  <2> QED BY <1>2, <2>1, <2>2, <2>3
<1>5. CASE Finish
  <2>1. Runs("child", "tool") /\ RanTool("child") /\ owes' = FALSE
    BY <1>0, <1>5, TurnsRun DEF Finish
  <2> QED BY <1>1, <2>1, TellSettled DEF Owed
<1>6. CASE MessageChild
  <2>1. turns'["child"] = turns["child"]
    BY <1>0, <1>6, TurnsRun DEF Changed, Only
  <2>2. /\ UNCHANGED <<owes, hollow, restarts, telling, ending, pausedConvs>>
        /\ agent' = "active" /\ agent # "stopped"
    BY <1>6 DEF MessageChild, bounds
  <2>3. SavedTurns' /\ Says' = Says /\ SomeStopped("child")' = SomeStopped("child")
    BY <1>0, <2>1 DEF SavedTurns, Says, SomeStopped
  <2>4. question' = question \/ Answered("child")'
    BY <1>0, <1>6 DEF MessageChild, Answered, Waits, QuestionTypes
  <2>5. CASE agent = "active" /\ question' = question
    <3>1. TellRests
      BY <2>2, <2>5 DEF TellRests
    <3> QED BY <2>1, <3>1, TellAlone
  <2>6. CASE Answered("child")'
    <3>1. agent' = "finished" => ~owes'
      BY <2>2
    <3> QED BY <2>3, <2>6, <3>1, TellSays
  <2>7. CASE agent # "active"
    <3>1. agent = "finished"
      BY <1>0, <2>2, <2>7 DEF MailTypeOK
    <3>2. ~owes'
      BY <1>0, <2>2, <3>1
    <3> QED BY <2>3, <3>2, TellSettled DEF Owed
  <2> QED BY <2>4, <2>5, <2>6, <2>7
<1>7. CASE StopAgent
  <2>1. AllStopped("child") /\ agent' = "stopped"
    BY <1>0, <1>7, TurnsRun DEF StopAgent
  <2>2. SavedTurns'
    BY <1>0, <2>1, SaysMoves
  <2> QED BY <2>1, <2>2, TellSettled DEF Owed
<1> QED BY <1>3, <1>4, <1>5, <1>6, <1>7 DEF Tool, ChildTool, RootTool

\* Every step keeps what the child owes accounted for.
LEMMA TellStep ==
  ASSUME ReadInv, Tell, [MailNext]_mvars
  PROVE  Tell'
<1>0. /\ AskInv /\ MailTypeOK /\ TurnsOK /\ TurnsOK' /\ "child" \in Convs /\ "root" \in Convs
      /\ Convs = {"root", "child"} /\ SavedTurns /\ QuestionTypes
      /\ StopsFit("child") /\ (agent = "finished" => ~owes)
  <2>1. AskInv /\ MailTypeOK /\ StopsFit("child")
    BY DEF ReadInv, AskInv, Convs
  <2>2. SavedTurns /\ (agent = "finished" => ~owes)
    BY DEF Tell
  <2>3. TurnsOK'
    BY <2>1, TurnsTyped
  <2>4. TurnsOK /\ QuestionTypes
    BY <2>1 DEF MailTypeOK, TurnsOK, QuestionTypes
  <2> QED BY <2>1, <2>2, <2>3, <2>4 DEF Convs
<1>1. TellRests /\ turns'["child"] = turns["child"] => Tell'
  BY TellAlone
<1>k. "user" \in TurnKinds /\ "deliver" \in TurnKinds /\ "answer" \in TurnKinds /\ "wake" \in TurnKinds
  BY DEF TurnKinds
<1>2. \A k \in TurnKinds : OneMore("child", k) =>
        /\ SavedTurns' /\ (SomeStopped("child")' => SomeStopped("child"))
        /\ Says => Says'
        /\ HasMessage(k) => Says'
  BY <1>0, SaysMoves
<1>3. turns' = turns => /\ SavedTurns' /\ (SomeStopped("child")' => SomeStopped("child"))
                        /\ Says => Says'
  BY <1>0 DEF SavedTurns, Says, SomeStopped
<1>4. \A c \in Convs : Changed(c) /\ c # "child" => turns'["child"] = turns["child"]
  BY <1>0 DEF Changed, Only
<1>5. ASSUME User("root") \/ Wake("root") \/ AnswerAdmitted("root")
      PROVE  Tell'
  <2>1. turns'["child"] = turns["child"]
    BY <1>0, <1>4, <1>5, TurnsJoin DEF User, Answer
  <2>2. UNCHANGED <<agent, owes, hollow, restarts, ending>>
    BY <1>5 DEF User, Send, Deliver, Answer, UserStop, Wake, AnswerAdmitted, dbs, tasks, bounds, history
  <2>3. telling' = telling
    BY <1>5 DEF User, Send, Deliver, Answer, UserStop, Wake, AnswerAdmitted, tasks
  <2>4. question'["child"] = question["child"]
    BY <1>0, <1>5 DEF User, Send, Deliver, Answer, UserStop, Wake, AnswerAdmitted, dbs, QuestionTypes
  <2>5. "child" \in pausedConvs' <=> "child" \in pausedConvs
    BY <1>5 DEF User, Send, Deliver, Answer, UserStop, Wake, AnswerAdmitted, dbs
  <2>6. TellRests
    BY <2>2, <2>3, <2>4, <2>5 DEF TellRests
  <2> QED BY <1>1, <2>1, <2>6
<1>6. CASE Send("child")
  <2>1. OneMore("child", "user") /\ HasMessage("user") /\ agent' = "active"
    BY <1>0, <1>6, TurnsJoin DEF Send, HasMessage
  <2>2. SavedTurns' /\ Says'
    BY <1>2, <1>k, <2>1
  <2> QED BY <2>1, <2>2, TellSays
<1>7. CASE Deliver("child")
  <2>1. UNCHANGED <<agent, owes, hollow, restarts, ending, telling, question, pausedConvs>>
    BY <1>7 DEF Deliver, tasks, history
  <2>2. CASE turns' = turns
    <3>1. TellRests
      BY <2>1 DEF TellRests
    <3> QED BY <1>1, <2>2, <3>1
  <2>3. CASE OneMore("child", "deliver")
    <3>1. SavedTurns' /\ Says'
      BY <1>2, <1>k, <2>3 DEF HasMessage
    <3>2. agent' = "finished" => ~owes'
      BY <1>0, <2>1
    <3> QED BY <3>1, <3>2, TellSays
  <2> QED BY <1>0, <1>7, <2>2, <2>3, TurnsJoin
<1>8. CASE Answer("child")
  <2>1. turns' = turns /\ Answered("child")' /\ agent' = "active"
    BY <1>0, <1>8 DEF Answer, Answered, Waits, QuestionTypes
  <2> QED BY <1>3, <2>1, TellSays
<1>9. CASE UserStop("child")
  <2>1. AllStopped("child") /\ "child" \in pausedConvs'
    BY <1>0, <1>9, TurnsJoin DEF UserStop
  <2>2. SavedTurns'
    BY <1>0, <2>1, SaysMoves
  <2>3. UNCHANGED <<agent, owes, hollow, restarts, question>>
    BY <1>9 DEF UserStop, history
  <2>4. CASE agent = "active" /\ "child" \notin pausedConvs
    <3>1. telling' = telling + 1 /\ telling \in Nat
      BY <1>0, <1>9, <2>4 DEF UserStop, MailTypeOK
    <3>2. telling' > 0
      BY <3>1
    <3>3. agent' = "finished" => ~owes'
      BY <1>0, <2>3
    <3> QED BY <2>2, <3>2, <3>3, TellSays
  <2>5. CASE "child" \in pausedConvs
    <3>1. telling' = telling
      BY <1>9, <2>5 DEF UserStop
    <3>2. ~Says
      <4>1. ~SomeRuns("child")
        BY <1>0, <2>5, StopsByIndex
      <4> QED BY <4>1 DEF Says, WillSay, SomeRuns
    <3>3. Answered("child")' <=> Answered("child")
      BY <2>3 DEF Answered
    <3>4. Owed' => Owed
      BY <2>3 DEF Owed
    <3>5. /\ Owed => telling > 0 \/ Answered("child") \/ Says
          /\ agent = "finished" => ~owes
      BY <2>5 DEF Tell
    <3> QED BY <2>1, <2>2, <2>3, <3>1, <3>2, <3>3, <3>4, <3>5 DEF Tell
  <2>6. CASE agent # "active"
    <3>1. ~Owed' /\ (agent' = "finished" => ~owes')
      BY <1>0, <2>3, <2>6 DEF Owed
    <3> QED BY <2>2, <3>1, TellSettled
  <2> QED BY <2>4, <2>5, <2>6
<1>10. CASE Wake("child")
  <2>1. TellRests
    BY <1>10 DEF Wake, dbs, bounds, history, TellRests
  <2>2. turns' = turns \/ OneMore("child", "wake")
    BY <1>0, <1>10, TurnsJoin
  <2> QED BY <1>0, <1>2, <1>3, <1>k, <2>1, <2>2, TellKept
<1>11. CASE AnswerAdmitted("child")
  <2>1. /\ UNCHANGED <<agent, owes, hollow, restarts, ending, telling, question>>
        /\ "child" \notin pausedConvs'
    BY <1>11 DEF AnswerAdmitted, bounds, history
  <2>2. turns' = turns \/ OneMore("child", "answer")
    BY <1>0, <1>11, TurnsJoin
  <2>3. SavedTurns' /\ (SomeStopped("child")' => SomeStopped("child")) /\ (Says => Says')
    BY <1>2, <1>3, <1>k, <2>2
  <2> QED BY <2>1, <2>3 DEF Tell, Owed, Answered, Waits
<1>12. CASE Body("root")
  <2>1. turns'["child"] = turns["child"]
    BY <1>0, <1>4, <1>12, BodyFlows
  <2>2. agent' = agent /\ UNCHANGED <<restarts, telling, pausedConvs>>
    BY <1>12 DEF Body, Begin, EndQueued, EndStopped, TakeAnswer, Look, Drain, Drained, Reply, CallTool,
       SaveResults, dbs, tasks, bounds
  <2>3. question'["child"] = question["child"]
    BY <1>0, <1>12 DEF Body, Begin, EndQueued, EndStopped, TakeAnswer, Look, Drain, Drained, Reply, CallTool,
       SaveResults, SaveTurnMessage, TakeResult, dbs, QuestionTypes
  <2>4. Ends("root") => ending' = ending /\ (owes' => owes) /\ (hollow => hollow')
    BY DEF Ends
  <2>5. Ends("root") \/ (ending' = ending /\ (owes' => owes) /\ (hollow => hollow'))
    BY <1>12 DEF Body, Begin, EndQueued, EndStopped, TakeAnswer, Look, Drain, Drained, Reply, CallTool,
       SaveResults, tasks, history
  <2>6. TellRests
    BY <2>2, <2>3, <2>4, <2>5 DEF TellRests
  <2> QED BY <1>1, <2>1, <2>6
<1>13. CASE Tool("root")
  <2>1. turns'["child"] = turns["child"]
    BY <1>0, <1>4, <1>13, BodyFlows
  <2>2. question'["child"] = question["child"]
    BY <1>0, <1>13 DEF Tool, OtherTool, AskUser, AskRow, dbs, QuestionTypes
  <2>3. UNCHANGED <<agent, owes, hollow, restarts, telling, ending, pausedConvs>>
    BY <1>13 DEF Tool, OtherTool, AskUser, dbs, tasks, bounds, history
  <2>4. TellRests
    BY <2>2, <2>3 DEF TellRests
  <2> QED BY <1>1, <2>1, <2>4
<1>14. CASE TellStopped \/ AfterTell
  <2>1. turns' = turns /\ owes' = FALSE
    BY <1>14 DEF TellStopped, AfterTell
  <2> QED BY <1>3, <2>1, TellSettled DEF Owed
<1>15. CASE AfterCheck
  <2>1. turns' = turns /\ UNCHANGED <<agent, owes, hollow, restarts, telling, question, pausedConvs>>
    BY <1>15 DEF AfterCheck, dbs, bounds, history
  <2>2. CASE agent = "active" /\ ~Waits("child") /\ "child" \notin pausedConvs
    <3>1. ending'.tell > 0
      <4>1. ending' = [check |-> ending.check - 1, tell |-> ending.tell + 1] /\ ending.tell \in Nat
        BY <1>0, <1>15, <2>2 DEF AfterCheck, MailTypeOK
      <4> QED BY <4>1
    <3> QED BY <1>3, <2>1, <3>1 DEF Tell, Owed, Answered, Waits
  <2>3. CASE ~(agent = "active" /\ ~Waits("child") /\ "child" \notin pausedConvs)
    BY <1>3, <2>1, <2>3 DEF Tell, Owed, Answered, Waits
  <2> QED BY <2>2, <2>3
<1>16. CASE MailRestart
  <2>1. turns'["child"] = <<>> /\ UNCHANGED <<agent, owes>> /\ restarts' # 0
    BY <1>0, <1>16, MailAssumption DEF MailRestart, history, MailTypeOK
  <2>2. SavedTurns'
    BY <2>1 DEF SavedTurns
  <2> QED BY <1>0, <2>1, <2>2, TellSettled DEF Owed
<1>17. CASE UNCHANGED mvars
  <2>1. TellRests /\ turns' = turns
    BY <1>17 DEF mvars, dbs, tasks, bounds, history, TellRests
  <2> QED BY <1>1, <2>1
<1>18. CASE Body("child")
  BY <1>0, <1>18, TellBody
<1>19. CASE Tool("child") \/ ChildTool \/ RootTool
  BY <1>0, <1>19, TellTool
<1>20. ASSUME NEW c \in Convs, User(c) \/ Body(c) \/ Tool(c) \/ Wake(c) \/ AnswerAdmitted(c)
       PROVE  Tell'
  <2>1. CASE c = "root"
    BY <1>5, <1>12, <1>13, <1>20, <2>1
  <2>2. CASE c = "child"
    BY <1>6, <1>7, <1>8, <1>9, <1>10, <1>11, <1>18, <1>19, <1>20, <2>2 DEF User
  <2> QED BY <1>0, <2>1, <2>2
<1> QED BY <1>14, <1>15, <1>16, <1>17, <1>19, <1>20 DEF MailNext

\* TellInv is inductive.
LEMMA TellInvStep ==
  ASSUME TellInv, [MailNext]_mvars
  PROVE  TellInv'
<1>1. ReadInv /\ MailTypeOK
  BY DEF TellInv, ReadInv, AskInv
<1>2. TurnsOK /\ TurnsOK'
  <2>1. TurnsOK'
    BY <1>1, TurnsTyped
  <2> QED BY <1>1, <2>1 DEF MailTypeOK, TurnsOK
<1>3. Tell
  BY <1>2, TellByIndex DEF TellInv
<1>4. Tell' /\ ReadInv'
  BY <1>1, <1>3, ReadStep, TellStep
<1> QED BY <1>2, <1>4, TellByIndex DEF TellInv

\* TellInv holds at the start.
LEMMA TellInit == MailInit => TellInv
<1> SUFFICES ASSUME MailInit PROVE TellInv
  OBVIOUS
<1>1. ReadInv
  BY ReadInit
<1>2. SavedFit /\ ~Owed
  BY DEF MailInit, SavedFit, Owed, Convs
<1> QED BY <1>1, <1>2 DEF TellInv, HaltedTold, RunningTold

\* ParentTold follows: an answer untaken has its reader, so at rest nothing
\* is left that would tell the parent.
LEMMA TellImplies == TellInv => ParentTold
<1> SUFFICES ASSUME TellInv, Settled, ~hollow, restarts = 0, ~Told PROVE FALSE
  BY DEF ParentTold
<1>1. /\ owes /\ agent = "active" /\ ~Waits("child") /\ "child" \notin pausedConvs
      /\ telling = 0 /\ ending.check = 0 /\ ending.tell = 0
      /\ turns["child"] = <<>> /\ ~(waking["child"] > 0) /\ ~(answering["child"] > 0)
  BY DEF Told, Settled, Resting
<1>2. RunningTold /\ Attended("child")
  BY DEF TellInv, ReadInv, Convs
<1>3. ~AnySays
  BY <1>1 DEF AnySays
<1>4. Answered("child")
  BY <1>1, <1>2, <1>3 DEF RunningTold, Owed
<1>5. DOMAIN turns["child"] = {} /\ Admits("child")
  BY <1>1 DEF Admits
<1> QED BY <1>1, <1>2, <1>4, <1>5 DEF Attended

-----------------------------------------------------------------------------
(* The theorems about Mailbox.                                             *)

\* TellInv holds of every reachable state, and with it AskInv and ReadInv.
THEOREM MailInductive == MailSpec => []TellInv
<1>1. MailInit => TellInv
  BY TellInit
<1>2. TellInv /\ [MailNext]_mvars => TellInv'
  BY TellInvStep
<1> QED BY <1>1, <1>2, PTL DEF MailSpec

\* Every variable keeps its type (Mailbox's state).
THEOREM MailKeepsTypes == MailSpec => []MailTypeOK
<1>1. TellInv => MailTypeOK
  BY DEF TellInv, ReadInv, AskInv
<1> QED BY <1>1, MailInductive, PTL

\* Every question asked is in its row or has had its one result; the model is
\* not called while one of its own is open; the parent answers only what it
\* has read (create_message_taking_question, take_answer_or_wait).
THEOREM QuestionsAreAccounted == MailSpec => []QuestionAccounted
<1>1. TellInv => QuestionAccounted
  BY AskImplies DEF TellInv, ReadInv
<1> QED BY <1>1, MailInductive, PTL

\* At rest, what is queued to a conversation waits for the user or for an
\* answer, and an answer recorded has been taken (wake_conversation, the
\* drain, startup_sweep).
THEOREM NothingIsStranded == MailSpec => []NothingStranded
<1>1. TellInv => NothingStranded
  BY ReadImplies DEF TellInv
<1> QED BY <1>1, MailInductive, PTL

\* An active agent with nothing to wait for has told its parent its turn ended
\* (after_last_turn, user_stopped).
THEOREM ParentIsTold == MailSpec => []ParentTold
<1>1. TellInv => ParentTold
  BY TellImplies
<1> QED BY <1>1, MailInductive, PTL

=============================================================================
