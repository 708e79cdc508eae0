----------------------------- MODULE ExitProofs -----------------------------
(***************************************************************************)
(* What becomes of a command's exit, for any number of commands, shells    *)
(* and connections: the terminal reports it once, when the command is over *)
(* (Shells, by ShellInv), and it is then in one place until smelt has it   *)
(* (AgentLink, by LinkInv).                                                *)
(***************************************************************************)
EXTENDS AgentLink, WellFoundedInduction, FiniteSetTheorems, TLAPS

-----------------------------------------------------------------------------
(* The terminal.                                                           *)

\* A shell not yet made, and a new one, are shells.
LEMMA NewShellFits == NoShell \in ShellRecord /\ NewShell \in ShellRecord
<1>1. <<>> \in Seq(Jobs) /\ 0 \in Jobs \cup {0}
  OBVIOUS
<1> HIDE DEF Jobs
<1>2. NoShell \in ShellRecord
  BY <1>1 DEF NoShell, ShellRecord
<1>3. NewShell \in ShellRecord
  BY <1>2 DEF NewShell, ShellRecord
<1> QED BY <1>2, <1>3

\* The initial state is as ShellInv says.
LEMMA ShellInitHolds == ShellInit => ShellInv
<1> SUFFICES ASSUME ShellInit PROVE ShellInv
  OBVIOUS
<1> USE ShellsAssumption DEF Jobs, ShellIds
<1>1. NoShell \in ShellRecord /\ NewShell \in ShellRecord
  BY NewShellFits
<1>2. shell \in [ShellIds -> ShellRecord]
  BY <1>1 DEF ShellInit
<1>3. \A g \in ShellIds : /\ shell[g].current = 0 /\ shell[g].marker = 0 /\ shell[g].job = 0
                          /\ shell[g].code = FALSE /\ shell[g].out = <<>> /\ shell[g].err = <<>>
  BY DEF ShellInit, NoShell, NewShell
<1>4. ShellTypes
  BY DEF ShellInit, ShellTypes, NoStart
<1>5. start \in [job : Jobs \cup {0}, in : ShellIds \cup {0}, pc : {"idle", "pick", "claim", "write"}]
      /\ start.pc = "idle"
  BY DEF ShellInit, NoStart
<1>6. OneInFlight
  BY <1>3, <1>5 DEF ShellInit, OneInFlight
<1>7. SeenIsOver
  BY <1>3 DEF SeenIsOver
<1>8. ExitIsOwn
  BY DEF ShellInit, ExitIsOwn
<1> QED BY <1>2, <1>3, <1>4, <1>5, <1>6, <1>7, <1>8, SMT DEF ShellInv, ShellInit

\* Noting a marker keeps a shell's record one, and what it does not read.
LEMMA NoteKeeps ==
    ASSUME NEW s \in ShellRecord, NEW m, NEW stream
    PROVE  /\ Note(s, m, stream) \in ShellRecord
           /\ Note(s, m, stream).current = s.current /\ Note(s, m, stream).marker = s.marker
           /\ Note(s, m, stream).job = s.job
           /\ Note(s, m, stream).out = s.out /\ Note(s, m, stream).err = s.err
           /\ Note(s, m, stream).code => s.code \/ m = s.marker
<1> DEFINE o == [s EXCEPT !.code = TRUE, !.outSeen = TRUE]
           e == [s EXCEPT !.code = TRUE, !.errSeen = TRUE]
<1>1. o \in ShellRecord /\ o.current = s.current /\ o.marker = s.marker /\ o.job = s.job
      /\ o.out = s.out /\ o.err = s.err
  BY DEF ShellRecord
<1>2. e \in ShellRecord /\ e.current = s.current /\ e.marker = s.marker /\ e.job = s.job
      /\ e.out = s.out /\ e.err = s.err
  BY DEF ShellRecord
<1>3. Note(s, m, stream) = s \/ (m = s.marker /\ Note(s, m, stream) \in {o, e})
  BY DEF Note
<1> HIDE DEF o, e
<1> QED BY <1>1, <1>2, <1>3

\* So does the end of a command.
LEMMA CompletedKeeps ==
    ASSUME NEW s \in ShellRecord
    PROVE  /\ Completed(s) \in ShellRecord
           /\ Completed(s).job = s.job /\ Completed(s).out = s.out /\ Completed(s).err = s.err
           /\ Done(s) => Completed(s).current = 0 /\ Completed(s).marker = 0 /\ ~Completed(s).code
           /\ ~Done(s) => Completed(s) = s
<1> DEFINE n == [s EXCEPT !.previous = s.marker, !.marker = 0, !.current = 0, !.code = FALSE,
                         !.outSeen = FALSE, !.errSeen = FALSE]
<1>1. n \in ShellRecord
  BY DEF ShellRecord
<1>2. n.current = 0 /\ n.marker = 0 /\ ~n.code /\ n.job = s.job /\ n.out = s.out /\ n.err = s.err
  BY DEF ShellRecord
<1>3. IF Done(s) THEN Completed(s) = n ELSE Completed(s) = s
  BY DEF Completed
<1> HIDE DEF n
<1> QED BY <1>1, <1>2, <1>3

\* A set of numbers that is not empty has a least.
LEMMA LeastOf ==
    ASSUME NEW S, S \subseteq Nat, S # {}
    PROVE  \E n \in S : \A m \in S : n <= m
<1> DEFINE R == {ss \in Nat \X Nat : ss[1] < ss[2]}
<1>1. IsWellFoundedOn(R, Nat)
  BY NatLessThanWellFounded DEF OpToRel
<1>2. PICK n \in S : \A m \in S : ~(<<m, n>> \in R)
  BY <1>1, WFMin
<1>3. \A m \in S : ~(m < n)
  BY <1>2
<1> QED BY <1>3

\* A pass of the reader over what it read, or gave up on, keeps ShellInv.
LEMMA PassKeeps ==
    ASSUME ShellInv, NEW g \in ShellIds, NEW s \in ShellRecord,
           s.current = shell[g].current, s.marker = shell[g].marker, s.job = shell[g].job,
           s.code => s.current \in over,
           \A i \in DOMAIN s.out : s.out[i] \in over,
           \A i \in DOMAIN s.err : s.err[i] \in over,
           Pass(g, s)
    PROVE  ShellInv'
<1> USE ShellsAssumption DEF Jobs, ShellIds
<1> DEFINE n == Completed(s)
<1>1. n \in ShellRecord
  BY CompletedKeeps
<1>2. shell' = [shell EXCEPT ![g] = n] /\ shell \in [ShellIds -> ShellRecord]
  BY DEF Pass, ShellInv
<1>3. n.job = shell[g].job /\ n.out = s.out /\ n.err = s.err /\ n.current = n.marker
      /\ n.current \in {0, shell[g].current}
      /\ (n.code => n.current \in over) /\ (Done(s) => n.current = 0)
  <2>1. shell[g].marker = shell[g].current
    BY DEF ShellInv, SeenIsOver
  <2> QED BY <2>1, CompletedKeeps
<1>4. UNCHANGED <<term, start, sent, over>>
  BY DEF Pass
<1> HIDE DEF n
<1>5. shell' \in [ShellIds -> ShellRecord] /\ shell'[g] = n
      /\ \A h \in ShellIds \ {g} : shell'[h] = shell[h]
  BY <1>1, <1>2
<1>6. SeenIsOver'
  <2>1. ASSUME NEW h \in ShellIds
        PROVE  /\ shell'[h].marker = shell'[h].current
               /\ shell'[h].code => shell'[h].current \in over
               /\ \A i \in DOMAIN shell'[h].out : shell'[h].out[i] \in over
               /\ \A i \in DOMAIN shell'[h].err : shell'[h].err[i] \in over
    <3>1. CASE h = g
      BY <1>3, <1>5, <3>1
    <3>2. CASE h # g
      <4>1. shell'[h] = shell[h]
        BY <1>5, <3>2
      <4> QED BY <4>1 DEF ShellInv, SeenIsOver
    <3> QED BY <3>1, <3>2
  <2> QED BY <1>4, <2>1 DEF SeenIsOver
<1>7. CASE ~Done(s)
  <2>1. exits' = exits
    BY <1>7 DEF Pass, Emit
  <2>2. OneInFlight'
    BY <1>3, <1>4, <1>5, <2>1 DEF ShellInv, OneInFlight
  <2> QED BY <1>3, <1>4, <1>5, <1>6, <2>1, <2>2 DEF ShellInv, ShellTypes, ExitIsOwn
<1>8. CASE Done(s)
  <2>1. s.current \in over /\ over \subseteq 1..sent /\ s.current # 0
    BY <1>8 DEF Done, ShellInv, ShellTypes
  <2>2. s.current = sent /\ exits[sent] = 0 /\ sent \in Jobs /\ sent \in over
    BY <2>1 DEF ShellInv, ShellTypes, OneInFlight
  <2>3. exits' = [exits EXCEPT ![sent] = @ + 1]
    BY <1>8, <2>1, <2>2 DEF Pass, Emit
  <2>4. exits \in [Jobs -> Nat] /\ sent \in 0..MaxJobs
    BY DEF ShellInv, ShellTypes
  <2>5. exits' \in [Jobs -> Nat] /\ exits'[sent] = 1 /\ \A j \in Jobs \ {sent} : exits'[j] = exits[j]
    BY <2>2, <2>3, <2>4
  <2>6. \A h \in ShellIds : shell'[h].current = 0
    BY <1>3, <1>5, <1>8, <2>1 DEF ShellInv, OneInFlight
  <2>7. start.pc \notin {"pick", "claim"}
    BY <2>1, <2>2 DEF ShellInv, OneInFlight
  <2>8. OneInFlight'
    BY <1>4, <2>2, <2>4, <2>5, <2>6, <2>7 DEF ShellInv, OneInFlight
  <2>9. ExitIsOwn'
    <3>1. ExitIsOwn /\ over' = over
      BY <1>4 DEF ShellInv
    <3> HIDE DEF Jobs, ShellIds
    <3> QED BY <2>2, <2>5, <3>1 DEF ExitIsOwn
  <2> QED BY <1>3, <1>4, <1>5, <1>6, <2>5, <2>8, <2>9 DEF ShellInv, ShellTypes
<1> QED BY <1>7, <1>8

\* A step that changes one shell's record, and neither its command in flight
\* nor any exit, keeps ShellInv.
LEMMA ShellStepKeeps ==
    ASSUME ShellInv, NEW g \in ShellIds, NEW s \in ShellRecord,
           shell' = [shell EXCEPT ![g] = s],
           s.current = shell[g].current, s.marker = shell[g].marker, s.job \in {0, shell[g].job},
           s.code = shell[g].code,
           \A i \in DOMAIN s.out : s.out[i] \in over',
           \A i \in DOMAIN s.err : s.err[i] \in over',
           over \subseteq over', over' \subseteq over \cup ({shell[g].job} \ {0}),
           term' \in ShellIds \cup {0}, UNCHANGED <<start, sent, exits>>
    PROVE  ShellInv'
<1> USE ShellsAssumption DEF Jobs, ShellIds
<1>1. shell \in [ShellIds -> ShellRecord]
  BY DEF ShellInv
<1>2. shell' \in [ShellIds -> ShellRecord] /\ shell'[g] = s
      /\ \A h \in ShellIds \ {g} : shell'[h] = shell[h]
  BY <1>1
<1>3. over' \subseteq 1..sent
  <2>1. shell[g].job \in Jobs \cup {0} /\ shell[g].job <= sent
    BY <1>1 DEF ShellInv, ShellRecord
  <2> QED BY <2>1 DEF ShellInv, ShellTypes
<1>4. SeenIsOver'
  BY <1>2 DEF ShellInv, SeenIsOver
<1>5. OneInFlight'
  BY <1>2 DEF ShellInv, OneInFlight
<1>6. ShellTypes' /\ ExitIsOwn'
  BY <1>3 DEF ShellInv, ShellTypes, ExitIsOwn
<1>7. \A h \in ShellIds : shell'[h].job <= sent'
  BY <1>2 DEF ShellInv, ShellTypes
<1> QED BY <1>2, <1>4, <1>5, <1>6, <1>7 DEF ShellInv
\* smelt's next command is not started, nor in flight, yet.
LEMMA CommandKeeps == ASSUME ShellInv, Command PROVE ShellInv'
<1> USE ShellsAssumption DEF Jobs, ShellIds
<1>1. sent' = sent + 1 /\ sent \in Nat /\ sent + 1 \in Jobs /\ UNCHANGED <<shell, term, over, exits>>
      /\ start' = [job |-> sent + 1, in |-> 0, pc |-> "pick"]
  BY DEF Command, ShellInv, ShellTypes
<1>2. \A j \in Jobs : j <= sent => exits[j] = 1
  BY <1>1 DEF Command, ShellInv, OneInFlight
<1>3. \A g \in ShellIds : shell[g].current = 0
  <2>1. SUFFICES ASSUME NEW g \in ShellIds, shell[g].current # 0 PROVE FALSE
    OBVIOUS
  <2>2. shell[g].current \in Jobs /\ shell[g].current = sent /\ exits[sent] = 0
    BY <2>1 DEF ShellInv, ShellRecord, OneInFlight
  <2> QED BY <1>2, <2>2
<1>4. OneInFlight'
  BY <1>1, <1>2, <1>3 DEF ShellInv, OneInFlight
<1>5. SeenIsOver'
  BY <1>1 DEF ShellInv, SeenIsOver
<1>6. ShellTypes' /\ ExitIsOwn'
  BY <1>1 DEF ShellInv, ShellTypes, ExitIsOwn
<1>7. \A g \in ShellIds : shell'[g].job <= sent'
  <2>1. TAKE h \in ShellIds
  <2>2. shell[h] \in ShellRecord /\ shell[h].job <= sent
    BY DEF ShellInv
  <2>3. shell[h].job \in Nat
    BY <2>2 DEF ShellRecord
  <2> QED BY <1>1, <2>2, <2>3
<1> QED BY <1>1, <1>4, <1>5, <1>6, <1>7 DEF ShellInv

\* Picking a shell puts no command in flight, in a new one neither.
LEMMA PickKeeps == ASSUME ShellInv, Pick PROVE ShellInv'
<1> USE ShellsAssumption DEF Jobs, ShellIds
<1>1. start.pc = "pick" /\ term \in ShellIds /\ UNCHANGED <<sent, over, exits>>
  BY DEF Pick, ShellInv, ShellTypes
<1>2. PICK g \in ShellIds : start' = [start EXCEPT !.in = g, !.pc = "claim"] /\ term' \in ShellIds
                           /\ (shell' = shell \/ shell' = [shell EXCEPT ![g] = NewShell])
  <2>1. CASE ~shell[term].ended
    BY <1>1, <2>1 DEF Pick
  <2>2. CASE shell[term].ended
    <3>1. Unmade # {} /\ Unmade \subseteq ShellIds
      BY <2>2 DEF Pick, Unmade
    <3>2. PICK n \in Unmade : \A h \in Unmade : n <= h
      <4>1. Unmade \subseteq Nat
        BY <3>1
      <4> QED BY <3>1, <4>1, LeastOf
    <3> DEFINE g == CHOOSE g \in Unmade : \A h \in Unmade : g <= h
    <3>3. g \in ShellIds
      BY <3>1, <3>2
    <3>4. shell' = [shell EXCEPT ![g] = NewShell] /\ term' = g
          /\ start' = [start EXCEPT !.in = g, !.pc = "claim"]
      BY <2>2 DEF Pick
    <3> QED BY <3>3, <3>4
  <2> QED BY <2>1, <2>2
<1>3. start' \in [job : Jobs \cup {0}, in : ShellIds \cup {0}, pc : {"idle", "pick", "claim", "write"}]
      /\ start'.job = start.job /\ start'.in = g /\ start'.pc = "claim"
  BY <1>2 DEF ShellInv
<1>4. shell' \in [ShellIds -> ShellRecord]
      /\ \A h \in ShellIds : shell'[h] = shell[h] \/ shell'[h] = NewShell
  BY <1>2, NewShellFits DEF ShellInv
<1>5. NewShell.current = 0 /\ NewShell.marker = 0 /\ NewShell.job = 0 /\ ~NewShell.code
      /\ NewShell.out = <<>> /\ NewShell.err = <<>>
  BY DEF NewShell, NoShell
<1>6. OneInFlight'
  BY <1>1, <1>3, <1>4, <1>5 DEF ShellInv, OneInFlight
<1>7. SeenIsOver'
  BY <1>1, <1>4, <1>5 DEF ShellInv, SeenIsOver
<1>8. ShellTypes' /\ ExitIsOwn'
  BY <1>1, <1>2, <1>3 DEF ShellInv, ShellTypes, ExitIsOwn
<1>9. \A h \in ShellIds : shell'[h].job <= sent'
  BY <1>1, <1>4, <1>5 DEF ShellInv, ShellTypes
<1> QED BY <1>3, <1>4, <1>6, <1>7, <1>8, <1>9 DEF ShellInv

\* A command that no shell could be started for has its one exit.
LEMMA PickFailsKeeps == ASSUME ShellInv, PickFails PROVE ShellInv'
<1> USE ShellsAssumption DEF Jobs, ShellIds
<1>1. start.pc = "pick" /\ sent \in Jobs /\ start.job = sent /\ exits[sent] = 0
      /\ \A g \in ShellIds : shell[g].current = 0
  BY DEF PickFails, ShellInv, ShellTypes, OneInFlight
<1>2. exits' = [exits EXCEPT ![sent] = @ + 1] /\ over' = over \cup {sent}
      /\ start' = [job |-> 0, in |-> 0, pc |-> "idle"] /\ UNCHANGED <<shell, term, sent>>
  BY <1>1 DEF PickFails, Emit, NoStart
<1>3. exits' \in [Jobs -> Nat] /\ exits'[sent] = 1 /\ \A j \in Jobs \ {sent} : exits'[j] = exits[j]
  BY <1>1, <1>2 DEF ShellInv, ShellTypes
<1>4. OneInFlight'
  BY <1>1, <1>2, <1>3 DEF ShellInv, OneInFlight
<1>5. SeenIsOver'
  BY <1>2 DEF ShellInv, SeenIsOver
<1>6. ShellTypes' /\ ExitIsOwn'
  BY <1>1, <1>2, <1>3 DEF ShellInv, ShellTypes, ExitIsOwn
<1> QED BY <1>2, <1>4, <1>5, <1>6 DEF ShellInv

\* A claim puts the command in flight in one shell only, which had none.
LEMMA ClaimKeeps == ASSUME ShellInv, Claim PROVE ShellInv'
<1> USE ShellsAssumption DEF Jobs, ShellIds
<1> DEFINE g == start.in
<1>1. start.pc = "claim" /\ sent \in Jobs /\ start.job = sent /\ exits[sent] = 0 /\ g \in ShellIds
      /\ (\A h \in ShellIds : shell[h].current = 0) /\ UNCHANGED <<term, sent, over, exits>>
  BY DEF Claim, ShellInv, ShellTypes, OneInFlight
<1>2. CASE shell[g].ended
  <2>1. start' = [start EXCEPT !.pc = "pick", !.in = 0] /\ shell' = shell
    BY <1>1, <1>2 DEF Claim
  <2>2. start' \in [job : Jobs \cup {0}, in : ShellIds \cup {0}, pc : {"idle", "pick", "claim", "write"}]
        /\ start'.job = start.job /\ start'.pc = "pick"
    BY <2>1 DEF ShellInv
  <2>3. OneInFlight'
    BY <1>1, <2>1, <2>2 DEF ShellInv, OneInFlight
  <2>4. SeenIsOver'
    BY <1>1, <2>1 DEF ShellInv, SeenIsOver
  <2>5. ShellTypes' /\ ExitIsOwn'
    BY <1>1, <2>2 DEF ShellInv, ShellTypes, ExitIsOwn
  <2> QED BY <1>1, <2>1, <2>2, <2>3, <2>4, <2>5 DEF ShellInv
<1>3. CASE ~shell[g].ended
  <2> DEFINE s == [shell[g] EXCEPT !.current = sent, !.marker = sent]
  <2>1. shell' = [shell EXCEPT ![g].current = sent, ![g].marker = sent]
        /\ start' = [start EXCEPT !.pc = "write"]
    BY <1>1, <1>3 DEF Claim
  <2>2. shell[g] \in ShellRecord /\ shell \in [ShellIds -> ShellRecord]
    BY <1>1 DEF ShellInv
  <2>3. s \in ShellRecord /\ s.current = sent /\ s.marker = sent
    <3>1. sent \in Jobs \cup {0}
      BY <1>1
    <3> HIDE DEF Jobs
    <3>2. s \in ShellRecord
      BY <2>2, <3>1 DEF ShellRecord
    <3>3. s.current = sent /\ s.marker = sent
      BY <2>2 DEF ShellRecord
    <3> QED BY <3>2, <3>3
  <2>4. s.job = shell[g].job /\ s.code = shell[g].code /\ s.out = shell[g].out /\ s.err = shell[g].err
    BY <2>2 DEF ShellRecord
  <2>5. shell' = [shell EXCEPT ![g] = s]
    BY <1>1, <2>1, <2>2
  <2> HIDE DEF s
  <2>6. shell' \in [ShellIds -> ShellRecord] /\ shell'[g] = s
        /\ \A h \in ShellIds \ {g} : shell'[h] = shell[h]
    BY <1>1, <2>2, <2>3, <2>5
  <2>7. start' \in [job : Jobs \cup {0}, in : ShellIds \cup {0}, pc : {"idle", "pick", "claim", "write"}]
        /\ start'.job = start.job /\ start'.in = g /\ start'.pc = "write"
    BY <2>1 DEF ShellInv
  <2>8. ~shell[g].code
    BY <1>1 DEF ShellInv, SeenIsOver, ShellTypes
  <2>9. OneInFlight'
    BY <1>1, <2>3, <2>6, <2>7 DEF ShellInv, OneInFlight
  <2>10. SeenIsOver'
    BY <1>1, <2>3, <2>4, <2>6, <2>8 DEF ShellInv, SeenIsOver
  <2>11. ShellTypes' /\ ExitIsOwn'
    BY <1>1, <2>7 DEF ShellInv, ShellTypes, ExitIsOwn
  <2>12. \A h \in ShellIds : shell'[h].job <= sent'
    BY <1>1, <2>4, <2>6 DEF ShellInv
  <2> QED BY <1>1, <2>6, <2>7, <2>9, <2>10, <2>11, <2>12 DEF ShellInv
<1> QED BY <1>2, <1>3

\* The payload is run, or goes nowhere and its command is over.
LEMMA WriteCommandKeeps == ASSUME ShellInv, WriteCommand PROVE ShellInv'
<1> USE ShellsAssumption DEF Jobs, ShellIds
<1> DEFINE g == start.in
           j == IF shell[g].st \in {"up", "closed"} THEN start.job ELSE 0
           s == [shell[g] EXCEPT !.job = j]
<1>1. start.pc = "write" /\ sent \in Jobs /\ start.job = sent /\ g \in ShellIds
      /\ UNCHANGED <<term, sent, exits>> /\ start' = [job |-> 0, in |-> 0, pc |-> "idle"]
  BY DEF WriteCommand, ShellInv, ShellTypes, OneInFlight, NoStart
<1>2. shell[g] \in ShellRecord /\ shell \in [ShellIds -> ShellRecord] /\ j \in {0, sent}
  BY <1>1 DEF ShellInv
<1>3. shell' = [shell EXCEPT ![g] = s] /\ over \subseteq over' /\ over' \subseteq over \cup {sent}
  BY <1>1, <1>2 DEF WriteCommand
<1> HIDE DEF j
<1>4. s \in ShellRecord /\ s.job = j
  BY <1>1, <1>2 DEF ShellRecord
<1>5. s.current = shell[g].current /\ s.marker = shell[g].marker /\ s.code = shell[g].code
      /\ s.out = shell[g].out /\ s.err = shell[g].err
  BY <1>2 DEF ShellRecord
<1> HIDE DEF s
<1>6. shell' \in [ShellIds -> ShellRecord] /\ shell'[g] = s
      /\ \A h \in ShellIds \ {g} : shell'[h] = shell[h]
  BY <1>1, <1>2, <1>3, <1>4
<1>7. OneInFlight'
  BY <1>1, <1>5, <1>6 DEF ShellInv, OneInFlight
<1>8. SeenIsOver'
  BY <1>3, <1>5, <1>6 DEF ShellInv, SeenIsOver
<1>9. ShellTypes' /\ ExitIsOwn'
  BY <1>1, <1>3 DEF ShellInv, ShellTypes, ExitIsOwn
<1>10. \A h \in ShellIds : shell'[h].job <= sent'
  BY <1>1, <1>2, <1>4, <1>6 DEF ShellInv, ShellTypes
<1> QED BY <1>1, <1>6, <1>7, <1>8, <1>9, <1>10 DEF ShellInv

\* The markers of a command that is over are in the pipes at most.
LEMMA JobEndsKeeps == ASSUME ShellInv, NEW g \in ShellIds, JobEnds(g) PROVE ShellInv'
<1> DEFINE j == shell[g].job
<1>1. PICK to \in (SUBSET {"out", "err"}) \ {{}} :
        shell' = [shell EXCEPT ![g].out = IF "out" \in to THEN Append(@, j) ELSE @,
                               ![g].err = IF "err" \in to THEN Append(@, j) ELSE @,
                               ![g].job = 0]
  BY DEF JobEnds
<1>2. j # 0 /\ over' = over \cup {j} /\ UNCHANGED <<term, start, sent, exits>>
  BY DEF JobEnds
<1>3. shell[g] \in ShellRecord /\ shell \in [ShellIds -> ShellRecord] /\ term \in ShellIds \cup {0}
  BY DEF ShellInv, ShellTypes
<1>4. j \in Jobs /\ shell[g].out \in Seq(Jobs) /\ shell[g].err \in Seq(Jobs)
  BY <1>2, <1>3 DEF ShellRecord
<1> DEFINE out == IF "out" \in to THEN Append(shell[g].out, j) ELSE shell[g].out
           err == IF "err" \in to THEN Append(shell[g].err, j) ELSE shell[g].err
           s == [shell[g] EXCEPT !.out = out, !.err = err, !.job = 0]
<1>5. shell' = [shell EXCEPT ![g] = s]
  BY <1>1, <1>3
<1>6. \A q \in Seq(Jobs) : Append(q, j) \in Seq(Jobs)
                          /\ \A i \in DOMAIN Append(q, j) :
                               (i \in DOMAIN q /\ Append(q, j)[i] = q[i]) \/ Append(q, j)[i] = j
  BY <1>4
<1>7. out \in Seq(Jobs) /\ \A i \in DOMAIN out : out[i] \in over'
  <2>1. \A i \in DOMAIN shell[g].out : shell[g].out[i] \in over
    BY DEF ShellInv, SeenIsOver
  <2> QED BY <1>2, <1>4, <1>6, <2>1
<1>8. err \in Seq(Jobs) /\ \A i \in DOMAIN err : err[i] \in over'
  <2>1. \A i \in DOMAIN shell[g].err : shell[g].err[i] \in over
    BY DEF ShellInv, SeenIsOver
  <2> QED BY <1>2, <1>4, <1>6, <2>1
<1> HIDE DEF out, err
<1>9. s \in ShellRecord
  BY <1>3, <1>7, <1>8 DEF ShellRecord
<1>10. s.out = out /\ s.err = err /\ s.job = 0 /\ s.current = shell[g].current
       /\ s.marker = shell[g].marker /\ s.code = shell[g].code
  BY <1>3 DEF ShellRecord
<1> HIDE DEF s
<1>11. over' \subseteq over \cup ({shell[g].job} \ {0})
  BY <1>2
<1> QED BY <1>2, <1>3, <1>5, <1>7, <1>8, <1>9, <1>10, <1>11, ShellStepKeeps

\* An end of the shell's process ends its command, whatever it still holds of it.
LEMMA ProcessEndKeeps ==
    ASSUME ShellInv, NEW g \in ShellIds, shell' = [shell EXCEPT ![g].st = "exited", ![g].job = 0],
           over \subseteq over', over' \subseteq over \cup ({shell[g].job} \ {0}),
           term' \in ShellIds \cup {0}, UNCHANGED <<start, sent, exits>>
    PROVE  ShellInv'
<1> DEFINE s == [shell[g] EXCEPT !.st = "exited", !.job = 0]
<1>1. shell[g] \in ShellRecord /\ shell \in [ShellIds -> ShellRecord]
  BY DEF ShellInv
<1>2. shell' = [shell EXCEPT ![g] = s]
  BY <1>1
<1>3. s \in ShellRecord
  BY <1>1 DEF ShellRecord
<1>4. s.out = shell[g].out /\ s.err = shell[g].err /\ s.job = 0 /\ s.current = shell[g].current
      /\ s.marker = shell[g].marker /\ s.code = shell[g].code
  BY <1>1 DEF ShellRecord
<1> HIDE DEF s
<1>5. (\A i \in DOMAIN s.out : s.out[i] \in over') /\ (\A i \in DOMAIN s.err : s.err[i] \in over')
  BY <1>4 DEF ShellInv, SeenIsOver
<1> QED BY <1>2, <1>3, <1>4, <1>5, ShellStepKeeps

\* So do the shell's own end, and a kill of one whose pipes closed.
LEMMA ShellExitsKeeps == ASSUME ShellInv, NEW g \in ShellIds, ShellExits(g) \/ KillClosed(g) PROVE ShellInv'
<1>1. shell' = [shell EXCEPT ![g].st = "exited", ![g].job = 0]
      /\ over' = over \cup ({shell[g].job} \ {0}) /\ UNCHANGED <<term, start, sent, exits>>
  BY DEF ShellExits, KillClosed
<1>2. term' \in ShellIds \cup {0}
  BY <1>1 DEF ShellInv, ShellTypes
<1> QED BY <1>1, <1>2, ProcessEndKeeps

\* A terminal that ends kills its shell, unless that has ended.
LEMMA TerminateTerminalKeeps == ASSUME ShellInv, TerminateTerminal PROVE ShellInv'
<1>1. term \in ShellIds /\ term' = 0 /\ UNCHANGED <<start, sent, over, exits>>
  BY DEF TerminateTerminal, ShellInv, ShellTypes
<1>2. CASE shell[term].ended
  <2>1. shell' = shell
    BY <1>2 DEF TerminateTerminal
  <2>2. ShellTypes' /\ OneInFlight' /\ SeenIsOver' /\ ExitIsOwn'
    BY <1>1, <2>1 DEF ShellInv, ShellTypes, OneInFlight, SeenIsOver, ExitIsOwn
  <2> QED BY <1>1, <2>1, <2>2 DEF ShellInv
<1>3. CASE ~shell[term].ended
  <2>1. shell' = [shell EXCEPT ![term].st = "exited", ![term].job = 0]
    BY <1>3 DEF TerminateTerminal
  <2> QED BY <1>1, <2>1, ProcessEndKeeps
<1> QED BY <1>2, <1>3

\* Where the pipes and the reader are says nothing of the command in flight.
LEMMA ReaderMovesKeeps ==
    ASSUME ShellInv, NEW g \in ShellIds, PipesClose(g) \/ Reap(g) \/ LoopEnds(g)
    PROVE  ShellInv'
<1>1. shell[g] \in ShellRecord /\ shell \in [ShellIds -> ShellRecord]
  BY DEF ShellInv
<1>2. PICK s \in ShellRecord :
        /\ shell' = [shell EXCEPT ![g] = s]
        /\ s.out = shell[g].out /\ s.err = shell[g].err /\ s.job = shell[g].job
        /\ s.current = shell[g].current /\ s.marker = shell[g].marker /\ s.code = shell[g].code
  <2>1. CASE PipesClose(g)
    <3> DEFINE s == [shell[g] EXCEPT !.st = "closed"]
    <3>1. shell' = [shell EXCEPT ![g] = s]
      BY <1>1, <2>1 DEF PipesClose
    <3>2. s \in ShellRecord
      BY <1>1 DEF ShellRecord
    <3> QED BY <1>1, <3>1, <3>2 DEF ShellRecord
  <2>2. CASE Reap(g)
    <3> DEFINE s == [shell[g] EXCEPT !.ended = TRUE]
    <3>1. shell' = [shell EXCEPT ![g] = s]
      BY <1>1, <2>2 DEF Reap
    <3>2. s \in ShellRecord
      BY <1>1 DEF ShellRecord
    <3> QED BY <1>1, <3>1, <3>2 DEF ShellRecord
  <2>3. CASE LoopEnds(g)
    <3> DEFINE s == [shell[g] EXCEPT !.reader = "waiting"]
    <3>1. shell' = [shell EXCEPT ![g] = s]
      BY <1>1, <2>3 DEF LoopEnds
    <3>2. s \in ShellRecord
      BY <1>1 DEF ShellRecord
    <3> QED BY <1>1, <3>1, <3>2 DEF ShellRecord
  <2> QED BY <2>1, <2>2, <2>3
<1>3. UNCHANGED <<term, start, sent, over, exits>> /\ term \in ShellIds \cup {0}
  BY DEF PipesClose, Reap, LoopEnds, ShellInv, ShellTypes
<1>4. (\A i \in DOMAIN s.out : s.out[i] \in over') /\ (\A i \in DOMAIN s.err : s.err[i] \in over')
  BY <1>2, <1>3 DEF ShellInv, SeenIsOver
<1>5. over' \subseteq over \cup ({shell[g].job} \ {0})
  BY <1>3
<1> QED BY <1>2, <1>3, <1>4, <1>5, ShellStepKeeps

\* Reading a marker tells of the command in flight only if it is that one's.
LEMMA ReadKeeps ==
    ASSUME ShellInv, NEW g \in ShellIds, ReadOut(g) \/ ReadErr(g) PROVE ShellInv'
<1>1. shell[g] \in ShellRecord /\ shell \in [ShellIds -> ShellRecord]
  BY DEF ShellInv
<1>2. shell[g].marker = shell[g].current /\ (shell[g].code => shell[g].current \in over)
      /\ (\A i \in DOMAIN shell[g].out : shell[g].out[i] \in over)
      /\ (\A i \in DOMAIN shell[g].err : shell[g].err[i] \in over)
  BY DEF ShellInv, SeenIsOver
<1>3. ASSUME NEW q \in Seq(Jobs), q # <<>>, \A i \in DOMAIN q : q[i] \in over
      PROVE  Tail(q) \in Seq(Jobs) /\ Head(q) \in over /\ \A i \in DOMAIN Tail(q) : Tail(q)[i] \in over
  <2>1. 1 \in DOMAIN q /\ Head(q) = q[1] /\ Tail(q) \in Seq(Jobs)
    BY <1>3
  <2>2. ASSUME NEW i \in DOMAIN Tail(q) PROVE Tail(q)[i] = q[i + 1] /\ i + 1 \in DOMAIN q
    BY <1>3, <2>2
  <2> QED BY <1>3, <2>1, <2>2
<1>4. CASE ReadOut(g)
  <2> DEFINE b == [shell[g] EXCEPT !.out = Tail(@)]
             s == Note(b, Head(shell[g].out), "out")
  <2>1. shell[g].out \in Seq(Jobs) /\ shell[g].out # <<>>
    BY <1>1, <1>4 DEF ReadOut, ShellRecord
  <2>2. Tail(shell[g].out) \in Seq(Jobs) /\ Head(shell[g].out) \in over
        /\ \A i \in DOMAIN Tail(shell[g].out) : Tail(shell[g].out)[i] \in over
    BY <1>2, <1>3, <2>1
  <2>3. b \in ShellRecord /\ b.out = Tail(shell[g].out) /\ b.err = shell[g].err
        /\ b.current = shell[g].current /\ b.marker = shell[g].marker /\ b.job = shell[g].job
        /\ b.code = shell[g].code
    BY <1>1, <2>2 DEF ShellRecord
  <2>4. Pass(g, s)
    BY <1>4 DEF ReadOut
  <2> HIDE DEF b
  <2>5. s \in ShellRecord /\ s.current = b.current /\ s.marker = b.marker /\ s.job = b.job
        /\ s.out = b.out /\ s.err = b.err /\ (s.code => b.code \/ Head(shell[g].out) = b.marker)
    BY <2>3, NoteKeeps
  <2> HIDE DEF s
  <2> QED BY <1>2, <2>2, <2>3, <2>4, <2>5, PassKeeps
<1>5. CASE ReadErr(g)
  <2> DEFINE b == [shell[g] EXCEPT !.err = Tail(@)]
             s == Note(b, Head(shell[g].err), "err")
  <2>1. shell[g].err \in Seq(Jobs) /\ shell[g].err # <<>>
    BY <1>1, <1>5 DEF ReadErr, ShellRecord
  <2>2. Tail(shell[g].err) \in Seq(Jobs) /\ Head(shell[g].err) \in over
        /\ \A i \in DOMAIN Tail(shell[g].err) : Tail(shell[g].err)[i] \in over
    BY <1>2, <1>3, <2>1
  <2>3. b \in ShellRecord /\ b.err = Tail(shell[g].err) /\ b.out = shell[g].out
        /\ b.current = shell[g].current /\ b.marker = shell[g].marker /\ b.job = shell[g].job
        /\ b.code = shell[g].code
    BY <1>1, <2>2 DEF ShellRecord
  <2>4. Pass(g, s)
    BY <1>5 DEF ReadErr
  <2> HIDE DEF b
  <2>5. s \in ShellRecord /\ s.current = b.current /\ s.marker = b.marker /\ s.job = b.job
        /\ s.out = b.out /\ s.err = b.err /\ (s.code => b.code \/ Head(shell[g].err) = b.marker)
    BY <2>3, NoteKeeps
  <2> HIDE DEF s
  <2> QED BY <1>2, <2>2, <2>3, <2>4, <2>5, PassKeeps
<1> QED BY <1>4, <1>5

\* A wait for the second marker is given up on after the first only.
LEMMA GiveUpKeeps == ASSUME ShellInv, NEW g \in ShellIds, GiveUp(g) PROVE ShellInv'
<1> DEFINE s == [shell[g] EXCEPT !.outSeen = TRUE, !.errSeen = TRUE]
<1>1. shell[g] \in ShellRecord
  BY DEF ShellInv
<1>2. shell[g].code /\ Pass(g, s)
  <2>1. Pass(g, [shell[g] EXCEPT !.outSeen = TRUE, !.errSeen = TRUE])
    BY DEF GiveUp
  <2> QED BY <2>1 DEF GiveUp
<1>3. s \in ShellRecord
  BY <1>1 DEF ShellRecord
<1>4. s.current = shell[g].current /\ s.marker = shell[g].marker /\ s.job = shell[g].job
      /\ s.code = shell[g].code /\ s.out = shell[g].out /\ s.err = shell[g].err
  BY <1>1 DEF ShellRecord
<1> HIDE DEF s
<1>5. (s.code => s.current \in over) /\ (\A i \in DOMAIN s.out : s.out[i] \in over)
      /\ (\A i \in DOMAIN s.err : s.err[i] \in over)
  BY <1>4 DEF ShellInv, SeenIsOver
<1> QED BY <1>2, <1>3, <1>4, <1>5, PassKeeps

\* A shell that ended gives the command in flight its exit, which it had not.
LEMMA FinishEndedKeeps == ASSUME ShellInv, NEW g \in ShellIds, FinishEnded(g) PROVE ShellInv'
<1> USE ShellsAssumption DEF Jobs, ShellIds
<1> DEFINE s == [shell[g] EXCEPT !.reader = "done", !.ended = TRUE, !.current = 0, !.marker = 0,
                                 !.code = FALSE]
           j == shell[g].current
<1>1. shell[g] \in ShellRecord /\ shell \in [ShellIds -> ShellRecord]
  BY DEF ShellInv
<1>2. shell' = [shell EXCEPT ![g] = s]
  BY <1>1 DEF FinishEnded
<1>3. s \in ShellRecord
  BY <1>1 DEF ShellRecord
<1>4. s.current = 0 /\ s.marker = 0 /\ ~s.code /\ s.job = shell[g].job
      /\ s.out = shell[g].out /\ s.err = shell[g].err
  BY <1>1 DEF ShellRecord
<1> HIDE DEF s
<1>5. shell' \in [ShellIds -> ShellRecord] /\ shell'[g] = s
      /\ \A h \in ShellIds \ {g} : shell'[h] = shell[h]
  BY <1>1, <1>2, <1>3
<1>6. shell[g].marker = j
  BY DEF ShellInv, SeenIsOver
<1>7. j \in Jobs \cup {0}
  BY <1>1 DEF ShellRecord
<1>8. over' = over \cup ({j} \ {0}) /\ UNCHANGED <<term, start, sent>> /\ Emit(j)
  BY <1>6 DEF FinishEnded, Emit
<1>9. SeenIsOver'
  BY <1>4, <1>5, <1>8 DEF ShellInv, SeenIsOver
<1>10. \A h \in ShellIds : shell'[h].job <= sent'
  BY <1>4, <1>5, <1>8 DEF ShellInv
<1>11. CASE j = 0
  <2>1. exits' = exits /\ over' = over
    BY <1>8, <1>11 DEF Emit
  <2>2. OneInFlight'
    BY <1>4, <1>5, <1>8, <2>1 DEF ShellInv, OneInFlight
  <2>3. ShellTypes' /\ ExitIsOwn'
    BY <1>8, <2>1 DEF ShellInv, ShellTypes, ExitIsOwn
  <2> QED BY <1>5, <1>8, <1>9, <1>10, <2>2, <2>3 DEF ShellInv
<1>12. CASE j # 0
  <2>1. j = sent /\ exits[sent] = 0 /\ sent \in Jobs /\ start.pc \notin {"pick", "claim"}
    BY <1>7, <1>12 DEF ShellInv, OneInFlight
  <2>2. exits' = [exits EXCEPT ![sent] = @ + 1] /\ over' = over \cup {sent}
    BY <1>8, <1>12, <2>1 DEF Emit
  <2>3. exits' \in [Jobs -> Nat] /\ exits'[sent] = 1 /\ \A i \in Jobs \ {sent} : exits'[i] = exits[i]
    BY <2>1, <2>2 DEF ShellInv, ShellTypes
  <2>4. \A h \in ShellIds : shell'[h].current = 0
    BY <1>4, <1>5, <1>12 DEF ShellInv, OneInFlight
  <2>5. OneInFlight'
    <3>1. exits \in [Jobs -> Nat] /\ sent \in 0..MaxJobs
      BY DEF ShellInv, ShellTypes
    <3>2. \A i \in Jobs \ {sent} : exits'[i] = exits[i] /\ exits[i] \in {0, 1}
      BY <2>3 DEF ShellInv, OneInFlight
    <3> QED BY <1>8, <2>1, <2>3, <2>4, <3>1, <3>2 DEF ShellInv, OneInFlight
  <2>6. ShellTypes' /\ ExitIsOwn'
    BY <1>8, <2>1, <2>2, <2>3 DEF ShellInv, ShellTypes, ExitIsOwn
  <2> QED BY <1>5, <1>8, <1>9, <1>10, <2>5, <2>6 DEF ShellInv
<1> QED BY <1>11, <1>12

\* ShellInv is inductive.
THEOREM ShellInductive == ShellInv /\ [ShellNext]_svars => ShellInv'
<1> SUFFICES ASSUME ShellInv, [ShellNext]_svars PROVE ShellInv'
  OBVIOUS
<1>1. CASE Command
  BY <1>1, CommandKeeps
<1>2. CASE Pick
  BY <1>2, PickKeeps
<1>3. CASE PickFails
  BY <1>3, PickFailsKeeps
<1>4. CASE Claim
  BY <1>4, ClaimKeeps
<1>5. CASE WriteCommand
  BY <1>5, WriteCommandKeeps
<1>6. CASE TerminateTerminal
  BY <1>6, TerminateTerminalKeeps
<1>7. ASSUME NEW g \in ShellIds, Reading(g) \/ JobEnds(g) \/ ShellExits(g) \/ PipesClose(g)
      PROVE  ShellInv'
  BY <1>7, ReadKeeps, GiveUpKeeps, ReaderMovesKeeps, ShellExitsKeeps, FinishEndedKeeps, JobEndsKeeps
     DEF Reading
<1>8. CASE UNCHANGED svars
  BY <1>8 DEF svars, ShellInv, ShellTypes, OneInFlight, SeenIsOver, ExitIsOwn
<1> QED BY <1>1, <1>2, <1>3, <1>4, <1>5, <1>6, <1>7, <1>8 DEF ShellNext, Starting

\* ShellInv holds in every state of a terminal, and with it its types.
THEOREM ShellKeepsTypes == ShellSpec => []ShellTypes
<1>1. ShellInv => ShellTypes
  BY DEF ShellInv
<1> QED BY ShellInitHolds, ShellInductive, <1>1, PTL DEF ShellSpec

\* A command's exit is reported once, and only when its run is over, however
\* its shell and those before it went (commands.rs, Ending).
THEOREM ExitIsItsOwn == ShellSpec => []ExitIsOwn
<1>1. ShellInv => ExitIsOwn
  BY DEF ShellInv
<1> QED BY ShellInitHolds, ShellInductive, <1>1, PTL DEF ShellSpec

-----------------------------------------------------------------------------
(* The connections.                                                        *)

\* What a sequence holds: when one more comes in ...
LEMMA PutIn ==
    ASSUME NEW q \in Seq(Cmds), NEW e \in Cmds
    PROVE  /\ Append(q, e) \in Seq(Cmds)
           /\ ToSet(Append(q, e)) = ToSet(q) \cup {e}
           /\ IsInjective(q) /\ e \notin ToSet(q) => IsInjective(Append(q, e))
<1> DEFINE p == Append(q, e)
<1>1. p \in Seq(Cmds) /\ Len(p) = Len(q) + 1 /\ Len(q) \in Nat
      /\ DOMAIN p = 1..(Len(q) + 1) /\ DOMAIN q = 1..Len(q)
      /\ p[Len(q) + 1] = e /\ \A i \in 1..Len(q) : p[i] = q[i]
  OBVIOUS
<1> HIDE DEF p
<1>2. ToSet(p) = ToSet(q) \cup {e}
  BY <1>1 DEF ToSet
<1>3. ASSUME IsInjective(q), e \notin ToSet(q) PROVE IsInjective(p)
  BY <1>1, <1>3 DEF IsInjective, ToSet
<1> QED BY <1>1, <1>2, <1>3 DEF p

\* ... and when the first goes out.
LEMMA TakenOut ==
    ASSUME NEW q \in Seq(Cmds), q # <<>>
    PROVE  /\ Tail(q) \in Seq(Cmds) /\ Head(q) \in Cmds
           /\ ToSet(q) = {Head(q)} \cup ToSet(Tail(q))
           /\ IsInjective(q) => Head(q) \notin ToSet(Tail(q)) /\ IsInjective(Tail(q))
<1> DEFINE p == Tail(q)
<1>1. p \in Seq(Cmds) /\ Len(q) \in Nat /\ Len(q) > 0 /\ Head(q) = q[1] /\ Head(q) \in Cmds
      /\ DOMAIN p = 1..(Len(q) - 1) /\ DOMAIN q = 1..Len(q)
      /\ \A i \in 1..(Len(q) - 1) : p[i] = q[i + 1]
  OBVIOUS
<1> HIDE DEF p
<1>2. ToSet(q) = {Head(q)} \cup ToSet(p)
  <2>1. \A i \in 2..Len(q) : i - 1 \in DOMAIN p /\ p[i - 1] = q[i]
    BY <1>1
  <2>2. \A i \in DOMAIN q : i = 1 \/ i \in 2..Len(q)
    BY <1>1
  <2>3. \A i \in DOMAIN p : i + 1 \in DOMAIN q
    BY <1>1
  <2>4. 1 \in DOMAIN q
    BY <1>1
  <2>5. \A i \in DOMAIN q : q[i] = Head(q) \/ q[i] \in ToSet(p)
    BY <1>1, <2>1, <2>2 DEF ToSet
  <2>6. \A i \in DOMAIN p : p[i] \in ToSet(q)
    BY <1>1, <2>3 DEF ToSet
  <2>7. Head(q) \in ToSet(q)
    BY <1>1, <2>4 DEF ToSet
  <2> QED BY <2>5, <2>6, <2>7 DEF ToSet
<1>3. ASSUME IsInjective(q) PROVE Head(q) \notin ToSet(p) /\ IsInjective(p)
  <2>1. \A i \in DOMAIN p : p[i] = q[i + 1] /\ i + 1 \in DOMAIN q /\ i + 1 # 1 /\ i \in Nat
    BY <1>1
  <2>2. 1 \in DOMAIN q
    BY <1>1
  <2>3. \A i, j \in DOMAIN p : p[i] = p[j] => i + 1 = j + 1
    BY <1>3, <2>1 DEF IsInjective
  <2> QED BY <1>1, <1>3, <2>1, <2>2, <2>3 DEF IsInjective, ToSet
<1> QED BY <1>1, <1>2, <1>3 DEF p

\* A sequence of commands holds commands, and an empty one nothing.
LEMMA HeldAreCmds ==
    /\ \A q \in Seq(Cmds) : ToSet(q) \subseteq Cmds
    /\ ToSet(<<>>) = {} /\ IsInjective(<<>>)
    /\ 0 \notin Cmds
<1>1. \A q \in Seq(Cmds) : ToSet(q) \subseteq Cmds
  BY DEF ToSet
<1>2. ToSet(<<>>) = {} /\ IsInjective(<<>>)
  BY DEF ToSet, IsInjective
<1> QED BY <1>1, <1>2, AgentLinkAssumption DEF Cmds

\* A connection not yet made is one, and carries nothing.
LEMMA NoLinkFits == NoLink \in LinkRecord
<1>1. <<>> \in Seq(Cmds)
  OBVIOUS
<1> QED BY <1>1 DEF NoLink, LinkRecord

\* The initial state is as LinkInv says.
LEMMA LinkInitHolds == LinkInit => LinkInv
<1> SUFFICES ASSUME LinkInit PROVE LinkInv
  OBVIOUS
<1>1. link = [k \in Links |-> NoLink]
  BY DEF LinkInit
<1>2. link \in [Links -> LinkRecord] /\ \A k \in Links : link[k] = NoLink
  BY <1>1, NoLinkFits
<1>3. LinkTypes
  BY <1>2 DEF LinkInit, LinkTypes, NoLink
<1>4. events = <<>> /\ events \in Seq(Cmds) /\ unsent = 0 /\ exited = {}
  BY DEF LinkInit
<1>5. RowsFirst
  BY <1>2, HeldAreCmds DEF LinkInit, RowsFirst, NoLink
<1>6. \A k \in Links : link[k].serve = "none" /\ link[k].ev = 0 /\ OnWire(k) = {}
  BY <1>2, HeldAreCmds DEF NoLink, OnWire
<1>7. OnePlace
  BY <1>2, <1>4, <1>6, HeldAreCmds DEF OnePlace
<1>8. Traced
  BY <1>4, <1>6, HeldAreCmds DEF Traced, Placed
<1> QED BY <1>2, <1>3, <1>4, <1>5, <1>7, <1>8 DEF LinkInv, LinkInit

\* What LinkInv says of a connection's types, and of a command's places.
LEMMA LinkShape ==
    ASSUME LinkInv
    PROVE  /\ link \in [Links -> LinkRecord]
           /\ \A k \in Links : /\ link[k] \in LinkRecord
                               /\ link[k].ev \in Cmds \cup {0}
                               /\ link[k].down \in Seq(Cmds) /\ link[k].wire \in Seq(Cmds)
                               /\ OnWire(k) \subseteq Cmds
           /\ events \in Seq(Cmds) /\ ToSet(events) \subseteq Cmds /\ unsent \in Cmds \cup {0}
           /\ row \in [Cmds -> {"none", "running", "finished", "lost"}] /\ newest \in Links \cup {0}
           /\ told \in [Cmds -> Nat]
           /\ ran \subseteq Cmds /\ exited \subseteq ran /\ asked \in Cmds \cup {0} /\ 0 \notin Cmds
<1>1. link \in [Links -> LinkRecord] /\ \A k \in Links : link[k] \in LinkRecord
  BY DEF LinkInv
<1>2. \A k \in Links : link[k].ev \in Cmds \cup {0} /\ link[k].down \in Seq(Cmds) /\ link[k].wire \in Seq(Cmds)
  BY <1>1 DEF LinkRecord
<1> QED BY <1>1, <1>2, HeldAreCmds DEF LinkInv, LinkTypes, OnWire

\* What holds an event holds commands' exits.
LEMMA PlacesAreCmds ==
    ASSUME LinkInv
    PROVE  /\ ToSet(events) \subseteq Cmds /\ unsent \in Cmds \cup {0} /\ 0 \notin Cmds
           /\ \A k \in Links : link[k].ev \in Cmds \cup {0} /\ OnWire(k) \subseteq Cmds
BY LinkShape

\* One connection is changed.
LEMMA LinkChanged ==
    ASSUME LinkInv, NEW k \in Links, NEW n \in LinkRecord, link' = [link EXCEPT ![k] = n]
    PROVE  /\ link' \in [Links -> LinkRecord] /\ link'[k] = n /\ OnWire(k)' = ToSet(n.wire)
           /\ \A j \in Links \ {k} : link'[j] = link[j] /\ OnWire(j)' = OnWire(j)
BY LinkShape DEF OnWire

\* A step that moves no event leaves all of them where they are.
LEMMA SamePlaces ==
    ASSUME LinkInv,
           \A k \in Links : /\ link'[k].ev = link[k].ev /\ OnWire(k)' = OnWire(k)
                            /\ link'[k].serve = "sending" <=> link[k].serve = "sending"
                            /\ link'[k].smelt = "none" => link[k].smelt = "none" /\ link'[k] = link[k],
           UNCHANGED <<events, unsent>>
    PROVE  /\ podUp => OnePlace'
           /\ \A c \in Cmds : Placed(c)' <=> Placed(c)
<1>1. \A c \in Cmds : Placed(c)' <=> Placed(c)
  BY DEF Placed
<1>2. ASSUME podUp PROVE OnePlace'
  BY <1>2 DEF LinkInv, OnePlace
<1> QED BY <1>1, <1>2

\* Nothing is lost when rows, exits and losses stay as they are.
LEMMA SameTrace ==
    ASSUME LinkInv, podUp, \A c \in Cmds : Placed(c)' <=> Placed(c),
           exited' = exited, swallowed \subseteq swallowed', overwritten \subseteq overwritten',
           \A c \in exited : row'[c] = "running" => row[c] = "running"
    PROVE  Traced'
BY LinkShape DEF LinkInv, Traced

\* The steps that move no event: smelt writes a command's row ...
LEMMA RunCommandKeeps == ASSUME LinkInv, NEW c \in Cmds, RunCommand(c) PROVE LinkInv'
<1>1. row' = [row EXCEPT ![c] = "running"] /\ asked' = c /\ row[c] = "none" /\ podUp
      /\ UNCHANGED <<told, link, newest, events, unsent, ready, ran, exited, podUp, swallowed, overwritten>>
  BY DEF RunCommand, agent, ghosts
<1>2. row' \in [Cmds -> {"none", "running", "finished", "lost"}] /\ row'[c] = "running"
      /\ \A d \in Cmds \ {c} : row'[d] = row[d]
  BY <1>1, LinkShape
<1>3. LinkTypes'
  BY <1>1, <1>2 DEF LinkInv, LinkTypes
<1>4. RowsFirst'
  BY <1>1, <1>2, LinkShape DEF LinkInv, RowsFirst
<1>5. \A k \in Links : link'[k] = link[k] /\ OnWire(k)' = OnWire(k)
  BY <1>1 DEF OnWire
<1>6. OnePlace' /\ \A d \in Cmds : Placed(d)' <=> Placed(d)
  BY <1>1, <1>5, SamePlaces
<1>7. c \notin exited
  BY <1>1, LinkShape DEF LinkInv, RowsFirst
<1>8. Traced'
  BY <1>1, <1>2, <1>6, <1>7, LinkShape, SameTrace
<1> QED BY <1>1, <1>3, <1>4, <1>6, <1>8 DEF LinkInv

\* ... sends the command ...
LEMMA SendCommandKeeps == ASSUME LinkInv, SendCommand PROVE LinkInv'
<1>1. PICK k \in Open : link' = [link EXCEPT ![k].down = Append(@, asked)]
  BY DEF SendCommand
<1>2. asked # 0 /\ asked' = 0 /\ k \in Links /\ link[k].smelt = "open"
      /\ UNCHANGED <<row, told, newest, events, unsent, ready, ran, exited, podUp, swallowed, overwritten>>
  BY DEF SendCommand, Open, agent, ghosts
<1> DEFINE n == [link[k] EXCEPT !.down = Append(@, asked)]
<1>3. asked \in Cmds /\ Append(link[k].down, asked) \in Seq(Cmds)
      /\ ToSet(Append(link[k].down, asked)) = ToSet(link[k].down) \cup {asked}
  BY <1>2, LinkShape, PutIn
<1>4. n \in LinkRecord /\ n.down = Append(link[k].down, asked) /\ n.ev = link[k].ev
      /\ n.wire = link[k].wire /\ n.serve = link[k].serve /\ n.smelt = link[k].smelt
  BY <1>2, <1>3, LinkShape DEF LinkRecord
<1>5. link' = [link EXCEPT ![k] = n]
  BY <1>1, <1>2, LinkShape
<1> HIDE DEF n
<1>6. link' \in [Links -> LinkRecord] /\ link'[k] = n /\ OnWire(k)' = ToSet(n.wire)
      /\ \A j \in Links \ {k} : link'[j] = link[j] /\ OnWire(j)' = OnWire(j)
  BY <1>2, <1>4, <1>5, LinkChanged
<1>7. OnWire(k)' = OnWire(k)
  BY <1>4, <1>6 DEF OnWire
<1>8. (podUp => OnePlace') /\ \A c \in Cmds : Placed(c)' <=> Placed(c)
  BY <1>2, <1>4, <1>6, <1>7, SamePlaces
<1>9. podUp => Traced'
  BY <1>2, <1>8, SameTrace
<1>10. LinkTypes'
  BY <1>2, <1>4, <1>6 DEF LinkInv, LinkTypes
<1>11. RowsFirst'
  BY <1>2, <1>3, <1>4, <1>6 DEF LinkInv, RowsFirst
<1> QED BY <1>2, <1>6, <1>8, <1>9, <1>10, <1>11 DEF LinkInv

\* ... or finds no connection for it ...
LEMMA SendCommandFailsKeeps == ASSUME LinkInv, SendCommandFails PROVE LinkInv'
<1>1. row' = [row EXCEPT ![asked] = IF @ = "running" THEN "lost" ELSE @] /\ asked # 0 /\ asked' = 0
      /\ UNCHANGED <<told, link, newest, events, unsent, ready, ran, exited, podUp, swallowed, overwritten>>
  BY DEF SendCommandFails, agent, ghosts
<1>2. row' \in [Cmds -> {"none", "running", "finished", "lost"}]
      /\ \A d \in Cmds : row'[d] = row[d] \/ (row[d] = "running" /\ row'[d] = "lost")
  BY <1>1, LinkShape
<1>3. LinkTypes'
  BY <1>1, <1>2 DEF LinkInv, LinkTypes
<1>4. RowsFirst'
  BY <1>1, <1>2, LinkShape, HeldAreCmds DEF LinkInv, RowsFirst
<1>5. \A k \in Links : link'[k] = link[k] /\ OnWire(k)' = OnWire(k)
  BY <1>1 DEF OnWire
<1>6. (podUp => OnePlace') /\ \A d \in Cmds : Placed(d)' <=> Placed(d)
  BY <1>1, <1>5, SamePlaces
<1>7. podUp => Traced'
  BY <1>1, <1>2, <1>6, LinkShape, SameTrace
<1> QED BY <1>1, <1>3, <1>4, <1>6, <1>7 DEF LinkInv

\* ... and once a command ended saves its notice.
LEMMA DrainKeeps == ASSUME LinkInv, NEW c \in Cmds, Drain(c) PROVE LinkInv'
<1>1. told' = [told EXCEPT ![c] = @ + 1]
      /\ UNCHANGED <<row, asked, link, newest, events, unsent, ready, ran, exited, podUp, swallowed, overwritten>>
  BY DEF Drain, agent, ghosts
<1>2. told' \in [Cmds -> Nat]
  BY <1>1, LinkShape
<1>3. LinkTypes' /\ RowsFirst'
  BY <1>1, <1>2 DEF LinkInv, LinkTypes, RowsFirst
<1>4. \A k \in Links : link'[k] = link[k] /\ OnWire(k)' = OnWire(k)
  BY <1>1 DEF OnWire
<1>5. (podUp => OnePlace') /\ \A d \in Cmds : Placed(d)' <=> Placed(d)
  BY <1>1, <1>4, SamePlaces
<1>6. podUp => Traced'
  BY <1>1, <1>5, SameTrace
<1> QED BY <1>1, <1>3, <1>5, <1>6 DEF LinkInv

\* The agent takes a command off a connection it has made.
LEMMA AgentStartsKeeps == ASSUME LinkInv, NEW k \in Links, AgentStarts(k) PROVE LinkInv'
<1> DEFINE n == [link[k] EXCEPT !.down = Tail(@)]
<1>1. link[k].down # <<>> /\ ran' = ran \cup {Head(link[k].down)}
      /\ link' = [link EXCEPT ![k].down = Tail(@)]
      /\ UNCHANGED <<row, told, asked, newest, events, unsent, ready, exited, podUp, swallowed, overwritten>>
  BY DEF AgentStarts, smelt, agent, ghosts
<1>2. Tail(link[k].down) \in Seq(Cmds) /\ Head(link[k].down) \in Cmds
      /\ ToSet(link[k].down) = {Head(link[k].down)} \cup ToSet(Tail(link[k].down))
  BY <1>1, LinkShape, TakenOut
<1>3. n \in LinkRecord /\ n.down = Tail(link[k].down) /\ n.ev = link[k].ev
      /\ n.wire = link[k].wire /\ n.serve = link[k].serve /\ n.smelt = link[k].smelt
  BY <1>2, LinkShape DEF LinkRecord
<1>4. link' = [link EXCEPT ![k] = n]
  BY <1>1, LinkShape
<1> HIDE DEF n
<1>5. link' \in [Links -> LinkRecord] /\ link'[k] = n /\ OnWire(k)' = ToSet(n.wire)
      /\ \A j \in Links \ {k} : link'[j] = link[j] /\ OnWire(j)' = OnWire(j)
  BY <1>3, <1>4, LinkChanged
<1>6. OnWire(k)' = OnWire(k)
  BY <1>3, <1>5 DEF OnWire
<1>7. link[k].smelt # "none" \/ ~podUp
  <2>1. NoLink.down = <<>>
    BY DEF NoLink
  <2> QED BY <1>1, <2>1 DEF LinkInv, OnePlace
<1>8. podUp
  BY DEF AgentStarts
<1>9. OnePlace' /\ \A c \in Cmds : Placed(c)' <=> Placed(c)
  BY <1>1, <1>3, <1>5, <1>6, <1>7, <1>8, SamePlaces
<1>10. Traced'
  BY <1>1, <1>8, <1>9, SameTrace
<1>11. LinkTypes'
  BY <1>1, <1>2, <1>3, <1>5, LinkShape DEF LinkInv, LinkTypes
<1>12. RowsFirst'
  BY <1>1, <1>2, <1>3, <1>5 DEF LinkInv, RowsFirst
<1> QED BY <1>1, <1>5, <1>9, <1>10, <1>11, <1>12 DEF LinkInv

\* The pod's death, and what smelt does after it.
LEMMA PodDiesKeeps == ASSUME LinkInv, PodDies PROVE LinkInv'
<1>1. link' = [k \in Links |-> [link[k] EXCEPT !.serve = "closed", !.up = FALSE, !.down = <<>>]]
      /\ podUp' = FALSE
      /\ UNCHANGED <<row, told, asked, newest, events, unsent, ready, ran, exited, swallowed, overwritten>>
  BY DEF PodDies, smelt, agent, ghosts
<1>2. \A k \in Links : link'[k] \in LinkRecord /\ link'[k].down = <<>> /\ link'[k].serve = "closed"
  <2>1. TAKE k \in Links
  <2>2. <<>> \in Seq(Cmds) /\ link[k] \in LinkRecord /\ link'[k] = [link[k] EXCEPT !.serve = "closed", !.up = FALSE, !.down = <<>>]
    <3>1. <<>> \in Seq(Cmds)
      OBVIOUS
    <3>2. link[k] \in LinkRecord
      BY LinkShape
    <3>3. link'[k] = [link[k] EXCEPT !.serve = "closed", !.up = FALSE, !.down = <<>>]
      BY <1>1
    <3> QED BY <3>1, <3>2, <3>3
  <2> QED BY <2>2 DEF LinkRecord
<1>3. link' \in [Links -> LinkRecord]
  BY <1>1, <1>2
<1>4. LinkTypes' /\ RowsFirst'
  BY <1>1, <1>2, HeldAreCmds DEF LinkInv, LinkTypes, RowsFirst
<1> QED BY <1>1, <1>3, <1>4 DEF LinkInv

\* smelt finds a dead pod's connection ended ...
LEMMA SmeltNoticesKeeps == ASSUME LinkInv, NEW k \in Links, SmeltNotices(k) PROVE LinkInv'
<1> DEFINE n == [link[k] EXCEPT !.smelt = "ended"]
<1>1. link' = [link EXCEPT ![k].smelt = "ended"] /\ ~podUp
      /\ UNCHANGED <<row, told, asked, newest, events, unsent, ready, ran, exited, podUp, swallowed, overwritten>>
  BY DEF SmeltNotices, smelt, agent, ghosts
<1>2. n \in LinkRecord /\ n.down = link[k].down /\ n.serve = link[k].serve
  BY LinkShape DEF LinkRecord
<1>3. link' = [link EXCEPT ![k] = n]
  BY <1>1, LinkShape
<1> HIDE DEF n
<1>4. link' \in [Links -> LinkRecord] /\ link'[k] = n /\ \A j \in Links \ {k} : link'[j] = link[j]
  BY <1>2, <1>3, LinkChanged
<1>5. LinkTypes' /\ RowsFirst'
  BY <1>1, <1>2, <1>4 DEF LinkInv, LinkTypes, RowsFirst
<1> QED BY <1>1, <1>4, <1>5 DEF LinkInv

\* ... and marks what ran in it lost.
LEMMA CleanupKeeps == ASSUME LinkInv, Cleanup PROVE LinkInv'
<1>1. row' = [c \in Cmds |-> IF row[c] = "running" THEN "lost" ELSE row[c]] /\ ~podUp
      /\ UNCHANGED <<told, asked, link, newest, events, unsent, ready, ran, exited, podUp, swallowed, overwritten>>
  BY DEF Cleanup, agent, ghosts
<1>2. row' \in [Cmds -> {"none", "running", "finished", "lost"}]
      /\ \A d \in Cmds : row'[d] = "none" => row[d] = "none"
  BY <1>1, LinkShape
<1>3. LinkTypes'
  BY <1>1, <1>2 DEF LinkInv, LinkTypes
<1>4. RowsFirst'
  BY <1>1, <1>2, LinkShape, HeldAreCmds DEF LinkInv, RowsFirst
<1> QED BY <1>1, <1>3, <1>4 DEF LinkInv

\* The steps that move an event.  A new connection takes the one that was kept.
LEMMA ConnectKeeps == ASSUME LinkInv, Connect PROVE LinkInv'
<1>1. podUp /\ unsent' = 0 /\ Unused # {}
      /\ UNCHANGED <<row, told, asked, events, ready, ran, exited, podUp, swallowed, overwritten>>
  BY DEF Connect, smelt, ghosts
<1>2. PICK k \in Unused :
        /\ link' = [link EXCEPT ![k] = [@ EXCEPT !.smelt = "open", !.up = TRUE,
                                 !.serve = IF unsent # 0 THEN "sending" ELSE "loop", !.ev = unsent]]
        /\ newest' = k
  <2> DEFINE i == CHOOSE k \in Unused : \A j \in Unused : k <= j
  <2>1. Unused \subseteq Nat
    BY DEF Unused, Links
  <2>2. PICK l \in Unused : \A j \in Unused : l <= j
    BY <1>1, <2>1, LeastOf
  <2>3. i \in Unused
    BY <2>2
  <2>4. link' = [link EXCEPT ![i] = [@ EXCEPT !.smelt = "open", !.up = TRUE,
                               !.serve = IF unsent # 0 THEN "sending" ELSE "loop", !.ev = unsent]]
        /\ newest' = i
    BY DEF Connect
  <2> QED BY <2>3, <2>4
<1>3. newest' = k
  BY <1>2
<1> DEFINE n == [link[k] EXCEPT !.smelt = "open", !.up = TRUE,
                                !.serve = IF unsent # 0 THEN "sending" ELSE "loop", !.ev = unsent]
<1>4. k \in Links /\ link[k] = NoLink /\ link[k] \in LinkRecord
  BY <1>1, <1>2, LinkShape DEF Unused, LinkInv, OnePlace
<1>5. link' = [link EXCEPT ![k] = n]
  BY <1>2, <1>4, LinkShape
<1>6. n \in LinkRecord
  BY <1>4, LinkShape DEF LinkRecord
<1>7. n.ev = unsent /\ n.wire = <<>> /\ n.down = <<>> /\ n.smelt = "open"
      /\ n.serve = (IF unsent # 0 THEN "sending" ELSE "loop")
  BY <1>4 DEF NoLink, LinkRecord
<1> HIDE DEF n
<1>8. link' \in [Links -> LinkRecord] /\ link'[k] = n /\ OnWire(k)' = {}
      /\ \A j \in Links \ {k} : link'[j] = link[j] /\ OnWire(j)' = OnWire(j)
  <2>1. link' \in [Links -> LinkRecord] /\ link'[k] = n /\ OnWire(k)' = ToSet(n.wire)
        /\ \A j \in Links \ {k} : link'[j] = link[j] /\ OnWire(j)' = OnWire(j)
    BY <1>4, <1>5, <1>6, LinkChanged
  <2> QED BY <1>7, <2>1, HeldAreCmds
<1>9. OnWire(k) = {} /\ link[k].ev = 0
  BY <1>4, HeldAreCmds DEF NoLink, OnWire
<1>10. OnePlace /\ Traced
  BY <1>1 DEF LinkInv
<1>11. OnePlace'
  BY <1>1, <1>4, <1>7, <1>8, <1>9, <1>10, PlacesAreCmds DEF OnePlace
<1>12. \A c \in Cmds : Placed(c)' <=> Placed(c)
  BY <1>1, <1>4, <1>7, <1>8, <1>9, PlacesAreCmds DEF Placed
<1>13. Traced'
  BY <1>1, <1>12, SameTrace
<1>14. LinkTypes'
  BY <1>1, <1>3, <1>4, <1>7, <1>8, LinkShape DEF LinkInv, LinkTypes
<1>15. RowsFirst'
  BY <1>1, <1>7, <1>8, HeldAreCmds DEF LinkInv, RowsFirst
<1> QED BY <1>1, <1>8, <1>11, <1>13, <1>14, <1>15 DEF LinkInv

\* A connection that breaks takes with it what was on its way.
LEMMA BreaksKeeps == ASSUME LinkInv, NEW k \in Links, Breaks(k) PROVE LinkInv'
<1> DEFINE n == [link[k] EXCEPT !.up = FALSE, !.smelt = "ended", !.down = <<>>, !.wire = <<>>]
<1>1. link' = [link EXCEPT ![k] = [@ EXCEPT !.up = FALSE, !.smelt = "ended", !.down = <<>>, !.wire = <<>>]]
      /\ swallowed' = swallowed \cup ToSet(link[k].wire)
      /\ UNCHANGED <<row, told, asked, newest, events, unsent, ready, ran, exited, podUp, overwritten>>
  BY DEF Breaks, smelt, agent
<1>2. link[k] \in LinkRecord /\ <<>> \in Seq(Cmds)
  BY LinkShape
<1>3. link' = [link EXCEPT ![k] = n]
  BY <1>1, LinkShape
<1>4. n \in LinkRecord
  BY <1>2 DEF LinkRecord
<1>5. n.ev = link[k].ev /\ n.wire = <<>> /\ n.down = <<>> /\ n.smelt = "ended" /\ n.serve = link[k].serve
  BY <1>2 DEF LinkRecord
<1> HIDE DEF n
<1>6. link' \in [Links -> LinkRecord] /\ link'[k] = n /\ OnWire(k)' = {}
      /\ \A j \in Links \ {k} : link'[j] = link[j] /\ OnWire(j)' = OnWire(j)
  BY <1>3, <1>4, <1>5, LinkChanged, HeldAreCmds
<1>7. swallowed' = swallowed \cup OnWire(k) /\ swallowed' \subseteq Cmds
  BY <1>1, LinkShape DEF OnWire, LinkInv
<1>8. ASSUME podUp PROVE OnePlace'
  <2>1. OnePlace
    BY <1>8 DEF LinkInv
  <2> QED BY <1>1, <1>5, <1>6, <2>1, PlacesAreCmds DEF OnePlace
<1>9. \A c \in Cmds : (Placed(c)' => Placed(c)) /\ (Placed(c) => Placed(c)' \/ c \in swallowed')
  BY <1>1, <1>5, <1>6, <1>7, PlacesAreCmds DEF Placed
<1>10. ASSUME podUp PROVE Traced'
  <2>1. Traced
    BY <1>10 DEF LinkInv
  <2> QED BY <1>1, <1>7, <1>9, <2>1, LinkShape DEF Traced
<1>11. LinkTypes'
  BY <1>1, <1>5, <1>6, LinkShape DEF LinkInv, LinkTypes
<1>12. RowsFirst'
  BY <1>1, <1>5, <1>6, HeldAreCmds DEF LinkInv, RowsFirst
<1> QED BY <1>1, <1>6, <1>7, <1>8, <1>10, <1>11, <1>12 DEF LinkInv

\* A connection closed from its loop has nothing in hand.
LEMMA AgentClosesKeeps == ASSUME LinkInv, NEW k \in Links, AgentCloses(k) PROVE LinkInv'
<1> DEFINE n == [link[k] EXCEPT !.serve = "closed", !.ev = 0]
<1>1. podUp /\ link' = [link EXCEPT ![k] = [@ EXCEPT !.serve = "closed", !.ev = 0]]
      /\ newest' \in {newest, 0} /\ link[k].serve = "loop"
      /\ UNCHANGED <<row, told, asked, events, unsent, ready, ran, exited, podUp, swallowed, overwritten>>
  BY DEF AgentCloses, Ends, smelt, ghosts
<1>2. link[k] \in LinkRecord
  BY LinkShape
<1>3. link' = [link EXCEPT ![k] = n]
  BY <1>1, LinkShape
<1>4. n \in LinkRecord
  BY <1>2 DEF LinkRecord
<1>5. n.ev = 0 /\ n.wire = link[k].wire /\ n.down = link[k].down /\ n.smelt = link[k].smelt /\ n.serve = "closed"
  BY <1>2 DEF LinkRecord
<1> HIDE DEF n
<1>6. link' \in [Links -> LinkRecord] /\ link'[k] = n /\ OnWire(k)' = ToSet(n.wire)
      /\ \A j \in Links \ {k} : link'[j] = link[j] /\ OnWire(j)' = OnWire(j)
  BY <1>3, <1>4, LinkChanged
<1>7. OnWire(k)' = OnWire(k)
  BY <1>5, <1>6 DEF OnWire
<1>8. link[k].ev = 0 /\ link[k].smelt # "none"
  BY <1>1 DEF LinkInv, OnePlace, NoLink
<1>9. OnePlace' /\ \A c \in Cmds : Placed(c)' <=> Placed(c)
  BY <1>1, <1>5, <1>6, <1>7, <1>8, SamePlaces
<1>10. Traced'
  BY <1>1, <1>9, SameTrace
<1>11. LinkTypes'
  BY <1>1, <1>5, <1>6, LinkShape DEF LinkInv, LinkTypes
<1>12. RowsFirst'
  BY <1>1, <1>5, <1>6 DEF LinkInv, RowsFirst
<1> QED BY <1>1, <1>6, <1>9, <1>10, <1>11, <1>12 DEF LinkInv

\* The first event of the queue is in the hand of the one connection that took it.
LEMMA TakeEventKeeps == ASSUME LinkInv, NEW k \in Links, TakeEvent(k) PROVE LinkInv'
<1> DEFINE e == Head(events)
           n == [link[k] EXCEPT !.serve = "sending", !.ev = e]
<1>1. podUp /\ link' = [link EXCEPT ![k] = [@ EXCEPT !.serve = "sending", !.ev = Head(events)]]
      /\ events # <<>> /\ events' = Tail(events) /\ link[k].serve = "loop"
      /\ UNCHANGED <<row, told, asked, newest, unsent, ready, ran, exited, podUp, swallowed, overwritten>>
  BY DEF TakeEvent, smelt, ghosts
<1>2. link[k] \in LinkRecord /\ OnePlace /\ Traced
  BY <1>1, LinkShape DEF LinkInv
<1>3. e \in Cmds /\ events' \in Seq(Cmds) /\ ToSet(events) = {e} \cup ToSet(events')
      /\ e \notin ToSet(events') /\ IsInjective(events')
  BY <1>1, <1>2, LinkShape, TakenOut DEF OnePlace
<1>4. link' = [link EXCEPT ![k] = n]
  BY <1>1, LinkShape
<1> HIDE DEF e
<1>5. n \in LinkRecord
  BY <1>2, <1>3 DEF LinkRecord
<1>6. n.ev = e /\ n.wire = link[k].wire /\ n.down = link[k].down /\ n.smelt = link[k].smelt /\ n.serve = "sending"
  BY <1>2 DEF LinkRecord
<1> HIDE DEF n
<1>7. link' \in [Links -> LinkRecord] /\ link'[k] = n /\ OnWire(k)' = ToSet(n.wire)
      /\ \A j \in Links \ {k} : link'[j] = link[j] /\ OnWire(j)' = OnWire(j)
  BY <1>4, <1>5, LinkChanged
<1>8. \A j \in Links : OnWire(j)' = OnWire(j)
  BY <1>6, <1>7 DEF OnWire
<1>9. link[k].ev = 0 /\ link[k].smelt # "none"
  BY <1>1, <1>2 DEF OnePlace, NoLink
<1>10. e # 0 /\ unsent' = unsent
  BY <1>1, <1>3, LinkShape
<1>11. OnePlace'
  BY <1>2, <1>3, <1>6, <1>7, <1>8, <1>9, <1>10, PlacesAreCmds DEF OnePlace
<1>12. \A c \in Cmds : Placed(c)' <=> Placed(c)
  BY <1>3, <1>6, <1>7, <1>8, <1>9, <1>10, PlacesAreCmds DEF Placed
<1>13. Traced'
  BY <1>1, <1>12, SameTrace
<1>14. LinkTypes'
  BY <1>1, <1>6, <1>7, LinkShape DEF LinkInv, LinkTypes
<1>15. RowsFirst'
  BY <1>1, <1>6, <1>7 DEF LinkInv, RowsFirst
<1> QED BY <1>1, <1>3, <1>7, <1>11, <1>13, <1>14, <1>15 DEF LinkInv

\* So is the one that was kept.
LEMMA SendUnsentKeeps == ASSUME LinkInv, NEW k \in Links, SendUnsent(k) PROVE LinkInv'
<1>1. podUp /\ unsent' = 0 /\ ready' = FALSE /\ link[k].serve = "loop"
      /\ UNCHANGED <<row, told, asked, newest, events, ran, exited, podUp, swallowed, overwritten>>
  BY DEF SendUnsent, smelt, ghosts
<1>2. link[k] \in LinkRecord /\ OnePlace /\ Traced
  BY <1>1, LinkShape DEF LinkInv
<1>3. CASE unsent = 0
  <2>1. link' = link /\ unsent' = unsent
    BY <1>1, <1>3 DEF SendUnsent
  <2>2. \A j \in Links : link'[j] = link[j] /\ OnWire(j)' = OnWire(j)
    BY <2>1 DEF OnWire
  <2>3. OnePlace' /\ \A c \in Cmds : Placed(c)' <=> Placed(c)
    BY <1>1, <2>1, <2>2, SamePlaces
  <2>4. Traced'
    BY <1>1, <2>3, SameTrace
  <2>5. LinkTypes' /\ RowsFirst'
    BY <1>1, <2>1 DEF LinkInv, LinkTypes, RowsFirst
  <2> QED BY <1>1, <2>1, <2>3, <2>4, <2>5 DEF LinkInv
<1>4. CASE unsent # 0
  <2> DEFINE n == [link[k] EXCEPT !.serve = "sending", !.ev = unsent]
  <2>1. link' = [link EXCEPT ![k] = [@ EXCEPT !.serve = "sending", !.ev = unsent]]
    BY <1>1, <1>4 DEF SendUnsent
  <2>2. link' = [link EXCEPT ![k] = n] /\ unsent \in Cmds
    BY <1>4, <2>1, LinkShape
  <2>3. n \in LinkRecord
    BY <1>2, <2>2 DEF LinkRecord
  <2>4. n.ev = unsent /\ n.wire = link[k].wire /\ n.down = link[k].down /\ n.smelt = link[k].smelt /\ n.serve = "sending"
    BY <1>2 DEF LinkRecord
  <2> HIDE DEF n
  <2>5. link' \in [Links -> LinkRecord] /\ link'[k] = n /\ OnWire(k)' = ToSet(n.wire)
        /\ \A j \in Links \ {k} : link'[j] = link[j] /\ OnWire(j)' = OnWire(j)
    BY <2>2, <2>3, LinkChanged
  <2>6. \A j \in Links : OnWire(j)' = OnWire(j)
    BY <2>4, <2>5 DEF OnWire
  <2>7. link[k].ev = 0 /\ link[k].smelt # "none"
    BY <1>1, <1>2 DEF OnePlace, NoLink
  <2>8. OnePlace'
    BY <1>1, <1>2, <1>4, <2>4, <2>5, <2>6, <2>7, PlacesAreCmds DEF OnePlace
  <2>9. \A c \in Cmds : Placed(c)' <=> Placed(c)
    BY <1>1, <2>4, <2>5, <2>6, <2>7, PlacesAreCmds DEF Placed
  <2>10. Traced'
    BY <1>1, <2>9, SameTrace
  <2>11. LinkTypes'
    BY <1>1, <2>4, <2>5, LinkShape DEF LinkInv, LinkTypes
  <2>12. RowsFirst'
    BY <1>1, <2>4, <2>5 DEF LinkInv, RowsFirst
  <2> QED BY <1>1, <2>5, <2>8, <2>10, <2>11, <2>12 DEF LinkInv
<1> QED BY <1>3, <1>4

\* A send that succeeds moves the event to the wire, or an abandoned socket
\* has it.
LEMMA SendOkKeeps == ASSUME LinkInv, NEW k \in Links, SendOk(k) PROVE LinkInv'
<1> DEFINE e == link[k].ev
           w == IF link[k].up THEN Append(link[k].wire, e) ELSE link[k].wire
           n == [link[k] EXCEPT !.serve = "loop", !.ev = 0,
                                !.wire = IF link[k].up THEN Append(@, link[k].ev) ELSE @]
<1>1. podUp /\ link[k].serve = "sending"
      /\ link' = [link EXCEPT ![k] = [link[k] EXCEPT !.serve = "loop", !.ev = 0,
                                               !.wire = IF link[k].up THEN Append(@, link[k].ev) ELSE @]]
      /\ swallowed' = (IF link[k].up THEN swallowed ELSE swallowed \cup {link[k].ev})
      /\ UNCHANGED <<row, told, asked, newest, events, unsent, ready, ran, exited, podUp, overwritten>>
  BY DEF SendOk, smelt, agent
<1>2. link[k] \in LinkRecord /\ OnePlace /\ Traced
  BY <1>1, LinkShape DEF LinkInv
<1>3. e \in Cmds /\ e # 0 /\ link[k].smelt # "none"
  BY <1>1, <1>2, LinkShape DEF OnePlace, NoLink
<1>4. link' = [link EXCEPT ![k] = n]
  BY <1>1
<1>5. w \in Seq(Cmds) /\ ToSet(w) \subseteq OnWire(k) \cup {e} /\ OnWire(k) \subseteq ToSet(w)
      /\ (e \in ToSet(w) \/ e \in swallowed')
  BY <1>1, <1>2, <1>3, LinkShape, PutIn DEF OnWire
<1>6. n.wire = w
  BY <1>2 DEF LinkRecord
<1>7. n \in LinkRecord /\ n.ev = 0 /\ n.wire = w /\ n.down = link[k].down
      /\ n.smelt = link[k].smelt /\ n.serve = "loop"
  <2>1. n.ev = 0 /\ n.down = link[k].down /\ n.smelt = link[k].smelt /\ n.serve = "loop"
    BY <1>2 DEF LinkRecord
  <2>2. n \in LinkRecord
    BY <1>2, <1>5, <1>6 DEF LinkRecord
  <2> QED BY <1>6, <2>1, <2>2
<1> HIDE DEF n, w
<1>8. link' \in [Links -> LinkRecord] /\ link'[k] = n /\ OnWire(k)' = ToSet(w)
      /\ \A j \in Links \ {k} : link'[j] = link[j] /\ OnWire(j)' = OnWire(j)
  BY <1>4, <1>7, LinkChanged
<1>9. OnePlace'
  BY <1>1, <1>2, <1>3, <1>5, <1>7, <1>8, PlacesAreCmds DEF OnePlace
<1>10. \A c \in Cmds : (Placed(c)' => Placed(c)) /\ (Placed(c) => Placed(c)' \/ c \in swallowed')
  BY <1>1, <1>3, <1>5, <1>7, <1>8, PlacesAreCmds DEF Placed
<1>11. Traced'
  BY <1>1, <1>2, <1>10, LinkShape DEF Traced
<1>12. LinkTypes' /\ swallowed' \subseteq Cmds
  BY <1>1, <1>3, <1>7, <1>8, LinkShape DEF LinkInv, LinkTypes
<1>13. RowsFirst'
  BY <1>1, <1>7, <1>8 DEF LinkInv, RowsFirst
<1> QED BY <1>1, <1>8, <1>9, <1>11, <1>12, <1>13 DEF LinkInv

\* One that fails keeps it, over what was kept before.
LEMMA SendFailsKeeps == ASSUME LinkInv, NEW k \in Links, SendFails(k) PROVE LinkInv'
<1> DEFINE e == link[k].ev
           n == [link[k] EXCEPT !.serve = "closed", !.ev = 0]
<1>1. podUp /\ link[k].serve = "sending" /\ newest' \in {newest, 0}
      /\ link' = [link EXCEPT ![k] = [@ EXCEPT !.serve = "closed", !.ev = 0]]
      /\ unsent' = link[k].ev /\ ready' = TRUE /\ overwritten' = overwritten \cup ({unsent} \ {0})
      /\ UNCHANGED <<row, told, asked, events, ran, exited, podUp, swallowed>>
  BY DEF SendFails, Ends, smelt
<1>2. link[k] \in LinkRecord /\ OnePlace /\ Traced
  BY <1>1, LinkShape DEF LinkInv
<1>3. e \in Cmds /\ e # 0 /\ link[k].smelt # "none"
  BY <1>1, <1>2, LinkShape DEF OnePlace, NoLink
<1>4. link' = [link EXCEPT ![k] = n]
  BY <1>1, LinkShape
<1>5. n \in LinkRecord
  BY <1>2 DEF LinkRecord
<1>6. n.ev = 0 /\ n.wire = link[k].wire /\ n.down = link[k].down /\ n.smelt = link[k].smelt /\ n.serve = "closed"
  BY <1>2 DEF LinkRecord
<1> HIDE DEF n
<1>7. link' \in [Links -> LinkRecord] /\ link'[k] = n /\ OnWire(k)' = ToSet(n.wire)
      /\ \A j \in Links \ {k} : link'[j] = link[j] /\ OnWire(j)' = OnWire(j)
  BY <1>4, <1>5, LinkChanged
<1>8. \A j \in Links : OnWire(j)' = OnWire(j)
  BY <1>6, <1>7 DEF OnWire
<1>9. OnePlace'
  BY <1>1, <1>2, <1>3, <1>6, <1>7, <1>8, PlacesAreCmds DEF OnePlace
<1>10. \A c \in Cmds : (Placed(c)' => Placed(c)) /\ (Placed(c) => Placed(c)' \/ c \in overwritten')
  BY <1>1, <1>3, <1>6, <1>7, <1>8, PlacesAreCmds DEF Placed
<1>11. Traced'
  BY <1>1, <1>2, <1>10, LinkShape DEF Traced
<1>12. LinkTypes' /\ overwritten' \subseteq Cmds
  BY <1>1, <1>3, <1>6, <1>7, LinkShape DEF LinkInv, LinkTypes
<1>13. RowsFirst'
  BY <1>1, <1>6, <1>7 DEF LinkInv, RowsFirst
<1> QED BY <1>1, <1>7, <1>9, <1>11, <1>12, <1>13 DEF LinkInv

\* A command's one exit is queued.
LEMMA CommandExitsKeeps == ASSUME LinkInv, NEW c \in Cmds, CommandExits(c) PROVE LinkInv'
<1>1. podUp /\ c \in ran /\ c \notin exited /\ exited' = exited \cup {c} /\ events' = Append(events, c)
      /\ UNCHANGED <<row, told, asked, link, newest, unsent, ready, ran, podUp, swallowed, overwritten>>
  BY DEF CommandExits, smelt, ghosts
<1>2. OnePlace /\ Traced /\ ~Placed(c)
  BY <1>1 DEF LinkInv, Traced
<1>3. \A k \in Links : link'[k] = link[k] /\ OnWire(k)' = OnWire(k)
  BY <1>1 DEF OnWire
<1>4. events' \in Seq(Cmds) /\ ToSet(events') = ToSet(events) \cup {c} /\ IsInjective(events')
  BY <1>1, <1>2, LinkShape, PutIn DEF OnePlace, Placed
<1>5. OnePlace'
  BY <1>1, <1>2, <1>3, <1>4, LinkShape DEF OnePlace, Placed
<1>6. \A d \in Cmds : Placed(d)' <=> Placed(d) \/ d = c
  BY <1>1, <1>3, <1>4 DEF Placed
<1>7. Traced'
  BY <1>1, <1>2, <1>6, LinkShape DEF Traced
<1>8. LinkTypes' /\ RowsFirst'
  BY <1>1, LinkShape DEF LinkInv, LinkTypes, RowsFirst
<1> QED BY <1>1, <1>4, <1>5, <1>7, <1>8 DEF LinkInv

\* smelt reads an exit, and its command runs no longer.
LEMMA ReceiveKeeps == ASSUME LinkInv, NEW k \in Links, Receive(k) PROVE LinkInv'
<1> DEFINE e == Head(link[k].wire)
           n == [link[k] EXCEPT !.wire = Tail(@)]
<1>1. link[k].wire # <<>> /\ link[k].smelt = "open" /\ row' = [row EXCEPT ![Head(link[k].wire)] = "finished"]
      /\ link' = [link EXCEPT ![k].wire = Tail(@)]
      /\ UNCHANGED <<told, asked, newest, events, unsent, ready, ran, exited, podUp, swallowed, overwritten>>
  BY DEF Receive, agent, ghosts
<1>2. link[k] \in LinkRecord
  BY LinkShape
<1>3. Tail(link[k].wire) \in Seq(Cmds) /\ e \in Cmds /\ OnWire(k) = {e} \cup ToSet(Tail(link[k].wire))
  BY <1>1, LinkShape, TakenOut DEF OnWire
<1>4. link' = [link EXCEPT ![k] = n]
  BY <1>1, LinkShape
<1>5. n \in LinkRecord
  BY <1>2, <1>3 DEF LinkRecord
<1>6. n.ev = link[k].ev /\ n.wire = Tail(link[k].wire) /\ n.down = link[k].down /\ n.smelt = "open"
      /\ n.serve = link[k].serve
  BY <1>1, <1>2 DEF LinkRecord
<1>7. row' \in [Cmds -> {"none", "running", "finished", "lost"}] /\ row'[e] = "finished"
      /\ \A d \in Cmds \ {e} : row'[d] = row[d]
  BY <1>1, <1>3, LinkShape
<1> HIDE DEF n, e
<1>8. link' \in [Links -> LinkRecord] /\ link'[k] = n /\ OnWire(k)' = ToSet(n.wire)
      /\ \A j \in Links \ {k} : link'[j] = link[j] /\ OnWire(j)' = OnWire(j)
  BY <1>4, <1>5, LinkChanged
<1>9. ASSUME podUp PROVE OnePlace'
  <2>1. OnePlace
    BY <1>9 DEF LinkInv
  <2> QED BY <1>1, <1>3, <1>6, <1>8, <2>1, PlacesAreCmds DEF OnePlace
<1>10. \A c \in Cmds : (Placed(c)' => Placed(c)) /\ (Placed(c) => Placed(c)' \/ c = e)
  BY <1>1, <1>3, <1>6, <1>8, PlacesAreCmds DEF Placed
<1>11. ASSUME podUp PROVE Traced'
  <2>1. Traced
    BY <1>11 DEF LinkInv
  <2> QED BY <1>1, <1>7, <1>10, <2>1, LinkShape DEF Traced
<1>12. LinkTypes'
  BY <1>1, <1>6, <1>7, <1>8, LinkShape DEF LinkInv, LinkTypes
<1>13. RowsFirst'
  BY <1>1, <1>3, <1>6, <1>7, <1>8, LinkShape, HeldAreCmds DEF LinkInv, RowsFirst
<1> QED BY <1>1, <1>8, <1>9, <1>11, <1>12, <1>13 DEF LinkInv

\* LinkInv is inductive.
THEOREM LinkInductive == LinkInv /\ [LinkNext]_lvars => LinkInv'
<1> SUFFICES ASSUME LinkInv, [LinkNext]_lvars PROVE LinkInv'
  OBVIOUS
<1>1. CASE Connect
  BY <1>1, ConnectKeeps
<1>2. CASE SendCommand
  BY <1>2, SendCommandKeeps
<1>3. CASE SendCommandFails
  BY <1>3, SendCommandFailsKeeps
<1>4. CASE Cleanup
  BY <1>4, CleanupKeeps
<1>5. CASE PodDies
  BY <1>5, PodDiesKeeps
<1>6. ASSUME NEW k \in Links, LinkStep(k) \/ Breaks(k) PROVE LinkInv'
  BY <1>6, AgentClosesKeeps, TakeEventKeeps, SendUnsentKeeps, SendOkKeeps, SendFailsKeeps,
     AgentStartsKeeps, ReceiveKeeps, SmeltNoticesKeeps, BreaksKeeps DEF LinkStep
<1>7. ASSUME NEW c \in Cmds, RunCommand(c) \/ CommandExits(c) \/ Drain(c) PROVE LinkInv'
  BY <1>7, RunCommandKeeps, CommandExitsKeeps, DrainKeeps
<1>8. CASE UNCHANGED lvars
  <2>1. UNCHANGED <<row, told, asked, link, newest, events, unsent, ready, ran, exited, podUp, swallowed, overwritten>>
    BY <1>8 DEF lvars
  <2>2. \A k \in Links : link'[k] = link[k] /\ OnWire(k)' = OnWire(k)
    BY <2>1 DEF OnWire
  <2>3. (podUp => OnePlace') /\ \A c \in Cmds : Placed(c)' <=> Placed(c)
    BY <2>1, <2>2, SamePlaces
  <2>4. podUp => Traced'
    BY <2>1, <2>3, SameTrace
  <2>5. LinkTypes' /\ RowsFirst'
    BY <2>1 DEF LinkInv, LinkTypes, RowsFirst
  <2> QED BY <2>1, <2>3, <2>4, <2>5 DEF LinkInv
<1> QED BY <1>1, <1>2, <1>3, <1>4, <1>5, <1>6, <1>7, <1>8 DEF LinkNext, LinkSettle

\* A set without two different members has one member, or none.
LEMMA AtMostOne ==
    ASSUME NEW S, \A x, y \in S : x = y
    PROVE  IF S = {} THEN Cardinality(S) = 0 ELSE Cardinality(S) = 1
<1>1. CASE S = {}
  BY <1>1, FS_EmptySet
<1>2. CASE S # {}
  <2>1. PICK x \in S : TRUE
    BY <1>2
  <2>2. S = {x}
    BY <2>1
  <2> QED BY <1>2, <2>2, FS_Singleton
<1> QED BY <1>1, <1>2

\* What LinkInv says of the exits' copies.
LEMMA LinkInvAccounts == LinkInv => ExitAccounted
<1> SUFFICES ASSUME LinkInv, podUp, NEW c \in exited
             PROVE  Copies(c) <= 1 /\ (row[c] = "running" => (Copies(c) = 1 \/ c \in swallowed \cup overwritten))
  BY DEF ExitAccounted
<1>1. OnePlace /\ Traced /\ c \in Cmds /\ c # 0
  BY LinkShape DEF LinkInv
<1> DEFINE Q == {i \in DOMAIN events : events[i] = c}
           V == {k \in Links : link[k].ev = c}
           W == {k \in Links : c \in ToSet(link[k].wire)}
<1>2. \A i, j \in Q : i = j
  BY <1>1 DEF OnePlace, IsInjective
<1>3. \A i, j \in V : i = j
  BY <1>1 DEF OnePlace
<1>4. \A i, j \in W : i = j
  BY <1>1 DEF OnePlace, OnWire
<1>5. Q # {} <=> c \in ToSet(events)
  BY DEF ToSet
<1>6. W = {k \in Links : c \in OnWire(k)}
  BY DEF OnWire
<1>7. (Q # {} => unsent # c /\ V = {} /\ W = {}) /\ (unsent = c => V = {} /\ W = {}) /\ (V # {} => W = {})
  BY <1>1, <1>5, <1>6 DEF OnePlace
<1>8. Placed(c) <=> Q # {} \/ unsent = c \/ V # {} \/ W # {}
  BY <1>5, <1>6 DEF Placed
<1>9. Copies(c) = Cardinality(Q) + (IF unsent = c THEN 1 ELSE 0) + Cardinality(V) + Cardinality(W)
  BY DEF Copies
<1>10. /\ IF Q = {} THEN Cardinality(Q) = 0 ELSE Cardinality(Q) = 1
       /\ IF V = {} THEN Cardinality(V) = 0 ELSE Cardinality(V) = 1
       /\ IF W = {} THEN Cardinality(W) = 0 ELSE Cardinality(W) = 1
  BY <1>2, <1>3, <1>4, AtMostOne
<1> HIDE DEF Q, V, W
<1>11. Copies(c) = IF Placed(c) THEN 1 ELSE 0
  BY <1>7, <1>8, <1>9, <1>10
<1> QED BY <1>1, <1>11 DEF Traced

\* The types of what smelt and the agent keep of their commands.
THEOREM LinkKeepsTypes == LinkSpec => []LinkTypes
<1>1. LinkInv => LinkTypes
  BY DEF LinkInv
<1> QED BY LinkInitHolds, LinkInductive, <1>1, PTL DEF LinkSpec

\* An exit is in one place, and lost only where a socket or the one slot loses
\* it, over however many connections (client.rs, send_or_keep).
THEOREM LinkAccounts == LinkSpec => []ExitAccounted
BY LinkInitHolds, LinkInductive, LinkInvAccounts, PTL DEF LinkSpec

\* Both halves of a command's exit, whichever steps of the terminal and of the
\* connections come between each other.
THEOREM ExitsAreAccounted == ShellSpec /\ LinkSpec => []ExitsAccounted
BY ExitIsItsOwn, LinkAccounts, PTL DEF ExitsAccounted
=============================================================================
