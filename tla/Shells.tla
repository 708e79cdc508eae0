------------------------------- MODULE Shells -------------------------------
(***************************************************************************)
(* One terminal in the pod's agent (src/src/bin/sandbox_agent/shell.rs and *)
(* commands.rs): a command is claimed in the terminal's shell and written  *)
(* to it, the shell prints two completion markers when it is over (one on  *)
(* each of its output streams), and the shell's reader turns them, or the  *)
(* shell's own end, into the command's exit.  The next command after a     *)
(* shell has ended gets a new one.                                         *)
(*                                                                         *)
(* Claims and the marking of a shell as ended are under the shell's        *)
(* `current` lock, so each is one step.  A marker is the command it was    *)
(* made for: its nonce is never reused.                                    *)
(***************************************************************************)
EXTENDS Naturals, Sequences, FiniteSets

CONSTANTS MaxJobs,    \* bound: commands sent to the terminal
          MaxShells   \* bound: shells started for it

ASSUME ShellsAssumption == MaxJobs \in Nat /\ MaxShells \in Nat \ {0}

Jobs == 1..MaxJobs
ShellIds == 1..MaxShells

VARIABLES
  shell,    \* the terminal's shells, each with its reader
  term,     \* the terminals map's entry: the shell commands go to, or 0
  start,    \* start_command under way: the command, its shell and its step
  sent,     \* commands sent to the agent so far
  over,     \* ghost: commands whose run has ended
  exits     \* exit events queued for each command

svars == <<shell, term, start, sent, over, exits>>

\* A shell: its process and pipes (st), whether it is marked ended, the
\* command in flight (current) and its marker, the command its process runs,
\* the markers unread in its two pipes, the reader's Ending (code seen,
\* markers seen, the last command's marker), and where the reader is.
NoShell == [st |-> "none", ended |-> FALSE, current |-> 0, marker |-> 0, job |-> 0,
            out |-> <<>>, err |-> <<>>, code |-> FALSE, outSeen |-> FALSE, errSeen |-> FALSE,
            previous |-> 0, reader |-> "none"]
NewShell == [NoShell EXCEPT !.st = "up", !.reader = "reading"]
NoStart == [job |-> 0, in |-> 0, pc |-> "idle"]

\* create_terminal has made the first shell.
ShellInit ==
  /\ shell = [g \in ShellIds |-> IF g = 1 THEN NewShell ELSE NoShell]
  /\ term = 1
  /\ start = NoStart
  /\ sent = 0
  /\ over = {}
  /\ exits = [j \in Jobs |-> 0]

Unmade == {g \in ShellIds : shell[g].st = "none"}
Emit(j) == exits' = IF j = 0 THEN exits ELSE [exits EXCEPT ![j] = @ + 1]

-----------------------------------------------------------------------------
(* start_command.                                                          *)

\* smelt sends the next command: it refuses while one runs in the terminal,
\* so the one before has had its exit.
Command ==
  /\ start.pc = "idle" /\ term # 0
  /\ sent < MaxJobs
  /\ \A j \in 1..sent : exits[j] > 0
  /\ sent' = sent + 1
  /\ start' = [job |-> sent + 1, in |-> 0, pc |-> "pick"]
  /\ UNCHANGED <<shell, term, over, exits>>

\* shell_for_command: the terminal's shell, or a new one in place of one that
\* has ended.
Pick ==
  /\ start.pc = "pick"
  /\ term # 0
  /\ \/ /\ ~shell[term].ended
        /\ start' = [start EXCEPT !.in = term, !.pc = "claim"]
        /\ UNCHANGED <<shell, term>>
     \/ /\ shell[term].ended /\ Unmade # {}
        /\ LET g == CHOOSE g \in Unmade : \A h \in Unmade : g <= h IN
             /\ shell' = [shell EXCEPT ![g] = NewShell]
             /\ term' = g
             /\ start' = [start EXCEPT !.in = g, !.pc = "claim"]
  /\ UNCHANGED <<sent, over, exits>>

\* No new shell could be started: the command still gets an exit.
PickFails ==
  /\ start.pc = "pick"
  /\ term # 0 /\ shell[term].ended
  /\ Emit(start.job)
  /\ over' = over \cup {start.job}
  /\ start' = NoStart
  /\ UNCHANGED <<shell, term, sent>>

\* The claim, under current's lock.  A shell that ended meanwhile sends the
\* command round again for a new one; one with a command in flight rejects it.
Claim ==
  /\ start.pc = "claim"
  /\ LET g == start.in IN
     \/ /\ shell[g].ended
        /\ start' = [start EXCEPT !.pc = "pick", !.in = 0]
        /\ UNCHANGED shell
     \/ /\ ~shell[g].ended /\ shell[g].current # 0
        /\ start' = NoStart
        /\ UNCHANGED shell
     \/ /\ ~shell[g].ended /\ shell[g].current = 0
        /\ shell' = [shell EXCEPT ![g].current = start.job, ![g].marker = start.job]
        /\ start' = [start EXCEPT !.pc = "write"]
  /\ UNCHANGED <<term, sent, over, exits>>

\* The payload is written to the shell's stdin; a dead shell runs nothing.
WriteCommand ==
  /\ start.pc = "write"
  /\ LET g == start.in IN
       /\ shell' = [shell EXCEPT ![g].job = IF shell[g].st \in {"up", "closed"} THEN start.job ELSE 0]
       /\ over' = IF shell[g].st \in {"up", "closed"} THEN over ELSE over \cup {start.job}
  /\ start' = NoStart
  /\ UNCHANGED <<term, sent, exits>>

-----------------------------------------------------------------------------
(* The shell's process.                                                    *)

\* The command is over: the shell prints its two markers.  One of them does
\* not arrive when the command sent that stream elsewhere.
JobEnds(g) ==
  /\ shell[g].st = "up" /\ shell[g].job # 0
  /\ \E to \in (SUBSET {"out", "err"}) \ {{}} :
       shell' = [shell EXCEPT ![g].out = IF "out" \in to THEN Append(@, shell[g].job) ELSE @,
                              ![g].err = IF "err" \in to THEN Append(@, shell[g].job) ELSE @,
                              ![g].job = 0]
  /\ over' = over \cup {shell[g].job}
  /\ UNCHANGED <<term, start, sent, exits>>

\* The shell exits: `exit`, `exec`, a signal, or terminate_terminal's kill.
ShellExits(g) ==
  /\ shell[g].st \in {"up", "closed"}
  /\ shell' = [shell EXCEPT ![g].st = "exited", ![g].job = 0]
  /\ over' = over \cup ({shell[g].job} \ {0})
  /\ UNCHANGED <<term, start, sent, exits>>

\* A command closes both of the shell's streams and the shell lives on.
PipesClose(g) ==
  /\ shell[g].st = "up" /\ shell[g].job # 0
  /\ shell' = [shell EXCEPT ![g].st = "closed"]
  /\ UNCHANGED <<term, start, sent, over, exits>>

-----------------------------------------------------------------------------
(* run_reader.                                                             *)

\* Mutation: a marker of the last command that comes late counts for the
\* one in flight.
NoteStale(s, m, stream) ==
  IF s.marker # 0
  THEN IF stream = "out" THEN [s EXCEPT !.code = TRUE, !.outSeen = TRUE]
       ELSE [s EXCEPT !.code = TRUE, !.errSeen = TRUE]
  ELSE s

\* Ending::find and note: a marker counts only for the command in flight; one
\* of the last command that comes late stands for nothing.
Note(s, m, stream) ==
  IF m = s.marker
  THEN IF stream = "out" THEN [s EXCEPT !.code = TRUE, !.outSeen = TRUE]
       ELSE [s EXCEPT !.code = TRUE, !.errSeen = TRUE]
  ELSE s

\* Ending::complete: with both markers the command ends, and the reader
\* starts over for the next.
Done(s) == s.outSeen /\ s.errSeen /\ s.code
Completed(s) ==
  IF Done(s)
  THEN [s EXCEPT !.previous = s.marker, !.marker = 0, !.current = 0, !.code = FALSE,
                 !.outSeen = FALSE, !.errSeen = FALSE]
  ELSE s

\* One pass of the loop ends with complete, whose exit goes to the command
\* taken from current.
Pass(g, s) ==
  /\ shell' = [shell EXCEPT ![g] = Completed(s)]
  /\ Emit(IF Done(s) THEN s.current ELSE 0)
  /\ UNCHANGED <<term, start, sent, over>>

ReadOut(g) ==
  /\ shell[g].reader = "reading" /\ shell[g].out # <<>>
  /\ Pass(g, Note([shell[g] EXCEPT !.out = Tail(@)], Head(shell[g].out), "out"))

ReadErr(g) ==
  /\ shell[g].reader = "reading" /\ shell[g].err # <<>>
  /\ Pass(g, Note([shell[g] EXCEPT !.err = Tail(@)], Head(shell[g].err), "err"))

\* STDERR_MARKER_WAIT after the first marker, the other is given up on.
GiveUp(g) ==
  /\ shell[g].reader = "reading" /\ shell[g].code
  /\ Pass(g, [shell[g] EXCEPT !.outSeen = TRUE, !.errSeen = TRUE])

\* The shell is reaped: it is ended from here on, before the rest of its
\* output is read, since its pid is free.
Reap(g) ==
  /\ shell[g].reader = "reading"
  /\ shell[g].st = "exited" /\ ~shell[g].ended
  /\ shell' = [shell EXCEPT ![g].ended = TRUE]
  /\ UNCHANGED <<term, start, sent, over, exits>>

\* Both pipes are read to their end, or to the end of an ended shell's own
\* output.  They may reach it before the shell is reaped.
LoopEnds(g) ==
  /\ shell[g].reader = "reading"
  /\ shell[g].st \in {"closed", "exited"}
  /\ shell[g].out = <<>> /\ shell[g].err = <<>>
  /\ shell' = [shell EXCEPT ![g].reader = "waiting"]
  /\ UNCHANGED <<term, start, sent, over, exits>>

\* wait_for_closed_shell kills a shell that has not exited SHELL_EXIT_WAIT
\* after its pipes closed.
KillClosed(g) ==
  /\ shell[g].reader = "waiting" /\ shell[g].st = "closed"
  /\ shell' = [shell EXCEPT ![g].st = "exited", ![g].job = 0]
  /\ over' = over \cup ({shell[g].job} \ {0})
  /\ UNCHANGED <<term, start, sent, exits>>

\* Mutation: the command in flight when its shell ends gets no exit.
FinishEndedSilently(g) ==
  /\ shell[g].reader = "waiting" /\ shell[g].st = "exited"
  /\ shell' = [shell EXCEPT ![g].reader = "done", ![g].ended = TRUE, ![g].current = 0,
                            ![g].marker = 0, ![g].code = FALSE]
  /\ over' = over \cup ({shell[g].current} \ {0})
  /\ UNCHANGED <<term, start, sent, exits>>

\* The reader's end: a command between its two markers did finish, and
\* finish_ended_shell, under current's lock, marks the shell ended and ends
\* the command in flight with the shell's own status.
FinishEnded(g) ==
  /\ shell[g].reader = "waiting" /\ shell[g].st = "exited"
  /\ shell' = [shell EXCEPT ![g].reader = "done", ![g].ended = TRUE, ![g].current = 0,
                            ![g].marker = 0, ![g].code = FALSE]
  /\ Emit(IF shell[g].marker # 0 THEN shell[g].current ELSE 0)
  /\ over' = over \cup ({shell[g].current} \ {0})
  /\ UNCHANGED <<term, start, sent>>

\* terminate_terminal: the terminal is gone, and its shell killed unless it
\* has ended.  smelt refuses while a command runs in it.
TerminateTerminal ==
  /\ term # 0 /\ start.pc = "idle"
  /\ \A j \in 1..sent : exits[j] > 0
  /\ term' = 0
  /\ shell' = IF shell[term].ended THEN shell
              ELSE [shell EXCEPT ![term].st = "exited", ![term].job = 0]
  /\ UNCHANGED <<start, sent, over, exits>>

Starting == Pick \/ PickFails \/ Claim \/ WriteCommand
Reading(g) ==
  ReadOut(g) \/ ReadErr(g) \/ GiveUp(g) \/ Reap(g) \/ LoopEnds(g) \/ KillClosed(g) \/ FinishEnded(g)

ShellNext ==
  \/ Command \/ Starting \/ TerminateTerminal
  \/ \E g \in ShellIds : Reading(g) \/ JobEnds(g) \/ ShellExits(g) \/ PipesClose(g)

\* The agent's own tasks run; a command may run for ever.
ShellFairness == WF_svars(Starting) /\ \A g \in ShellIds : WF_svars(Reading(g))

ShellSpec == ShellInit /\ [][ShellNext]_svars /\ ShellFairness

-----------------------------------------------------------------------------
(* Properties.                                                             *)

\* The state has its shape.
ShellTypes ==
  /\ term \in ShellIds \cup {0}
  /\ start.job \in Jobs \cup {0} /\ start.in \in ShellIds \cup {0}
  /\ over \subseteq 1..sent /\ sent \in 0..MaxJobs
  /\ exits \in [Jobs -> Nat]

\* A command's exit is reported once, and only when its run is over: a late
\* marker of the command before, or the end of a shell the terminal no longer
\* uses, never ends it early.
ExitIsOwn == \A j \in Jobs : exits[j] <= 1 /\ (exits[j] = 1 => j \in over)

\* What ExitIsOwn rests on.  Only the command last sent can be without its exit,
\* as smelt sends no other before; it is being started, or in flight in one
\* shell, whose marker is its.
OneInFlight ==
  /\ \A j \in Jobs : exits[j] \in {0, 1}
  /\ \A j \in Jobs : j < sent => exits[j] = 1
  /\ \A j \in Jobs : j > sent => exits[j] = 0
  /\ start.pc # "idle" => sent > 0 /\ start.job = sent
  /\ start.pc \in {"pick", "claim"} =>
       exits[sent] = 0 /\ \A g \in ShellIds : shell[g].current = 0
  /\ \A g \in ShellIds : shell[g].current # 0 =>
       /\ shell[g].current = sent /\ exits[sent] = 0
       /\ \A h \in ShellIds \ {g} : shell[h].current = 0

\* A marker in a shell's pipes is of a command that is over, so the reader has
\* seen one of the command in flight only when that is over too.
SeenIsOver ==
  \A g \in ShellIds :
    /\ shell[g].marker = shell[g].current
    /\ shell[g].code => shell[g].current \in over
    /\ \A i \in DOMAIN shell[g].out : shell[g].out[i] \in over
    /\ \A i \in DOMAIN shell[g].err : shell[g].err[i] \in over

ShellRecord ==
  [st : {"none", "up", "closed", "exited"}, ended : BOOLEAN, current : Jobs \cup {0},
   marker : Jobs \cup {0}, job : Jobs \cup {0}, out : Seq(Jobs), err : Seq(Jobs),
   code : BOOLEAN, outSeen : BOOLEAN, errSeen : BOOLEAN, previous : Jobs \cup {0},
   reader : {"none", "reading", "waiting", "done"}]

ShellInv ==
  /\ ShellTypes
  /\ shell \in [ShellIds -> ShellRecord]
  /\ start \in [job : Jobs \cup {0}, in : ShellIds \cup {0},
                pc : {"idle", "pick", "claim", "write"}]
  /\ start.pc \in {"claim", "write"} => start.in # 0
  /\ \A g \in ShellIds : shell[g].job <= sent
  /\ OneInFlight
  /\ SeenIsOver
  /\ ExitIsOwn

\* Every command whose run is over gets its exit, however its shell went.
OverGetsExit == <>[] (\A j \in over : exits[j] > 0)

=============================================================================
