----------------------------- MODULE AgentLink -----------------------------
(***************************************************************************)
(* A terminal's commands and their exits, between smelt and the agent in   *)
(* the pod: smelt writes a running row and sends the command               *)
(* (src/src/sandbox/files.rs), the agent takes shell events off one queue  *)
(* and sends them up whichever connection is the newest, keeping the one   *)
(* whose send failed (src/src/bin/sandbox_agent/client.rs), and smelt's    *)
(* reader finishes the row and wakes the conversation, whose drain saves   *)
(* one notice per command (src/src/db/sandbox.rs).                         *)
(*                                                                         *)
(* How a link is made and torn down on smelt's side is PodConn's: here     *)
(* smelt has at most one open link and opens another once it has none.     *)
(* How a command comes to its end in its shell is Shells'.  Only the exits *)
(* are followed: output lines travel the same way and change no row.       *)
(***************************************************************************)
EXTENDS Shells, SequencesExt

CONSTANTS MaxCmds,    \* bound: commands run
          MaxLinks,   \* bound: connections made
          MaxTerms    \* terminals of the pod

ASSUME AgentLinkAssumption ==
  MaxCmds \in Nat /\ MaxLinks \in Nat \ {0} /\ MaxTerms \in Nat \ {0}

Cmds == 1..MaxCmds
Links == 1..MaxLinks
\* The terminal a command runs in.
TermOf(c) == c % MaxTerms

VARIABLES
  row,        \* terminal_commands' status of each command
  told,       \* notices saved for each command's end
  asked,      \* the command run_command is about to send, or 0
  link,       \* the connections
  newest,     \* AppState::current: the connection that gets events, or 0
  events,     \* AppState::events_rx
  unsent,     \* AppState::unsent: an event whose send failed, or 0
  ready,      \* AppState::unsent_ready holds a permit
  ran,        \* commands the agent has started
  exited,     \* commands whose exit was queued
  podUp,      \* the pod and its agent are there
  swallowed,  \* ghost: exits a socket took that smelt never read
  overwritten \* ghost: exits pushed out of unsent

lvars == <<row, told, asked, link, newest, events, unsent, ready, ran, exited, podUp,
           swallowed, overwritten>>
smelt == <<row, told, asked>>
agent == <<newest, events, unsent, ready>>
ghosts == <<swallowed, overwritten>>

\* A connection: smelt's end, whether the socket still carries anything, the
\* agent's serve_socket (in its select loop, or awaiting the send of `ev`),
\* and what is on its way down and up.
NoLink == [smelt |-> "none", up |-> FALSE, serve |-> "none", ev |-> 0,
           down |-> <<>>, wire |-> <<>>]

LinkInit ==
  /\ row = [c \in Cmds |-> "none"]
  /\ told = [c \in Cmds |-> 0]
  /\ asked = 0
  /\ link = [k \in Links |-> NoLink]
  /\ newest = 0
  /\ events = <<>>
  /\ unsent = 0
  /\ ready = FALSE
  /\ ran = {} /\ exited = {}
  /\ podUp = TRUE
  /\ swallowed = {} /\ overwritten = {}

Open == {k \in Links : link[k].smelt = "open"}
Unused == {k \in Links : link[k].smelt = "none"}

-----------------------------------------------------------------------------
(* Connections.                                                            *)

\* smelt connects, having no connection: the agent's take_over makes it the
\* newest and tells the one before to close.  After its hello the new one
\* sends what a failed send left behind.
Connect ==
  /\ podUp /\ Open = {} /\ Unused # {}
  /\ LET k == CHOOSE k \in Unused : \A j \in Unused : k <= j IN
       /\ link' = [link EXCEPT ![k] = [@ EXCEPT !.smelt = "open", !.up = TRUE,
                                                !.serve = IF unsent # 0 THEN "sending" ELSE "loop",
                                                !.ev = unsent]]
       /\ newest' = k
  /\ unsent' = 0
  /\ UNCHANGED <<smelt, events, ready, ran, exited, podUp, ghosts>>

\* The connection drops, or smelt restarts: smelt is done with it, what was
\* on its way is gone, and the agent has yet to notice.  The last of the
\* MaxLinks connections does not drop.
Breaks(k) ==
  /\ link[k].up /\ k # MaxLinks
  /\ link' = [link EXCEPT ![k] = [@ EXCEPT !.up = FALSE, !.smelt = "ended", !.down = <<>>,
                                           !.wire = <<>>]]
  /\ swallowed' = swallowed \cup ToSet(link[k].wire)
  /\ UNCHANGED <<smelt, agent, ran, exited, podUp, overwritten>>

\* serve_socket ends and handle_socket releases its place as the newest.
Ends(k) ==
  /\ link' = [link EXCEPT ![k] = [@ EXCEPT !.serve = "closed", !.ev = 0]]
  /\ newest' = IF newest = k THEN 0 ELSE newest

\* In its loop the agent finds itself replaced, or its socket closed.
AgentCloses(k) ==
  /\ podUp
  /\ link[k].serve = "loop"
  /\ newest # k \/ ~link[k].up
  /\ Ends(k)
  /\ UNCHANGED <<smelt, events, unsent, ready, ran, exited, podUp, ghosts>>

-----------------------------------------------------------------------------
(* The agent's sends.                                                      *)

\* recv_shell_event.  The select is biased: a replaced connection, or one
\* with a kept event to send, does that first.
TakeEvent(k) ==
  /\ podUp
  /\ link[k].serve = "loop" /\ newest = k
  /\ ~ready
  /\ events # <<>>
  /\ link' = [link EXCEPT ![k] = [@ EXCEPT !.serve = "sending", !.ev = Head(events)]]
  /\ events' = Tail(events)
  /\ UNCHANGED <<smelt, newest, unsent, ready, ran, exited, podUp, ghosts>>

\* unsent_ready: the connection this one replaced failed a send after this
\* one had opened.
SendUnsent(k) ==
  /\ podUp
  /\ link[k].serve = "loop" /\ newest = k
  /\ ready
  /\ ready' = FALSE
  /\ link' = IF unsent = 0 THEN link
             ELSE [link EXCEPT ![k] = [@ EXCEPT !.serve = "sending", !.ev = unsent]]
  /\ unsent' = 0
  /\ UNCHANGED <<smelt, newest, events, ran, exited, podUp, ghosts>>

\* The send returns Ok: the event is on its way, or the kernel took it into a
\* socket smelt had abandoned.
SendOk(k) ==
  /\ podUp
  /\ link[k].serve = "sending"
  /\ LET l == link[k] IN
       /\ link' = [link EXCEPT ![k] = [l EXCEPT !.serve = "loop", !.ev = 0,
                                                !.wire = IF l.up THEN Append(@, l.ev) ELSE @]]
       /\ swallowed' = IF l.up THEN swallowed ELSE swallowed \cup {l.ev}
  /\ UNCHANGED <<smelt, agent, ran, exited, podUp, overwritten>>

\* Mutation: a failed send keeps its event and wakes nobody.
SendFailsQuietly(k) ==
  /\ podUp
  /\ link[k].serve = "sending" /\ ~link[k].up
  /\ Ends(k)
  /\ unsent' = link[k].ev
  /\ overwritten' = overwritten \cup ({unsent} \ {0})
  /\ UNCHANGED <<smelt, events, ready, ran, exited, podUp, swallowed>>

\* send_or_keep: the send fails, and the event is kept in the one slot for
\* the live connection or the next one.
SendFails(k) ==
  /\ podUp
  /\ link[k].serve = "sending" /\ ~link[k].up
  /\ Ends(k)
  /\ unsent' = link[k].ev
  /\ ready' = TRUE
  /\ overwritten' = overwritten \cup ({unsent} \ {0})
  /\ UNCHANGED <<smelt, events, ran, exited, podUp, swallowed>>

-----------------------------------------------------------------------------
(* Commands.                                                               *)

Running == {c \in Cmds : row[c] = "running"}

\* run_command: refused while another runs in the terminal, otherwise the
\* row is written (and published) before the command is sent.
RunCommand(c) ==
  /\ podUp
  /\ asked = 0 /\ row[c] = "none"
  /\ \A d \in Running : TermOf(d) # TermOf(c)
  /\ \A d \in 1..(c - 1) : row[d] # "none"
  /\ row' = [row EXCEPT ![c] = "running"]
  /\ asked' = c
  /\ UNCHANGED <<told, link, agent, ran, exited, podUp, ghosts>>

\* send_command to the open connection: Ok once its writer's queue has it.
SendCommand ==
  /\ asked # 0
  /\ \E k \in Open : link' = [link EXCEPT ![k].down = Append(@, asked)]
  /\ asked' = 0
  /\ UNCHANGED <<row, told, agent, ran, exited, podUp, ghosts>>

\* No connection could be made: the row is marked lost, if it still runs.
SendCommandFails ==
  /\ asked # 0
  /\ Open = {}
  /\ row' = [row EXCEPT ![asked] = IF @ = "running" THEN "lost" ELSE @]
  /\ asked' = 0
  /\ UNCHANGED <<told, link, agent, ran, exited, podUp, ghosts>>

\* The agent reads the command and its shell runs it.
AgentStarts(k) ==
  /\ podUp
  /\ link[k].serve = "loop" /\ newest = k
  /\ link[k].down # <<>>
  /\ ran' = ran \cup {Head(link[k].down)}
  /\ link' = [link EXCEPT ![k].down = Tail(@)]
  /\ UNCHANGED <<smelt, agent, exited, podUp, ghosts>>

\* The shell's reader queues the command's exit.
CommandExits(c) ==
  /\ podUp
  /\ c \in ran \ exited
  /\ exited' = exited \cup {c}
  /\ events' = Append(events, c)
  /\ UNCHANGED <<smelt, link, newest, unsent, ready, ran, podUp, ghosts>>

\* handle_agent_message's Exit: the row is finished whatever it said, and the
\* conversation is woken.
Receive(k) ==
  /\ link[k].smelt = "open"
  /\ link[k].wire # <<>>
  /\ row' = [row EXCEPT ![Head(link[k].wire)] = "finished"]
  /\ link' = [link EXCEPT ![k].wire = Tail(@)]
  /\ UNCHANGED <<told, asked, agent, ran, exited, podUp, ghosts>>

\* The woken turn's drain: save_command_notice saves one notice and marks the
\* command notified in one transaction.
Drain(c) ==
  /\ row[c] \in {"finished", "lost"}
  /\ told[c] = 0
  /\ told' = [told EXCEPT ![c] = @ + 1]
  /\ UNCHANGED <<row, asked, link, agent, ran, exited, podUp, ghosts>>

-----------------------------------------------------------------------------
(* The pod.                                                                *)

PodDies ==
  /\ podUp
  /\ podUp' = FALSE
  /\ link' = [k \in Links |-> [link[k] EXCEPT !.serve = "closed", !.up = FALSE, !.down = <<>>]]
  /\ UNCHANGED <<smelt, agent, ran, exited, ghosts>>

\* smelt's reader has read what reached it and finds the socket ended ...
SmeltNotices(k) ==
  /\ ~podUp
  /\ link[k].smelt = "open" /\ link[k].wire = <<>>
  /\ link' = [link EXCEPT ![k].smelt = "ended"]
  /\ UNCHANGED <<smelt, agent, ran, exited, podUp, ghosts>>

\* ... and crash cleanup marks what still runs in the pod's terminals lost.
Cleanup ==
  /\ ~podUp /\ Open = {}
  /\ Running # {}
  /\ row' = [c \in Cmds |-> IF row[c] = "running" THEN "lost" ELSE row[c]]
  /\ UNCHANGED <<told, asked, link, agent, ran, exited, podUp, ghosts>>

LinkStep(k) ==
  \/ AgentCloses(k) \/ TakeEvent(k) \/ SendUnsent(k) \/ SendOk(k) \/ SendFails(k)
  \/ AgentStarts(k) \/ Receive(k) \/ SmeltNotices(k)

LinkSettle == Connect \/ SendCommand \/ SendCommandFails \/ Cleanup

LinkNext ==
  \/ LinkSettle \/ PodDies
  \/ \E k \in Links : LinkStep(k) \/ Breaks(k)
  \/ \E c \in Cmds : RunCommand(c) \/ CommandExits(c) \/ Drain(c)

\* The agent's tasks and smelt's reader run, smelt reconnects (its reader
\* does when a connection ends, startup after a restart), and a wake drains.
LinkFairness ==
  /\ WF_lvars(Connect) /\ WF_lvars(Cleanup)
  /\ \A k \in Links : WF_lvars(LinkStep(k))
  /\ \A c \in Cmds : WF_lvars(Drain(c))

LinkSpec == LinkInit /\ [][LinkNext]_lvars /\ LinkFairness

-----------------------------------------------------------------------------
(* Properties.                                                             *)

\* The state has its shape.
LinkTypes ==
  /\ row \in [Cmds -> {"none", "running", "finished", "lost"}]
  /\ told \in [Cmds -> Nat]
  /\ newest \in Links \cup {0} /\ unsent \in Cmds \cup {0}
  /\ ran \subseteq Cmds /\ exited \subseteq ran
  /\ \A k \in Links : link[k].serve \in {"none", "loop", "sending", "closed"}

\* Where command c's exit is, between the agent's queue and smelt.
Copies(c) ==
  Cardinality({i \in DOMAIN events : events[i] = c})
  + (IF unsent = c THEN 1 ELSE 0)
  + Cardinality({k \in Links : link[k].ev = c})
  + Cardinality({k \in Links : c \in ToSet(link[k].wire)})

\* An exit is in one place only, and is never lost by the agent itself: while
\* its command still runs in smelt's records it is queued, kept, being sent or
\* on its way, unless a socket swallowed it or the one slot lost it.
ExitAccounted ==
  podUp => \A c \in exited :
    /\ Copies(c) <= 1
    /\ row[c] = "running" => (Copies(c) = 1 \/ c \in swallowed \cup overwritten)

\* The events somewhere on a connection, or about to be.
OnWire(k) == ToSet(link[k].wire)
Placed(c) ==
  c \in ToSet(events) \/ c = unsent \/ \E k \in Links : c = link[k].ev \/ c \in OnWire(k)

\* What ExitAccounted rests on.  A connection has an event in hand just when it
\* sends it; no event is in two places.
OnePlace ==
  /\ \A k \in Links :
       /\ link[k].serve = "sending" <=> link[k].ev # 0
       /\ link[k].smelt = "none" => link[k] = NoLink
       /\ link[k].ev \notin ToSet(events) /\ (unsent # 0 => link[k].ev # unsent)
       /\ OnWire(k) \cap (ToSet(events) \cup {unsent}) = {}
       /\ \A j \in Links :
            /\ link[j].ev \notin OnWire(k)
            /\ j # k => (link[k].ev # 0 => link[j].ev # link[k].ev) /\ OnWire(j) \cap OnWire(k) = {}
  /\ unsent \notin ToSet(events)
  /\ IsInjective(events)

\* Events are of exits, exits of commands that ran, and those of commands that
\* have their row; and none is lost but where a socket or the slot loses it.
Traced ==
  /\ \A c \in Cmds : Placed(c) => c \in exited
  /\ \A c \in exited : row[c] = "running" => Placed(c) \/ c \in swallowed \cup overwritten

RowsFirst ==
  /\ \A c \in ran : row[c] # "none"
  /\ asked # 0 => row[asked] # "none"
  /\ \A k \in Links : \A c \in ToSet(link[k].down) : row[c] # "none"

LinkRecord ==
  [smelt : {"none", "open", "ended"}, up : BOOLEAN, serve : {"none", "loop", "sending", "closed"},
   ev : Cmds \cup {0}, down : Seq(Cmds), wire : Seq(Cmds)]

LinkInv ==
  /\ LinkTypes
  /\ link \in [Links -> LinkRecord]
  /\ events \in Seq(Cmds) /\ asked \in Cmds \cup {0} /\ ready \in BOOLEAN /\ podUp \in BOOLEAN
  /\ swallowed \subseteq Cmds /\ overwritten \subseteq Cmds
  /\ RowsFirst
  /\ podUp => OnePlace /\ Traced

\* What becomes of a command's exit: ExitsAccounted says both halves.
ExitsAccounted == ExitIsOwn /\ ExitAccounted

\* "One is enough: a connection stops taking events once a send fails": the
\* slot for a failed send's event never holds another already.  (It can: README.)
OneSlotIsEnough == overwritten = {}

\* run_command: "nothing waits on a command that never ran": with nothing on
\* its way, a command that smelt takes to be running has reached the agent.
\* (It need not: README.)
NothingWaitsOnUnrun ==
  \A c \in Running :
    \/ c = asked \/ c \in ran \/ ~podUp
    \/ \E k \in Links : c \in ToSet(link[k].down)

\* An exit reaches smelt's records and then the model, over however many
\* connections: queued while none is open, kept when its send failed.
ExitIsTold ==
  <>[] (\A c \in exited : told[c] = 1 \/ c \in swallowed \cup overwritten)
=============================================================================
