------------------------------- MODULE MCLive -------------------------------
(* What must happen at last, for TLC: every turn ends (TurnState), and every *)
(* command a pod runs has its exit reported (Shells) and told (AgentLink).   *)
(* A behaviour is of one part; the others stand still.                       *)
EXTENDS TurnState, AgentLink

VARIABLE part

liveVars == <<part, vars, lvars, svars>>

\* A part that stands still starts in one state.
LiveInit ==
    /\ part \in {"turns", "link", "shells"}
    /\ Init /\ (part # "turns" => kind = [t \in Turns |-> "send"] /\ flags = {})
    /\ LinkInit
    /\ ShellInit

\* A step of one part, when it is the one that moves.
InTurns(A)  == part = "turns" /\ A /\ UNCHANGED <<part, lvars, svars>>
InLink(A)   == part = "link" /\ A /\ UNCHANGED <<part, vars, svars>>
InShells(A) == part = "shells" /\ A /\ UNCHANGED <<part, vars, lvars>>

LiveNext == InTurns(Next) \/ InLink(LinkNext) \/ InShells(ShellNext)

\* The fairness of each part.  Only one part moves in a behaviour, so WF of a
\* choice between two parts' actions is WF of each; k is a connection, a shell
\* or a command, and the run has three of each.
LiveFairness ==
    /\ \A t \in Turns : WF_liveVars(InTurns(TurnStep(t)))
    /\ WF_liveVars(InLink(Connect) \/ InShells(Starting))
    /\ WF_liveVars(InLink(Cleanup))
    /\ \A k \in 1..3 :
          /\ WF_liveVars(InLink(LinkStep(k)) \/ InShells(Reading(k)))
          /\ WF_liveVars(InLink(Drain(k)))

LiveSpec == LiveInit /\ [][LiveNext]_liveVars /\ LiveFairness

=============================================================================
