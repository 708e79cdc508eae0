----------------------------- MODULE MCSandbox -----------------------------
(* What runs beside the server for a conversation, for TLC: its pod and the   *)
(* pod's storage (PodLife, which implements SandboxStorage), the connections  *)
(* to the agent in it (PodConn), and its Claude Code processes (ClaudeRun).   *)
(* A behaviour is of one part; the others stand still.                        *)
EXTENDS PodLife, PodConn, ClaudeRun, TLC

VARIABLE part

\* How a reply can be: cut off, with a call, or with a call and a question.
MCShapes == {[calls |-> 0, ask |-> FALSE, cut |-> TRUE],
             [calls |-> 1, ask |-> FALSE, cut |-> FALSE],
             [calls |-> 2, ask |-> TRUE, cut |-> FALSE]}

\* ClaudeRun's part has this many bends and faults together, and a third process
\* only where the second found its session missing.
MaxUnusual == 1
WithinBounds ==
    /\ bends' + cliFaults' <= MaxUnusual
    /\ procs' > procs /\ turn.resume => procs' <= 2

allVars == <<part, vars, cvars, cliVars>>

\* A part that stands still starts in one state.
AllInit ==
    /\ part \in {"pod", "conn", "cli"}
    /\ Init
    /\ ConnInit /\ (part # "conn" => podPhase = "running" /\ ~agentOld)
    /\ CliInit

AllNext ==
    /\ UNCHANGED part
    /\ \/ part = "pod" /\ Next /\ UNCHANGED <<cvars, cliVars>>
       \/ part = "conn" /\ ConnNext /\ UNCHANGED <<vars, cliVars>>
       \/ /\ part = "cli" /\ CliNext /\ WithinBounds
          /\ UNCHANGED <<vars, cvars>>

AllSpec == AllInit /\ [][AllNext]_allVars

MCPods == 1..2
=============================================================================
