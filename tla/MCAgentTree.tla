---------------------------- MODULE MCAgentTree ----------------------------
\* The conversations of AgentTree for TLC.
EXTENDS AgentTree, TLC

TaskSymmetry == Permutations(Tasks)
=============================================================================
