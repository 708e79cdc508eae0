--------------------------- MODULE SandboxStorage ---------------------------
(***************************************************************************)
(* What the sandbox manager promises of a conversation's storage, without  *)
(* locks, rows or tasks: one holder at a time, which takes the volumes     *)
(* only while they are whole, and, for as long as the conversation exists, *)
(* volumes that are removed only while nobody holds them.                  *)
(***************************************************************************)
CONSTANTS Pods, Claims

VARIABLES alive,   \* the conversation exists
          holders, \* the pods that have the volumes: one at most
          volume   \* each volume: "none", "ok", "doomed"
vars == <<alive, holders, volume>>

Init == alive = TRUE /\ holders = {} /\ volume = [c \in Claims |-> "none"]

\* The volumes are made whole again for the next holder.
Make == /\ holders = {}
        /\ volume' \in [Claims -> {"none", "ok", "doomed"}]
        /\ \A c \in Claims : volume'[c] = volume[c] \/ (volume[c] = "none" /\ volume'[c] = "ok")
        /\ UNCHANGED <<alive, holders>>
Take == /\ holders = {} /\ \E p \in Pods : holders' = {p}
        /\ alive => \A c \in Claims : volume[c] = "ok"
        /\ UNCHANGED <<alive, volume>>
Leave == holders' = {} /\ UNCHANGED <<alive, volume>>
Doom == /\ alive => holders = {}
        /\ volume' \in [Claims -> {"none", "ok", "doomed"}]
        /\ \A c \in Claims : volume'[c] = volume[c] \/ (volume[c] = "ok" /\ volume'[c] = "doomed")
        /\ UNCHANGED <<alive, holders>>
Gone == /\ alive => holders = {}
        /\ \E c \in Claims : volume[c] = "doomed" /\ volume' = [volume EXCEPT ![c] = "none"]
        /\ UNCHANGED <<alive, holders>>
End == alive' = FALSE /\ UNCHANGED <<holders, volume>>

Next == Make \/ Take \/ Leave \/ Doom \/ Gone \/ End
Spec == Init /\ [][Next]_vars
=============================================================================
