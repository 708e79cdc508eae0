--------------------------- MODULE MCConversation ---------------------------
(* What a conversation keeps, for TLC: its pause (PauseStore), its questions  *)
(* and its agents' mail (Mailbox).  A behaviour is of one part; the other     *)
(* stands still.                                                              *)
EXTENDS PauseStore, Mailbox, TLC

VARIABLE part

allVars == <<part, vars, mvars>>

\* A part that stands still starts in one state.
AllInit ==
    /\ part \in {"pause", "mail"}
    /\ Init /\ (part # "pause" => row = "running")
    /\ MailInit

AllNext ==
    /\ UNCHANGED part
    /\ \/ part = "pause" /\ Next /\ UNCHANGED mvars
       \/ part = "mail" /\ MailNext /\ UNCHANGED vars

AllSpec == AllInit /\ [][AllNext]_allVars

\* The stores' tasks are interchangeable.
Symmetry == Permutations(Tasks)
=============================================================================
