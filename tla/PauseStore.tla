----------------------------- MODULE PauseStore -----------------------------
(***************************************************************************)
(* A conversation's pause, in memory (ConversationRuntime::paused, the     *)
(* live truth) and stored (conversations.paused_at, for the next start):   *)
(* store_pause, restore_pauses and all that changes the pause.             *)
(*                                                                         *)
(* Every Stop, send and answer starts a task that stores the pause; many   *)
(* run at once, and their reads and writes interleave.                     *)
(***************************************************************************)
EXTENDS Naturals, FiniteSets

CONSTANTS
    Tasks,       \* the tasks ever started
    MaxTries,    \* writes of one store_pause (8 in the code)
    MaxFaults,   \* bound: database calls that fail
    MaxCrashes,  \* bound: how often the server restarts
    Deletable    \* whether the user may try to delete the conversation

ASSUME PauseStoreAssumption ==
    /\ IsFiniteSet(Tasks)
    /\ MaxTries \in Nat \ {0}
    /\ MaxFaults \in Nat
    /\ MaxCrashes \in Nat
    /\ Deletable \in BOOLEAN

VARIABLES
    row,       \* what the conversation's row stores: a pause or none; "gone"
    paused,    \* the pause in memory
    at,        \* where each task is
    stop,      \* the tasks a Stop started, which check the row once stored
    value,     \* the pause each task last read
    tries,     \* the writes each task has begun
    deleting,  \* how far a delete is
    lapses,    \* since the start: "missed", a store or the start's own read was
               \* given up; "undone", a delete was undone
    faults,
    crashes

taskVars == <<at, stop, value, tries>>
vars     == <<row, paused, taskVars, deleting, lapses, faults, crashes>>

Pauses == {"paused", "running"}
Places == {"unused", "started", "writing", "written", "checking", "done"}

TypeOK ==
    /\ row \in Pauses \cup {"gone"}
    /\ paused \in Pauses
    /\ at \in [Tasks -> Places]
    /\ stop \subseteq Tasks
    /\ value \in [Tasks -> Pauses]
    /\ tries \in [Tasks -> 0..MaxTries]
    /\ deleting \in {"no", "marked", "deleted"}
    /\ lapses \subseteq {"missed", "undone"}
    /\ faults \in Nat
    /\ crashes \in Nat

Init ==
    /\ row \in Pauses
    /\ paused = row
    /\ at = [k \in Tasks |-> "unused"]
    /\ stop = {}
    /\ value = [k \in Tasks |-> "running"]
    /\ tries = [k \in Tasks |-> 0]
    /\ deleting = "no"
    /\ lapses = {}
    /\ faults = 0
    /\ crashes = 0

Exists == row # "gone"

\* A database call fails.
Fault == faults < MaxFaults /\ faults' = faults + 1

-----------------------------------------------------------------------------
(* What changes the pause.                                                 *)

\* stop_conversation: paused, and task k to store it and check the row.
Stop(k) ==
    /\ at[k] = "unused"
    /\ paused' = "paused"
    /\ at' = [at EXCEPT ![k] = "started"]
    /\ stop' = stop \cup {k}
    /\ UNCHANGED <<row, value, tries, deleting, lapses, faults, crashes>>

\* start_turn, answer_question: the user's admission ends the pause, and
\* task k stores that.  They found the conversation there some awaits before.
Write(k) ==
    /\ at[k] = "unused"
    /\ paused' = "running"
    /\ at' = [at EXCEPT ![k] = "started"]
    /\ UNCHANGED <<row, stop, value, tries, deleting, lapses, faults, crashes>>

\* delete_subtree: the turns are stopped, which pauses and stores nothing;
DeleteMark ==
    /\ Deletable /\ Exists
    /\ deleting = "no"
    /\ deleting' = "marked"
    /\ paused' = "paused"
    /\ UNCHANGED <<row, taskVars, lapses, faults, crashes>>

\* the rows go,
DeleteRows ==
    /\ deleting = "marked"
    /\ deleting' = "deleted"
    /\ row' = "gone"
    /\ UNCHANGED <<paused, taskVars, lapses, faults, crashes>>

\* or, in a transaction that fails, do not.
DeleteFails ==
    /\ deleting = "marked"
    /\ Fault
    /\ deleting' = "no"
    /\ lapses' = lapses \cup {"undone"}
    /\ UNCHANGED <<row, paused, taskVars, crashes>>

\* forget_conversation_lock at its end.
DeleteForget ==
    /\ deleting = "deleted"
    /\ deleting' = "no"
    /\ paused' = "running"
    /\ UNCHANGED <<row, taskVars, lapses, faults, crashes>>

-----------------------------------------------------------------------------
(* store_pause, in task k.                                                 *)

\* Where task k goes once the pause is stored, or is given up.
Stored(k) == IF k \in stop THEN "checking" ELSE "done"

\* The first read of memory.
Read(k) ==
    /\ at[k] = "started"
    /\ value' = [value EXCEPT ![k] = paused]
    /\ tries' = [tries EXCEPT ![k] = 1]
    /\ at' = [at EXCEPT ![k] = "writing"]
    /\ UNCHANGED <<row, paused, stop, deleting, lapses, faults, crashes>>

\* set_paused: an UPDATE, which a row that is gone takes no notice of.
SetPaused(k) ==
    /\ at[k] = "writing"
    /\ row' = IF Exists THEN value[k] ELSE row
    /\ at' = [at EXCEPT ![k] = "written"]
    /\ UNCHANGED <<paused, stop, value, tries, deleting, lapses, faults, crashes>>

\* It fails, which is only logged.
SetFails(k) ==
    /\ at[k] = "writing"
    /\ Fault
    /\ lapses' = lapses \cup {"missed"}
    /\ at' = [at EXCEPT ![k] = Stored(k)]
    /\ UNCHANGED <<row, paused, stop, value, tries, deleting, crashes>>

\* Mutation: the pause is not read again after its write.
NeverReread(k) ==
    /\ at[k] = "written"
    /\ at' = [at EXCEPT ![k] = Stored(k)]
    /\ UNCHANGED <<row, paused, stop, value, tries, deleting, lapses, faults, crashes>>

\* Memory is read again: the same, and the store is done; or changed, and
\* written again, a bounded number of times.
Reread(k) ==
    /\ at[k] = "written"
    /\ IF paused = value[k]
       THEN /\ at' = [at EXCEPT ![k] = Stored(k)]
            /\ UNCHANGED <<value, tries, lapses>>
       ELSE IF tries[k] < MaxTries
            THEN /\ value' = [value EXCEPT ![k] = paused]
                 /\ tries' = [tries EXCEPT ![k] = @ + 1]
                 /\ at' = [at EXCEPT ![k] = "writing"]
                 /\ UNCHANGED lapses
            ELSE /\ lapses' = lapses \cup {"missed"}
                 /\ at' = [at EXCEPT ![k] = Stored(k)]
                 /\ UNCHANGED <<value, tries>>
    /\ UNCHANGED <<row, paused, stop, deleting, faults, crashes>>

\* after_turn_state_write's check of the row: gone, and the conversation is
\* forgotten; a failed check is only logged.
CheckRow(k) ==
    /\ at[k] = "checking"
    /\ \/ /\ paused' = IF Exists THEN paused ELSE "running"
          /\ UNCHANGED faults
       \/ /\ Fault
          /\ UNCHANGED paused
    /\ at' = [at EXCEPT ![k] = "done"]
    /\ UNCHANGED <<row, stop, value, tries, deleting, lapses, crashes>>

-----------------------------------------------------------------------------
(* A crash, and the start after it.                                        *)

\* The tasks that had started are over.
Over == [k \in Tasks |-> IF at[k] = "unused" THEN "unused" ELSE "done"]

\* restore_pauses, before anything else runs; a failed read is only logged.
Restart ==
    /\ crashes < MaxCrashes
    /\ crashes' = crashes + 1
    /\ at' = Over
    /\ deleting' = "no"
    /\ \/ /\ paused' = IF row = "paused" THEN "paused" ELSE "running"
          /\ lapses' = {}
          /\ UNCHANGED faults
       \/ /\ Fault
          /\ paused' = "running"
          /\ lapses' = {"missed"}
    /\ UNCHANGED <<row, stop, value, tries>>

-----------------------------------------------------------------------------
StorePause(k) == Read(k) \/ SetPaused(k) \/ SetFails(k) \/ Reread(k) \/ CheckRow(k)

Next ==
    \/ \E k \in Tasks : Stop(k) \/ Write(k) \/ StorePause(k)
    \/ DeleteMark \/ DeleteRows \/ DeleteFails \/ DeleteForget
    \/ Restart

Spec == Init /\ [][Next]_vars

-----------------------------------------------------------------------------
(* Properties.                                                             *)

\* No store is under way.
Quiet == \A k \in Tasks : at[k] \notin {"started", "writing", "written"}

\* However Stops, sends and their stores interleave, and wherever a crash
\* cuts them, once the stores are over the row holds the pause memory does,
\* so the next start has it: but for a store given up, or a delete under way
\* or undone, which leaves memory paused and stores nothing (store_pause's
\* read after its write).
StoredMirrorsMemory ==
    (Quiet /\ Exists /\ deleting = "no" /\ lapses = {}) => row = paused

-----------------------------------------------------------------------------
(* The inductive strengthening of StoredMirrorsMemory.                     *)

\* A store that has memory yet to read, once it has written: one that is yet
\* to write, or the last that wrote.
WillMend(k) ==
    \/ at[k] \in {"started", "writing"}
    \/ at[k] = "written" /\ value[k] = row

\* While the row is not what memory holds some store will see that.
Mending ==
    (Exists /\ deleting = "no" /\ lapses = {}) =>
        row = paused \/ \E k \in Tasks : WillMend(k)

IndInv == TypeOK /\ Mending /\ (deleting = "deleted" => ~ Exists)
=============================================================================
