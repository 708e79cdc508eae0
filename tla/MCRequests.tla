----------------------------- MODULE MCRequests -----------------------------
(* The requests a conversation makes, for TLC: the slots of its provider      *)
(* (Limiter) and the room in its model's window (Compaction).  A behaviour is *)
(* of one part; the other stands still.                                       *)
EXTENDS Limiter, Compaction, TLC

VARIABLE part

limiterVars == <<row, pending, made, limit, count, permits, owed, closed, queue,
    resizing, pc, slot, want, old, after, rounds>>
allVars == <<part, limiterVars, pvars>>

MCSkews == {-2, 2}

\* A part that stands still starts in one state.
AllInit ==
    /\ part \in {"limiter", "window"}
    /\ Init /\ (part # "limiter" => row.max = 0)
    /\ RoomInit /\ (part # "window" =>
                        own = 0 /\ skew = 2 /\ fixed = 4 /\ server = [window |-> 8, kind |-> "counts"])

AllNext ==
    /\ UNCHANGED part
    /\ \/ part = "limiter" /\ Next /\ UNCHANGED pvars
       \/ part = "window" /\ RoomNext /\ UNCHANGED limiterVars

AllSpec == AllInit /\ [][AllNext]_allVars

Symmetry == Permutations(Turns)
=============================================================================
