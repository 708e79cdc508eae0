---------------------------- MODULE MCTurnState ----------------------------
(* TurnState for TLC: the turns are interchangeable.                          *)
EXTENDS TurnState, TLC

\* What two turns may be: a send with any other, a wake with a wake or an answer.
Pairs == {{"send"}, {"send", "answer"}, {"send", "wake"}, {"send", "deliver"},
          {"wake"}, {"answer", "wake"}}
PairsInit == Init /\ {kind[t] : t \in Turns} \in Pairs
PairsSpec == PairsInit /\ [][Next]_vars

Symmetry == Permutations(Turns)
=============================================================================
