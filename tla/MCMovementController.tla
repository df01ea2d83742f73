------------------------ MODULE MCMovementController ------------------------
(* Small instances of MovementController for TLC.                          *)
EXTENDS MovementController, TLC

OneGroup  == [g \in Goals |-> 1]
TwoGroups == [g \in Goals |-> 2]

(* The goals are interchangeable; used only for invariants and actions.    *)
Symmetry == Permutations(Goals)
=============================================================================
