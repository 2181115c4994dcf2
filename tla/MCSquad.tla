------------------------------- MODULE MCSquad -------------------------------
(* Squad with three monsters, an enemy and three slots. *)
EXTENDS Squad, TLC

CONSTANTS a, b, c, e1

MCMonsters == {a, b, c}
MCEnemies == {e1}
MCEngageSlots == {1}
MCGrenadeSlots == {2, 3}
Symmetry == Permutations(MCMonsters)
=============================================================================
