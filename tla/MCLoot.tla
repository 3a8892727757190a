------------------------------- MODULE MCLoot -------------------------------
(* A small instance of Loot: one weak NPC and one strong one, in one place at *)
(* the start, and two players, one with an item.                             *)
EXTENDS Loot, TLC

CONSTANTS w1, w2, p1, p2, n1, n2, c1, c2

Symmetry == Permutations({w1, w2})

\* The weakest and the strongest NPC: 2 and 200 of experience.
MCLevel == n1 :> 1 @@ n2 :> 10
MCHp    == n1 :> 3 @@ n2 :> 2
MCCarried == p1 :> {0} @@ p2 :> {}

TogetherInit == at = [n \in Npc |-> c1] /\ Init
TogetherSpec == TogetherInit /\ [][Next]_vars
=============================================================================
