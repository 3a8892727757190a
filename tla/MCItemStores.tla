---------------------------- MODULE MCItemStores ----------------------------
(* Small instances of ItemStores. *)
EXTENDS ItemStores, TLC

CONSTANTS u1, i1, i2, s1, s2

Symmetry == Permutations(Item) \union Permutations(Cell)
=============================================================================
