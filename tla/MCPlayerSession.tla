-------------------------- MODULE MCPlayerSession --------------------------
(* Small instances of PlayerSession: connections c1 and c2 are of one user, *)
(* c3 is of another.                                                        *)
EXTENDS PlayerSession, TLC

CONSTANTS c1, c2, c3, w1, w2, alice, bob

MCUserOf == [c \in Client |-> IF c = c3 THEN bob ELSE alice]
Symmetry == Permutations(Worker)
============================================================================
