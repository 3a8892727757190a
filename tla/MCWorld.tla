------------------------------ MODULE MCWorld ------------------------------
EXTENDS World, TLC

CONSTANTS n1, n2, p1, p2, w1, w2

WorkerSymmetry == Permutations({w1, w2})
PlayerSymmetry == Permutations({w1, w2}) \union Permutations({p1, p2})
============================================================================
