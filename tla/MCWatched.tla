----------------------------- MODULE MCWatched -----------------------------
EXTENDS Watched, TLC

CONSTANTS n1, n2, p1, p2, w1, w2

WorkerSymmetry == Permutations({w1, w2})
============================================================================
