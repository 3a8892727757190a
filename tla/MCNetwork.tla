----------------------------- MODULE MCNetwork -----------------------------
(* A small instance of Network: a short command, one that fills the buffer,  *)
(* and one whose size field is no client's; the second answer is larger than *)
(* a buffer, so it is not sent.                                              *)
EXTENDS Network, TLC

CONSTANTS w1, w2, o1, o2, c1, c2, c3, a1, a2, n1

Symmetry == Permutations({w1, w2}) \union Permutations({o1, o2})

MCCommand == <<c1, c2, c3>>
MCAnswer  == c1 :> a1 @@ c2 :> a2 @@ c3 :> a1
MCSizeOf  == c1 :> 3 @@ c2 :> 5 @@ c3 :> 9 @@ a1 :> 3 @@ a2 :> 6 @@ n1 :> 4
=============================================================================
