----------------------------- MODULE MCRanking -----------------------------
(* A small instance of Ranking: two names are not valid, so that a second   *)
(* reply is asked for; one user has no record yet; and more names are valid *)
(* than the list takes.                                                     *)
EXTENDS Ranking

Names == 1 .. 5

MCInit ==
    /\ rows = [u \in User |-> CASE u = 1 -> [level |-> 1, exp |-> 0]
                             [] u = 3 -> None
                             [] OTHER -> [level |-> 2, exp |-> 1]]
    /\ Init
MCSpec == MCInit /\ [][Next]_vars /\ Fairness
=============================================================================
