----------------------------- MODULE UniqueIds -----------------------------
(***************************************************************************)
(* What the items' identifiers promise ("without collision",               *)
(* SERVER/SnowflakeID.h:8): every call hands out an identifier that no     *)
(* call before it has handed out.                                          *)
(***************************************************************************)
EXTENDS Naturals

VARIABLES
    issued,     \* the identifiers handed out so far
    calls       \* how many calls have returned

Init == issued = {} /\ calls = 0

Issue ==
    /\ calls' = calls + 1
    /\ \E i \in issued' \ issued : issued' = issued \union {i}

Spec == Init /\ [][Issue]_<<issued, calls>>
============================================================================
