------------------------------ MODULE Watched ------------------------------
(***************************************************************************)
(* The map with a history variable, to say which players an NPC may fall   *)
(* asleep in front of.  An NPC looks for players sector by sector, decides *)
(* to sleep and clears active_, in steps that nothing holds together       *)
(* (SERVER/Npc.cpp:43-108); whoever moves in the meantime may be missed,   *)
(* and finds the NPC still active when he would wake it.                   *)
(***************************************************************************)
EXTENDS World

VARIABLE overlooked \* history, by NPC: who was moving at some time of its
                    \* last search, and has not begun to move since

WatchInit == Init /\ overlooked = [n \in Npc |-> {}]

SearchPc == {"seek", "decide", "sleep"}
Searching(n) == \E t \in Thread : work[t].me = n /\ work[t].pc \in SearchPc

\* Who moves, enters or leaves, and who has only begun to.
Moving    == {p \in Player : \E t \in Thread : work[t].me = p}
Beginning == {p \in Player : \E t \in Thread : work[t].me = p /\ work[t].pc = "place"}

Overlook ==
    overlooked' = [n \in Npc |->
        IF ~Searching(n)' THEN overlooked[n] \ Beginning'
        ELSE Moving' \union (IF Searching(n) THEN overlooked[n] ELSE {})]

WatchNext == Next /\ Overlook

WatchSpec == WatchInit /\ [][WatchNext]_<<vars, overlooked>>

----------------------------------------------------------------------------
\* A living NPC that a player in the game can see is awake (Player.cpp:430,
\* Npc.cpp:61, 103), whatever else goes on, unless the player was moving while
\* the NPC last looked for players: then it sleeps in front of him until
\* he, or another, moves near it.
AwakeWhenWatched ==
    Quiet => \A n \in Npc, p \in Player :
               /\ state[n] = "INGAME" /\ state[p] = "INGAME" /\ CanSee(n, p)
               /\ p \notin overlooked[n]
               => active[n]
============================================================================
