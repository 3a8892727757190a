----------------------------- MODULE NpcTurns ------------------------------
(***************************************************************************)
(* What the scheduling of the NPCs promises to the code of a turn, which   *)
(* takes no lock (SERVER/Npc.cpp:43-108): the turns of an NPC follow one   *)
(* another, each in the hands of one worker who has no other, however many *)
(* callers wake the NPC and whenever its timer runs out.                   *)
(***************************************************************************)
CONSTANTS Npc, Worker

VARIABLES
    turn,       \* NPC: where its turn is; an NPC that is asleep has none
    hands       \* NPC: the workers who have its turn

Init ==
    /\ turn = [n \in Npc |-> "asleep"]
    /\ hands = [n \in Npc |-> {}]

\* Whoever comes near wakes those who are asleep.
Wake ==
    /\ \E S \in SUBSET {n \in Npc : turn[n] = "asleep"} :
         turn' = [n \in Npc |-> IF n \in S THEN "due" ELSE turn[n]]
    /\ UNCHANGED hands

\* A worker with empty hands takes a turn that is due.
Take(w, n) ==
    /\ turn[n] = "due"
    /\ \A m \in Npc : w \notin hands[m]
    /\ turn' = [turn EXCEPT ![n] = "taken"]
    /\ hands' = [hands EXCEPT ![n] = {w}]

\* The worker who has it, and nobody else, ends it: the next one comes later,
\* or the NPC falls asleep.
Put(w, n) ==
    /\ turn[n] = "taken" /\ hands[n] = {w}
    /\ \E next \in {"later", "asleep"} : turn' = [turn EXCEPT ![n] = next]
    /\ hands' = [hands EXCEPT ![n] = {}]

\* The time of the next turn has come.
Expire(n) ==
    /\ turn[n] = "later"
    /\ turn' = [turn EXCEPT ![n] = "due"]
    /\ UNCHANGED hands

Next == Wake \/ \E n \in Npc : Expire(n) \/ \E w \in Worker : Take(w, n) \/ Put(w, n)

Spec == Init /\ [][Next]_<<turn, hands>>
============================================================================
