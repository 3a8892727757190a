-------------------------------- MODULE Loot --------------------------------
(***************************************************************************)
(* Fights and what is left lying about: CS_ATTACK, the experience of a     *)
(* kill, the item an NPC drops (SERVER/Npc.cpp), CS_ITEM_DROP and          *)
(* CS_ITEM_PICKUP (SERVER/Player.cpp), on any number of workers.  The      *)
(* identifiers come from Snowflake.                                        *)
(*                                                                         *)
(* A cell stands for the sector it is in, whose lock an attack holds.      *)
(* Everybody sees the whole map and may stand where he likes; what is seen *)
(* from where is World's subject, positions in a bag are Inventory's, and  *)
(* what reaches Redis and SQL is ItemStores'.  The level-up request to the *)
(* database thread is PlayerSession's.                                     *)
(***************************************************************************)
EXTENDS Snowflake, FiniteSets, FiniteSetsExt

CONSTANTS
    Npc, Player,
    Cell,
    MaxMapItem,     \* MAX_MAP_ITEM
    Capacity,       \* how many items fit in a bag
    NpcLevel,       \* level_ of an NPC
    Carried,        \* the items a player has at the start
    StartExp,       \* exp_ of everybody at the start, at level 1
    StartHp,        \* hp_ of an NPC at the start
    CalmSlots,      \* a drop takes no slot that another handler works on
    CalmMoves       \* an NPC under a blow does not change its sector

MapSlot == 1 .. MaxMapItem
Square(k) == k * k
Reward(n) == 2 * Square(NpcLevel[n])
Required(l) == 100 * 2 ^ (l - 1)

\* There are MAX_USER players and MAX_NPC NPCs (Constants.h:13-14).
ASSUME ArrayAssumption == IsFiniteSet(Player) /\ IsFiniteSet(Npc)
ASSUME NoneAssumption  == None \notin Nat
ASSUME SlotAssumption  == MaxMapItem \in Nat /\ Capacity \in Nat
ASSUME HpAssumption    == StartHp \in [Npc -> Nat \ {0}]
\* MainServer.cpp:295
ASSUME LevelAssumption == NpcLevel \in [Npc -> 1 .. 10]
ASSUME StartAssumption == StartExp \in Nat /\ StartExp < Required(1)
\* Items of an earlier run have older identifiers.
ASSUME CarriedAssumption ==
    /\ Carried \in [Player -> SUBSET (0 .. (SeqSize - 1))]
    /\ \A p, q \in Player : p # q => Carried[p] \intersect Carried[q] = {}
ASSUME CalmAssumption  == {CalmSlots, CalmMoves} \subseteq BOOLEAN

VARIABLES
    state,      \* NPC: state_
    hp,         \* NPC: hp_
    at,         \* NPC: x_ and y_
    exp, level, \* player: exp_ and level_
    bag,        \* player: the keys of inventory_->items_
    slot,       \* item slot: state_
    uid,        \* item slot: item_uid
    placed,     \* the item slots that are in some sector
    listed,     \* player: the item slots in his view_list_
    work        \* thread: the handler it is in

fightVars == <<state, hp, exp, level>>
mapVars   == <<slot, uid, placed, listed>>
vars == <<idVars, fightVars, at, bag, mapVars, work>>

Idle == [pc |-> "idle", player |-> None, damage |-> 0, coords |-> {},
         cell |-> None, seen |-> {}, npc |-> None, dead |-> {},
         slot |-> None, item |-> None]

Init ==
    /\ InitIds
    /\ state = [n \in Npc |-> "INGAME"]
    /\ hp = StartHp
    /\ at \in [Npc -> Cell]
    /\ exp = [p \in Player |-> StartExp]
    /\ level = [p \in Player |-> 1]
    /\ bag = Carried
    /\ slot = [s \in MapSlot |-> "FREE"]
    /\ uid = [s \in MapSlot |-> None]
    /\ placed = {}
    /\ listed = [p \in Player |-> {}]
    /\ work = [w \in Worker |-> Idle]

----------------------------------------------------------------------------
(* What the handlers share.                                                *)

Start(w, r) == work' = [work EXCEPT ![w] = r]
Goto(w, pc) == Start(w, [work[w] EXCEPT !.pc = pc])
Finish(w)   == Start(w, Idle)

\* One WSARecv is outstanding per player, so his commands follow each other.
MayServe(w, p) == work[w].pc = "idle" /\ \A v \in Worker : work[v].player # p

Locked(c) == \E v \in Worker : work[v].pc \in {"aim", "strike"} /\ work[v].cell = c
InHand(s) == \E v \in Worker : work[v].slot = s

----------------------------------------------------------------------------
(* CS_ATTACK.                                                              *)

Attack(w, p) ==
    /\ MayServe(w, p)
    /\ \E C \in {{c} : c \in Cell} \union {Cell}, k \in {2, 3} :
         Start(w, [Idle EXCEPT !.pc = "coord", !.player = p, !.coords = C,
                               !.damage = k * level[p]])
    /\ UNCHANGED <<idVars, fightVars, at, bag, mapVars>>

\* Variant: the sector is not locked.
AimAtUnlocked(w) ==
    /\ work[w].pc = "coord"
    /\ \E c \in work[w].coords :
         Start(w, [work[w] EXCEPT !.pc = "aim", !.cell = c, !.seen = {},
                                  !.coords = @ \ {c}])
    /\ UNCHANGED <<idVars, fightVars, at, bag, mapVars>>

\* The next coordinate, under the lock of its sector.
AimAt(w) ==
    /\ work[w].pc = "coord"
    /\ \E c \in work[w].coords :
         /\ ~Locked(c)
         /\ Start(w, [work[w] EXCEPT !.pc = "aim", !.cell = c, !.seen = {},
                                     !.coords = @ \ {c}])
    /\ UNCHANGED <<idVars, fightVars, at, bag, mapVars>>

Target(w, n) == n \notin work[w].seen /\ state[n] = "INGAME" /\ at[n] = work[w].cell

\* An id of the sector: its state under mut_state_, then its coordinates.
Aim(w) ==
    /\ work[w].pc = "aim"
    /\ \E n \in Npc :
         /\ Target(w, n)
         /\ Start(w, [work[w] EXCEPT !.pc = "strike", !.npc = n, !.seen = @ \union {n}])
    /\ UNCHANGED <<idVars, fightVars, at, bag, mapVars>>

\* Variant: the hit points are not set to 0.
WoundBelowZero(n, damage) == hp' = [hp EXCEPT ![n] = @ - damage]

Wound(n, damage) ==
    hp' = [hp EXCEPT ![n] = IF @ <= damage THEN 0 ELSE @ - damage]

\* Variant: what a level costs is not taken off.
EarnAll(p, e) ==
    /\ exp' = [exp EXCEPT ![p] = @ + e]
    /\ level' = [level EXCEPT ![p] = IF exp[p] + e >= Required(@) THEN @ + 1 ELSE @]

\* At most one level for one kill.
Earn(p, e) ==
    LET up == exp[p] + e >= Required(level[p]) IN
      /\ exp' = [exp EXCEPT ![p] = IF up THEN @ + e - Required(level[p]) ELSE @ + e]
      /\ level' = [level EXCEPT ![p] = IF up THEN @ + 1 ELSE @]

Strike(w) ==
    /\ work[w].pc = "strike"
    /\ LET n == work[w].npc
           d == work[w].damage IN
         /\ Wound(n, d)
         /\ \/ /\ hp[n] <= d
               /\ state' = [state EXCEPT ![n] = "DEAD"]
               /\ Earn(work[w].player, Reward(n))
               /\ Start(w, [work[w] EXCEPT !.pc = "aim", !.npc = None, !.dead = @ \union {n}])
            \/ /\ hp[n] > d
               /\ Start(w, [work[w] EXCEPT !.pc = "aim", !.npc = None])
               /\ UNCHANGED <<state, exp, level>>
    /\ UNCHANGED <<idVars, at, bag, mapVars>>

\* On to the next coordinate, if there is one.
AimNext(w) == IF work[w].coords = {} THEN Finish(w)
              ELSE Start(w, [work[w] EXCEPT !.pc = "coord", !.cell = None, !.seen = {}])

\* The lock is released; the viewers are told (World), the dead drop items.
Unlock(w) ==
    /\ work[w].pc = "aim"
    /\ \A n \in Npc : ~Target(w, n)
    /\ \/ /\ work[w].dead = {}
          /\ AimNext(w)
       \/ /\ work[w].dead # {}
          /\ Start(w, [work[w] EXCEPT !.pc = "drop", !.cell = None, !.seen = {}])
    /\ UNCHANGED <<idVars, fightVars, at, bag, mapVars>>

----------------------------------------------------------------------------
(* Dropping: Npc::DropItem and CS_ITEM_DROP.                               *)

FreeSlot == {s \in MapSlot : slot[s] = "FREE"}

\* The items there are: those of the start and those that NPCs dropped.
Items == (UNION {Carried[p] : p \in Player}) \union issued

\* GetNewMapItemId: the first free slot, which is not marked as taken.
IsNewMapItemId(s) ==
    /\ s \in FreeSlot
    /\ \A r \in FreeSlot : s <= r
    /\ CalmSlots => ~InHand(s)

\* A dead NPC drops an item, unless chance or a full map has it otherwise.
NpcDrops(w) ==
    /\ work[w].pc = "drop"
    /\ \E n \in work[w].dead :
         \/ \E s \in MapSlot :
              /\ IsNewMapItemId(s)
              /\ Start(w, [work[w] EXCEPT !.pc = "number", !.slot = s, !.dead = @ \ {n}])
         \/ Start(w, [work[w] EXCEPT !.dead = @ \ {n}])
    /\ UNCHANGED <<idVars, fightVars, at, bag, mapVars>>

NoneLeft(w) ==
    /\ work[w].pc = "drop"
    /\ work[w].dead = {}
    /\ AimNext(w)
    /\ UNCHANGED <<idVars, fightVars, at, bag, mapVars>>

Write(w, i) ==
    /\ uid' = [uid EXCEPT ![work[w].slot] = i]
    /\ Goto(w, "publish")

\* item_uid = g_snowflake.Generate().
Number(w) ==
    /\ work[w].pc = "number"
    /\ Generate(w)
    /\ Write(w, NewId)
    /\ UNCHANGED <<clock, fightVars, at, bag, slot, placed, listed>>

NumberWaits(w) ==
    /\ work[w].pc = "number"
    /\ GenerateWait(w)
    /\ UNCHANGED <<fightVars, at, bag, mapVars, work>>

\* CS_ITEM_DROP: the slot first, then the item.
Drop(w, p) ==
    /\ MayServe(w, p)
    /\ \E s \in MapSlot, i \in Items :
         /\ IsNewMapItemId(s)
         /\ Start(w, [Idle EXCEPT !.pc = "take", !.player = p, !.slot = s, !.item = i])
    /\ UNCHANGED <<idVars, fightVars, at, bag, mapVars>>

\* RemoveItem: the command names an item the player need not have.
Take(w) ==
    /\ work[w].pc = "take"
    /\ LET p == work[w].player
           i == work[w].item IN
         \/ /\ i \in bag[p]
            /\ bag' = [bag EXCEPT ![p] = @ \ {i}]
            /\ Write(w, i)
         \/ /\ i \notin bag[p]
            /\ Finish(w)
            /\ UNCHANGED <<bag, uid>>
    /\ UNCHANGED <<idVars, fightVars, at, slot, placed, listed>>

\* state_ and PutInSector: nobody looks for the slot before it is in a view list.
Publish(w) ==
    /\ work[w].pc = "publish"
    /\ slot' = [slot EXCEPT ![work[w].slot] = "INGAME"]
    /\ placed' = placed \union {work[w].slot}
    /\ Goto(w, "announce")
    /\ UNCHANGED <<idVars, fightVars, at, bag, uid, listed>>

\* Into the view list of everybody near, with SC_ADD_MAP_ITEM.  An attack goes
\* on with the next of its dead.
Announce(w) ==
    /\ work[w].pc = "announce"
    /\ listed' = [p \in Player |-> listed[p] \union {work[w].slot}]
    /\ \/ /\ work[w].item = None
          /\ Start(w, [work[w] EXCEPT !.pc = "drop", !.slot = None])
       \/ /\ work[w].item # None
          /\ Finish(w)
    /\ UNCHANGED <<idVars, fightVars, at, bag, slot, uid, placed>>

----------------------------------------------------------------------------
(* CS_ITEM_PICKUP.                                                         *)

\* An item of his view list, without a look at its state.
Pickup(w, p) ==
    /\ MayServe(w, p)
    /\ \E s \in listed[p] :
         Start(w, [Idle EXCEPT !.pc = "claim", !.player = p, !.slot = s])
    /\ UNCHANGED <<idVars, fightVars, at, bag, mapVars>>

\* Variant: it is not looked whether somebody else has it already.
ClaimAnyway(w) ==
    /\ work[w].pc = "claim"
    /\ slot' = [slot EXCEPT ![work[w].slot] = "FREE"]
    /\ Goto(w, "gain")
    /\ UNCHANGED <<idVars, fightVars, at, bag, uid, placed, listed>>

\* Under mut_state_: whoever finds it INGAME sets it free and has it.
Claim(w) ==
    /\ work[w].pc = "claim"
    /\ \/ /\ slot[work[w].slot] = "INGAME"
          /\ slot' = [slot EXCEPT ![work[w].slot] = "FREE"]
          /\ Goto(w, "gain")
       \/ /\ slot[work[w].slot] # "INGAME"
          /\ Finish(w)
          /\ UNCHANGED slot
    /\ UNCHANGED <<idVars, fightVars, at, bag, uid, placed, listed>>

\* The identity is read from the slot, which is free by now.
Gain(w) ==
    /\ work[w].pc = "gain"
    /\ LET p == work[w].player IN
         \/ /\ Cardinality(bag[p]) < Capacity
            /\ bag' = [bag EXCEPT ![p] = @ \union {uid[work[w].slot]}]
            /\ Goto(w, "unlist")
         \/ /\ Cardinality(bag[p]) >= Capacity
            /\ Goto(w, "restore")
            /\ UNCHANGED bag
    /\ UNCHANGED <<idVars, fightVars, at, mapVars>>

\* No room: the item is put back on the map.
Restore(w) ==
    /\ work[w].pc = "restore"
    /\ slot' = [slot EXCEPT ![work[w].slot] = "INGAME"]
    /\ Finish(w)
    /\ UNCHANGED <<idVars, fightVars, at, bag, uid, placed, listed>>

SendRemoveObjectPacket(p, s) == listed[p] \ {s}

\* Variant: only the view list of the one who took it is corrected.
UnlistOwn(w) ==
    /\ work[w].pc = "unlist"
    /\ listed' = [listed EXCEPT ![work[w].player] = @ \ {work[w].slot}]
    /\ Goto(w, "unplace")
    /\ UNCHANGED <<idVars, fightVars, at, bag, slot, uid, placed>>

\* Out of the view list of everybody near, with SC_REMOVE_MAP_ITEM.
Unlist(w) ==
    /\ work[w].pc = "unlist"
    /\ listed' = [p \in Player |-> SendRemoveObjectPacket(p, work[w].slot)]
    /\ Goto(w, "unplace")
    /\ UNCHANGED <<idVars, fightVars, at, bag, slot, uid, placed>>

Unplace(w) ==
    /\ work[w].pc = "unplace"
    /\ placed' = placed \ {work[w].slot}
    /\ Finish(w)
    /\ UNCHANGED <<idVars, fightVars, at, bag, slot, uid, listed>>

----------------------------------------------------------------------------
\* A living NPC walks (World has the details).
NpcMoves(n) ==
    /\ state[n] = "INGAME"
    /\ CalmMoves => \A w \in Worker : work[w].npc # n
    /\ \E c \in Cell \ {at[n]} : at' = [at EXCEPT ![n] = c]
    /\ UNCHANGED <<idVars, fightVars, bag, mapVars, work>>

ClockTicks == Tick /\ UNCHANGED <<fightVars, at, bag, mapVars, work>>

AttackStep(w) == \/ AimAt(w) \/ Aim(w) \/ Strike(w) \/ Unlock(w)
DropStep(w)   == \/ NpcDrops(w) \/ NoneLeft(w) \/ Number(w) \/ NumberWaits(w)
                 \/ Take(w) \/ Publish(w) \/ Announce(w)
PickupStep(w) == \/ Claim(w) \/ Gain(w) \/ Restore(w) \/ Unlist(w) \/ Unplace(w)

Next == \/ \E w \in Worker : AttackStep(w) \/ DropStep(w) \/ PickupStep(w)
        \/ \E w \in Worker, p \in Player : Attack(w, p) \/ Drop(w, p) \/ Pickup(w, p)
        \/ \E n \in Npc : NpcMoves(n)
        \/ ClockTicks

Spec == Init /\ [][Next]_vars

----------------------------------------------------------------------------
FightPc  == {"coord", "aim", "strike", "drop"}
MapPc    == {"number", "publish", "announce"}
PickupPc == {"claim", "gain", "restore", "unlist", "unplace"}

Handler == [pc : {"idle", "take"} \union FightPc \union MapPc \union PickupPc,
            player : Player \union {None}, damage : Nat, coords : SUBSET Cell,
            cell : Cell \union {None}, seen : SUBSET Npc, npc : Npc \union {None},
            dead : SUBSET Npc, slot : MapSlot \union {None}, item : Nat \union {None}]

\* Every variable has its type; hit points are never negative.
TypeOK ==
    /\ state \in [Npc -> {"INGAME", "DEAD"}]
    /\ hp \in [Npc -> Nat]
    /\ at \in [Npc -> Cell]
    /\ exp \in [Player -> Nat]
    /\ level \in [Player -> Nat \ {0}]
    /\ bag \in [Player -> SUBSET Nat]
    /\ slot \in [MapSlot -> {"FREE", "INGAME"}]
    /\ uid \in [MapSlot -> Nat \union {None}]
    /\ placed \subseteq MapSlot
    /\ listed \in [Player -> SUBSET MapSlot]
    /\ work \in [Worker -> Handler]

\* A player's experience stays below what his next level costs, though a kill
\* gives at most one level (Player.cpp:863-874): no level is left unpaid.
ExpBelow == \A p \in Player : exp[p] < Required(level[p])

\* All the experience a player ever got.
Total(p) == exp[p] + 100 * (2 ^ (level[p] - 1) - 1)

\* Attackers of one sector follow each other, so an NPC dies once: what the
\* players have earned is what the dead NPCs were worth (Player.cpp:834-877).
ExpForDeaths ==
    MapThenSumSet(Total, Player)
      = StartExp * Cardinality(Player)
        + MapThenSumSet(Reward, {n \in Npc : state[n] = "DEAD"})

\* Where an item is: in a bag, or in a slot that is on the map or in the hands
\* of a handler.
Lying(s) == \/ slot[s] = "INGAME"
            \/ \E w \in Worker : work[w].slot = s /\ work[w].pc \in {"publish", "gain", "restore"}
Places(i) == {p \in Player : i \in bag[p]} \union {s \in MapSlot : uid[s] = i /\ Lying(s)}

\* No item is lost and none is doubled, whoever drops and whoever picks up at
\* the same time (Player.cpp:968-1093, Npc.cpp:348-387).
ItemInOnePlace ==
    \A i \in Items : Cardinality(Places(i)) = 1

\* A slot nobody works on is on the map, in a sector and in every view list,
\* or in none of them (Player.cpp:989-1010, 1056-1080).
MapAgrees ==
    \A s \in MapSlot :
      ~InHand(s) => /\ slot[s] = "INGAME" <=> s \in placed
                    /\ \A p \in Player : slot[s] = "INGAME" <=> s \in listed[p]
============================================================================
