------------------------------- MODULE World -------------------------------
(***************************************************************************)
(* The shared map: what happens when players enter, move, attack and leave *)
(* (SERVER/Player.cpp, SERVER/MainServer.cpp) and NPCs wake, act and sleep *)
(* (SERVER/Npc.cpp, SERVER/Timer.cpp), all at once, on the IOCP workers,   *)
(* the database thread and the timer thread.                               *)
(*                                                                         *)
(* The map is one row of cells (W_HEIGHT is 1): the code treats x and y    *)
(* alike and apart, and a step up or down leaves such a map.               *)
(* A step boundary stands wherever a handler releases a lock, or writes a  *)
(* field that has none; a sector is scanned in one step, under its lock.   *)
(*                                                                         *)
(* What is left out: hit points (an attack is the one that kills), chat,   *)
(* items on the map, and the identity of an Agro NPC's target (it chases   *)
(* some player it can see).                                                *)
(***************************************************************************)
EXTENDS Naturals, Sequences, FiniteSets

CONSTANTS
    Npc, Player,    \* the ids below and above MAX_NPC
    Worker,         \* the threads that run Worker()
    Db,             \* the database thread
    None,
    Width,          \* W_WIDTH
    Sight,          \* VIEW_RANGE / 2, which is also SEC_RANGE / 2
    SecRow,         \* SEC_ROW
    LuaMayFail,     \* GetAiLua may return nullptr
    MayTeleport,    \* CS_TELEPORT is sent
    Rejoin,         \* the slot of a player who left is issued again
    CalmSelf,       \* the handlers of one player do not overlap
    CalmViews       \* no two handlers overlap

Object == Npc \union Player
Thread == Worker \union {Db}
Cell   == 0 .. (Width - 1)
Sector == {x \div SecRow : x \in 0 .. Width}

ASSUME MapAssumption  == Width \in Nat \ {0} /\ SecRow \in Nat \ {0} /\ Sight \in Nat
ASSUME IdAssumption   == Npc \intersect Player = {}
ASSUME NoneAssumption == None \notin Object \union Sector
ASSUME DbAssumption   == Db \notin Worker
ASSUME ModeAssumption == {LuaMayFail, MayTeleport, Rejoin,
                          CalmSelf, CalmViews} \subseteq BOOLEAN

VARIABLES
    state,      \* state_
    pos,        \* x_
    sector,     \* current_sector_
    around,     \* around_sector_
    members,    \* g_ObjectSector[s].sec_id_
    view,       \* view_list_
    shown,      \* what a player's client draws
    joined,     \* the player slots issued so far
    agro,       \* the NPCs whose visual_ is OT_NPC_AGRO
    active,     \* Npc::active_
    timer,      \* how many events of an NPC wait in g_event_queue
    posted,     \* how many NPC completions wait in the completion port
    work        \* thread: the handler it is in

placeVars == <<state, pos, sector, around, members>>
viewVars  == <<view, shown>>
onceVars  == <<joined, agro>>
npcVars   == <<active, timer, posted>>
vars == <<placeVars, viewVars, onceVars, npcVars, work>>

Distance(x, y) == IF x <= y THEN y - x ELSE x - y

SectorOf(x) == x \div SecRow
Around(x) == {SectorOf(x), SectorOf(x + Sight),
              IF x < Sight THEN 0 ELSE SectorOf(x - Sight)} \intersect Sector
CanSee(a, b) == Distance(pos[a], pos[b]) <= Sight

Idle == [pc |-> "idle", self |-> None, me |-> None, from |-> None, to |-> None,
         prev |-> {}, seen |-> {}, left |-> {}, ops |-> <<>>]

Init ==
    /\ state = [o \in Object |-> IF o \in Npc THEN "INGAME" ELSE "FREE"]
    /\ pos \in {f \in [Object -> Cell] : \A p \in Player : f[p] = 0}
    /\ sector = [o \in Object |-> IF o \in Npc THEN SectorOf(pos[o]) ELSE None]
    /\ around = [o \in Object |-> IF o \in Npc THEN Around(pos[o]) ELSE {}]
    /\ members = [s \in Sector |-> {n \in Npc : SectorOf(pos[n]) = s}]
    /\ view = [o \in Object |-> {}]
    /\ shown = [p \in Player |-> {}]
    /\ joined = {}
    /\ agro \in SUBSET Npc
    /\ active = [n \in Npc |-> FALSE]
    /\ timer = [n \in Npc |-> 0]
    /\ posted = [n \in Npc |-> 0]
    /\ work = [t \in Thread |-> Idle]

----------------------------------------------------------------------------
(* What the handlers share.                                                *)

Serving(o) == \E t \in Thread : work[t].self = o
Start(t, r) == work' = [work EXCEPT ![t] = r]
Goto(t, pc) == Start(t, [work[t] EXCEPT !.pc = pc])
Finish(t) == Start(t, Idle)

\* The handler goes on with an NPC's turn, and with its search for players.
Turn(t, n, pc, r) == Start(t, [r EXCEPT !.pc = pc, !.self = n, !.me = n])
Search(t, n, pc)  == Turn(t, n, pc, [Idle EXCEPT !.left = around[n]])

\* When a handler may start.
MayStart(t) ==
    /\ work[t].pc = "idle"
    /\ CalmViews => \A u \in Thread : work[u].pc = "idle"

\* EnterGame holds a sector's lock while it sends; everyone else takes it for
\* one step.
Locked(s) == work[Db].pc = "enter" /\ work[Db].to = s

\* SendAddObjectPacket(x) and SendRemoveObjectPacket(x) of object o: the view
\* list is written under mut_view_, the packet is sent after it is released.
\* An NPC's versions send nothing.
Op(op, o, x) == [op |-> op, who |-> o, what |-> x]

\* Variant: an NPC's version sends a packet too.
AddOpsSend(o, x) == <<Op("insert", o, x), Op("add", o, x)>>

AddOps(o, x) == IF o \in Npc THEN <<Op("insert", o, x)>>
                ELSE <<Op("insert", o, x), Op("add", o, x)>>
RemoveOps(o, x) == IF o \in Npc THEN <<Op("erase", o, x)>>
                   ELSE <<Op("erase", o, x), Op("remove", o, x)>>

Do(t) ==
    /\ work[t].ops # <<>>
    /\ LET o == Head(work[t].ops) IN
         /\ view' = CASE o.op = "insert" -> [view EXCEPT ![o.who] = @ \union {o.what}]
                      [] o.op = "erase"  -> [view EXCEPT ![o.who] = @ \ {o.what}]
                      [] OTHER -> view
         /\ shown' = CASE o.op = "add"    -> [shown EXCEPT ![o.who] = @ \union {o.what}]
                       [] o.op = "remove" -> [shown EXCEPT ![o.who] = @ \ {o.what}]
                       [] OTHER -> shown
    /\ Start(t, [work[t] EXCEPT !.ops = Tail(@)])
    /\ UNCHANGED <<placeVars, onceVars, npcVars>>

\* Variant: WakeUpNpc posts without looking at active_.
WakeUpAlways(S) ==
    /\ active' = [n \in Npc |-> active[n] \/ n \in S]
    /\ posted' = [n \in Npc |-> IF n \in S THEN posted[n] + 1 ELSE posted[n]]

\* WakeUpNpc: the compare-and-swap on active_ lets one caller post.
WakeUp(S) ==
    /\ active' = [n \in Npc |-> active[n] \/ n \in S]
    /\ posted' = [n \in Npc |-> IF n \in S /\ ~active[n] THEN posted[n] + 1
                                ELSE posted[n]]

----------------------------------------------------------------------------
(* A player connects, enters the game, moves, teleports, kills, leaves.    *)

\* KEY_ACCEPT: the slot is at the origin, and in a sector.
Connect(p) ==
    /\ state[p] = "FREE" /\ ~Serving(p)
    /\ CalmViews => \A u \in Thread : work[u].pc = "idle"
    /\ Rejoin \/ p \notin joined
    /\ \A s \in {0, sector[p]} \ {None} : ~Locked(s)
    /\ state' = [state EXCEPT ![p] = "ACTIVE"]
    /\ pos' = [pos EXCEPT ![p] = 0]
    /\ sector' = [sector EXCEPT ![p] = 0]
    /\ around' = [around EXCEPT ![p] = Around(0)]
    /\ members' = IF sector[p] = 0 THEN members
                  ELSE [s \in Sector |-> CASE s = 0         -> members[s] \union {p}
                                         [] s = sector[p] -> members[s] \ {p}
                                         [] OTHER         -> members[s]]
    /\ joined' = joined \union {p}
    /\ shown' = [shown EXCEPT ![p] = {}]
    /\ UNCHANGED <<view, agro, npcVars, work>>

\* DBLogin: the coordinates come from the stores, and the client is told.
Enter(p, x) ==
    /\ MayStart(Db)
    /\ state[p] = "ACTIVE"
    /\ CalmSelf => ~Serving(p)
    /\ pos' = [pos EXCEPT ![p] = x]
    /\ Start(Db, [Idle EXCEPT !.pc = "place", !.self = p, !.me = p])
    /\ UNCHANGED <<state, sector, around, members, viewVars, onceVars, npcVars>>

\* A command is read once the client has been told and the previous one of
\* the same socket is done.
Commands(t, p) ==
    /\ t \in Worker
    /\ MayStart(t)
    /\ \A u \in Worker : work[u].self # p
    /\ \/ state[p] = "INGAME" /\ ~Serving(p)
       \/ ~CalmSelf /\ work[Db].self = p

\* CS_MOVE.
Move(t, p) ==
    /\ Commands(t, p)
    /\ \E x \in Cell : /\ Distance(x, pos[p]) <= 1
                       /\ pos' = [pos EXCEPT ![p] = x]
    /\ Start(t, [Idle EXCEPT !.pc = "place", !.self = p, !.me = p])
    /\ UNCHANGED <<state, sector, around, members, viewVars, onceVars, npcVars>>

\* CS_TELEPORT: PutInSector is not called.
Teleport(t, p) ==
    /\ MayTeleport
    /\ Commands(t, p)
    /\ \E x \in Cell : pos' = [pos EXCEPT ![p] = x]
    /\ UNCHANGED <<state, sector, around, members, viewVars, onceVars, npcVars, work>>

\* CS_ATTACK that kills: under the sector's lock the NPC dies and its viewers
\* are copied.
Kill(t, p, n) ==
    /\ Commands(t, p)
    /\ state[n] = "INGAME"
    /\ Distance(pos[p], pos[n]) = 1
    /\ n \in members[SectorOf(pos[n])] /\ ~Locked(SectorOf(pos[n]))
    /\ state' = [state EXCEPT ![n] = "DEAD"]
    /\ Start(t, [Idle EXCEPT !.pc = "bury", !.self = p, !.me = n, !.seen = view[n]])
    /\ UNCHANGED <<pos, sector, around, members, viewVars, onceVars, npcVars>>

\* Every viewer is sent SC_REMOVE_OBJECT.
Bury(t) ==
    /\ work[t].pc = "bury" /\ work[t].ops = <<>>
    /\ IF work[t].seen = {} THEN Finish(t)
       ELSE \E v \in work[t].seen :
              Start(t, [work[t] EXCEPT !.seen = @ \ {v},
                                   !.ops = RemoveOps(v, work[t].me)])
    /\ UNCHANGED <<placeVars, viewVars, onceVars, npcVars>>

----------------------------------------------------------------------------
(* PutInSector and the view diff, shared by CS_MOVE and Npc::Move.         *)

AfterPlace(t) ==
    IF t = Db THEN [work[t] EXCEPT !.pc = "ingame", !.from = None, !.to = None]
    ELSE [work[t] EXCEPT !.pc = "look", !.from = None, !.to = None]

\* The new sector is compared with current_sector_, which is overwritten.
Place(t) ==
    /\ work[t].pc = "place"
    /\ LET me == work[t].me
           s == SectorOf(pos[me]) IN
         /\ around' = [around EXCEPT ![me] = Around(pos[me])]
         /\ sector' = [sector EXCEPT ![me] = s]
         /\ Start(t, IF sector[me] = s THEN AfterPlace(t)
                     ELSE [work[t] EXCEPT !.pc = "enroll", !.from = sector[me],
                                          !.to = s])
    /\ UNCHANGED <<state, pos, members, viewVars, onceVars, npcVars>>

\* Into the new sector first, then out of the old one.
Enroll(t) ==
    /\ work[t].pc = "enroll" /\ ~Locked(work[t].to)
    /\ members' = [members EXCEPT ![work[t].to] = @ \union {work[t].me}]
    /\ Start(t, IF work[t].from = None THEN AfterPlace(t)
                ELSE [work[t] EXCEPT !.pc = "withdraw"])
    /\ UNCHANGED <<state, pos, sector, around, viewVars, onceVars, npcVars>>

\* Variant: the id stays in the old sector.
WithdrawNot(t) ==
    /\ work[t].pc = "withdraw" /\ ~Locked(work[t].from)
    /\ Start(t, AfterPlace(t))
    /\ UNCHANGED <<placeVars, viewVars, onceVars, npcVars>>

Withdraw(t) ==
    /\ work[t].pc = "withdraw" /\ ~Locked(work[t].from)
    /\ members' = [members EXCEPT ![work[t].from] = @ \ {work[t].me}]
    /\ Start(t, AfterPlace(t))
    /\ UNCHANGED <<state, pos, sector, around, viewVars, onceVars, npcVars>>

\* The previous view list is copied (an NPC copied it before it moved).
Look(t) ==
    /\ work[t].pc = "look"
    /\ LET me == work[t].me IN
         Start(t, [work[t] EXCEPT !.pc = "scan", !.left = around[me],
                                  !.prev = IF me \in Npc THEN @ ELSE view[me]])
    /\ UNCHANGED <<placeVars, viewVars, onceVars, npcVars>>

Visible(me, s) == {o \in members[s] \ {me} : state[o] = "INGAME" /\ CanSee(me, o)}

\* One sector is searched; a player's search wakes the NPCs it sees, an NPC's
\* search is for players.
Scan(t) ==
    /\ work[t].pc = "scan"
    /\ IF work[t].left = {}
       THEN Goto(t, "diff") /\ UNCHANGED <<active, posted>>
       ELSE \E s \in work[t].left :
              LET me == work[t].me IN
              /\ \A r \in work[t].left : s <= r
              /\ ~Locked(s)
              /\ IF me \in Npc
                 THEN /\ Start(t, [work[t] EXCEPT !.left = @ \ {s},
                                    !.seen = @ \union (Visible(me, s) \intersect Player)])
                      /\ UNCHANGED <<active, posted>>
                 ELSE /\ Start(t, [work[t] EXCEPT !.left = @ \ {s},
                                    !.seen = @ \union Visible(me, s)])
                      /\ WakeUp(Visible(me, s) \intersect Npc)
    /\ UNCHANGED <<placeVars, viewVars, onceVars, timer>>

MeetOps(me, o) == IF me \in Npc THEN AddOps(o, me) \o AddOps(me, o)
                  ELSE AddOps(me, o) \o AddOps(o, me)

\* Variant: only the mover's own list is corrected.
PartOpsOwn(me, o) == RemoveOps(me, o)

PartOps(me, o) == (IF state[o] = "INGAME" THEN RemoveOps(o, me) ELSE <<>>)
                  \o RemoveOps(me, o)

\* What is seen and was not in the previous list comes into view; then what
\* was and is not seen leaves it.
Diff(t) ==
    /\ work[t].pc = "diff" /\ work[t].ops = <<>>
    /\ LET me == work[t].me
           prev == work[t].prev
           seen == work[t].seen IN
         \/ \E o \in seen \ prev :
              Start(t, [work[t] EXCEPT !.prev = @ \union {o}, !.ops = MeetOps(me, o)])
         \/ /\ seen \subseteq prev
            /\ \E o \in prev \ seen :
                 Start(t, [work[t] EXCEPT !.prev = @ \ {o}, !.ops = PartOps(me, o)])
    /\ UNCHANGED <<placeVars, viewVars, onceVars, npcVars>>

\* The handler ends; an NPC goes on to decide about its next turn.
DiffEnd(t) ==
    /\ work[t].pc = "diff" /\ work[t].ops = <<>>
    /\ work[t].prev = work[t].seen
    /\ IF work[t].me \in Player THEN Finish(t)
       ELSE IF work[t].me \in agro THEN Turn(t, work[t].me, "schedule", Idle)
       ELSE Search(t, work[t].me, "decide")
    /\ UNCHANGED <<placeVars, viewVars, onceVars, npcVars>>

----------------------------------------------------------------------------
(* The rest of EnterGame, and disconnect().                                *)

EnterIngame ==
    /\ work[Db].pc = "ingame"
    /\ LET p == work[Db].me IN
         /\ state' = [state EXCEPT ![p] = "INGAME"]
         /\ Start(Db, [work[Db] EXCEPT !.pc = "enter", !.left = around[p]])
    /\ UNCHANGED <<pos, sector, around, members, viewVars, onceVars, npcVars>>

\* The next sector is locked, and its ids are visited one by one.
EnterLock ==
    /\ work[Db].pc = "enter" /\ work[Db].ops = <<>> /\ work[Db].seen = {}
    /\ IF work[Db].left = {} THEN Finish(Db)
       ELSE \E s \in work[Db].left :
              /\ \A r \in work[Db].left : s <= r
              /\ Start(Db, [work[Db] EXCEPT !.to = s, !.left = @ \ {s},
                                            !.seen = members[s]])
    /\ UNCHANGED <<placeVars, viewVars, onceVars, npcVars>>

EnterMeet ==
    /\ work[Db].pc = "enter" /\ work[Db].ops = <<>>
    /\ \E o \in work[Db].seen :
         LET me == work[Db].me IN
         IF o # me /\ state[o] = "INGAME" /\ CanSee(me, o)
         THEN /\ Start(Db, [work[Db] EXCEPT !.seen = @ \ {o},
                                            !.ops = AddOps(o, me) \o AddOps(me, o)])
              /\ WakeUp({o} \intersect Npc)
         ELSE /\ Start(Db, [work[Db] EXCEPT !.seen = @ \ {o}])
              /\ UNCHANGED <<active, posted>>
    /\ UNCHANGED <<placeVars, viewVars, onceVars, timer>>

Leave(t, p) ==
    /\ t \in Worker
    /\ MayStart(t)
    /\ state[p] \in {"ACTIVE", "INGAME"}
    /\ IF CalmSelf THEN ~Serving(p)
       ELSE \A u \in Worker : work[u].self = p =>
              work[u].pc \notin {"leave", "vanish", "free"}
    /\ Start(t, [Idle EXCEPT !.pc = "leave", !.self = p, !.me = p, !.left = around[p]])
    /\ UNCHANGED <<placeVars, viewVars, onceVars, npcVars>>

\* The ids of one sector are copied.
LeaveScan(t) ==
    /\ work[t].pc = "leave" /\ work[t].ops = <<>> /\ work[t].seen = {}
    /\ IF work[t].left = {} THEN Goto(t, "vanish")
       ELSE \E s \in work[t].left :
              /\ \A r \in work[t].left : s <= r
              /\ ~Locked(s)
              /\ Start(t, [work[t] EXCEPT !.left = @ \ {s}, !.seen = members[s]])
    /\ UNCHANGED <<placeVars, viewVars, onceVars, npcVars>>

\* A player in the game who can see the one who leaves is told.
LeaveTell(t) ==
    /\ work[t].pc = "leave" /\ work[t].ops = <<>>
    /\ \E o \in work[t].seen :
         Start(t, [work[t] EXCEPT !.seen = @ \ {o},
                              !.ops = IF /\ o \in Player \ {work[t].me}
                                            /\ state[o] = "INGAME"
                                            /\ CanSee(o, work[t].me)
                                         THEN RemoveOps(o, work[t].me) ELSE <<>>])
    /\ UNCHANGED <<placeVars, viewVars, onceVars, npcVars>>

\* Variant: the id is not erased.
VanishNot(t) ==
    /\ work[t].pc = "vanish"
    /\ sector' = [sector EXCEPT ![work[t].me] = None]
    /\ around' = [around EXCEPT ![work[t].me] = {}]
    /\ Goto(t, "free")
    /\ UNCHANGED <<state, pos, members, viewVars, onceVars, npcVars>>

Vanish(t) ==
    /\ work[t].pc = "vanish"
    /\ LET p == work[t].me IN
         /\ sector[p] # None => ~Locked(sector[p])
         /\ members' = IF sector[p] = None THEN members
                       ELSE [members EXCEPT ![sector[p]] = @ \ {p}]
         /\ sector' = [sector EXCEPT ![p] = None]
         /\ around' = [around EXCEPT ![p] = {}]
    /\ Goto(t, "free")
    /\ UNCHANGED <<state, pos, viewVars, onceVars, npcVars>>

Free(t) ==
    /\ work[t].pc = "free"
    /\ state' = [state EXCEPT ![work[t].me] = "FREE"]
    /\ Finish(t)
    /\ UNCHANGED <<pos, sector, around, members, viewVars, onceVars, npcVars>>

----------------------------------------------------------------------------
(* An NPC's turn: a completion, DoMove, and the timer of the next turn.    *)

\* Variant: the last event stays in the queue.
FireAllButLast(n) ==
    /\ timer[n] > 1
    /\ timer' = [timer EXCEPT ![n] = @ - 1]
    /\ posted' = [posted EXCEPT ![n] = @ + 1]
    /\ UNCHANGED <<placeVars, viewVars, onceVars, active, work>>

\* Variant: the event is not taken off the queue.
FireKept(n) ==
    /\ timer[n] > 0
    /\ posted' = [posted EXCEPT ![n] = @ + 1]
    /\ UNCHANGED <<placeVars, viewVars, onceVars, active, timer, work>>

\* DoAITimer: an event that is due becomes a completion.
Fire(n) ==
    /\ timer[n] > 0
    /\ timer' = [timer EXCEPT ![n] = @ - 1]
    /\ posted' = [posted EXCEPT ![n] = @ + 1]
    /\ UNCHANGED <<placeVars, viewVars, onceVars, active, work>>

\* IsValidTarget: a target is kept while it can be seen, wherever it is listed.
ValidTarget(n, p) == state[p] = "INGAME" /\ CanSee(n, p)

\* Npc::Move up to PutInSector.
Step(t, n, x) ==
    /\ pos' = [pos EXCEPT ![n] = x]
    /\ Turn(t, n, "place", [Idle EXCEPT !.prev = view[n]])

Take(t, n) ==
    /\ t \in Worker
    /\ MayStart(t)
    /\ posted[n] > 0
    /\ posted' = [posted EXCEPT ![n] = @ - 1]

\* event_player_search: one cell towards the player, wherever he is by now,
\* unless he is adjacent.
Chase(t, n, p) ==
    \/ Distance(pos[n], pos[p]) <= 1 /\ Turn(t, n, "schedule", Idle) /\ UNCHANGED pos
    \/ pos[p] > pos[n] + 1 /\ Step(t, n, pos[n] + 1)
    \/ pos[p] + 1 < pos[n] /\ Step(t, n, pos[n] - 1)

\* The kept target is valid; the Lua state may not be made.
ActAgro(t, n) ==
    /\ n \in agro
    /\ Take(t, n)
    /\ \E p \in {q \in Player : ValidTarget(n, q)} :
         \/ Chase(t, n, p)
         \/ LuaMayFail /\ Turn(t, n, "sleep", Idle) /\ UNCHANGED pos
    /\ UNCHANGED <<state, sector, around, members, viewVars, onceVars, active, timer>>

\* It is not: another one is looked for.
ActAgroSeek(t, n) ==
    /\ n \in agro
    /\ Take(t, n)
    /\ Search(t, n, "seek")
    /\ UNCHANGED <<placeVars, viewVars, onceVars, active, timer>>

Prey(n, s) == {p \in members[s] \intersect Player : ValidTarget(n, p)}

\* GetNearestPlayerId: one sector is searched, the next one later.
Seek(t) ==
    /\ work[t].pc = "seek"
    /\ \E s \in work[t].left :
         LET found == work[t].seen \union Prey(work[t].me, s) IN
         /\ \A r \in work[t].left : s <= r
         /\ ~Locked(s)
         /\ IF work[t].left = {s} /\ found = {} THEN Turn(t, work[t].me, "sleep", Idle)
            ELSE Start(t, [work[t] EXCEPT !.left = @ \ {s}, !.seen = found])
    /\ UNCHANGED <<placeVars, viewVars, onceVars, npcVars>>

\* All sectors are searched; whoever was found is not looked at again.
SeekEnd(t) ==
    /\ work[t].pc = "seek" /\ work[t].left = {}
    /\ \/ \E p \in work[t].seen : Chase(t, work[t].me, p)
       \/ LuaMayFail /\ Turn(t, work[t].me, "sleep", Idle) /\ UNCHANGED pos
    /\ UNCHANGED <<state, sector, around, members, viewVars, onceVars, npcVars>>

\* A random step; one that leaves the map is not made.
ActPeace(t, n) ==
    /\ n \in Npc \ agro
    /\ Take(t, n)
    /\ \/ pos[n] + 1 < Width /\ Step(t, n, pos[n] + 1)
       \/ pos[n] > 0 /\ Step(t, n, pos[n] - 1)
       \/ Search(t, n, "decide") /\ UNCHANGED pos
    /\ UNCHANGED <<state, sector, around, members, viewVars, onceVars, active, timer>>

\* IsPlayerExist looks at no state_.
PlayerExists(n, s) == \E p \in members[s] \intersect Player : CanSee(n, p)

\* Variant: the first sector decides.
DecideAtOnce(t) ==
    /\ work[t].pc = "decide"
    /\ \E s \in work[t].left :
         /\ \A r \in work[t].left : s <= r
         /\ ~Locked(s)
         /\ IF PlayerExists(work[t].me, s) THEN Turn(t, work[t].me, "schedule", Idle)
            ELSE Turn(t, work[t].me, "sleep", Idle)
    /\ UNCHANGED <<placeVars, viewVars, onceVars, npcVars>>

\* One sector is searched, until somebody is found in one or none is left.
Decide(t) ==
    /\ work[t].pc = "decide"
    /\ \E s \in work[t].left :
         /\ \A r \in work[t].left : s <= r
         /\ ~Locked(s)
         /\ \/ PlayerExists(work[t].me, s) /\ Turn(t, work[t].me, "schedule", Idle)
            \/ /\ ~PlayerExists(work[t].me, s)
               /\ IF work[t].left = {s} THEN Turn(t, work[t].me, "sleep", Idle)
                  ELSE Start(t, [work[t] EXCEPT !.left = @ \ {s}])
    /\ UNCHANGED <<placeVars, viewVars, onceVars, npcVars>>

\* Variant: the turn ends with no timer.
ScheduleNot(t) ==
    /\ work[t].pc = "schedule"
    /\ Finish(t)
    /\ UNCHANGED <<placeVars, viewVars, onceVars, npcVars>>

\* AddTimer.
Schedule(t) ==
    /\ work[t].pc = "schedule"
    /\ timer' = [timer EXCEPT ![work[t].me] = @ + 1]
    /\ Finish(t)
    /\ UNCHANGED <<placeVars, viewVars, onceVars, active, posted>>

\* Variant: the NPC schedules its next turn instead.
SleepNot(t) ==
    /\ work[t].pc = "sleep"
    /\ timer' = [timer EXCEPT ![work[t].me] = @ + 1]
    /\ Finish(t)
    /\ UNCHANGED <<placeVars, viewVars, onceVars, active, posted>>

\* active_ = false.
Sleep(t) ==
    /\ work[t].pc = "sleep"
    /\ active' = [active EXCEPT ![work[t].me] = FALSE]
    /\ Finish(t)
    /\ UNCHANGED <<placeVars, viewVars, onceVars, timer, posted>>

----------------------------------------------------------------------------
Walk(t) == Place(t) \/ Enroll(t) \/ Withdraw(t) \/ Look(t) \/ Scan(t)
           \/ Diff(t) \/ DiffEnd(t)
Depart(t) == LeaveScan(t) \/ LeaveTell(t) \/ Vanish(t) \/ Free(t)
EndTurn(t) == Seek(t) \/ SeekEnd(t) \/ Decide(t) \/ Schedule(t) \/ Sleep(t)
Continue(t) == Do(t) \/ Walk(t) \/ Depart(t) \/ EndTurn(t) \/ Bury(t)
EnterStep == EnterIngame \/ EnterLock \/ EnterMeet

Command(t, p) == Move(t, p) \/ Teleport(t, p) \/ Leave(t, p)
                 \/ \E n \in Npc : Kill(t, p, n)
Act(t, n) == ActAgro(t, n) \/ ActAgroSeek(t, n) \/ ActPeace(t, n)

Next == \/ \E t \in Thread : Continue(t)
        \/ EnterStep
        \/ \E p \in Player : Connect(p) \/ \E x \in Cell : Enter(p, x)
        \/ \E t \in Worker, p \in Player : Command(t, p)
        \/ \E t \in Worker, n \in Npc : Act(t, n)
        \/ \E n \in Npc : Fire(n)

Spec == Init /\ [][Next]_vars

\* Every thread keeps running, completions are handed out in order, and an
\* event whose time has come is taken off the queue.
Fairness == /\ \A t \in Thread : WF_vars(Continue(t))
            /\ WF_vars(EnterStep)
            /\ \A n \in Npc : /\ WF_vars(Fire(n))
                              /\ SF_vars(\E t \in Worker : Act(t, n))

FairSpec == Spec /\ Fairness

----------------------------------------------------------------------------
PlayerPc == {"leave", "vanish", "free", "bury"}
NpcPc    == {"seek", "decide", "schedule", "sleep"}
WalkPc   == {"place", "enroll", "withdraw", "look", "scan", "diff"}
Pc       == {"idle", "ingame", "enter"} \union PlayerPc \union NpcPc \union WalkPc

ViewOp == {o \in [op : {"insert", "add", "erase", "remove"}, who : Object, what : Object] :
             o.op \in {"add", "remove"} => o.who \in Player}

Handler == [pc : Pc, self : Object \union {None}, me : Object \union {None},
            from : Sector \union {None}, to : Sector \union {None},
            prev : SUBSET Object, seen : SUBSET Object, left : SUBSET Sector,
            ops : Seq(ViewOp)]

\* Every variable has its type.
TypeOK ==
    /\ state \in [Object -> {"FREE", "ACTIVE", "INGAME", "DEAD"}]
    /\ pos \in [Object -> Cell]
    /\ sector \in [Object -> Sector \union {None}]
    /\ around \in [Object -> SUBSET Sector]
    /\ members \in [Sector -> SUBSET Object]
    /\ view \in [Object -> SUBSET Object]
    /\ shown \in [Player -> SUBSET Object]
    /\ joined \subseteq Player
    /\ agro \subseteq Npc
    /\ active \in [Npc -> BOOLEAN]
    /\ timer \in [Npc -> Nat]
    /\ posted \in [Npc -> Nat]
    /\ work \in [Thread -> Handler]

Acting(t, n) == work[t].self = n

\* An NPC has one turn at a time: it is active exactly while one event, one
\* completion or one worker carries its next or present turn, so that no two
\* workers move it, and none of its handlers needs a lock
\* (Npc.cpp:43-108, 255-280; Timer.cpp:5-62).
OneToken ==
    \A n \in Npc :
      /\ \A t, u \in Thread : Acting(t, n) /\ Acting(u, n) => t = u
      /\ timer[n] + posted[n] <= 1
      /\ timer[n] + posted[n] = 1 => \A t \in Thread : ~Acting(t, n)
      /\ active[n] <=> (timer[n] + posted[n] = 1 \/ \E t \in Thread : Acting(t, n))

\* Where the next or present turn of an NPC is, and which threads have it.
TurnOf == [n \in Npc |-> IF ~active[n] THEN "asleep"
                         ELSE IF timer[n] > 0 THEN "later"
                         ELSE IF posted[n] > 0 THEN "due" ELSE "taken"]
HandsOf == [n \in Npc |-> {t \in Thread : Acting(t, n)}]

Turns == INSTANCE NpcTurns WITH turn <- TurnOf, hands <- HandsOf

\* The compare-and-swap on active_, the timer's queue and the completion port
\* implement NpcTurns: a turn is begun only when it is due and by a worker
\* without another, and ended by that worker only
\* (Npc.cpp:43-108, 255-280; Timer.cpp:5-62).
TurnsAreOwned == Turns!Spec

----------------------------------------------------------------------------
Quiet == \A t \in Thread : work[t].pc = "idle"

\* An object that nobody is moving is in the sector of its coordinates and in
\* no other, and a free slot is in none (Session.cpp:27).
SectorMembership ==
    \A o \in Object :
      (\A t \in Thread : work[t].me # o) =>
        {s \in Sector : o \in members[s]} = IF state[o] = "FREE" THEN {}
                                            ELSE {SectorOf(pos[o])}

Dead == {n \in Npc : state[n] = "DEAD"}

\* When nothing is under way, a player's view list holds what he can see of
\* the living, and his client draws what the list holds (README.md:108).
ViewsMatch ==
    Quiet => \A p \in Player : state[p] = "INGAME" =>
               /\ view[p] \ Dead = {o \in Object \ {p} : state[o] = "INGAME" /\ CanSee(p, o)}
               /\ shown[p] = view[p]

\* Whatever lives and is in a player's view is on his screen (README.md:108,
\* Player.cpp:652-676).
VisibleIsShown ==
    Quiet => \A p \in Player, o \in Object :
               state[p] = "INGAME" /\ state[o] = "INGAME" /\ o # p /\ CanSee(p, o)
                 => o \in shown[p]

\* An awake NPC takes its turns.
AwakeActs == \A n \in Npc : (active[n]) ~> (\E t \in Thread : Acting(t, n))

\* An NPC with nobody in sight falls asleep, wherever the sectors list the
\* players (Npc.cpp:61-103, 214-256).
SleepsWhenAlone ==
    \A n \in Npc :
      active[n] ~> \/ ~active[n]
                   \/ \E p \in Player : state[p] # "FREE" /\ CanSee(n, p)
============================================================================
