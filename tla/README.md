# Verification of the game server

TLA+ models of the multiplayer game server in `src/SERVER` (with the parts of the
client in `src/CLIENT` that its packets depend on), the TLC runs that check them on
small instances, and TLAPS proofs of some of the properties for every instance.

* [1. The system](#1-the-system): components, state, operations, interactions, hazards
* [2. The modules](#2-the-modules): what is where, and how the modules fit together
* [3. PlayerSession](#3-playersession), [4. World](#4-world), [5. Inventory](#5-inventory),
  [6. Loot, Snowflake, UniqueIds](#6-loot-snowflake-uniqueids), [7. ItemStores](#7-itemstores),
  [8. Network, SendPool](#8-network-sendpool), [9. Ranking](#9-ranking): the models and the code
* [10. Runs and bounds](#10-runs-and-bounds)
* [11. Fairness](#11-fairness)
* [12. Proofs](#12-proofs)
* [13. What the runs found](#13-what-the-runs-found)
* [14. What is not modelled](#14-what-is-not-modelled)

How to run: `tlc -workers 2 -config PlayerSession_calm.cfg MCPlayerSession` and
`tlapm PlayerSessionProofs.tla`, in this directory. `PROJECT.json` lists every run with its
module, and maps every definition to the source lines it stands for.

## 1. The system

One Windows process: as many IOCP **workers** as there are cores, one **database
thread**, one **timer thread**, one **ranking thread** and one **pool thread**
(`MainServer.cpp:321-420`). All of them work on one global array
`objects[MAX_NPC + MAX_USER + MAX_MAP_ITEM]`: the ids below `MAX_NPC` are NPCs, the next
`MAX_USER` are players' slots, the rest are items lying on the map. The array's
elements are reached from every thread; what protects them is a mutex per object for
`state_`, one per object for `view_list_`, one per sector for its list of ids, one for
`g_player_list`. Coordinates, sectors, names, levels, sockets have none.

| component | state it keeps | operations | talks to |
|---|---|---|---|
| Session lifecycle (`MainServer.cpp`, `Player.cpp`) | `state_`, `name_`, `socket_`, `g_player_list`, `g_client_socket`, `g_over` | accept, receive and re-arm, a failed completion, `disconnect()` | database thread through `g_db_request_queue`, sector grid, view lists |
| Database thread (`DB.cpp`, `Player.cpp`) | the queue, SQL Server tables, Redis hashes | LOGIN, LOGOUT, SAVE_REDIS, item requests, one at a time | sessions (it runs `EnterGame` on them) |
| Sector grid (`Session.cpp`) | `g_ObjectSector[s].sec_id_`, `current_sector_`, `around_sector_` | `PutInSector`, erase in `disconnect()` | every handler that looks for neighbours |
| View lists (`Player.cpp`, `Npc.cpp`) | `view_list_` of each object, what each client draws | the search and the diff of a move, of entering, of leaving | clients, by SC_ADD_OBJECT and SC_REMOVE_OBJECT |
| NPC AI (`Npc.cpp`, `Timer.cpp`, `npc.lua`) | `active_`, the event queue, the completions under way | `WakeUpNpc`, `DoMove`, `Move`, `IsPlayerExist`, the timer loop | sector grid, view lists |
| Combat (`Player.cpp:732-911`) | `hp_`, `exp_`, `level_` | CS_ATTACK | NPCs, items on the map, SAVE_REDIS |
| Inventory grid (`Inventory.cpp`) | `grid_`, `items_` | place, move, sort, remove, add | persistence, client |
| Items on the map (`MapItem.cpp`, `Player.cpp`) | item slots of `objects` | drop, pick up, slot allocation | sector grid, inventory |
| Inventory persistence (`Player.cpp:1132-1450`, `Redis.cpp`) | Redis hash and SQL rows of the items | save, load, single-item requests | database thread |
| Item identifiers (`SnowflakeID.h`) | last millisecond, sequence | `Generate` | drops |
| Send buffers (`OVER.h`) | a queue of free buffers, two counters | acquire, release, trim, resize | every packet and every NPC turn |
| Framing (`MainServer.cpp:141-184`, `GameManager.cpp:549-580`) | the unfinished packet | reassembly | handlers |
| Ranking (`RankingManager.cpp`) | Redis sorted set, cached top hundred | load at start, refresh, answer | Redis, SQL Server |
| Start-up (`DB.cpp:39-132`) | the ODBC connection or none | choice of a database, offline mode | database thread |
| Client inventory (`InventoryUI.cpp`) | the grid shown, a dirty flag | drag, sort, delayed synchronisation | server's inventory |

What is hard here:

* **Interleaving without a lock.** A handler is a long sequence of reads and writes of
  unlocked fields. `disconnect()` frees a slot (`MainServer.cpp:250`) before it closes
  its socket, asks for the LOGOUT and leaves `g_player_list`; `EnterGame` runs on the
  database thread while workers run commands and `disconnect()` of the same player;
  `PutInSector` reads and writes `current_sector_` with no lock; a view list is
  copied, compared and corrected while the handler of the other player does the same.
* **Order.** WSARecv is armed before the slot is in `g_player_list`; a LOGIN may stand
  before the LOGOUT of the same user; SQL is written before Redis and read after it.
* **Checked, then used.** An NPC looks for players, one sector after the other, and then
  clears `active_`; a player looks at `active_` and then does not wake it.
* **Failures.** A SQL statement may fail; a Redis hash expires after seven days; the
  server may crash between any two steps; a socket fails once for its receive and once
  for its send.
* **Eventually.** An NPC whose turn ends with neither a timer nor `active_` cleared is
  lost for ever; a login whose answer is never sent leaves a client waiting.

What makes each component correct, in short. *Sessions*: one worker has the accept
globals; a socket's completions go to the slot that holds it; a name is in the game
once; a slot that is free has left the map; a closed connection is torn down.
*Database thread*: a user gets back what he last had, and where a failure, an expiry or
a crash takes some of it, no more than that. *Sector grid*: an object is in the sector of its coordinates, and only
there. *View lists*: what is seen, what is listed and what is drawn agree. *NPCs*: one
turn at a time; awake while watched; asleep when alone. *Combat*: one killer for one
death. *Inventory*: the grid and the items describe one non-overlapping layout, and
what is saved is what was there. *Items on the map*: an item is in one place and is
picked up once. *Identifiers*: never twice the same. *Buffers*: never used by two at
once, and the counters bound the memory. *Framing*: the packets out are the packets in.

The hazards behind these, each at its line, are in `PROJECT.json` under `hazards`, with
the properties that would catch them going wrong.

## 2. The modules

| module | what it holds | theorems |
|---|---|---|
| `PlayerSession` | accept, receive, disconnect, the database thread, a player's record in SQL and Redis, crashes | seven |
| `World` | sector grid, view lists, NPCs, timer, entering, moving, killing, leaving | three, one of them the refinement |
| `Watched` | `World` with a history variable, to say before whom an NPC may fall asleep | one, proved in `WorldProofs` |
| `NpcTurns` | what the scheduling of NPC turns promises: a turn is due, is taken by one worker, and ended by that worker | |
| `Inventory` | the server's grid and the client's, with the packets between them | four |
| `Loot` | attacks, experience, drops and pick-ups on several threads; EXTENDS `Snowflake` | six |
| `Snowflake`, `UniqueIds` | the generator of item identifiers, and the promise it keeps | one, the refinement |
| `ItemStores` | a user's items in memory, in the Redis hash and in the SQL rows, with the queue of the database thread | five |
| `SendPool` | the pool of send buffers | two, proved in `NetworkProofs` |
| `Network` | one connection byte by byte, both ends' framing; EXTENDS `SendPool` | five, one that it uses the pool as `SendPool` says |
| `Ranking` | start-up (Redis, SQL or off line), the load of the records, the cached list of the best | two |

Every `MC*` module gives its module a small instance for TLC; every `*Proofs` module
extends its module with the proofs.

How the modules fit together. A module leaves to another what is that one's subject, and
takes it in its weakest form: `Loot` lets every player see the whole map and stand where he
likes (which of it he really sees is `World`'s), takes a bag as a set of items (places in the grid are
`Inventory`'s) and ends its handlers before the stores (`ItemStores`). `ItemStores` takes a handler
and a request as one step each, because what can go between them at the slots is
`PlayerSession`'s. `World` takes an attack as one that kills; who is paid for the death is `Loot`'s.
Two compositions are made outright: `Loot` runs `Snowflake`'s generator from its workers, and
`Network` sends through `SendPool`; for the second it is proved that the composition keeps to
the component's specification.

Two modules are promises that another one keeps: `Snowflake` implements `UniqueIds`, and `World`
implements `NpcTurns` (`TurnsAreOwned`, with `TurnOf` and `HandsOf` as the refinement mapping).

The safety properties of the passing runs are proved, but for `SectorMembership` and `ViewsMatch`
(section 12). What remains of interest: an abstract specification of a bag of items, to be refined by `Loot`.

## 3. PlayerSession

`PlayerSession.tla` models accepts, receives, teardowns and the database thread.
`MCPlayerSession.tla` gives TLC two workers, two or three connections and two names.

A **slot** is an element of `objects[]` above `MAX_NPC`; a **connection** (`Client`) is one
TCP connection, opened and closed once; it knows its completion key, whether a WSARecv
and a WSASend are outstanding on it, and how far its client has come (`phase`: new, open,
asked, in, denied, shut). A handler is a sequence of steps of one **worker**; `work[w]` holds
where it is and the slot and connection it is about. A step boundary stands wherever
another thread can see or change what was written so far.

| handler | actions |
|---|---|
| KEY_ACCEPT (`MainServer.cpp:104-140`) | `Accept` (slot chosen, OS_ACTIVE), `AcceptReset`, `AcceptBind` (socket, sector, completion key, DoReceive), `AcceptEnlist` (`g_player_list`, AcceptEx); `AcceptFull` when no slot is free |
| KEY_RECV (`:141-185`) | `Receive`, then `RecvLogin`, `RecvNoLogin` (a CS_LOGIN that is too short is ignored, one with an empty name refused), `RecvMove`, `RecvLevelUp` or `RecvBroken`, then `Rearm` |
| KEY_SEND and failures (`:75-101`, `186-191`) | `SendDone`, `RecvFail`, `SendFail` |
| `disconnect()` (`:208-259`) | `LeaveSector`, `FreeState`, `CloseSocket`, `PushLogout`, `Delist` |
| LOGIN (`Player.cpp:241-402`) | `Take`, `LoginDenied`, `LoginSqlFails`, `LoginLoad`, `EnterGame`, `EnterSector`, `EnterIngame` |
| LOGOUT (`Player.cpp:448-516`) | `LogoutIgnored`, `LogoutTake`, `LogoutSql`, `LogoutRedis`, `LogoutClear` |
| SAVE_REDIS | `SaveRedis` |
| environment | `ClientClose`, `RedisExpire`, `Restart` (a crash: memory is lost, `main()` loads the ranking from SQL) |

A player's record is abstracted to coordinates and a level, because these take
different ways through the stores: the ranking load at start-up writes the level alone.
`last` and `durable` are history variables: what a user last had in the game, and what a
store last received for him.

The constants `CalmLogin`, `CalmClose` and `CalmReuse` say what the environment does *not*
do: send CS_LOGIN while its accept is still under way; close while a handler works on the
connection; have a slot issued again before its teardown has ended. Real networks do
all three now and then. A property that needs a calm environment is checked in one;
section 13 says what goes wrong without each of the three. `session_live` takes only `CalmReuse`:
there connections are cut while handlers and the database thread work for them, and
`NobodyForgotten` says that a slot which has a name and no socket has its LOGOUT still to come, so its
user is not shut out for ever. `session_any` checks what holds with no assumption at all.

## 4. World

`World.tla` models the map. `MCWorld.tla` gives TLC two NPCs, two players, two workers.
`Watched.tla` adds the history variable `overlooked` to it, and `MCWatched.tla` its instance.

**State.** `state`, `pos`, `sector`, `around`, `view` are the fields of the objects;
`members` is `g_ObjectSector`; `shown` is what a player's client draws, changed by the
packets it is sent; `active`, `timer` and `posted` are an NPC's flag, its events in
`g_event_queue` and its completions in the port; `agro` says which NPCs chase (fixed
at start-up, any of them); `work[t]` is the handler that thread `t`
is in: where it is, for whom (`self`), whose position or death it is about (`me`), the
sectors left to search, the copies of view lists it holds, and the packets it has still
to send.

| code | actions |
|---|---|
| KEY_ACCEPT up to PutInSector | `Connect` |
| `EnterGame` (`Player.cpp:346-446`) | `Enter`, `Place`, `Enroll`, `Withdraw`, `EnterIngame`, then for each sector `EnterLock`, and for each id in it `EnterMeet`: the sector's lock is held while packets are sent |
| CS_MOVE (`Player.cpp:592-708`) | `Move`, `Place`, `Enroll`, `Withdraw` (`PutInSector`), `Look`, `Scan` for each sector, `Diff` for each difference, `DiffEnd` |
| CS_TELEPORT | `Teleport` |
| CS_ATTACK that kills | `Kill`, `Bury` for each viewer |
| `disconnect()` | `Leave`, `LeaveScan`, `LeaveTell`, `Vanish`, `Free` |
| `SendAddObjectPacket`, `SendRemoveObjectPacket` | `Do`: the list is written under its lock, the packet follows in a step of its own |
| `WakeUpNpc` | `WakeUp`, part of the step that saw the NPC |
| `DoMove` and `Move` of an NPC | `ActAgro` or `ActAgroSeek`, `ActPeace`, then the walk of CS_MOVE, then `Schedule` or `Sleep` |
| `GetNearestPlayerId`, `IsPlayerExist` | `Seek` for each sector and `SeekEnd`; `Decide` for each sector |
| `DoAITimer` | `Fire` |

**Abstractions.** The map is one row of cells: `PutInSector`, `CanSee` and the AI treat x
and y alike and apart, and on a map of height 1 a step up or down is one that leaves the
map. `AddOps`/`RemoveOps` list what a call does to the view list and to the client; an
NPC's calls send nothing. A sector is searched in one step because its lock is held
for the search; the locks of single objects inside it are not visible outside it. Between
two sectors the lock is free, for a player's handler as for an NPC's (`Npc.cpp:239-251`, `288-311`).
The target of an Agro NPC is the one it has, as long as `IsValidTarget` accepts it, or any player that
`GetNearestPlayerId` has met in some sector, wherever he is by now; it gives up only
when all sectors are passed and nobody was met. An attack is one that kills; hit points,
experience and drops are `Loot`'s, and so are items on the map; chat is left out.

**Who is overlooked.** An NPC looks for players sector by sector, decides, and clears `active_`,
and nothing holds these steps together. A player who crosses into a sector that is already passed, or
who sees the NPC while it is still active, is missed and wakes nobody. `overlooked[n]` is the set of
the players who were on the move at some time of the last search of `n` and have not begun to move since; `AwakeWhenWatched`
says that the NPC may sleep in front of these and of nobody else.

The calm constants: `CalmSelf` (handlers of one player do not overlap) and
`CalmViews` (no two handlers overlap). The runs and the theorems state which they use, and section
13 says what goes wrong without each.

## 5. Inventory

`Inventory.tla` models one player's inventory on both sides: the server's
(`Inventory.cpp`, with the four commands of `Player.cpp:924-1094`) and the client's
(`InventoryUI.cpp`). The client changes its own copy at once and reports moves later;
the server places what is picked up by itself and reports it. One connection keeps
packets in order, and the commands of one session are handled one after the other, so the
server's actions are whole handlers.

**State.** `items[i]` is the place and rotation of the item with uid `i` in `items_`, or `None`;
`grid` is `grid_`; `ground` is what lies where the player stands; `shown` is `myItems_`; `dirty` is
`dirtyItemUIDs_` (`isDirty_` is set with it and cleared with it); `held` is the item being
dragged and the rotation it had; `active` is `isActive_`; `toServer` and `toClient` are the
packets on their way.

| code | actions |
|---|---|
| `PlaceItem`, `CanPlace`, `RemoveItem`, `ApplySortResult`, `AddItem` of the server | operators of these names (`FirstFit` is the search of `AddItem`) |
| CS_ITEM_MOVE, CS_ITEM_SORT | `MoveItem`, `SortItems` |
| CS_ITEM_DROP | `DropItem`, and `DropRefused` when no slot of the map is free |
| CS_ITEM_PICKUP | `PickUp`, and `PickUpNothing` when nothing lies there or no room is left |
| `HandleInput` | `Grab`, `TurnHeld`, `Turn`, `PutDown`, `PutBack`, `ThrowOut` |
| `Toggle`, `UpdateSync`, `SortItems`, `AddItem` of the client | `Toggle`, `UpdateSync`, `AskSort`, `AddItem` |
| the G key (`GameManager.cpp:219-245`) | `AskPickUp`: synchronise, then ask. When the client sees no room it only synchronises, which is `UpdateSync` |

**Abstractions.** A template is its size. The mouse may be anywhere: any item may be
grabbed, and put down on any cell or one cell outside. A sort carries slots, a uid and a place each, in the
order of the client's list, which may be any: `ApplySortResult` keeps any set of slots that
some order would keep, and an item is at its last slot. It does not look whether a uid comes twice, as the
code does not; the client sends each item once (`Slots`), and `GridSound` rests on that (section 13). The item that a pick-up takes is any that lies there; other players,
the view lists, the sectors and the saves that end the handlers are left out
(`Loot`, `ItemStores`). The player starts with nothing and everything on the ground.

**`calm`** is a history variable. It becomes false when something happens after which the
client and the server may disagree for good: a second item is changed before the first is
sent, or an item is changed or a sort is asked for while a pick-up is under way (its answer
may put the item where something lies by now); a synchronisation sends an item in hand that
has been turned and is then put back; an item is grabbed while another was left turned; a
sort finds no room for an item, or is asked for with an item in hand; the server refuses a
drop. `ShownIsKept` holds as long as none of these has happened, and `LayoutIsValid` with it;
`GridSound` and `ClosedIsSent` need no such exception.

## 6. Loot, Snowflake, UniqueIds

`Loot.tla` is CS_ATTACK, what a kill pays, what the dead leave behind, CS_ITEM_DROP and
CS_ITEM_PICKUP. A handler is a sequence of steps of one worker; a step ends where a lock is
released or where another worker can see what was written.

**State.** `state`, `hp`, `at` of the NPCs; `exp`, `level`, `bag` of the players; `slot` and `uid`, the
state and item of the slots of `objects` that lie on the map; `placed`, the slots in some sector;
`listed`, the slots in a player's view list; `work`, the handler of each worker with its
coordinates, its sector's lock (`Locked`), its dead and its slot.

| code | actions |
|---|---|
| CS_ATTACK (`Player.cpp:732-911`) | `Attack`, for each coordinate `AimAt` (the sector's lock), for each NPC in it `Aim` (state and place) and `Strike` (hit points, death, experience), `Unlock`, `NpcDrops` for each dead, `NoneLeft` |
| `Npc::DropItem` (`Npc.cpp:329-388`) | `NpcDrops`, `Number` (or `NumberWaits`), `Publish`, `Announce` |
| CS_ITEM_DROP (`Player.cpp:957-1008`) | `Drop`, `Take`, `Publish`, `Announce` |
| CS_ITEM_PICKUP (`Player.cpp:1009-1093`) | `Pickup`, `Claim` (under `mut_state_`), `Gain` or `Restore`, `Unlist`, `Unplace` |
| `GetNewMapItemId` | `IsNewMapItemId`: the first free slot, which is not marked |
| `SnowflakeIDGenerator::Generate` | `GenerateFirst`, `GenerateNext`, `GenerateWait`, `GenerateLater` |

`UniqueIds` says what an identifier promises: each call hands out one that was never handed out
(`issued` and the number of `calls` grow together). `Snowflake` has the generator with its
mutex: the thread that finds the sequence used up keeps the lock and spins till the clock
moves. `IdsAreUnique` is `UniqueIds`' specification, and it is a PROPERTY of the run.

`CalmSlots` says that a drop takes no slot that another handler works on, `CalmMoves` that an NPC
does not change its place between the look at it and the blow. Section 13 says what goes wrong
without each.

## 7. ItemStores

`ItemStores.tla` follows a user's items through memory, the Redis hash `UserInventory:<name>`, the
rows of `user_inventory_table` and the queue of requests.

| code | actions |
|---|---|
| CS_ITEM_MOVE, CS_ITEM_SORT, CS_ITEM_PICKUP, CS_ITEM_DROP, each with its save and its request | `Move`, `PickUp`, `DropItem` |
| a kill that gives a level (`Player.cpp:874`) | `LevelUp` |
| accept and CS_LOGIN, `disconnect()` | `Connect`, `Disconnect` |
| LOGIN: `LoadInventoryFromRedis`, else `DBLoadInventory` | `DBLogin` |
| SAVE_ITEM, DELETE_ITEM | `DBSaveItem` (the item as it is by then, if the user still has it), `DBDeleteItem` |
| LOGOUT: `SaveUserToSQL`, `DBSaveInventory` (one transaction), Redis | `DBLogout` |
| SAVE_REDIS (`DB.cpp:171-175`, `Player.cpp:1129`) | `SaveRedisRead`, then `SaveRedisWrite`: the player's commands may come between |
| environment | `Expire` (seven days after the last save, in the game or not), `Crash` |

`SaveInventoryToRedis` is `Merge`: hmset sets the fields it names and leaves the others, and
nothing ever deletes one. A record is loaded in any order, and an item whose place is taken is
passed over (`Loads`). Every statement may fail (`SqlMayFail`), also the SELECT of a log-in whose hash
has expired (`answered`). `left`, `saved`, `inStep` and `behind` are
history variables: what a user held when he was last in the game, whether his last log-out
reached SQL, whether all of this session's requests did, and the items of his whose field is not up to date,
because the hash expired since the last save or because SAVE_REDIS wrote it from an older copy.

`HashCovers` is about the items that are not `behind`, and about all items it says that a hash which has not
expired names them. `ResumesItems` is about single items: from Redis an item comes back at its place unless the
hash names it wrongly (`Misnamed`: it was given away, or is `behind`), or one that it names wrongly has been put
in its place; from SQL, once the hash has expired and the SELECT succeeds, the log-in gives back just what a saved log-out left.

## 8. Network, SendPool

`SendPool.tla` is `ObjectPool`: a queue and two counters, each atomic, and operations that read one
and write the other in separate steps. `Acquire` is `Take`, or `Miss` (the queue was empty) and `Make`, which counts
the new object; `Verdict` is what `Release` decides from the count;
`Release` acts on it later; `TrimCheck`, `TrimPop` and `TrimDelete` are the parts of the loop in `Trim`. Only
`new` or `delete` and the counting that goes with it are one step: no other thread can reach the object between the two, and whoever
reads the count in between might as well have read it a moment earlier or later.

`Network.tla` has one connection. A byte is `<<packet, place>>`, and the first two places of a packet
hold its size. `toServer` and `toClient` are the streams; every receive takes any number of bytes,
so a packet is cut everywhere, in its size field too.

| code | actions |
|---|---|
| `DoReceive`, KEY_RECV (`MainServer.cpp:141-185`) | `Recv` into `Room`, `Parse` for each whole packet, `ParseBroken` (disconnect), `ParseEnd` (re-arm); `RecvFails` |
| `DoSend` (`Player.cpp:74-108`) | `DoSend`, `Post` or `PostFails`, `ReleaseEnd`; `Tell` for the packets other workers send |
| KEY_SEND | `Sent` (success or failure), `ReleaseEnd` |
| the kernel | `Transmit`, which reads a buffer when it sends it, and not when it was posted |
| `ProcessData` of the client (`GameManager.cpp:549-580`) | `Receive` (a segment), `Frame`, one turn of its loop |
| `PoolManagerThread` | `Trim`, with 20 objects per player that is on the list |

Every command is answered with one packet; what a command does is left to the other
modules. `SizesWhole` says that no segment which reaches the client ends between the two bytes
of a size field; section 13 says what happens when one does.

## 9. Ranking

`Ranking.tla` is `main()` up to the threads, and the ranking thread.

| code | actions |
|---|---|
| `ConnectWithRedis` | `ConnectWithRedis` |
| `ConnectWithDataBase` (`DB.cpp:72-132`) | `StayOffline`, `Connected`, `SchemaMissing`, `NoSource`, `Unreachable` with its attempts; `SqlComesUp` is SQL Server's own |
| `LoadAllRankingsFromSQL` | `LoadRow` (hash and board), `LoadEnd`, also after a failed fetch |
| `UpdateRankingCache` | `Fetch` (a round of ZREVRANGE, as many as it takes: `Reply` is what Redis answers, `ValidNames` what is left of it without the names that are not valid), `Levels` (HGET and sort), `Publish`; `Again` after ten seconds |
| `SendRankingToPlayer` | `Ask` |
| the game, each in one step | `Newcomer`, `LevelUp`, `Save` |

Names are numbers, as they sort; `Broken` are those with a control character. The board is
written by the load alone. The order of equal scores on the board is Redis' (by name,
descending).

## 10. Runs and bounds

| run | states | shows |
|---|---|---|
| `session_calm` | 1 006 000 | two connections, two slots, two positions, two levels, a Redis hash that may run out: one login per name, all progress saved once everyone has left and given back by the next login |
| `session_any` | 1 394 000 | one slot, no assumption on the environment: the types, and that accepting stays in one pair of hands |
| `session_live` | 52 000 | one worker, one slot for two users, connections cut at any step, no SQL Server and one crash: nobody is forgotten, closed connections are freed, logins are answered, and the last record that reached Redis comes back |
| `world_map` | 992 000 | watched NPCs are awake, wandering or chasing, but before players they have overlooked; everything is in its sector, with players joining again and again |
| `world_views` | 494 000 | what is seen, listed and drawn agree |
| `world_live` | 351 000 | with teleports, failing Lua calls and two workers: the types, one turn at a time and as `NpcTurns` promises; awake NPCs act, lonely ones fall asleep |
| `inventory_sync` | 807 000 | grid and items describe one layout; once all is sent and handled the server has what the client shows; a closed inventory has nothing unsent |
| `loot_calm` | 1 140 000 | two attackers, one killer for one death; no item lost or doubled; map, sectors and view lists agree; identifiers never twice |
| `stores_sql` | 620 000 | Redis covers what is held, the rows follow, a log-in gives back what was left, with failing statements, expiry, SAVE_REDIS between two commands and a crash |
| `network_whole` | 296 000 | commands and packets come whole and in order however they are cut; a send buffer is in one place |
| `ranking_list` | 16 000 | the list is the best of the board in the right order, and a level gained gets into it |
| `stores_twice` | | a violation: see section 13 |

Why the bounds are enough. *Sessions*: **two connections
and two slots** are what it takes for a slot to be issued again, for one user to be in
twice, and for a LOGIN to overtake a LOGOUT; one slot suffices for reuse and "Max
User". **Two workers and the database thread** are the three threads that can be inside
one session at once. **Two positions and two levels** tell an old record from a new one.
`session_live` has one worker, which is what a fair scheduler finds hardest, and one slot: the second
connection is turned away, or gets the slot of the first.

*World*: **three to six cells** with sectors of two or three give an object with several
sectors around, a neighbour in sight in another sector, one out of sight in the same
sector, and (`Width` 6, `Sight` 2, `SecRow` 3) all three sectors of a row; **one NPC and
one player** interleave wake-up, turn and sleep in every order, **two players** are
needed where one player's view changes another's.

*Inventory*: **a tall and a wide item on
2 by 2 cells** give every rotation, a turn that hits the border or the other item, a full
grid, and a layout that the client's sort cannot keep (both items upright fill the grid, but
unrotated they do not fit); one unhandled packet beyond those
of one action (`MaxCommands` 1) lets the client act between a packet's sending and its
handling in both directions.

*Loot*: **two workers, two players, two NPCs in one place** let both attack the same NPC, one pick
up what the other drops, and two pick up the same; **one slot and bags for one item** make the map
and the bags full at once, so the slot is used again and again. The NPCs are of the lowest and
the highest level and everybody starts two points below a level: one kill gives the most that a
level can be overshot by. **One sequence number per millisecond and two milliseconds** make the
generator wait, and run out.

*ItemStores*: **two items and two places** let a stale
field of the hash claim the place of an item that is held, and a copy of SAVE_REDIS exchange the two; **three waiting requests** hold a pick-up, a drop and
a pick-up of one item. One user: the users share the queue, the items on the map and nothing else.

*Network*: **a buffer of five bytes**, a short command, one that fills the buffer and one whose size
no client sends; an answer of three bytes and one too large for a buffer; **two send
buffers and a bound of none or one** make the pool both empty and too large.

*Ranking*: **a list of two from five users**. Two with high scores have names that are not valid, so a second
round of ZREVRANGE is needed; once the newcomer is on the board three valid names stand for two
places, and the second reply holds more than is wanted. Two levels and two scores tie and break ties.

`MaxLevel`, `MaxRestarts`, `MaxCommands`, `MaxClock`, `MaxCrashes`, `MaxQueue` and `MaxExp` are the
only bounds on counters, and all are named constants.

Deadlock is checked in `world_map`, where players join for
ever, and in the inventory's run. The others stop legitimately once all connections are used
up, all players have left, the connection is closed, the clock or the queue is at its bound, or Redis
is not there: they say `CHECK_DEADLOCK FALSE`. Symmetry is used over workers, connections,
players, items or buffers where they are interchangeable, and in no run with a liveness property.

## 11. Fairness

`PlayerSession!FairSpec`: a thread that is inside a handler goes on (weak fairness of its
steps: the code has no wait inside a handler), and completions and requests are
handed out: the completion port and the queue are FIFO. `World!FairSpec`: weak
fairness of every thread's next step, of the timer (a due event is popped), and strong
fairness of a worker taking an NPC's completion: with one worker, `Act` is enabled
only now and then, and a FIFO port hands out every completion. `Ranking!FairSpec`: weak fairness
of `main()`'s start-up and of the ranking thread's loop, which has no way out. Nothing is
assumed of players: they may stop, stay or leave.

## 12. Proofs

All proofs are for every value of the constants allowed by the named assumptions
(map, ids, `None`, the calm constants being Booleans): any number of slots, threads,
connections, NPCs and players. Seven theorems of `PlayerSession` and `Loot` need a calm
environment (one of them, `NoneIsForgotten`, only in part), one of `World` a calm map, and two of `Network` segments that do not end in a size field; they say so in their statement, and section 13
says what happens without. All others hold in any.

**`PlayerSessionProofs`.** `TypeCorrect`, `AcceptIsExclusive`, `SocketsAreKeyed`, in any environment. The
invariant is `IInv == TypeOK /\ AcceptChain /\ SocketKeyed /\ Unbound`. `AcceptChain`
(the accept globals are outstanding or in one worker's hands) is inductive with the
types; `SocketKeyed` is not: that a second slot does not get a socket that already has
one follows from the worker in the accept being alone and from its connection being
held by no slot yet (`Unbound`). The steps outside the accept chain are dealt with by a
frame lemma; `Accept`, `AcceptReset`, `AcceptBind`, `AcceptEnlist` one by one.

`NamesAreDistinct` needs the three calm constants (`Calm`); section 13 says what
happens without. `NoDuplicateLogin` is far from inductive: that the name check of a LOGIN sees
everybody who is in the game depends on who may be in the middle of what. `Stages` says it: each
slot is gone, arriving, leaving or live with one connection; live is opening, asking, waiting,
entering, refused or playing; and each stage says which handlers may be at work for the slot, which requests
may wait for it, whether the database thread has it, and whether a WSARecv or WSASend may still complete.
`Distinct` says that two slots past the check have different names. `CalmInv == IInv /\ Calm /\ Fresh /\
Stages /\ Distinct`. A frame lemma (`StageElsewhere`) shows that a step about one slot and one connection
leaves every other slot in its stage, so that each action is looked at for its own slot alone.

`NoneIsForgotten` (`NobodyForgotten`) is the teardown against the database thread, with connections cut at any step: it needs of the calm
constants only `CalmReuse`, and SQL statements that succeed or a server off line (`Mild`). `Secure(k)` says
of a slot that has a name and no socket that its LOGOUT is to come: a worker is about to push it, or the queue has it, or the database
thread is serving it. The danger is a CS_LOGIN that writes its name into a slot whose socket is closed and whose LOGOUT has been
served. So `Handled` and `Heard` say that a connection which has not logged in yet is alone on its slot (`Alone`: no request, no send, no
teardown), that its CS_LOGIN finds the socket there, and that a slot for which a completion may still come holds its own
connection or none. `Touches` is the frame: a step about one slot leaves the others secure.

`NothingIsLost` (`SavedWhenSettled`) and `ComesBackAsHeLeft` (`ResumesLast`) need `Calm` and `Tidy`: off line, or SQL statements
that do not fail and no crash; `ComesBackAsHeLeft` moreover that Redis, where it is the only store, does not forget. Section
13 says what happens without. Several sessions of one user can be under way at once: an old one is
saved while the next is played. The invariant `BookInv` is a book of debts. A slot owes a user his record (`Owes`) from the moment
the player is placed to the end of the LOGOUT that saves it. While somebody owes a record of `u`, one slot is his
heir (`Heir`): it has what `u` last had, and the LOGOUT of every other slot that owes him one is served before its own
(`Ahead`); when nobody does, the stores have it (`Stored`). That is `Account`. It is inductive together with `Accounted` (a
name in a freed slot is there because a LOGOUT is queued or a worker has yet to push it: `Promised`, `Due`), `Written` (how far
the save of the slot at the database thread has come), `Loaded` (what a LOGIN has read, and that whoever still owes the user a
record has its LOGOUT queued, hence ahead of the newcomer's) and `Kept` (off line, what Redis has). `BooksKept` and `BooksPlain` are
the frame lemmas. `SavedWhenSettled` needs one thing more: that when nobody is at work no slot is in
use. `WatchInv` says it: a slot in use is attended by a handler, or a WSARecv is out under it. That `None` is no record is an
assumption (`RecordAssumption`). TLC found `BookInv` and `WatchInv` to hold on the instance of
`session_calm`, with and without expiry, on and off line, with a crash off line.

**`WorldProofs`.** `TypeCorrect` and `OneTurnPerNpc`, with no calm assumption. `OneToken` says that an NPC is active
exactly while one event, one completion or one worker carries its turn; the count
`timer + posted + workers` is at most one. It is not inductive alone: that `Schedule` and
`Sleep` give up the turn they were given, and that a player's handler holds no turn, needs
`Ownership` (an idle thread is `Idle`; a walk or a turn is for the object it moves; the
end of a turn is an NPC's; anything else belongs to a player; the database thread serves
players only). `IInv == TypeOK /\ Ownership /\ OneToken`. Steps fall into five kinds: those that
carry on (`Carries`: whose turn it is does not change), with NPCs left alone or woken;
taking a completion; ending with a timer; ending asleep; the timer's firing. So the code
needs no lock around `DoMove`: the compare-and-swap in `WakeUpNpc` is enough.
`TurnsHaveOneOwner` says the same as a refinement: every step of `World` takes, puts off, ends or wakes a
turn as `NpcTurns` does, or leaves `TurnOf` and `HandsOf` alone.

`WatchedNpcsAreAwake` (`AwakeWhenWatched`) is about `WatchSpec`. It needs handlers of one player that do not overlap and no
teleports (`Calm`: CS_TELEPORT writes the coordinates and does not call `PutInSector`), Lua calls that do not fail, and a sight
that reaches no farther than the next sector (`Sight <= SecRow`: `VIEW_RANGE` is 15, so half of it is 7, and `SEC_ROW` is 15,
`Constants.h:23-25`); `CalmNight` is the last two. Nothing is assumed about when players and NPCs move. The proof rests on two invariants.

`PlaceInv` is about the sectors. It says of each object whether nobody moves it (`Settled`: in its
sector, in no other, with the sectors around it) or how far the one handler that does has come (`Along`:
in the old sector, in both, or in the new one); `Alike` says that a handler works for the object it is about.

`AwakeInv` is about pairs of a player and an NPC. An NPC that he sees (`Watches`) is awake, or his handler
has still to search the sector of the NPC (`Looks`, `Entering`), or he is overlooked (`Awake`). And an NPC that searches, decides or is
about to fall asleep (`Seeks`) has in the sectors still ahead of it, or has already met, every one who sees it and is not
overlooked, and who is not overlooked has not moved since the search began (`Spots`). So a search that ends with nobody ends with nobody in sight but the
overlooked. The history is used in both directions: who moves is overlooked by every search under way, and who begins to move is
nobody's overlooked any more, but has yet to look (`Overlooks`). That a search of the sectors around finds whatever can be seen is a lemma about division
(`SeenIsAround`), and that a player stands in the sector of his coordinates when his turn comes is `PlaceInv`.

`SectorMembership` and `ViewsMatch` are not proved. Both assume that the handlers they are about do not overlap, and without the
overlaps there is little in them that the runs do not show.

**`InventoryProofs`.** `GridIsSound`: a cell of the server's grid that names an item is one of
that item's cells, for any set of items, any sizes and any grid, however the client sorts as long as it
lists an item once.
`IInv == Shapes /\ Sent /\ GridSound`. `Sent` says that the moves and drops on their way name an item, and
a move a place: without it a move could put an item at no place, and a drop remove one
that is none. `Shapes` says that `items` is defined on the items and that only items stand
in the grid. One lemma for each of placing, removing and sorting shows that the grid it
leaves is sound; sorting starts from an empty grid and writes an item's cells with its place, and `Sent` says
that the slots on their way name each item once. `NothingIsLeft` (`ClosedIsSent`) is inductive
as it stands. Both hold whatever the client does.

`LayoutIsKept` and `WhatIsShownIsKept` (`LayoutIsValid`, `ShownIsKept`) are about two copies that change
independently, with commands on their way one way and answers the other. The invariant `KeptInv` says, for
as long as `calm`, that there is a *plan* (`Planned`): a layout for every point of the queue `toServer`,
from what the server has to what the last command leaves, none with overlapping items, each command leading
from one to the next. So the server never refuses a command, and never has to know of those behind it.
`Ends` ties the last layout to what the client shows, with the item in hand where it was grabbed, but
for the items the client has still to be told of and the one it has changed and not sent. `Ordered`
(no move or sort behind a pick-up) makes the place that the server finds for an item free in the rest of the plan,
since what follows are drops. One lemma for each action changes the plan: a command taken
from the front drops its first layout, one sent adds a last, a pick-up adds its item to all that remain.
The client's sort is a recursive function; that it keeps the items apart (`SoFar`) is proved from the least
number of items for which it would not (`LeastNumber`).

**`LootProofs`.** `TypeCorrect`; `ItemsAreNumbered` (`IdsAreUnique` where workers run the generator
between other steps); `LevelsArePaid` (`ExpBelow`: a level costs twice the one before, and the first costs half of what a kill pays at most, so no kill is worth two levels).
`DeathsArePaid` (`ExpForDeaths`, with `CalmMoves`) needs the locks: `LockInv` says that two handlers that
attack in one sector are one, and that an NPC under a blow is alive and stays where the lock is. The sums
are the community modules' folds; `Weight` counts the units of a sum as a finite set, which shows
that a blow adds the same to both sides. `ItemsAreKept` and `MapIsKept` (`ItemInOnePlace`, `MapAgrees`,
with `CalmSlots`) have `LayInv`: every slot of the map rests (bare, or on the map with only those at work who
are about to claim it), or one handler works on it, and how far it is says whether the slot is placed, listed
and taken (`MapInv`); and every item is in one bag and no slot or in one slot and no bag (`ItemInv`). Two pick-ups of
one item meet at `Claim`, where the first to come leaves the slot in a phase in which the other finds nothing.

**`SnowflakeProofs`.** `GeneratorIsUnique`: `Snowflake` implements `UniqueIds`, for any number of threads,
any length of the sequence and any clock that does not step back. The invariant `IdInv` says
that all identifiers lie below those of the next millisecond, and, while nobody spins, not
above the last one; with `IdOrder` (a later millisecond has room above all of an earlier
one) every step of the generator is `Issue` or a stutter of `UniqueIds`.

**`NetworkProofs`, the pool.** `PoolIsSound` and `PoolIsCounted`: `OverInOnePlace` and `PoolCounts`, for any number
of workers and buffers. `IInv` adds the types and `Decided`, that a worker decides only about an object it
has. Lemmas about the sequence (`TailRange`, `AppendRange`) and about the hands (`TakeUp`,
`PutAway`) say what a step does to the parts among which the buffers are divided.
`NetworkUsesPool`: every step of `Network` is a step of `SendPool` or leaves the pool alone, so
`Spec => PoolSpec` and what holds of the pool holds there too.

**`ItemStoresProofs`.** `TypeCorrect`, and `HeldIsCovered` and `LeftIsSettled`: `HashCovers` and `SettledInSql`, for any users, items
and places, any failures, any number of crashes. `SettledInSql` is not inductive: it needs `Kept` (it holds on until
the next LOGIN is served), `Leaving` (what is left is what the LOGOUT will save), and above all `Ordered`:
a user who is out has nothing in the queue; one whose LOGIN waits has only that; and nothing of
his follows his LOGOUT. `PushOrdered` and `PopOrdered` show that the queue keeps this.
`RowsFollow` (`SqlFollows`) needs to know what the requests that wait will do: `Tracks` says, for each item, that
either no request about it waits and the rows name it if and only if the user has it, or the last request
about it in the queue will make them. `ItemsAreResumed` (`ResumesItems`) is an action property of `DBLogin`. `InRedis` carries `HashCovers` on past the log-out, to what
was left, and adds what it needs of the copy that SAVE_REDIS will write: an item which is not in it has been saved since, so the copy cannot
hide it. A log-in that finds the hash loads it in some order, and an item that is missing afterwards has lost its place to
one with the same place in the hash; since no two items were left in one place, that one is `Misnamed`. One that finds the rows finds what `Kept` says.

**`NetworkProofs`, the connection.** `CommandsAreHandled`, `ThereIsRoom`, `PacketsAreShown` and `TypesAreKept`: `CommandsInOrder`,
`RoomToReceive`, `PacketsArrive` and `TypeOK`, for any commands, answers and news, any sizes and any cut of the streams. The
assumptions are that a packet of the server has a size field and a type (`SizeAssumption`) and that news are not
answers (`PacketAssumption`); the sizes that the client claims are its own, larger than the buffer and less than three included.
What a stream of bytes means is `Row(b, s)`: `Ends` gives where each packet of `s` ends in `b`. `RowMore`, `RowLess` and
`RowFirst` add a packet, take one away and read the first. On the server `SInv` has `Commands` (the buffer
and what is on its way are a row of the commands not handled yet) and `OneReader` (one WSARecv is outstanding, or
one worker handles what came), without which two handlers could parse one buffer. On the client `CInv` has
`Arrivals`: what was given to WSASend is what was shown, then a row of what is on its way, then what the send buffers hold
(`Waiting`), and that what they hold is still theirs is `OverInOnePlace` of the pool; `Framing` says that the size the client keeps
is that of the packet it has a part of. `Stream` is a recursive function; that it is a row of the commands is proved from the
least number of commands for which it would not be.

**`RankingProofs`.** `TypeCorrect` and `BestAreSent` (`AnswerIsBest`), for any users, any names that are not valid, any length of the
list and of a reply, and any number of restarts. What is best is defined without the search: who is on the board with a valid name
and has fewer than `Top` such ahead of him. `SortedIs` says what `Sorted` makes of a finite set and an order: since whoever
is ahead of another has fewer before him, counting who is before is one to one, and so onto the places; no induction is
needed. It is used for the board, for the positions of the valid names in a reply, and for the list by level. The invariant
`RankInv` has `Searching`: between two rounds the names found are the leaders (`Leads`: the k-th has k - 1 ahead of him whose names
count), as many as were passed on the board (`Passed`). `Round` shows that a reply carries this on, and
`LeadersAreBest` that enough leaders are the best. The board does not change while the server runs, so the list stays the best
while the levels move. `Types` adds to the types that no more than `Top` names are held, without which the next round would ask for a negative number.

Only model-checked: liveness (`ClosedIsFreed`, `LoginIsAnswered`, `SleepsWhenAlone`, `CatchesUp` and their like) and ENABLED, which are
out of the prover's reach, and `SectorMembership` and `ViewsMatch`. Every other safety property and every action property of the passing runs is a theorem.

## 13. What the runs found

`stores_twice` shows the code doing something else than the repository's README says
(`DroppedIsGone`): the Redis hash never forgets an item. A user drops an item and logs out;
the field is still in the hash, which the next log-in prefers, and the item is in his bag
again while it lies on the map. `ResumesItems` makes an exception for the items that such a field names, and for those
it displaces (`Misnamed`).

The assumptions of the passing runs are needed. Each can be dropped by changing a line or two
of a configuration, and TLC then shows why:

| change | property violated | what happens |
|---|---|---|
| `PlayerSession_calm.cfg`, `CalmLogin = FALSE` | `NoDuplicateLogin` | a login handled before its accept has entered `g_player_list` is not seen by the duplicate check of another |
| `PlayerSession_calm.cfg`, `SqlMayFail = TRUE`, `RedisMayExpire = FALSE` | `SavedWhenSettled` | after a failed save the name stays in the slot, and the second LOGOUT of one disconnect saves an old record over a newer one |
| `PlayerSession_calm.cfg`, `MaxRestarts = 1`, `RedisMayExpire = FALSE` | `LevelSurvives` | a restart writes the SQL level over the newer one in Redis |
| `PlayerSession_calm.cfg`, `MaxRestarts = 1` | `SavedWhenSettled` | a crash loses what no save has reached yet |
| `PlayerSession_calm.cfg`, `CalmClose = FALSE` | `SavedWhenSettled`, `ResumesLast` | a worker holds a move that was received, the connection closes, another worker tears the slot down and the LOGOUT saves the record; the move then changes it, and no save follows |
| the same | `NoGhost` | a connection closes between the LOGIN's `EnterGame` and its `PutInSector`: the teardown takes the slot out of the sectors and frees it, and the database thread then puts it back and sets OS_INGAME (`Player.cpp:397-401`): a player in the game, with no socket, whom nobody removes |
| `PlayerSession_calm.cfg`, `CalmReuse = FALSE` | `NobodyForgotten`, `NoGhost` | a slot is issued again as soon as it is OS_FREE (`MainServer.cpp:250`); the old teardown's `CloseSocket` then closes the new connection's socket, and the new session logs in without one |
| the same | `SavedWhenSettled`, `ResumesLast` | the accept of the new session clears the name before the old LOGOUT is served, which then saves nothing |
| `World_map.cfg`, `MayTeleport = TRUE` | `AwakeWhenWatched`, `SectorMembership` | CS_TELEPORT changes the coordinates with neither the sector nor the views (`Player.cpp:709-714`) |
| `World_map.cfg`, `LuaMayFail = TRUE` | `AwakeWhenWatched` | an NPC whose Lua call fails falls asleep before the player it was chasing |
| `World_map.cfg`, `CalmSelf = FALSE` | `SectorMembership` | `EnterGame` and the disconnect of the same player run `PutInSector` at once, and the id stays in a sector it has left |
| `World_views.cfg`, `CalmViews = FALSE`, two workers | `ViewsMatch` | two players who move at once leave each other's view lists wrong |
| `World_views.cfg`, `Rejoin = TRUE` | `VisibleIsShown` | the view list of a slot's last owner hides objects from the next |
| `Inventory_sync.cfg`, `Item = {1, 2}`, `Tall = Wide = {}`, `Cols = 3`, `Rows = 1`, specification `DragSpec` | `SyncAgrees` | of two items dragged within one synchronisation, one into the other's old place, the first is refused and the client never hears of it |
| `Inventory_sync.cfg`, `SortCmd(to)` with `Slots(to) \union Slots(shown)` for its slots | `GridSound` | a sort that lists an item twice, at two places, is taken (`Inventory.cpp:178-208` does not look): the item is at the second, and the cells of the first stay marked |
| `Loot_calm.cfg`, `CalmSlots = FALSE` | `ItemInOnePlace` | two drops find the same free slot, and one item is gone |
| `Loot_calm.cfg`, `CalmMoves = FALSE` | `ExpForDeaths` | an NPC walks into another sector between the look at its state and the blow (`Player.cpp:845-877`): two attackers, each with the lock of another sector, kill it, and both are paid |
| `Network_whole.cfg`, `SizesWhole = FALSE` | `PacketsArrive` | the client keeps the lone first byte of a size field (`GameManager.cpp:557-562`) and reads the size from the next segment (`:563`), so it loses the stream |
| `Ranking_list.cfg` | `NewcomersAreRanked` | the board is written at start-up alone: who first logs in later is ranked after the next start (README.md:150-151 speaks of a periodic synchronisation) |

For the inventory, dropping any one of the conditions of `calm` (each is an argument of
`Expect` in `Inventory.tla`) makes `ShownIsKept` or `LayoutIsValid` fail.

`ResumesLast` makes an exception for a user whose older session still waits for its LOGOUT:
a LOGIN queued before it loads the record from before that session. `ViewsMatch` makes one
for dead NPCs: `DoMove` does not look at `state_`, so a killed NPC takes its next turn and
is announced again to players it comes near.

With SQL Server and Redis both there, a crash between the SQL save and the Redis save of a
log-out (`Player.cpp:464`) leaves Redis with the older record, and the next login prefers it.

SAVE_REDIS can write an item back to an older place (`behind`), and a hash that expires while its user plays
(`Player.cpp:1143`: seven days with no save) holds after his next save only what that save names, which is all he has. A
crash in the first case gives him an item back at its older place, and any crash may cost him one whose place a stale field
takes; a crash after an expiry with no save since leaves what SQL has.

## 14. What is not modelled

* The failed accept completion (`MainServer.cpp:77-81`: it disconnects the object of the listening key,
  NPC 9999, and then runs the accept handler on a socket that is not connected), and a WSARecv that
  fails at once (`Player.cpp:45`: nobody looks at the result, so there is no completion to tear the slot
  down). The models take every connection's end as a completion.
* Redis going away while the server runs, error replies of Redis, and the one cpp_redis client that
  all threads share.
* Of the SQL save of an inventory: a DELETE that cannot even be prepared, after which the INSERTs
  are merged into the old rows.
* A log-in whose SELECT fails after the hash has expired is in `ItemStores`; that its log-out then
  replaces all rows by less is what the code does, and `SettledInSql` takes it as it is.
* A system clock that steps back (the generator would repeat identifiers), attacks on cells off the
  map, chat, the full inventory list that a client is sent when it logs in.
* Undefined behaviour of containers (iterating `around_sector_` or `g_player_list` while
  another thread changes them): the models read a container in one step.
* Drawing, sound, input devices, resource loading of the client; the Lua library.
