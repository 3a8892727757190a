----------------------------- MODULE ItemStores -----------------------------
(***************************************************************************)
(* Where the items of a user are kept: in his inventory while he plays, in *)
(* a Redis hash (UserInventory:<name>) that every change is written to,    *)
(* and in the rows of user_inventory_table, which the database thread      *)
(* writes request by request and, at a log-out, as a whole                 *)
(* (SERVER/Player.cpp, SERVER/DB.cpp, SERVER/sql/sp_Inventory.sql).  At    *)
(* every level the database thread writes the hash too, from a copy it has *)
(* taken while the player goes on.                                         *)
(*                                                                         *)
(* An item covers one cell (shapes are Inventory's subject), and its place *)
(* is all that is saved of it.  A handler and a request are one step each: *)
(* who is served by which slot is PlayerSession's subject, who picks up    *)
(* what from where is Loot's.                                              *)
(***************************************************************************)
EXTENDS Naturals, Sequences, FiniteSets, Functions

CONSTANTS
    User, Item, Cell,
    Offline,        \* hdbc is SQL_NULL_HDBC
    SqlMayFail,     \* a statement may fail
    MaxCrashes,     \* bound on the crashes of the server
    MaxQueue        \* bound on the requests that wait

ASSUME ModeAssumption  == {Offline, SqlMayFail} \subseteq BOOLEAN
ASSUME BoundAssumption == MaxCrashes \in Nat /\ MaxQueue \in Nat

VARIABLES
    online,     \* user: "off", "queued" (his LOGIN), "in", "leaving" (his LOGOUT)
    bag,        \* user: inventory_, the place of each item
    ground,     \* the items on the map
    hash,       \* user: the fields of his Redis hash
    rows,       \* user: his rows in SQL
    requests,   \* g_db_request_queue
    saving,     \* what the database thread has read for SAVE_REDIS and not yet written
    crashes,
    left,       \* history, user: what he held when he was last in the game
    saved,      \* history, user: the rows are what he held when he left
    inStep,     \* history, user: no save has failed since the rows named his items
    behind      \* history, user: his items whose field has expired since the last
                \* save, or was last written from a copy that had them elsewhere

stores == <<hash, behind, rows>>
history == <<left, saved, inStep>>
vars == <<online, bag, ground, stores, requests, saving, crashes, history>>

Empty == [i \in {} |-> {}]
Bag == {b \in UNION {[I -> Cell] : I \in SUBSET Item} : IsInjective(b)}
Record == UNION {[I -> Cell] : I \in SUBSET Item}
Merge(new, old) ==
    [i \in DOMAIN new \union DOMAIN old |-> IF i \in DOMAIN new THEN new[i] ELSE old[i]]
Without(f, i) == Restrict(f, DOMAIN f \ {i})

Request == [type : {"LOGIN", "LOGOUT", "SAVE_REDIS"}, user : User]
           \union [type : {"SAVE_ITEM", "DELETE_ITEM"}, user : User, item : Item]

Init ==
    /\ online = [u \in User |-> "off"]
    /\ bag = [u \in User |-> Empty]
    /\ ground = Item
    /\ hash = [u \in User |-> Empty]
    /\ rows = [u \in User |-> Empty]
    /\ requests = <<>>
    /\ saving = {}
    /\ crashes = 0
    /\ left = [u \in User |-> Empty]
    /\ saved = [u \in User |-> ~Offline]
    /\ inStep = [u \in User |-> FALSE]
    /\ behind = [u \in User |-> {}]

----------------------------------------------------------------------------
(* The commands of a player.  Each ends in SaveInventoryToRedis.           *)

Push(r) == Len(requests) < MaxQueue /\ requests' = Append(requests, r)

\* Variant: the hash is replaced only when it is new.
SaveNew(u, b) ==
    /\ hash' = [hash EXCEPT ![u] = Merge(@, b)]
    /\ behind' = [behind EXCEPT ![u] = {}]

\* SaveInventoryToRedis: hmset sets the fields it names, and leaves the others.
\* It is not called for an empty inventory, which names none.
SaveInventoryToRedis(u, b) ==
    /\ hash' = [hash EXCEPT ![u] = Merge(b, @)]
    /\ behind' = [behind EXCEPT ![u] = {}]

Free(u) == Cell \ Range(bag[u])

\* CS_ITEM_MOVE and CS_ITEM_SORT.
Move(u) ==
    /\ online[u] = "in"
    /\ \E b \in [DOMAIN bag[u] -> Cell] :
         /\ IsInjective(b)
         /\ b # bag[u]
         /\ bag' = [bag EXCEPT ![u] = b]
         /\ SaveInventoryToRedis(u, b)
    /\ UNCHANGED <<online, ground, rows, requests, saving, crashes, history>>

\* CS_ITEM_PICKUP.  Bound: a second copy of an item he has is left lying.
PickUp(u) ==
    /\ online[u] = "in"
    /\ \E i \in ground \ DOMAIN bag[u], c \in Free(u) :
         LET b == Merge([j \in {i} |-> c], bag[u]) IN
         /\ bag' = [bag EXCEPT ![u] = b]
         /\ ground' = ground \ {i}
         /\ SaveInventoryToRedis(u, b)
         /\ Push([type |-> "SAVE_ITEM", user |-> u, item |-> i])
    /\ UNCHANGED <<online, rows, saving, crashes, history>>

\* CS_ITEM_DROP.
DropItem(u) ==
    /\ online[u] = "in"
    /\ \E i \in DOMAIN bag[u] :
         /\ bag' = [bag EXCEPT ![u] = Without(@, i)]
         /\ ground' = ground \union {i}
         /\ SaveInventoryToRedis(u, Without(bag[u], i))
         /\ Push([type |-> "DELETE_ITEM", user |-> u, item |-> i])
    /\ UNCHANGED <<online, rows, saving, crashes, history>>

\* A kill that gives him a level.
LevelUp(u) ==
    /\ online[u] = "in"
    /\ Push([type |-> "SAVE_REDIS", user |-> u])
    /\ UNCHANGED <<online, bag, ground, stores, saving, crashes, history>>

\* An accepted connection (InitInventory) sends CS_LOGIN.
Connect(u) ==
    /\ online[u] = "off"
    /\ online' = [online EXCEPT ![u] = "queued"]
    /\ bag' = [bag EXCEPT ![u] = Empty]
    /\ Push([type |-> "LOGIN", user |-> u])
    /\ UNCHANGED <<ground, stores, saving, crashes, history>>

\* disconnect().
Disconnect(u) ==
    /\ online[u] = "in"
    /\ online' = [online EXCEPT ![u] = "leaving"]
    /\ left' = [left EXCEPT ![u] = bag[u]]
    /\ Push([type |-> "LOGOUT", user |-> u])
    /\ UNCHANGED <<bag, ground, stores, saving, crashes, saved, inStep>>

----------------------------------------------------------------------------
(* The database thread (DBWoker, ProcessDBRequest).                        *)

IsNext(type, u) ==
    saving = {} /\ requests # <<>> /\ Head(requests).type = type /\ Head(requests).user = u
TheItem == Head(requests).item

\* Variant: a request may overtake those before it.
PopAny == \E k \in 1 .. Len(requests) :
    requests' = Tail([requests EXCEPT ![k] = requests[1]])
Pop == requests' = Tail(requests)

\* PlaceItem takes the fields in any order and passes over those whose cell is
\* taken, whether their item is still the user's or not.
Loads(h) ==
    {Restrict(h, I) : I \in {I \in SUBSET DOMAIN h :
        \A c \in Range(h) : \E i \in I : h[i] = c /\ \A j \in I \ {i} : h[j] # c}}

\* Variant: SQL is not asked.
FoundInRedis(u, answered) == IF hash[u] # Empty THEN Loads(hash[u]) ELSE {Empty}

\* What EnterGame can find: the hash, or the rows where that gives nothing and SQL
\* answers.
Found(u, answered) ==
    IF hash[u] # Empty THEN Loads(hash[u])
    ELSE IF answered THEN Loads(rows[u])
    ELSE {Empty}

DBLogin(u, answered) ==
    /\ IsNext("LOGIN", u)
    /\ answered \/ Offline \/ SqlMayFail
    /\ answered => ~Offline
    /\ \E b \in Found(u, answered) :
         /\ bag' = [bag EXCEPT ![u] = b]
         /\ inStep' = [inStep EXCEPT ![u] = ~Offline /\ DOMAIN rows[u] = DOMAIN b]
         /\ SaveInventoryToRedis(u, b)
    /\ online' = [online EXCEPT ![u] = "in"]
    /\ Pop
    /\ UNCHANGED <<ground, rows, saving, crashes, left, saved>>

\* A statement that fails leaves the rows as they are.
StatementFails(u) ==
    /\ Offline \/ SqlMayFail
    /\ inStep' = [inStep EXCEPT ![u] = FALSE]
    /\ UNCHANGED rows

\* DBSaveItem, sp_SaveInventory: the item at the place it has now, if the user
\* still has it.
DBSaveItem(u) ==
    /\ IsNext("SAVE_ITEM", u)
    /\ \/ /\ TheItem \notin DOMAIN bag[u]
          /\ UNCHANGED <<rows, inStep>>
       \/ /\ TheItem \in DOMAIN bag[u]
          /\ ~Offline
          /\ rows' = [rows EXCEPT ![u] = Merge([j \in {TheItem} |-> bag[u][j]], @)]
          /\ UNCHANGED inStep
       \/ /\ TheItem \in DOMAIN bag[u]
          /\ StatementFails(u)
    /\ Pop
    /\ UNCHANGED <<online, bag, ground, hash, behind, saving, crashes, left, saved>>

\* DBDeleteItem, sp_DeleteItem.
DBDeleteItem(u) ==
    /\ IsNext("DELETE_ITEM", u)
    /\ \/ /\ ~Offline
          /\ rows' = [rows EXCEPT ![u] = Without(@, TheItem)]
          /\ UNCHANGED inStep
       \/ StatementFails(u)
    /\ Pop
    /\ UNCHANGED <<online, bag, ground, hash, behind, saving, crashes, left, saved>>

\* Variant: the transaction has no DELETE.
InsertOnly(u) == rows' = [rows EXCEPT ![u] = Merge(bag[u], @)]

\* DBSaveInventory: DELETE and INSERTs, all or none of them.
DBSaveInventory(u) == rows' = [rows EXCEPT ![u] = bag[u]]

\* DBLogout.  SaveUserToSQL may fail, then the inventory is not tried.
DBLogout(u) ==
    /\ IsNext("LOGOUT", u)
    /\ \/ /\ ~Offline
          /\ DBSaveInventory(u)
          /\ saved' = [saved EXCEPT ![u] = TRUE]
          /\ UNCHANGED inStep
       \/ /\ StatementFails(u)
          /\ saved' = [saved EXCEPT ![u] = FALSE]
    /\ SaveInventoryToRedis(u, bag[u])
    /\ online' = [online EXCEPT ![u] = "off"]
    /\ Pop
    /\ UNCHANGED <<bag, ground, saving, crashes, left>>

\* SaveToRedis for SAVE_REDIS: of a player who is still in the game the thread
\* reads the inventory,
SaveRedisRead(u) ==
    /\ IsNext("SAVE_REDIS", u)
    /\ saving' = IF online[u] = "in" THEN {[user |-> u, items |-> bag[u]]} ELSE {}
    /\ Pop
    /\ UNCHANGED <<online, bag, ground, stores, crashes, history>>

\* and then writes it, over what his commands may have saved meanwhile.
SaveRedisWrite(u) ==
    /\ \E s \in saving :
         /\ s.user = u
         /\ hash' = [hash EXCEPT ![u] = Merge(s.items, @)]
         /\ behind' = [behind EXCEPT ![u] =
              {i \in DOMAIN s.items \intersect DOMAIN bag[u] : s.items[i] # bag[u][i]}]
    /\ saving' = {}
    /\ UNCHANGED <<online, bag, ground, rows, requests, crashes, history>>

----------------------------------------------------------------------------
\* Seven days after the last save the hash is gone, whether the user is in the
\* game or not.  Bound: no save takes seven days.
Expire(u) ==
    /\ hash[u] # Empty
    /\ \A s \in saving : s.user # u
    /\ hash' = [hash EXCEPT ![u] = Empty]
    /\ behind' = [behind EXCEPT ![u] = DOMAIN bag[u]]
    /\ UNCHANGED <<online, bag, ground, rows, requests, saving, crashes, history>>

\* The server goes down and comes up again: Redis and SQL are what is left.
Crash ==
    /\ crashes < MaxCrashes
    /\ crashes' = crashes + 1
    /\ left' = [u \in User |-> IF online[u] = "in" THEN bag[u] ELSE left[u]]
    /\ saved' = [u \in User |-> saved[u] /\ online[u] \in {"off", "queued"}]
    /\ online' = [u \in User |-> "off"]
    /\ bag' = [u \in User |-> Empty]
    /\ requests' = <<>>
    /\ saving' = {}
    /\ ground' = {}
    /\ UNCHANGED <<stores, inStep>>

Play(u) == \/ Move(u) \/ PickUp(u) \/ DropItem(u) \/ LevelUp(u)
           \/ Connect(u) \/ Disconnect(u)
DBWoker(u) == \/ \E answered \in BOOLEAN : DBLogin(u, answered)
              \/ DBSaveItem(u) \/ DBDeleteItem(u) \/ DBLogout(u)
              \/ SaveRedisRead(u) \/ SaveRedisWrite(u)

Next == \/ \E u \in User : Play(u) \/ DBWoker(u) \/ Expire(u)
        \/ Crash

Spec == Init /\ [][Next]_vars

----------------------------------------------------------------------------
\* Every variable has its type; no inventory has two items in one place.
TypeOK ==
    /\ online \in [User -> {"off", "queued", "in", "leaving"}]
    /\ \A u \in User : {bag[u], left[u]} \subseteq Bag
    /\ \A u \in User : {hash[u], rows[u]} \subseteq Record
    /\ ground \subseteq Item
    /\ requests \in Seq(Request)
    /\ saving \subseteq [user : User, items : Bag]
    /\ crashes \in 0 .. MaxCrashes
    /\ {saved, inStep} \subseteq [User -> BOOLEAN]
    /\ behind \in [User -> SUBSET Item]

\* Redis has what a player has: each item at its present place, but for a field
\* that has expired since his last save, or that SAVE_REDIS wrote from a copy
\* which a command of his had overtaken, and even then no item is missing from a
\* hash that has not expired (Player.cpp:1132-1146, DB.cpp:171-175).
HashCovers ==
    \A u \in User : online[u] \in {"in", "leaving"} =>
      /\ hash[u] # Empty => DOMAIN bag[u] \subseteq DOMAIN hash[u]
      /\ \A i \in DOMAIN bag[u] \ behind[u] : i \in DOMAIN hash[u] /\ hash[u][i] = bag[u][i]

Waits(u) == \E k \in 1 .. Len(requests) : requests[k].user = u

\* The requests that follow each other through the queue keep the rows to the
\* items the player has, however often one is dropped and picked up again
\* (Player.cpp:1006, 1080, 1372-1450; DB.cpp:176-181).
SqlFollows ==
    \A u \in User : (online[u] = "in" /\ inStep[u] /\ ~Waits(u))
                      => DOMAIN rows[u] = DOMAIN bag[u]

\* After a log-out that SQL took, the rows are the inventory: nothing that was
\* dropped, and everything where it was (Player.cpp:1199-1303).
SettledInSql ==
    \A u \in User : (online[u] = "off" /\ saved[u]) => rows[u] = left[u]

\* The items that the hash names wrongly: he had given them away when he left, or
\* SAVE_REDIS wrote them back to an older place.
Misnamed(u) == (DOMAIN hash[u] \ DOMAIN left[u]) \union behind[u]

\* From Redis an item is back at its place, unless one that the hash names wrongly
\* has been put there.
ResumedFromRedis(u) ==
    (online[u] = "queued" /\ online'[u] = "in" /\ hash[u] # Empty)
      => \A i \in DOMAIN left[u] \ Misnamed(u) :
           \/ i \in DOMAIN bag'[u] /\ bag'[u][i] = left[u][i]
           \/ \E j \in Misnamed(u) \intersect DOMAIN bag'[u] : bag'[u][j] = left[u][i]

\* From SQL all of them are back, and nothing else, if it took the last log-out.
ResumedFromSql(u) ==
    (DBLogin(u, TRUE) /\ hash[u] = Empty /\ saved[u]) => bag'[u] = left[u]

\* A log-in gives back the items that the user held when he was last in the game:
\* from Redis, except those that the hash names wrongly or that such an item has
\* displaced, or from SQL where the hash has expired and SQL answers
\* (Player.cpp:346-383).
ResumesItems == [][\A u \in User : ResumedFromRedis(u) /\ ResumedFromSql(u)]_vars

\* An item is in one place: what a player has dropped he has no more
\* (sp_Inventory.sql:134-135).
DroppedIsGone == \A u \in User : DOMAIN bag[u] \intersect ground = {}
============================================================================
