-------------------------- MODULE ItemStoresProofs --------------------------
(***************************************************************************)
(* Redis covers what is held, and SQL has what was left, for any users,    *)
(* items and places, any failures and any number of crashes.               *)
(*                                                                         *)
(* The second needs to know what waits in the queue: a user who is out has *)
(* nothing there, so no request of an earlier session can change his rows, *)
(* and nothing of his follows his LOGOUT.  That SQL follows a player who   *)
(* drops and picks up needs more of the queue: of the requests about one   *)
(* item, the last says whether he has it.                                  *)
(***************************************************************************)
EXTENDS ItemStores, TLAPS, SequenceTheorems

Domains ==
    /\ DOMAIN online = User /\ DOMAIN bag = User
    /\ DOMAIN hash = User   /\ DOMAIN rows = User
    /\ DOMAIN left = User   /\ DOMAIN saved = User
    /\ DOMAIN behind = User

IsQueue == \E S : requests \in Seq(S)

ItemTypes == {"SAVE_ITEM", "DELETE_ITEM"}
PlayTypes == ItemTypes \union {"SAVE_REDIS"}

\* The requests of user u that wait in queue q, in state s of his session.
InOrder(u, s, q) ==
    \A k \in 1 .. Len(q) : q[k].user = u =>
      /\ s # "off"
      /\ s = "queued" => /\ q[k].type = "LOGIN"
                         /\ \A j \in 1 .. Len(q) : q[j].user = u => j = k
      /\ s = "in" => q[k].type \in PlayTypes
      /\ s = "leaving" => \/ q[k].type \in PlayTypes
                          \/ /\ q[k].type = "LOGOUT"
                             /\ \A j \in 1 .. Len(q) : q[j].user = u => j <= k

Ordered == \A u \in User : InOrder(u, online[u], requests)

\* What a session held when it ended is what its LOGOUT will save.
Leaving == \A u \in User : online[u] = "leaving" => left[u] = bag[u]

\* SettledInSql holds on until the LOGIN is served.
Kept == \A u \in User : (online[u] \in {"off", "queued"} /\ saved[u]) => rows[u] = left[u]

States == \A u \in User : online[u] \in {"off", "queued", "in", "leaving"}

\* A hash against an inventory, but for the places of some items.
Near(h, b, late) ==
    /\ h # Empty => DOMAIN b \subseteq DOMAIN h
    /\ \A i \in DOMAIN b \ late : i \in DOMAIN h /\ h[i] = b[i]

\* HashCovers, which goes on for what the user left, and what it needs of the copy
\* that SAVE_REDIS will write: an item that is not in the copy was saved since.
InRedis(u) ==
    /\ online[u] \in {"in", "leaving"} => Near(hash[u], bag[u], behind[u])
    /\ (online[u] \in {"off", "queued"} /\ hash[u] # Empty) => Near(hash[u], left[u], behind[u])
    /\ \A s \in saving : s.user = u =>
         /\ online[u] \in {"in", "leaving"}
         /\ \A i \in DOMAIN bag[u] \ DOMAIN s.items : i \in DOMAIN hash[u] /\ hash[u][i] = bag[u][i]

Redis == \A u \in User : InRedis(u)

IInv == Domains /\ States /\ IsQueue /\ Ordered /\ Leaving /\ Kept /\ Redis

----------------------------------------------------------------------------
(* The hash.                                                               *)

Covers(h, b) == \A i \in DOMAIN b : i \in DOMAIN h /\ h[i] = b[i]

LEMMA RedisCovers == ASSUME Redis PROVE HashCovers
  BY DEF Redis, InRedis, Near, HashCovers

LEMMA CoversNear ==
    ASSUME NEW h, NEW b, NEW late, Covers(h, b) PROVE Near(h, b, late)
  BY DEF Covers, Near

LEMMA MergeCovers ==
    ASSUME NEW b, NEW h PROVE Covers(Merge(b, h), b)
  BY DEF Covers, Merge

\* What is saved is covered, and the others' fields are not touched.
LEMMA SaveCovers ==
    ASSUME Domains, NEW u \in User, NEW b, SaveInventoryToRedis(u, b)
    PROVE  /\ DOMAIN hash' = User
           /\ Covers(hash'[u], b)
           /\ \A v \in User \ {u} : hash'[v] = hash[v]
           /\ DOMAIN behind' = User
           /\ \A v \in User \ {u} : behind'[v] = behind[v]
  <1>1. hash'[u] = Merge(b, hash[u])
    BY DEF SaveInventoryToRedis, Domains
  <1>2. /\ DOMAIN hash' = User /\ \A v \in User \ {u} : hash'[v] = hash[v]
        /\ DOMAIN behind' = User /\ \A v \in User \ {u} : behind'[v] = behind[v]
    BY DEF SaveInventoryToRedis, Domains
  <1> QED
    BY <1>1, <1>2, MergeCovers

\* A step that leaves the other users alone.
OthersKept(u) == \A v \in User \ {u} : /\ online'[v] = online[v] /\ bag'[v] = bag[v]
                                       /\ hash'[v] = hash[v]     /\ rows'[v] = rows[v]
                                       /\ left'[v] = left[v]     /\ saved'[v] = saved[v]
                                       /\ behind'[v] = behind[v]

LEMMA OthersRedis ==
    ASSUME Redis, NEW u \in User, OthersKept(u), InRedis(u)',
           \A s \in saving' : s.user = u \/ s \in saving
    PROVE  Redis'
  <1>1. ASSUME NEW v \in User \ {u} PROVE InRedis(v)'
    <2>1. InRedis(v) /\ \A s \in saving' : s.user = v => s \in saving
      BY DEF Redis
    <2> QED
      BY <2>1 DEF InRedis, Near, OthersKept
  <1> QED
    BY <1>1 DEF Redis

\* A save of what the user then has in the game.
LEMMA SavedRedis ==
    ASSUME Redis, NEW u \in User, OthersKept(u), saving' = saving,
           online'[u] \in {"in", "leaving"}, Covers(hash'[u], bag'[u])
    PROVE  Redis'
  <1>1. InRedis(u)'
    BY CoversNear DEF InRedis, Covers
  <1> QED
    BY <1>1, OthersRedis

LEMMA OthersSettled ==
    ASSUME Leaving, Kept, NEW u \in User, OthersKept(u),
           online'[u] = "leaving" => left'[u] = bag'[u],
           (online'[u] \in {"off", "queued"} /\ saved'[u]) => rows'[u] = left'[u]
    PROVE  Leaving' /\ Kept'
  BY DEF Leaving, Kept, OthersKept

LEMMA OthersStates ==
    ASSUME States, NEW u \in User, OthersKept(u),
           online'[u] \in {"off", "queued", "in", "leaving"}
    PROVE  States'
  BY DEF States, OthersKept

----------------------------------------------------------------------------
(* The queue.                                                              *)

\* A request of user u at the end of the queue is no request of the others, and
\* suits the state his session is in then.
LEMMA PushOrdered ==
    ASSUME IsQueue, Ordered, NEW u \in User, NEW r, r.user = u, Push(r),
           \A v \in User \ {u} : online'[v] = online[v],
           \/ r.type = "LOGIN" /\ online[u] = "off" /\ online'[u] = "queued"
           \/ r.type \in PlayTypes /\ online[u] = "in" /\ online'[u] = "in"
           \/ r.type = "LOGOUT" /\ online[u] = "in" /\ online'[u] = "leaving"
    PROVE  IsQueue' /\ Ordered'
  <1>1. PICK S : requests \in Seq(S)
    BY DEF IsQueue
  <1> DEFINE T == S \union {r}
             n == Len(requests)
  <1>2. requests \in Seq(T) /\ n \in Nat
    BY <1>1
  <1>3. /\ requests' \in Seq(T) /\ Len(requests') = n + 1
        /\ \A k \in 1 .. n : requests'[k] = requests[k]
        /\ requests'[n + 1] = r
    BY <1>2, AppendProperties DEF Push
  <1> HIDE DEF T, n
  <1>4. \A k \in 1 .. (n + 1) : k \in 1 .. n \/ k = n + 1
    BY <1>2
  <1>5. ASSUME NEW v \in User \ {u} PROVE InOrder(v, online'[v], requests')
    <2>1. InOrder(v, online[v], requests)
      BY DEF Ordered
    <2>2. \A k \in 1 .. (n + 1) : requests'[k].user = v => k \in 1 .. n /\ requests[k] = requests'[k]
      BY <1>3, <1>4
    <2>3. \A k \in 1 .. n : k \in 1 .. (n + 1)
      BY <1>2
    <2> QED
      BY <1>3, <2>1, <2>2, <2>3 DEF InOrder, n
  <1>6. InOrder(u, online'[u], requests')
    <2>1. InOrder(u, online[u], requests)
      BY DEF Ordered
    <2>2. ASSUME NEW k \in 1 .. (n + 1), requests'[k].user = u
          PROVE  \/ k = n + 1
                 \/ /\ k \in 1 .. n /\ online[u] = "in" /\ requests'[k].type \in PlayTypes
      BY <1>3, <1>4, <2>1, <2>2 DEF InOrder, n
    <2>3. \A j \in 1 .. (n + 1) : j <= n + 1
      BY <1>2
    <2>4. CASE online'[u] = "queued"
      BY <1>3, <2>2, <2>3, <2>4 DEF InOrder, PlayTypes, ItemTypes
    <2>5. CASE online'[u] = "in"
      BY <1>3, <2>2, <2>5 DEF InOrder, PlayTypes, ItemTypes
    <2>6. CASE online'[u] = "leaving"
      BY <1>3, <2>2, <2>3, <2>6 DEF InOrder, PlayTypes, ItemTypes
    <2> QED
      BY <2>4, <2>5, <2>6
  <1> QED
    BY <1>3, <1>5, <1>6 DEF IsQueue, Ordered

\* The first request of the queue is served: its user's session goes on as the
\* request says, and the others' queues move up.
LEMMA PopOrdered ==
    ASSUME IsQueue, Ordered, NEW u \in User, requests # <<>>, requests[1].user = u, Pop,
           \A v \in User \ {u} : online'[v] = online[v],
           \/ requests[1].type = "LOGIN" /\ online[u] = "queued" /\ online'[u] = "in"
           \/ requests[1].type \in PlayTypes /\ online'[u] = online[u]
           \/ requests[1].type = "LOGOUT" /\ online[u] = "leaving" /\ online'[u] = "off"
    PROVE  IsQueue' /\ Ordered'
  <1>1. PICK S : requests \in Seq(S)
    BY DEF IsQueue
  <1> DEFINE n == Len(requests)
  <1>2. /\ requests' \in Seq(S) /\ Len(requests') = n - 1
        /\ \A k \in 1 .. (n - 1) : requests'[k] = requests[k + 1]
    BY <1>1, HeadTailProperties DEF Pop
  <1>3. n \in Nat \ {0}
    BY <1>1
  <1> HIDE DEF n
  <1>4. /\ 1 \in 1 .. n
        /\ \A k \in 1 .. (n - 1) : k + 1 \in 1 .. n /\ k + 1 # 1
        /\ \A j, k \in 1 .. (n - 1) : (j + 1 = k + 1 => j = k) /\ (j + 1 <= k + 1 => j <= k)
        /\ \A k \in 1 .. (n - 1) : ~(k + 1 <= 1)
    BY <1>3
  <1>5. ASSUME NEW v \in User PROVE InOrder(v, online[v], requests')
    <2>1. InOrder(v, online[v], requests)
      BY DEF Ordered
    <2>2. ASSUME NEW k \in 1 .. (n - 1), requests'[k].user = v
          PROVE  /\ k + 1 \in 1 .. n /\ requests[k + 1].user = v
                 /\ requests'[k].type = requests[k + 1].type
      BY <1>2, <1>4, <2>2
    <2>3. ASSUME NEW k \in 1 .. (n - 1), requests'[k].user = v
          PROVE  /\ online[v] # "off"
                 /\ online[v] = "queued" => requests'[k].type = "LOGIN"
                 /\ online[v] = "in" => requests'[k].type \in PlayTypes
                 /\ online[v] = "leaving" => requests'[k].type \in PlayTypes \union {"LOGOUT"}
      BY <2>1, <2>2, <2>3 DEF InOrder, n
    <2>4. ASSUME NEW k \in 1 .. (n - 1), NEW j \in 1 .. (n - 1),
                 requests'[k].user = v, requests'[j].user = v
          PROVE  /\ online[v] = "queued" => j = k
                 /\ online[v] = "leaving" => requests'[k].type \in PlayTypes \/ j <= k
      <3>1. /\ k + 1 \in 1 .. n /\ requests[k + 1].user = v
            /\ j + 1 \in 1 .. n /\ requests[j + 1].user = v
            /\ requests'[k].type = requests[k + 1].type
        BY <2>2, <2>4
      <3>2. /\ online[v] = "queued" => j + 1 = k + 1
            /\ online[v] = "leaving" => requests[k + 1].type \in PlayTypes \/ j + 1 <= k + 1
        BY <2>1, <3>1 DEF InOrder, n
      <3> QED
        BY <1>4, <3>1, <3>2
    <2> QED
      BY <1>2, <2>3, <2>4 DEF InOrder
  <1>6. ASSUME NEW v \in User \ {u} PROVE InOrder(v, online'[v], requests')
    BY <1>5
  <1>7. InOrder(u, online'[u], requests')
    <2>1. InOrder(u, online[u], requests)
      BY DEF Ordered
    <2>2. CASE requests[1].type \in PlayTypes /\ online'[u] = online[u]
      BY <1>5, <2>2
    <2>3. CASE requests[1].type = "LOGIN" /\ online[u] = "queued"
      <3>1. \A k \in 1 .. (n - 1) : requests'[k].user # u
        BY <1>2, <1>4, <2>1, <2>3 DEF InOrder, n
      <3> QED
        BY <1>2, <3>1 DEF InOrder
    <2>4. CASE requests[1].type = "LOGOUT" /\ online[u] = "leaving"
      <3>1. \A k \in 1 .. (n - 1) : requests'[k].user # u
        BY <1>2, <1>4, <2>1, <2>4 DEF InOrder, n, PlayTypes, ItemTypes
      <3> QED
        BY <1>2, <3>1 DEF InOrder
    <2> QED
      BY <2>2, <2>3, <2>4
  <1> QED
    BY <1>2, <1>6, <1>7 DEF IsQueue, Ordered

\* Who is served is in the state the request is for.
LEMMA NextSuits ==
    ASSUME IsQueue, Ordered, States, NEW u \in User, NEW type, IsNext(type, u)
    PROVE  /\ requests # <<>> /\ requests[1].user = u /\ requests[1].type = type
           /\ type = "LOGIN" => online[u] = "queued"
           /\ type = "LOGOUT" => online[u] = "leaving"
           /\ type \in PlayTypes => online[u] \in {"in", "leaving"}
  <1>1. PICK S : requests \in Seq(S)
    BY DEF IsQueue
  <1>2. requests # <<>> /\ 1 \in 1 .. Len(requests) /\ Head(requests) = requests[1]
    BY <1>1 DEF IsNext
  <1>3. InOrder(u, online[u], requests)
    BY DEF Ordered
  <1> QED
    BY <1>2, <1>3 DEF IsNext, InOrder, PlayTypes, ItemTypes, States

----------------------------------------------------------------------------
(* The commands.                                                           *)

\* A command of a player in the game, which ends with the bag b.
LEMMA CommandStep ==
    ASSUME IInv, NEW u \in User, NEW b, online[u] = "in",
           bag' = [bag EXCEPT ![u] = b], SaveInventoryToRedis(u, b),
           UNCHANGED <<online, rows, left, saved, saving>>, IsQueue', Ordered'
    PROVE  IInv'
  <1>1. /\ DOMAIN hash' = User /\ Covers(hash'[u], b) /\ DOMAIN behind' = User
        /\ \A v \in User \ {u} : hash'[v] = hash[v] /\ behind'[v] = behind[v]
    BY SaveCovers DEF IInv
  <1>2. bag'[u] = b /\ DOMAIN bag' = User /\ \A v \in User \ {u} : bag'[v] = bag[v]
    BY DEF IInv, Domains
  <1>3. OthersKept(u)
    BY <1>1, <1>2 DEF OthersKept
  <1>4. Domains'
    BY <1>1, <1>2 DEF IInv, Domains
  <1>5. Redis'
    BY <1>1, <1>2, <1>3, SavedRedis DEF IInv
  <1>6. Leaving' /\ Kept'
    BY <1>3, OthersSettled DEF IInv
  <1> QED
    BY <1>4, <1>5, <1>6 DEF IInv, States

LEMMA MoveStep == ASSUME IInv, NEW u \in User, Move(u) PROVE IInv'
  <1>1. PICK b : bag' = [bag EXCEPT ![u] = b] /\ SaveInventoryToRedis(u, b)
    BY DEF Move
  <1>2. IsQueue' /\ Ordered'
    BY DEF Move, IInv, IsQueue, Ordered
  <1> QED
    BY <1>1, <1>2, CommandStep DEF Move, history

LEMMA PickUpStep == ASSUME IInv, NEW u \in User, PickUp(u) PROVE IInv'
  <1>1. PICK i \in ground \ DOMAIN bag[u] : \E c \in Free(u) :
           LET b == Merge([j \in {i} |-> c], bag[u]) IN
           /\ bag' = [bag EXCEPT ![u] = b]
           /\ SaveInventoryToRedis(u, b)
           /\ Push([type |-> "SAVE_ITEM", user |-> u, item |-> i])
    BY DEF PickUp
  <1>2. PICK b : /\ bag' = [bag EXCEPT ![u] = b]
                 /\ SaveInventoryToRedis(u, b)
                 /\ Push([type |-> "SAVE_ITEM", user |-> u, item |-> i])
    BY <1>1
  <1>3. online[u] = "in" /\ UNCHANGED <<online, rows, left, saved, saving>>
    BY DEF PickUp, history
  <1>4. IsQueue' /\ Ordered'
    BY <1>2, <1>3, PushOrdered DEF IInv, PlayTypes, ItemTypes
  <1> QED
    BY <1>2, <1>3, <1>4, CommandStep

LEMMA DropStep == ASSUME IInv, NEW u \in User, DropItem(u) PROVE IInv'
  <1>1. PICK i \in DOMAIN bag[u] :
           /\ bag' = [bag EXCEPT ![u] = Without(@, i)]
           /\ SaveInventoryToRedis(u, Without(bag[u], i))
           /\ Push([type |-> "DELETE_ITEM", user |-> u, item |-> i])
    BY DEF DropItem
  <1>2. online[u] = "in" /\ UNCHANGED <<online, rows, left, saved, saving>>
    BY DEF DropItem, history
  <1>3. IsQueue' /\ Ordered'
    BY <1>1, <1>2, PushOrdered DEF IInv, PlayTypes, ItemTypes
  <1>4. bag' = [bag EXCEPT ![u] = Without(bag[u], i)]
    BY <1>1
  <1> QED
    BY <1>1, <1>2, <1>3, <1>4, CommandStep

\* A step of user u that changes neither what he has nor a store.
LEMMA QuietStep ==
    ASSUME IInv, NEW u \in User, UNCHANGED <<online, bag, hash, behind, rows, left, saved>>,
           IsQueue', Ordered', \/ saving' \subseteq saving
                               \/ online[u] = "in" /\ saving' = {[user |-> u, items |-> bag[u]]}
    PROVE  IInv'
  <1>1. OthersKept(u)
    BY DEF OthersKept
  <1>2. InRedis(u)'
    BY DEF IInv, Redis, InRedis, Near
  <1>3. \A s \in saving' : s.user = u \/ s \in saving
    OBVIOUS
  <1>4. Redis'
    BY <1>1, <1>2, <1>3, OthersRedis DEF IInv
  <1> QED
    BY <1>4 DEF IInv, Domains, States, Leaving, Kept

LEMMA LevelUpStep == ASSUME IInv, NEW u \in User, LevelUp(u) PROVE IInv'
  <1>1. UNCHANGED <<online, bag, hash, behind, rows, left, saved, saving>>
    BY DEF LevelUp, stores, history
  <1>2. IsQueue' /\ Ordered'
    BY <1>1, PushOrdered DEF IInv, LevelUp, PlayTypes
  <1> QED
    BY <1>1, <1>2, QuietStep

LEMMA ConnectStep == ASSUME IInv, NEW u \in User, Connect(u) PROVE IInv'
  <1>1. /\ online[u] = "off" /\ online'[u] = "queued" /\ bag'[u] = Empty
        /\ DOMAIN online' = User /\ DOMAIN bag' = User
        /\ \A v \in User \ {u} : online'[v] = online[v] /\ bag'[v] = bag[v]
        /\ UNCHANGED <<hash, behind, rows, left, saved, saving>>
    BY DEF Connect, IInv, Domains, stores, history
  <1>2. IsQueue' /\ Ordered'
    BY <1>1, PushOrdered DEF IInv, Connect
  <1>3. OthersKept(u)
    BY <1>1 DEF OthersKept
  <1>4. Domains' /\ States'
    BY <1>1, <1>3, OthersStates DEF IInv, Domains
  <1>5. Redis'
    <2>1. InRedis(u)'
      BY <1>1 DEF IInv, Redis, InRedis, Near
    <2> QED
      BY <1>1, <1>3, <2>1, OthersRedis DEF IInv
  <1>6. Leaving' /\ Kept'
    BY <1>1, <1>3, OthersSettled DEF IInv, Kept
  <1> QED
    BY <1>2, <1>4, <1>5, <1>6 DEF IInv

LEMMA DisconnectStep == ASSUME IInv, NEW u \in User, Disconnect(u) PROVE IInv'
  <1>1. /\ online[u] = "in" /\ online'[u] = "leaving" /\ left'[u] = bag[u]
        /\ DOMAIN online' = User /\ DOMAIN left' = User
        /\ \A v \in User \ {u} : online'[v] = online[v] /\ left'[v] = left[v]
        /\ UNCHANGED <<hash, behind, rows, bag, saved, saving>>
    BY DEF Disconnect, IInv, Domains, stores
  <1>2. IsQueue' /\ Ordered'
    BY <1>1, PushOrdered DEF IInv, Disconnect
  <1>3. OthersKept(u)
    BY <1>1 DEF OthersKept
  <1>4. Domains' /\ States'
    BY <1>1, <1>3, OthersStates DEF IInv, Domains
  <1>5. Redis'
    <2>1. InRedis(u)'
      BY <1>1 DEF IInv, Redis, InRedis, Near
    <2> QED
      BY <1>1, <1>3, <2>1, OthersRedis DEF IInv
  <1>6. Leaving' /\ Kept'
    BY <1>1, <1>3, OthersSettled DEF IInv
  <1> QED
    BY <1>2, <1>4, <1>5, <1>6 DEF IInv

----------------------------------------------------------------------------
(* The database thread.                                                    *)

LEMMA LoginStep == ASSUME IInv, NEW u \in User, NEW a, DBLogin(u, a) PROVE IInv'
  <1>1. PICK b : bag' = [bag EXCEPT ![u] = b] /\ SaveInventoryToRedis(u, b)
    BY DEF DBLogin
  <1>2. /\ DOMAIN hash' = User /\ Covers(hash'[u], b) /\ DOMAIN behind' = User
        /\ \A v \in User \ {u} : hash'[v] = hash[v] /\ behind'[v] = behind[v]
    BY <1>1, SaveCovers DEF IInv
  <1>3. bag'[u] = b /\ DOMAIN bag' = User /\ \A v \in User \ {u} : bag'[v] = bag[v]
    BY <1>1 DEF IInv, Domains
  <1>4. /\ online'[u] = "in" /\ DOMAIN online' = User
        /\ \A v \in User \ {u} : online'[v] = online[v]
        /\ UNCHANGED <<rows, left, saved, saving>>
    BY DEF DBLogin, IInv, Domains
  <1>5. IsQueue' /\ Ordered'
    BY <1>4, NextSuits, PopOrdered DEF IInv, DBLogin
  <1>6. OthersKept(u)
    BY <1>2, <1>3, <1>4 DEF OthersKept
  <1>7. Domains' /\ States'
    BY <1>2, <1>3, <1>4, <1>6, OthersStates DEF IInv, Domains
  <1>8. Redis'
    BY <1>2, <1>3, <1>4, <1>6, SavedRedis DEF IInv
  <1>9. Leaving' /\ Kept'
    BY <1>4, <1>6, OthersSettled DEF IInv
  <1> QED
    BY <1>5, <1>7, <1>8, <1>9 DEF IInv

\* A request about one item, which may change the rows of a user in the game.
LEMMA ItemStep ==
    ASSUME IInv, NEW u \in User, NEW type \in ItemTypes, IsNext(type, u), Pop,
           DOMAIN rows' = User, \A v \in User \ {u} : rows'[v] = rows[v],
           UNCHANGED <<online, bag, hash, behind, saving, left, saved>>
    PROVE  IInv'
  <1>1. online[u] \in {"in", "leaving"}
    BY NextSuits DEF IInv, PlayTypes
  <1>2. IsQueue' /\ Ordered'
    BY NextSuits, PopOrdered DEF IInv, PlayTypes
  <1>3. OthersKept(u)
    BY DEF OthersKept
  <1>4. Domains' /\ States'
    BY DEF IInv, Domains, States
  <1>5. Redis'
    <2>1. InRedis(u)'
      BY DEF IInv, Redis, InRedis, Near
    <2> QED
      BY <1>3, <2>1, OthersRedis DEF IInv
  <1>6. Leaving' /\ Kept'
    BY <1>1, <1>3, OthersSettled DEF IInv, Leaving
  <1> QED
    BY <1>2, <1>4, <1>5, <1>6 DEF IInv

LEMMA SaveItemStep == ASSUME IInv, NEW u \in User, DBSaveItem(u) PROVE IInv'
  <1>1. DOMAIN rows' = User /\ \A v \in User \ {u} : rows'[v] = rows[v]
    BY DEF DBSaveItem, StatementFails, IInv, Domains
  <1> QED
    BY <1>1, ItemStep DEF DBSaveItem, ItemTypes

LEMMA DeleteItemStep == ASSUME IInv, NEW u \in User, DBDeleteItem(u) PROVE IInv'
  <1>1. DOMAIN rows' = User /\ \A v \in User \ {u} : rows'[v] = rows[v]
    BY DEF DBDeleteItem, StatementFails, IInv, Domains
  <1> QED
    BY <1>1, ItemStep DEF DBDeleteItem, ItemTypes

LEMMA LogoutStep == ASSUME IInv, NEW u \in User, DBLogout(u) PROVE IInv'
  <1>1. online[u] = "leaving" /\ left[u] = bag[u]
    BY NextSuits DEF IInv, DBLogout, Leaving
  <1>2. /\ online'[u] = "off" /\ DOMAIN online' = User
        /\ \A v \in User \ {u} : online'[v] = online[v]
        /\ UNCHANGED <<bag, left, saving>> /\ saving = {}
    BY DEF DBLogout, IsNext, IInv, Domains
  <1>3. /\ DOMAIN rows' = User /\ DOMAIN saved' = User
        /\ \A v \in User \ {u} : rows'[v] = rows[v] /\ saved'[v] = saved[v]
        /\ saved'[u] => rows'[u] = bag[u]
    BY DEF DBLogout, DBSaveInventory, StatementFails, IInv, Domains
  <1>4. /\ DOMAIN hash' = User /\ Covers(hash'[u], bag[u]) /\ DOMAIN behind' = User
        /\ \A v \in User \ {u} : hash'[v] = hash[v] /\ behind'[v] = behind[v]
    BY SaveCovers DEF DBLogout, IInv
  <1>5. IsQueue' /\ Ordered'
    BY <1>1, <1>2, NextSuits, PopOrdered DEF IInv, DBLogout
  <1>6. OthersKept(u)
    BY <1>2, <1>3, <1>4 DEF OthersKept
  <1>7. Domains' /\ States'
    BY <1>2, <1>3, <1>4, <1>6, OthersStates DEF IInv, Domains
  <1>8. Redis'
    <2>1. Near(hash'[u], left'[u], behind'[u])
      BY <1>1, <1>2, <1>4, CoversNear
    <2>2. InRedis(u)'
      BY <1>2, <2>1 DEF InRedis
    <2> QED
      BY <1>2, <1>6, <2>2, OthersRedis DEF IInv
  <1>9. Leaving' /\ Kept'
    BY <1>1, <1>2, <1>3, <1>6, OthersSettled DEF IInv
  <1> QED
    BY <1>5, <1>7, <1>8, <1>9 DEF IInv

LEMMA RedisReadStep == ASSUME IInv, NEW u \in User, SaveRedisRead(u) PROVE IInv'
  <1>1. UNCHANGED <<online, bag, hash, behind, rows, left, saved>>
    BY DEF SaveRedisRead, stores, history
  <1>2. saving' = {} \/ (online[u] = "in" /\ saving' = {[user |-> u, items |-> bag[u]]})
    BY DEF SaveRedisRead
  <1>3. IsQueue' /\ Ordered'
    BY <1>1, NextSuits, PopOrdered DEF IInv, SaveRedisRead, PlayTypes
  <1> QED
    BY <1>1, <1>2, <1>3, QuietStep

LEMMA RedisWriteStep == ASSUME IInv, NEW u \in User, SaveRedisWrite(u) PROVE IInv'
  <1>1. PICK s \in saving :
          /\ s.user = u
          /\ hash' = [hash EXCEPT ![u] = Merge(s.items, hash[u])]
          /\ behind' = [behind EXCEPT ![u] =
               {i \in DOMAIN s.items \intersect DOMAIN bag[u] : s.items[i] # bag[u][i]}]
    BY DEF SaveRedisWrite
  <1>2. saving' = {} /\ UNCHANGED <<online, bag, rows, requests, left, saved>>
    BY DEF SaveRedisWrite, history
  <1>3. /\ DOMAIN hash' = User /\ DOMAIN behind' = User
        /\ hash'[u] = Merge(s.items, hash[u])
        /\ behind'[u] = {i \in DOMAIN s.items \intersect DOMAIN bag[u] : s.items[i] # bag[u][i]}
        /\ \A v \in User \ {u} : hash'[v] = hash[v] /\ behind'[v] = behind[v]
    BY <1>1 DEF IInv, Domains
  <1>4. OthersKept(u)
    BY <1>2, <1>3 DEF OthersKept
  <1>5. /\ online[u] \in {"in", "leaving"}
        /\ \A i \in DOMAIN bag[u] \ DOMAIN s.items : i \in DOMAIN hash[u] /\ hash[u][i] = bag[u][i]
    BY <1>1 DEF IInv, Redis, InRedis
  <1>6. \A i \in DOMAIN bag[u] :
          /\ i \in DOMAIN hash'[u]
          /\ i \notin behind'[u] => hash'[u][i] = bag[u][i]
    BY <1>3, <1>5 DEF Merge
  <1>7. InRedis(u)'
    BY <1>2, <1>5, <1>6 DEF InRedis, Near
  <1>8. Redis'
    BY <1>2, <1>4, <1>7, OthersRedis DEF IInv
  <1> QED
    BY <1>2, <1>3, <1>8 DEF IInv, Domains, States, IsQueue, Ordered, Leaving, Kept

----------------------------------------------------------------------------
(* The environment.                                                        *)

LEMMA ExpireStep == ASSUME IInv, NEW u \in User, Expire(u) PROVE IInv'
  <1>1. /\ DOMAIN hash' = User /\ hash'[u] = Empty
        /\ DOMAIN behind' = User /\ behind'[u] = DOMAIN bag[u]
        /\ \A v \in User \ {u} : hash'[v] = hash[v] /\ behind'[v] = behind[v]
    BY DEF Expire, IInv, Domains
  <1>2. /\ UNCHANGED <<online, bag, rows, requests, left, saved, saving>>
        /\ \A s \in saving : s.user # u
    BY DEF Expire, history
  <1>3. OthersKept(u)
    BY <1>1, <1>2 DEF OthersKept
  <1>4. InRedis(u)'
    BY <1>1, <1>2 DEF InRedis, Near
  <1>5. Redis'
    BY <1>2, <1>3, <1>4, OthersRedis DEF IInv
  <1> QED
    BY <1>1, <1>2, <1>5 DEF IInv, Domains, States, IsQueue, Ordered, Leaving, Kept

LEMMA CrashStep == ASSUME IInv, Crash PROVE IInv'
  <1>1. \A u \in User : /\ online'[u] = "off"
                        /\ left'[u] = (IF online[u] = "in" THEN bag[u] ELSE left[u])
                        /\ saved'[u] = (saved[u] /\ online[u] \in {"off", "queued"})
    BY DEF Crash
  <1>2. requests' = <<>> /\ saving' = {} /\ UNCHANGED <<hash, behind, rows>>
    BY DEF Crash, stores
  <1>3. Domains' /\ States'
    BY <1>1, <1>2 DEF Crash, IInv, Domains, States
  <1>4. IsQueue'
    BY <1>2 DEF IsQueue
  <1>5. Ordered'
    BY <1>2 DEF Ordered, InOrder
  <1>6. Leaving'
    BY <1>1 DEF Leaving
  <1>7. Kept'
    BY <1>1, <1>2 DEF IInv, Kept
  <1>8. ASSUME NEW u \in User PROVE InRedis(u)'
    <2>1. CASE online[u] \in {"in", "leaving"}
      <3>1. left'[u] = bag[u]
        BY <1>1, <2>1 DEF IInv, Leaving
      <3> QED
        BY <1>1, <1>2, <2>1, <3>1 DEF IInv, Redis, InRedis, Near
    <2>2. CASE online[u] \in {"off", "queued"}
      BY <1>1, <1>2, <2>2 DEF IInv, Redis, InRedis, Near
    <2> QED
      BY <2>1, <2>2 DEF IInv, States
  <1> QED
    BY <1>3, <1>4, <1>5, <1>6, <1>7, <1>8 DEF IInv, Redis

----------------------------------------------------------------------------
LEMMA InitIInv == ASSUME Init PROVE IInv
  <1>1. Domains /\ States
    BY DEF Init, Domains, States
  <1>2. IsQueue
    BY DEF Init, IsQueue
  <1>3. Ordered
    BY DEF Init, Ordered, InOrder
  <1>4. Leaving /\ Kept /\ Redis
    BY DEF Init, Leaving, Kept, Redis, InRedis, Near
  <1> QED
    BY <1>1, <1>2, <1>3, <1>4 DEF IInv

LEMMA NextIInv == ASSUME IInv, [Next]_vars PROVE IInv'
  <1>1. ASSUME NEW u \in User, Play(u) PROVE IInv'
    BY <1>1, MoveStep, PickUpStep, DropStep, LevelUpStep, ConnectStep, DisconnectStep DEF Play
  <1>2. ASSUME NEW u \in User, DBWoker(u) PROVE IInv'
    BY <1>2, LoginStep, SaveItemStep, DeleteItemStep, LogoutStep, RedisReadStep, RedisWriteStep
       DEF DBWoker
  <1>3. ASSUME NEW u \in User, Expire(u) PROVE IInv'
    BY <1>3, ExpireStep
  <1>4. CASE Crash
    BY <1>4, CrashStep
  <1>5. CASE UNCHANGED vars
    BY <1>5 DEF vars, stores, history, IInv, Domains, States, IsQueue, Ordered, Leaving, Kept,
                Redis, InRedis, Near
  <1> QED
    BY <1>1, <1>2, <1>3, <1>4, <1>5 DEF Next

\* Redis has each item that a player holds at its present place, whatever the
\* database thread saves from a copy while he goes on, but for the fields that
\* such a copy or the expiry of the hash has left behind, and whoever has a hash
\* has all of his items in it (Player.cpp:1132-1146, DB.cpp:171-175).
THEOREM HeldIsCovered == Spec => []HashCovers
  <1>1. IInv => HashCovers
    BY RedisCovers DEF IInv
  <1> QED
    BY <1>1, InitIInv, NextIInv, PTL DEF Spec

\* After a log-out that SQL took, the rows are the inventory the user left,
\* whatever of his earlier requests has failed, and nothing that is done for
\* other users or by a crash changes that (Player.cpp:1199-1303, DB.cpp:145-182).
THEOREM LeftIsSettled == Spec => []SettledInSql
  <1>1. IInv => SettledInSql
    BY DEF IInv, Kept, SettledInSql
  <1> QED
    BY <1>1, InitIInv, NextIInv, PTL DEF Spec
----------------------------------------------------------------------------
(* Types.  The library's operators on functions give back records of places *)
(* and inventories.                                                         *)

LEMMA IsRecord == \A b : b \in Record <=> \E I \in SUBSET Item : b \in [I -> Cell]
  BY DEF Record

LEMMA IsBag == \A b : b \in Bag <=> b \in Record /\ IsInjective(b)
  BY DEF Bag, Record

LEMMA EmptyBag == Empty \in Bag
  <1>1. Empty \in [{} -> Cell]
    BY DEF Empty
  <1>2. IsInjective(Empty)
    BY DEF Empty, IsInjective
  <1> QED
    BY <1>1, <1>2, IsRecord, IsBag

LEMMA MergeRecord ==
    ASSUME NEW new \in Record, NEW old \in Record
    PROVE  Merge(new, old) \in Record /\ DOMAIN Merge(new, old) = DOMAIN new \union DOMAIN old
  <1>1. PICK I \in SUBSET Item : new \in [I -> Cell]
    BY IsRecord
  <1>2. PICK J \in SUBSET Item : old \in [J -> Cell]
    BY IsRecord
  <1>3. Merge(new, old) \in [I \union J -> Cell]
    BY <1>1, <1>2 DEF Merge
  <1>4. I \union J \in SUBSET Item
    BY <1>1, <1>2
  <1> QED
    BY <1>3, <1>4, IsRecord DEF Merge

LEMMA OneRecord ==
    ASSUME NEW i \in Item, NEW c \in Cell
    PROVE  [j \in {i} |-> c] \in Record
  <1>1. [j \in {i} |-> c] \in [{i} -> Cell] /\ {i} \in SUBSET Item
    OBVIOUS
  <1> QED
    BY <1>1, IsRecord

LEMMA RestrictRecord ==
    ASSUME NEW h \in Record, NEW I \in SUBSET DOMAIN h
    PROVE  /\ Restrict(h, I) \in Record /\ DOMAIN Restrict(h, I) = I
           /\ \A i \in I : Restrict(h, I)[i] = h[i]
           /\ IsInjective(h) => IsInjective(Restrict(h, I))
  <1>1. PICK J \in SUBSET Item : h \in [J -> Cell]
    BY IsRecord
  <1>2. Restrict(h, I) \in [I -> Cell] /\ I \in SUBSET Item
    BY <1>1 DEF Restrict
  <1>3. DOMAIN Restrict(h, I) = I /\ \A i \in I : Restrict(h, I)[i] = h[i]
    BY DEF Restrict
  <1>4. IsInjective(h) => IsInjective(Restrict(h, I))
    BY <1>3 DEF IsInjective
  <1> QED
    BY <1>2, <1>3, <1>4, IsRecord

LEMMA WithoutOne ==
    ASSUME NEW h \in Record, NEW i
    PROVE  /\ Without(h, i) \in Record /\ DOMAIN Without(h, i) = DOMAIN h \ {i}
           /\ IsInjective(h) => IsInjective(Without(h, i))
  BY RestrictRecord DEF Without

\* What is loaded is an inventory; from an inventory, all of it is loaded.
LEMMA LoadsBag ==
    ASSUME NEW h \in Record, NEW b \in Loads(h)
    PROVE  b \in Bag /\ (IsInjective(h) => b = h)
  <1>1. PICK I \in SUBSET DOMAIN h :
          /\ \A c \in Range(h) : \E i \in I : h[i] = c /\ \A j \in I \ {i} : h[j] # c
          /\ b = Restrict(h, I)
    BY DEF Loads
  <1>2. \A i \in DOMAIN h : h[i] \in Range(h)
    BY DEF Range
  <1>3. IsInjective(b)
    <2>1. ASSUME NEW x \in I, NEW y \in I, h[x] = h[y] PROVE x = y
      BY <1>1, <1>2, <2>1
    <2> QED
      BY <1>1, <2>1, RestrictRecord DEF IsInjective
  <1>4. b \in Record
    BY <1>1, RestrictRecord
  <1>5. ASSUME IsInjective(h) PROVE b = h
    <2>1. I = DOMAIN h
      BY <1>1, <1>2, <1>5 DEF IsInjective
    <2>2. PICK J \in SUBSET Item : h \in [J -> Cell]
      BY IsRecord
    <2> QED
      BY <1>1, <2>1, <2>2 DEF Restrict
  <1> QED
    BY <1>3, <1>4, <1>5, IsBag

\* What a LOGIN finds is an inventory.
LEMMA FoundBag ==
    ASSUME TypeOK, NEW u \in User, NEW a, NEW b \in Found(u, a)
    PROVE  b \in Bag
  <1>1. hash[u] \in Record /\ rows[u] \in Record
    BY DEF TypeOK
  <1> QED
    BY <1>1, LoadsBag, EmptyBag DEF Found

\* What a save adds to the hash are places.
LEMMA SaveType ==
    ASSUME TypeOK, Domains, NEW u \in User, NEW b \in Record, SaveInventoryToRedis(u, b)
    PROVE  /\ \A v \in User : hash'[v] \in Record
           /\ behind' \in [User -> SUBSET Item]
  <1>1. hash' = [hash EXCEPT ![u] = Merge(b, hash[u])] /\ behind' = [behind EXCEPT ![u] = {}]
    BY DEF SaveInventoryToRedis
  <1>2. Merge(b, hash[u]) \in Record
    BY MergeRecord DEF TypeOK
  <1> QED
    BY <1>1, <1>2 DEF TypeOK, Domains

LEMMA PushType ==
    ASSUME TypeOK, NEW r \in Request, Push(r) PROVE requests' \in Seq(Request)
  BY DEF TypeOK, Push

LEMMA PopType ==
    ASSUME TypeOK, requests # <<>>, Pop
    PROVE  requests' \in Seq(Request) /\ Head(requests) \in Request
  BY HeadTailProperties DEF TypeOK, Pop

\* The requests by their kind.
LEMMA RequestTypes ==
    /\ \A u \in User, t \in {"LOGIN", "LOGOUT", "SAVE_REDIS"} : [type |-> t, user |-> u] \in Request
    /\ \A u \in User, t \in {"SAVE_ITEM", "DELETE_ITEM"}, i \in Item :
         [type |-> t, user |-> u, item |-> i] \in Request
    /\ \A r \in Request : r.type \in {"SAVE_ITEM", "DELETE_ITEM"} => r.item \in Item
  BY DEF Request

\* A step of the type invariant, part by part.
LEMMA TypeParts ==
    ASSUME TypeOK,
           online' = online \/ (online' \in [User -> {"off", "queued", "in", "leaving"}]),
           bag' = bag \/ \A u \in User : bag'[u] \in Bag,
           left' = left \/ \A u \in User : left'[u] \in Bag,
           hash' = hash \/ \A u \in User : hash'[u] \in Record,
           rows' = rows \/ \A u \in User : rows'[u] \in Record,
           ground' \subseteq Item,
           requests' = requests \/ requests' \in Seq(Request),
           saving' = saving \/ saving' \subseteq [user : User, items : Bag],
           crashes' = crashes \/ crashes' \in 0 .. MaxCrashes,
           saved' = saved \/ saved' \in [User -> BOOLEAN],
           inStep' = inStep \/ inStep' \in [User -> BOOLEAN],
           behind' = behind \/ behind' \in [User -> SUBSET Item]
    PROVE  TypeOK'
  BY DEF TypeOK

LEMMA ChangeOne ==
    ASSUME NEW f, DOMAIN f = User, NEW u \in User, NEW x, NEW S,
           \A v \in User : f[v] \in S, x \in S, NEW g, g = [f EXCEPT ![u] = x]
    PROVE  \A v \in User : g[v] \in S
  OBVIOUS

LEMMA SetOne ==
    ASSUME NEW f \in [User -> BOOLEAN], NEW u \in User, NEW x \in BOOLEAN
    PROVE  [f EXCEPT ![u] = x] \in [User -> BOOLEAN]
  OBVIOUS

LEMMA MoveType == ASSUME TypeOK, Domains, NEW u \in User, Move(u) PROVE TypeOK'
  <1>1. PICK b \in [DOMAIN bag[u] -> Cell] :
          /\ IsInjective(b) /\ bag' = [bag EXCEPT ![u] = b] /\ SaveInventoryToRedis(u, b)
    BY DEF Move
  <1>2. b \in Bag
    <2>1. PICK I \in SUBSET Item : bag[u] \in [I -> Cell]
      BY IsRecord, IsBag DEF TypeOK
    <2> QED
      BY <1>1, <2>1, IsRecord, IsBag
  <1>3. \A v \in User : bag'[v] \in Bag
    BY <1>1, <1>2, ChangeOne DEF TypeOK, Domains
  <1>4. (\A v \in User : hash'[v] \in Record) /\ behind' \in [User -> SUBSET Item]
    BY <1>1, <1>2, IsBag, SaveType
  <1> QED
    BY <1>3, <1>4, TypeParts DEF Move, history, TypeOK

LEMMA PickUpType == ASSUME TypeOK, Domains, NEW u \in User, PickUp(u) PROVE TypeOK'
  <1>1. PICK i \in ground \ DOMAIN bag[u], c \in Free(u) :
           LET b == Merge([j \in {i} |-> c], bag[u]) IN
           /\ bag' = [bag EXCEPT ![u] = b]
           /\ ground' = ground \ {i}
           /\ SaveInventoryToRedis(u, b)
           /\ Push([type |-> "SAVE_ITEM", user |-> u, item |-> i])
    BY DEF PickUp
  <1>2. PICK b : b = Merge([j \in {i} |-> c], bag[u])
    OBVIOUS
  <1>3. /\ i \in Item /\ c \in Cell /\ bag[u] \in Record /\ IsInjective(bag[u])
        /\ \A j \in DOMAIN bag[u] : bag[u][j] # c
    BY <1>1, IsBag DEF TypeOK, Free, Range
  <1>4. b \in Bag
    <2>1. b \in Record /\ DOMAIN b = {i} \union DOMAIN bag[u]
      <3>1. PICK f : f = [j \in {i} |-> c]
        OBVIOUS
      <3>2. f \in Record /\ DOMAIN f = {i} /\ b = Merge(f, bag[u])
        BY <1>2, <1>3, <3>1, OneRecord
      <3> QED
        BY <1>3, <3>2, MergeRecord
    <2>2. b[i] = c /\ \A j \in DOMAIN bag[u] : j # i => b[j] = bag[u][j]
      BY <1>2 DEF Merge
    <2>3. ASSUME NEW x \in DOMAIN b, NEW y \in DOMAIN b, b[x] = b[y] PROVE x = y
      BY <1>1, <1>3, <2>1, <2>2, <2>3 DEF IsInjective
    <2>4. IsInjective(b)
      BY <2>3 DEF IsInjective
    <2> QED
      BY <2>1, <2>4, IsBag
  <1>5. \A v \in User : bag'[v] \in Bag
    BY <1>1, <1>2, <1>4, ChangeOne DEF TypeOK, Domains
  <1>6. (\A v \in User : hash'[v] \in Record) /\ behind' \in [User -> SUBSET Item]
    BY <1>1, <1>2, <1>4, IsBag, SaveType
  <1>7. requests' \in Seq(Request)
    BY <1>1, <1>3, RequestTypes, PushType
  <1>8. ground' \subseteq Item
    BY <1>1 DEF TypeOK
  <1> QED
    BY <1>5, <1>6, <1>7, <1>8, TypeParts DEF PickUp, history

LEMMA DropType == ASSUME TypeOK, Domains, NEW u \in User, DropItem(u) PROVE TypeOK'
  <1>1. PICK i \in DOMAIN bag[u] :
           /\ bag' = [bag EXCEPT ![u] = Without(bag[u], i)]
           /\ ground' = ground \union {i}
           /\ SaveInventoryToRedis(u, Without(bag[u], i))
           /\ Push([type |-> "DELETE_ITEM", user |-> u, item |-> i])
    BY DEF DropItem
  <1>2. i \in Item /\ bag[u] \in Record /\ IsInjective(bag[u])
    BY IsBag, IsRecord DEF TypeOK
  <1>3. Without(bag[u], i) \in Bag
    BY <1>2, WithoutOne, IsBag
  <1>4. \A v \in User : bag'[v] \in Bag
    BY <1>1, <1>3, ChangeOne DEF TypeOK, Domains
  <1>5. (\A v \in User : hash'[v] \in Record) /\ behind' \in [User -> SUBSET Item]
    BY <1>1, <1>3, IsBag, SaveType
  <1>6. requests' \in Seq(Request)
    BY <1>1, <1>2, RequestTypes, PushType
  <1>7. ground' \subseteq Item
    BY <1>1, <1>2 DEF TypeOK
  <1> QED
    BY <1>4, <1>5, <1>6, <1>7, TypeParts DEF DropItem, history

LEMMA ConnectType == ASSUME TypeOK, Domains, NEW u \in User, Connect(u) \/ Disconnect(u) PROVE TypeOK'
  <1>1. online' \in [User -> {"off", "queued", "in", "leaving"}]
    BY DEF Connect, Disconnect, TypeOK
  <1>2. bag' = bag \/ \A v \in User : bag'[v] \in Bag
    BY EmptyBag, ChangeOne DEF Connect, Disconnect, TypeOK, Domains
  <1>3. left' = left \/ \A v \in User : left'[v] \in Bag
    BY ChangeOne DEF Connect, Disconnect, TypeOK, Domains, history
  <1>4. requests' \in Seq(Request)
    BY RequestTypes, PushType DEF Connect, Disconnect
  <1>5. UNCHANGED <<ground, hash, behind, rows, saving, crashes, saved, inStep>>
    BY DEF Connect, Disconnect, stores, history
  <1>6. ground' \subseteq Item
    BY <1>5 DEF TypeOK
  <1> QED
    BY <1>1, <1>2, <1>3, <1>4, <1>5, <1>6, TypeParts

LEMMA LoginType == ASSUME TypeOK, Domains, NEW u \in User, NEW a, DBLogin(u, a) PROVE TypeOK'
  <1>1. PICK b \in Found(u, a) :
          /\ bag' = [bag EXCEPT ![u] = b]
          /\ inStep' = [inStep EXCEPT ![u] = ~Offline /\ DOMAIN rows[u] = DOMAIN b]
          /\ SaveInventoryToRedis(u, b)
    BY DEF DBLogin
  <1>2. b \in Bag
    BY FoundBag
  <1>3. \A v \in User : bag'[v] \in Bag
    BY <1>1, <1>2, ChangeOne DEF TypeOK, Domains
  <1>4. (\A v \in User : hash'[v] \in Record) /\ behind' \in [User -> SUBSET Item]
    BY <1>1, <1>2, IsBag, SaveType
  <1>5. inStep' \in [User -> BOOLEAN]
    <2>1. inStep \in [User -> BOOLEAN]
      BY DEF TypeOK
    <2> DEFINE x == ~Offline /\ DOMAIN rows[u] = DOMAIN b
    <2>2. x \in BOOLEAN
      OBVIOUS
    <2>3. inStep' = [inStep EXCEPT ![u] = x]
      BY <1>1
    <2> HIDE DEF x
    <2>4. [inStep EXCEPT ![u] = x] \in [User -> BOOLEAN]
      BY <2>1, <2>2, SetOne
    <2> QED
      BY <2>3, <2>4
  <1>6. online' \in [User -> {"off", "queued", "in", "leaving"}]
    BY DEF DBLogin, TypeOK
  <1>7. requests' \in Seq(Request)
    BY PopType DEF DBLogin, IsNext
  <1>8. UNCHANGED <<ground, rows, saving, crashes, left, saved>> /\ ground' \subseteq Item
    BY DEF DBLogin, TypeOK
  <1> QED
    BY <1>3, <1>4, <1>5, <1>6, <1>7, <1>8, TypeParts

\* SAVE_REDIS: it is asked for, read, and written.
LEMMA LevelUpType == ASSUME TypeOK, NEW u \in User, LevelUp(u) PROVE TypeOK'
  <1>1. requests' \in Seq(Request)
    BY RequestTypes, PushType DEF LevelUp
  <1>2. /\ UNCHANGED <<online, bag, ground, hash, behind, rows, saving, crashes, left, saved, inStep>>
        /\ ground' \subseteq Item
    BY DEF LevelUp, stores, history, TypeOK
  <1> QED
    BY <1>1, <1>2, TypeParts

LEMMA RedisReadType == ASSUME TypeOK, NEW u \in User, SaveRedisRead(u) PROVE TypeOK'
  <1>1. requests' \in Seq(Request)
    BY PopType DEF SaveRedisRead, IsNext
  <1>2. saving' \subseteq [user : User, items : Bag]
    BY DEF SaveRedisRead, TypeOK
  <1>3. /\ UNCHANGED <<online, bag, ground, hash, behind, rows, crashes, left, saved, inStep>>
        /\ ground' \subseteq Item
    BY DEF SaveRedisRead, stores, history, TypeOK
  <1> QED
    BY <1>1, <1>2, <1>3, TypeParts

LEMMA RedisWriteType == ASSUME TypeOK, Domains, NEW u \in User, SaveRedisWrite(u) PROVE TypeOK'
  <1>1. PICK s \in saving :
          /\ hash' = [hash EXCEPT ![u] = Merge(s.items, hash[u])]
          /\ behind' = [behind EXCEPT ![u] =
               {i \in DOMAIN s.items \intersect DOMAIN bag[u] : s.items[i] # bag[u][i]}]
    BY DEF SaveRedisWrite
  <1>2. s.items \in Record /\ bag[u] \in Record /\ hash[u] \in Record
    BY IsBag DEF TypeOK
  <1>3. DOMAIN bag[u] \subseteq Item
    BY <1>2, IsRecord
  <1>4. \A v \in User : hash'[v] \in Record
    <2>1. Merge(s.items, hash[u]) \in Record
      BY <1>2, MergeRecord
    <2> QED
      BY <1>1, <2>1, ChangeOne DEF TypeOK, Domains
  <1>5. behind' \in [User -> SUBSET Item]
    BY <1>1, <1>3 DEF TypeOK
  <1>6. /\ UNCHANGED <<online, bag, ground, rows, requests, crashes, left, saved, inStep>>
        /\ saving' = {} /\ ground' \subseteq Item
    BY DEF SaveRedisWrite, history, TypeOK
  <1> QED
    BY <1>4, <1>5, <1>6, TypeParts

LEMMA FailsType ==
    ASSUME TypeOK, NEW u \in User, StatementFails(u)
    PROVE  inStep' \in [User -> BOOLEAN] /\ rows' = rows
  BY DEF TypeOK, StatementFails

LEMMA ItemType ==
    ASSUME TypeOK, Domains, NEW u \in User, DBSaveItem(u) \/ DBDeleteItem(u) PROVE TypeOK'
  <1>1. requests' \in Seq(Request) /\ Head(requests) \in Request
    BY PopType DEF DBSaveItem, DBDeleteItem, IsNext
  <1>2. rows' = rows \/ \A v \in User : rows'[v] \in Record
    <2>1. rows[u] \in Record /\ bag[u] \in Record /\ TheItem \in Item
      BY <1>1, RequestTypes, IsBag DEF TypeOK, DBSaveItem, DBDeleteItem, IsNext, TheItem
    <2>2. Without(rows[u], TheItem) \in Record
      BY <2>1, WithoutOne
    <2>3. ASSUME TheItem \in DOMAIN bag[u]
          PROVE  Merge([j \in {TheItem} |-> bag[u][j]], rows[u]) \in Record
      <3>1. bag[u][TheItem] \in Cell
        BY <2>1, <2>3, IsRecord
      <3>2. [j \in {TheItem} |-> bag[u][j]] = [j \in {TheItem} |-> bag[u][TheItem]]
        OBVIOUS
      <3> QED
        BY <2>1, <3>1, <3>2, OneRecord, MergeRecord
    <2>4. CASE rows' = [rows EXCEPT ![u] = Without(rows[u], TheItem)]
      BY <2>2, <2>4, ChangeOne DEF TypeOK, Domains
    <2>5. CASE /\ TheItem \in DOMAIN bag[u]
               /\ rows' = [rows EXCEPT ![u] = Merge([j \in {TheItem} |-> bag[u][j]], rows[u])]
      BY <2>3, <2>5, ChangeOne DEF TypeOK, Domains
    <2> QED
      BY <2>4, <2>5 DEF DBSaveItem, DBDeleteItem, StatementFails
  <1>3. inStep' = inStep \/ inStep' \in [User -> BOOLEAN]
    BY FailsType DEF DBSaveItem, DBDeleteItem
  <1>4. UNCHANGED <<online, bag, ground, hash, behind, saving, crashes, left, saved>> /\ ground' \subseteq Item
    BY DEF DBSaveItem, DBDeleteItem, TypeOK
  <1> QED
    BY <1>1, <1>2, <1>3, <1>4, TypeParts

LEMMA LogoutType == ASSUME TypeOK, Domains, NEW u \in User, DBLogout(u) PROVE TypeOK'
  <1>1. requests' \in Seq(Request)
    BY PopType DEF DBLogout, IsNext
  <1>2. bag[u] \in Record
    BY IsBag DEF TypeOK
  <1>3. rows' = rows \/ \A v \in User : rows'[v] \in Record
    BY <1>2, ChangeOne DEF DBLogout, DBSaveInventory, StatementFails, TypeOK, Domains
  <1>4. (\A v \in User : hash'[v] \in Record) /\ behind' \in [User -> SUBSET Item]
    BY <1>2, SaveType DEF DBLogout
  <1>5. inStep' = inStep \/ inStep' \in [User -> BOOLEAN]
    BY FailsType DEF DBLogout
  <1>6. saved' \in [User -> BOOLEAN] /\ online' \in [User -> {"off", "queued", "in", "leaving"}]
    BY DEF DBLogout, TypeOK
  <1>7. UNCHANGED <<bag, ground, saving, crashes, left>> /\ ground' \subseteq Item
    BY DEF DBLogout, TypeOK
  <1> QED
    BY <1>1, <1>3, <1>4, <1>5, <1>6, <1>7, TypeParts

LEMMA ExpireType == ASSUME TypeOK, Domains, NEW u \in User, Expire(u) PROVE TypeOK'
  <1>1. \A v \in User : hash'[v] \in Record
    BY EmptyBag, IsBag, ChangeOne DEF Expire, TypeOK, Domains
  <1>2. /\ UNCHANGED <<online, bag, ground, rows, requests, saving, crashes, left, saved, inStep>>
        /\ ground' \subseteq Item
    BY DEF Expire, history, TypeOK
  <1>3. behind' \in [User -> SUBSET Item]
    <2>1. DOMAIN bag[u] \subseteq Item
      BY IsBag, IsRecord DEF TypeOK
    <2> QED
      BY <2>1 DEF Expire, TypeOK
  <1> QED
    BY <1>1, <1>2, <1>3, TypeParts

LEMMA CrashType == ASSUME TypeOK, Crash PROVE TypeOK'
  <1>1. \A v \in User : bag'[v] \in Bag /\ left'[v] \in Bag
    BY EmptyBag DEF Crash, TypeOK
  <1>2. online' \in [User -> {"off", "queued", "in", "leaving"}] /\ saved' \in [User -> BOOLEAN]
    BY DEF Crash, TypeOK
  <1>3. requests' \in Seq(Request) /\ ground' \subseteq Item /\ saving' = {}
    BY DEF Crash
  <1>4. crashes' \in 0 .. MaxCrashes
    BY BoundAssumption DEF Crash, TypeOK
  <1>5. UNCHANGED <<hash, behind, rows, inStep>>
    BY DEF Crash, stores
  <1> QED
    BY <1>1, <1>2, <1>3, <1>4, <1>5, TypeParts

LEMMA InitTypes == ASSUME Init PROVE TypeOK
  <1>1. Empty \in Bag /\ Empty \in Record
    BY EmptyBag, IsBag
  <1> QED
    BY <1>1, BoundAssumption, ModeAssumption DEF Init, TypeOK

LEMMA NextTypes == ASSUME TypeOK, Domains, [Next]_vars PROVE TypeOK'
  <1>1. ASSUME NEW u \in User, Play(u) PROVE TypeOK'
    BY <1>1, MoveType, PickUpType, DropType, LevelUpType, ConnectType DEF Play
  <1>2. ASSUME NEW u \in User, DBWoker(u) PROVE TypeOK'
    BY <1>2, LoginType, ItemType, LogoutType, RedisReadType, RedisWriteType DEF DBWoker
  <1>3. ASSUME NEW u \in User, Expire(u) PROVE TypeOK'
    BY <1>3, ExpireType
  <1>4. CASE UNCHANGED vars
    BY <1>4 DEF vars, stores, history, TypeOK
  <1> QED
    BY <1>1, <1>2, <1>3, <1>4, CrashType DEF Next
----------------------------------------------------------------------------
(* The rows.  Of the requests about an item that wait, the last one tells   *)
(* whether the user has it; where none waits, the rows do.                  *)

About(r, u, i) == r.user = u /\ r.type \in ItemTypes /\ r.item = i

Tracks(u, i) ==
    \/ /\ \A k \in 1 .. Len(requests) : ~About(requests[k], u, i)
       /\ i \in DOMAIN rows[u] <=> i \in DOMAIN bag[u]
    \/ \E k \in 1 .. Len(requests) :
         /\ About(requests[k], u, i)
         /\ \A j \in 1 .. Len(requests) : About(requests[j], u, i) => j <= k
         /\ requests[k].type = "SAVE_ITEM" <=> i \in DOMAIN bag[u]

Follows == \A u \in User : online[u] = "in" /\ inStep[u] => \A i \in Item : Tracks(u, i)

\* A log-out is saved only when there is a connection to SQL.
Online == \A u \in User : saved[u] => ~Offline

JInv == IInv /\ TypeOK /\ Online /\ Follows

\* A step after which the rows and the inventory of user u name item i as before.
Same(u, i) == /\ i \in DOMAIN rows'[u] <=> i \in DOMAIN rows[u]
              /\ i \in DOMAIN bag'[u] <=> i \in DOMAIN bag[u]

LEMMA TracksStay ==
    ASSUME NEW u, NEW i, requests' = requests, Same(u, i), Tracks(u, i) PROVE Tracks(u, i)'
  BY DEF Tracks, Same

\* The request that a command leaves at the end of the queue.
LEMMA TracksPush ==
    ASSUME TypeOK, NEW r \in Request, Push(r), NEW u, NEW i
    PROVE  /\ ~About(r, u, i) /\ Same(u, i) /\ Tracks(u, i) => Tracks(u, i)'
           /\ About(r, u, i) /\ (r.type = "SAVE_ITEM" <=> i \in DOMAIN bag'[u]) => Tracks(u, i)'
  <1> DEFINE n == Len(requests)
  <1>1. requests \in Seq(Request) /\ n \in Nat
    BY DEF TypeOK
  <1>2. /\ Len(requests') = n + 1 /\ requests'[n + 1] = r
        /\ \A k \in 1 .. n : requests'[k] = requests[k]
    BY <1>1, AppendProperties DEF Push
  <1> HIDE DEF n
  <1>3. /\ \A k \in 1 .. (n + 1) : k \in 1 .. n \/ k = n + 1
        /\ \A k \in 1 .. n : k \in 1 .. (n + 1)
        /\ n + 1 \in 1 .. (n + 1) /\ \A k \in 1 .. (n + 1) : k <= n + 1
    BY <1>1
  <1>4. ASSUME ~About(r, u, i), Same(u, i), Tracks(u, i) PROVE Tracks(u, i)'
    <2>1. \A k \in 1 .. (n + 1) : About(requests'[k], u, i) => k \in 1 .. n /\ About(requests[k], u, i)
      BY <1>2, <1>3, <1>4
    <2>2. CASE /\ \A k \in 1 .. n : ~About(requests[k], u, i)
               /\ i \in DOMAIN rows[u] <=> i \in DOMAIN bag[u]
      <3>1. \A k \in 1 .. (n + 1) : ~About(requests'[k], u, i)
        BY <2>1, <2>2
      <3>2. i \in DOMAIN rows'[u] <=> i \in DOMAIN bag'[u]
        BY <1>4, <2>2 DEF Same
      <3> QED
        BY <1>2, <3>1, <3>2 DEF Tracks, About
    <2>3. ASSUME NEW k \in 1 .. n, About(requests[k], u, i),
                 \A j \in 1 .. n : About(requests[j], u, i) => j <= k,
                 requests[k].type = "SAVE_ITEM" <=> i \in DOMAIN bag[u]
          PROVE  Tracks(u, i)'
      <3>1. /\ k \in 1 .. (n + 1) /\ About(requests'[k], u, i)
            /\ \A j \in 1 .. (n + 1) : About(requests'[j], u, i) => j <= k
        BY <1>2, <1>3, <2>1, <2>3
      <3>2. requests'[k].type = "SAVE_ITEM" <=> i \in DOMAIN bag'[u]
        BY <1>2, <1>4, <2>3 DEF Same
      <3> QED
        BY <1>2, <3>1, <3>2 DEF Tracks, About
    <2> QED
      BY <1>4, <2>2, <2>3 DEF Tracks, n
  <1>5. ASSUME About(r, u, i), r.type = "SAVE_ITEM" <=> i \in DOMAIN bag'[u] PROVE Tracks(u, i)'
    BY <1>2, <1>3, <1>5 DEF Tracks, About
  <1> QED
    BY <1>4, <1>5

\* The request that is served.
LEMMA TracksPop ==
    ASSUME TypeOK, requests # <<>>, Pop, NEW u, NEW i, Tracks(u, i)
    PROVE  /\ ~About(requests[1], u, i) /\ Same(u, i) => Tracks(u, i)'
           /\ /\ About(requests[1], u, i)
              /\ i \in DOMAIN bag'[u] <=> i \in DOMAIN bag[u]
              /\ (requests[1].type = "SAVE_ITEM" <=> i \in DOMAIN bag[u])
                   => (i \in DOMAIN rows'[u] <=> i \in DOMAIN bag'[u])
              => Tracks(u, i)'
  <1> DEFINE n == Len(requests)
  <1>1. requests \in Seq(Request) /\ n \in Nat \ {0}
    BY DEF TypeOK
  <1>2. Len(requests') = n - 1 /\ \A k \in 1 .. (n - 1) : requests'[k] = requests[k + 1]
    BY <1>1, HeadTailProperties DEF Pop
  <1> HIDE DEF n
  <1>3. \A k \in 1 .. (n - 1) : k + 1 \in 1 .. n /\ k + 1 # 1
    BY <1>1
  <1>4. \A k \in 1 .. n : k # 1 => k - 1 \in 1 .. (n - 1) /\ requests'[k - 1] = requests[k]
    BY <1>1, <1>2
  <1>5. ASSUME NEW k \in 1 .. n, k # 1, About(requests[k], u, i),
               \A j \in 1 .. n : About(requests[j], u, i) => j <= k,
               requests[k].type = "SAVE_ITEM" <=> i \in DOMAIN bag[u],
               i \in DOMAIN bag'[u] <=> i \in DOMAIN bag[u]
        PROVE  Tracks(u, i)'
    <2>1. k - 1 \in 1 .. (n - 1) /\ requests'[k - 1] = requests[k]
      BY <1>4, <1>5
    <2>2. ASSUME NEW j \in 1 .. (n - 1), About(requests'[j], u, i) PROVE j <= k - 1
      <3>1. j + 1 \in 1 .. n /\ About(requests[j + 1], u, i)
        BY <1>2, <1>3, <2>2
      <3>2. j + 1 <= k
        BY <1>5, <3>1
      <3> QED
        BY <1>1, <3>2
    <2> QED
      BY <1>2, <1>5, <2>1, <2>2 DEF Tracks, About
  <1>6. ASSUME \A k \in 1 .. n : k # 1 => ~About(requests[k], u, i),
               i \in DOMAIN rows'[u] <=> i \in DOMAIN bag'[u]
        PROVE  Tracks(u, i)'
    <2>1. \A k \in 1 .. (n - 1) : ~About(requests'[k], u, i)
      BY <1>2, <1>3, <1>6
    <2> QED
      BY <1>2, <1>6, <2>1 DEF Tracks, About
  <1>7. \/ /\ \A k \in 1 .. n : ~About(requests[k], u, i)
           /\ i \in DOMAIN rows[u] <=> i \in DOMAIN bag[u]
        \/ \E k \in 1 .. n :
             /\ About(requests[k], u, i)
             /\ \A j \in 1 .. n : About(requests[j], u, i) => j <= k
             /\ requests[k].type = "SAVE_ITEM" <=> i \in DOMAIN bag[u]
    BY DEF Tracks, n
  <1>8. ASSUME ~About(requests[1], u, i), Same(u, i) PROVE Tracks(u, i)'
    <2>1. CASE /\ \A k \in 1 .. n : ~About(requests[k], u, i)
               /\ i \in DOMAIN rows[u] <=> i \in DOMAIN bag[u]
      <3>1. i \in DOMAIN rows'[u] <=> i \in DOMAIN bag'[u]
        BY <1>8, <2>1 DEF Same
      <3> QED
        BY <1>6, <2>1, <3>1
    <2>2. ASSUME NEW k \in 1 .. n, About(requests[k], u, i),
                 \A j \in 1 .. n : About(requests[j], u, i) => j <= k,
                 requests[k].type = "SAVE_ITEM" <=> i \in DOMAIN bag[u]
          PROVE  Tracks(u, i)'
      BY <1>5, <1>8, <2>2 DEF Same
    <2> QED
      BY <1>7, <2>1, <2>2
  <1>9. ASSUME About(requests[1], u, i),
               i \in DOMAIN bag'[u] <=> i \in DOMAIN bag[u],
               (requests[1].type = "SAVE_ITEM" <=> i \in DOMAIN bag[u])
                 => (i \in DOMAIN rows'[u] <=> i \in DOMAIN bag'[u])
        PROVE  Tracks(u, i)'
    <2>1. PICK k \in 1 .. n : /\ About(requests[k], u, i)
                              /\ \A j \in 1 .. n : About(requests[j], u, i) => j <= k
                              /\ requests[k].type = "SAVE_ITEM" <=> i \in DOMAIN bag[u]
      <3>1. 1 \in 1 .. n
        BY <1>1
      <3> QED
        BY <1>7, <1>9, <3>1
    <2>2. CASE k # 1
      BY <1>5, <1>9, <2>1, <2>2
    <2>3. CASE k = 1
      <3>1. \A j \in 1 .. n : j # 1 => ~(j <= 1)
        BY <1>1
      <3>2. \A j \in 1 .. n : j # 1 => ~About(requests[j], u, i)
        BY <2>1, <2>3, <3>1
      <3>3. i \in DOMAIN rows'[u] <=> i \in DOMAIN bag'[u]
        BY <1>9, <2>1, <2>3
      <3> QED
        BY <1>6, <3>2, <3>3
    <2> QED
      BY <2>2, <2>3
  <1> QED
    BY <1>8, <1>9
\* The other users' requests, rows and inventories are not concerned.
LEMMA FollowsOthers ==
    ASSUME Follows, NEW u \in User,
           \A v \in User \ {u} : online'[v] = online[v] /\ inStep'[v] = inStep[v],
           \A v \in User \ {u}, i \in Item : Tracks(v, i) => Tracks(v, i)',
           (online'[u] = "in" /\ inStep'[u]) => \A i \in Item : Tracks(u, i)'
    PROVE  Follows'
  BY DEF Follows

LEMMA MoveFollows == ASSUME JInv, NEW u \in User, Move(u) PROVE Follows'
  <1>1. PICK b \in [DOMAIN bag[u] -> Cell] : bag' = [bag EXCEPT ![u] = b]
    BY DEF Move
  <1>2. \A v \in User : DOMAIN bag'[v] = DOMAIN bag[v]
    BY <1>1 DEF JInv, IInv, Domains
  <1>3. UNCHANGED <<online, rows, requests, inStep>>
    BY DEF Move, history
  <1>4. \A v \in User, i \in Item : Tracks(v, i) => Tracks(v, i)'
    BY <1>2, <1>3, TracksStay DEF Same
  <1> QED
    BY <1>3, <1>4 DEF JInv, Follows

LEMMA PickUpFollows == ASSUME JInv, NEW u \in User, PickUp(u) PROVE Follows'
  <1>1. PICK i \in ground \ DOMAIN bag[u], c \in Free(u) :
           LET b == Merge([j \in {i} |-> c], bag[u]) IN
           /\ bag' = [bag EXCEPT ![u] = b]
           /\ Push([type |-> "SAVE_ITEM", user |-> u, item |-> i])
    BY DEF PickUp
  <1>2. PICK r : r = [type |-> "SAVE_ITEM", user |-> u, item |-> i]
    OBVIOUS
  <1>3. /\ r \in Request /\ Push(r) /\ r.user = u /\ r.type = "SAVE_ITEM" /\ r.item = i
        /\ TypeOK /\ Domains
    BY <1>1, <1>2, RequestTypes DEF JInv, IInv, TypeOK
  <1>4. /\ DOMAIN bag'[u] = {i} \union DOMAIN bag[u]
        /\ \A v \in User \ {u} : bag'[v] = bag[v]
    BY <1>1, <1>3 DEF Domains, Merge
  <1>5. UNCHANGED <<online, rows, inStep>>
    BY DEF PickUp, history
  <1>6. ASSUME NEW v \in User, NEW j \in Item, Tracks(v, j) PROVE Tracks(v, j)'
    <2>1. CASE v = u /\ j = i
      BY <1>3, <1>4, <2>1, TracksPush DEF About, ItemTypes
    <2>2. CASE ~(v = u /\ j = i)
      BY <1>3, <1>4, <1>5, <1>6, <2>2, TracksPush DEF About, Same
    <2> QED
      BY <2>1, <2>2
  <1> QED
    BY <1>5, <1>6 DEF JInv, Follows

LEMMA DropFollows == ASSUME JInv, NEW u \in User, DropItem(u) PROVE Follows'
  <1>1. PICK i \in DOMAIN bag[u] :
           /\ bag' = [bag EXCEPT ![u] = Without(bag[u], i)]
           /\ Push([type |-> "DELETE_ITEM", user |-> u, item |-> i])
    BY DEF DropItem
  <1>2. PICK r : r = [type |-> "DELETE_ITEM", user |-> u, item |-> i]
    OBVIOUS
  <1>3. TypeOK /\ Domains /\ bag[u] \in Record
    BY IsBag DEF JInv, IInv, TypeOK
  <1>4. i \in Item
    BY <1>1, <1>3, IsRecord
  <1>5. r \in Request /\ Push(r) /\ r.user = u /\ r.type = "DELETE_ITEM" /\ r.item = i
    BY <1>1, <1>2, <1>4, RequestTypes
  <1>6. /\ DOMAIN bag'[u] = DOMAIN bag[u] \ {i}
        /\ \A v \in User \ {u} : bag'[v] = bag[v]
    <2>1. bag'[u] = Without(bag[u], i)
      BY <1>1, <1>3 DEF Domains
    <2>2. DOMAIN bag'[u] = DOMAIN bag[u] \ {i}
      BY <1>3, <2>1, WithoutOne
    <2> QED
      BY <1>1, <1>3, <2>2 DEF Domains
  <1>7. UNCHANGED <<online, rows, inStep>>
    BY DEF DropItem, history
  <1>8. ASSUME NEW v \in User, NEW j \in Item, Tracks(v, j) PROVE Tracks(v, j)'
    <2>1. CASE v = u /\ j = i
      BY <1>3, <1>5, <1>6, <2>1, TracksPush DEF About, ItemTypes
    <2>2. CASE ~(v = u /\ j = i)
      BY <1>3, <1>5, <1>6, <1>7, <1>8, <2>2, TracksPush DEF About, Same
    <2> QED
      BY <2>1, <2>2
  <1> QED
    BY <1>7, <1>8 DEF JInv, Follows

LEMMA ConnectFollows == ASSUME JInv, NEW u \in User, Connect(u) \/ Disconnect(u) PROVE Follows'
  <1>1. TypeOK /\ Domains
    BY DEF JInv, IInv
  <1>2. PICK t \in {"LOGIN", "LOGOUT"} : Push([type |-> t, user |-> u])
    BY DEF Connect, Disconnect
  <1>3. PICK r : r = [type |-> t, user |-> u]
    OBVIOUS
  <1>4. r \in Request /\ Push(r) /\ r.user = u
    BY <1>2, <1>3 DEF Request
  <1>5. /\ UNCHANGED <<rows, inStep>> /\ online'[u] # "in"
        /\ \A v \in User \ {u} : online'[v] = online[v] /\ bag'[v] = bag[v]
    BY <1>1 DEF Connect, Disconnect, stores, history, Domains
  <1>6. \A v \in User \ {u}, i \in Item : Tracks(v, i) => Tracks(v, i)'
    BY <1>1, <1>4, <1>5, TracksPush DEF About, Same
  <1> QED
    BY <1>5, <1>6, FollowsOthers DEF JInv

LEMMA LevelUpFollows == ASSUME JInv, NEW u \in User, LevelUp(u) PROVE Follows'
  <1>1. PICK r : r = [type |-> "SAVE_REDIS", user |-> u]
    OBVIOUS
  <1>2. r \in Request /\ Push(r) /\ r.type = "SAVE_REDIS"
    BY <1>1, RequestTypes DEF LevelUp
  <1>3. UNCHANGED <<online, bag, rows, inStep>>
    BY DEF LevelUp, stores, history
  <1>4. \A v \in User, i \in Item : Tracks(v, i) => Tracks(v, i)'
    BY <1>2, <1>3, TracksPush DEF JInv, About, ItemTypes, Same
  <1> QED
    BY <1>3, <1>4 DEF JInv, Follows

LEMMA RedisFollows ==
    ASSUME JInv, NEW u \in User, SaveRedisRead(u) \/ SaveRedisWrite(u) PROVE Follows'
  <1>1. UNCHANGED <<online, bag, rows, inStep>>
    BY DEF SaveRedisRead, SaveRedisWrite, stores, history
  <1>2. \A v \in User, i \in Item : Tracks(v, i) => Tracks(v, i)'
    <2>1. CASE SaveRedisRead(u)
      <3>1. TypeOK /\ requests # <<>> /\ Pop /\ Head(requests) = requests[1]
        BY <2>1 DEF JInv, TypeOK, SaveRedisRead, IsNext
      <3>2. requests[1].type = "SAVE_REDIS"
        BY <2>1, <3>1 DEF SaveRedisRead, IsNext
      <3> QED
        BY <1>1, <3>1, <3>2, TracksPop DEF About, ItemTypes, Same
    <2>2. CASE SaveRedisWrite(u)
      BY <1>1, <2>2, TracksStay DEF SaveRedisWrite, Same
    <2> QED
      BY <2>1, <2>2
  <1> QED
    BY <1>1, <1>2 DEF JInv, Follows

\* The other users' queues when a request of user u is served.
LEMMA ServedOthers ==
    ASSUME JInv, NEW u \in User, requests # <<>>, Head(requests).user = u, Pop,
           \A v \in User \ {u} : rows'[v] = rows[v] /\ bag'[v] = bag[v]
    PROVE  \A v \in User \ {u}, i \in Item : Tracks(v, i) => Tracks(v, i)'
  <1>1. TypeOK /\ Head(requests) = requests[1]
    BY DEF JInv, TypeOK
  <1> QED
    BY <1>1, TracksPop DEF About, Same

LEMMA LoginFollows == ASSUME JInv, NEW u \in User, NEW a, DBLogin(u, a) PROVE Follows'
  <1>1. PICK b : /\ bag' = [bag EXCEPT ![u] = b]
                 /\ inStep' = [inStep EXCEPT ![u] = ~Offline /\ DOMAIN rows[u] = DOMAIN b]
    BY DEF DBLogin
  <1>2. TypeOK /\ Domains /\ IsQueue /\ Ordered /\ States
    BY DEF JInv, IInv
  <1>3. /\ bag'[u] = b /\ (inStep'[u] => DOMAIN rows[u] = DOMAIN b) /\ rows' = rows
        /\ \A v \in User \ {u} : bag'[v] = bag[v] /\ inStep'[v] = inStep[v] /\ online'[v] = online[v]
    BY <1>1, <1>2 DEF DBLogin, Domains, TypeOK
  <1>4. \A v \in User \ {u}, i \in Item : Tracks(v, i) => Tracks(v, i)'
    BY <1>3, ServedOthers DEF DBLogin, IsNext
  <1>5. \A k \in 1 .. Len(requests') : requests'[k].user # u
    <2>1. online[u] = "queued" /\ requests # <<>> /\ requests[1].user = u
      BY <1>2, NextSuits DEF DBLogin
    <2>2. \A j, k \in 1 .. Len(requests) : requests[j].user = u /\ requests[k].user = u => j = k
      BY <1>2, <2>1 DEF Ordered, InOrder
    <2>3. requests \in Seq(Request) /\ Len(requests) \in Nat \ {0}
      BY <1>2, <2>1 DEF TypeOK
    <2>4. Len(requests') = Len(requests) - 1 /\ \A k \in 1 .. (Len(requests) - 1) : requests'[k] = requests[k + 1]
      BY <2>3, HeadTailProperties DEF DBLogin, Pop
    <2>5. ASSUME NEW k \in 1 .. Len(requests'), requests'[k].user = u PROVE FALSE
      <3>1. k + 1 \in 1 .. Len(requests) /\ 1 \in 1 .. Len(requests) /\ k + 1 # 1
        BY <2>3, <2>4
      <3>2. requests[k + 1].user = u
        BY <2>4, <2>5
      <3> QED
        BY <2>1, <2>2, <3>1, <3>2
    <2> QED
      BY <2>5
  <1>6. inStep'[u] => \A i \in Item : Tracks(u, i)'
    BY <1>3, <1>5 DEF Tracks, About
  <1> QED
    BY <1>3, <1>4, <1>6, FollowsOthers DEF JInv

LEMMA ItemFollows == ASSUME JInv, NEW u \in User, DBSaveItem(u) \/ DBDeleteItem(u) PROVE Follows'
  <1>1. TypeOK /\ Domains /\ requests # <<>> /\ Head(requests) = requests[1] /\ Head(requests).user = u /\ Pop
    BY DEF JInv, IInv, TypeOK, DBSaveItem, DBDeleteItem, IsNext
  <1>2. PICK i : i = TheItem
    OBVIOUS
  <1>3. /\ UNCHANGED <<online, bag>>
        /\ \A v \in User \ {u} : rows'[v] = rows[v] /\ inStep'[v] = inStep[v]
        /\ inStep'[u] => inStep[u]
    BY <1>1 DEF DBSaveItem, DBDeleteItem, StatementFails, TypeOK, Domains
  <1>4. \A v \in User \ {u}, j \in Item : Tracks(v, j) => Tracks(v, j)'
    BY <1>1, <1>3, ServedOthers
  <1>5. ASSUME NEW j \in Item, j # i, inStep'[u], Tracks(u, j) PROVE Tracks(u, j)'
    <2>1. j \in DOMAIN rows'[u] <=> j \in DOMAIN rows[u]
      <3>1. rows[u] \in Record
        BY <1>1 DEF TypeOK
      <3>2. DOMAIN Without(rows[u], i) = DOMAIN rows[u] \ {i}
        BY <3>1, WithoutOne
      <3>3. rows' = rows \/ DOMAIN rows'[u] \in {DOMAIN rows[u] \union {i}, DOMAIN rows[u] \ {i}}
        <4>1. CASE rows' = [rows EXCEPT ![u] = Without(rows[u], i)]
          BY <1>1, <3>2, <4>1 DEF Domains
        <4>2. CASE rows' = [rows EXCEPT ![u] = Merge([k \in {i} |-> bag[u][k]], rows[u])]
          BY <1>1, <4>2 DEF Domains, Merge
        <4> QED
          BY <1>2, <4>1, <4>2 DEF DBSaveItem, DBDeleteItem, StatementFails
      <3> QED
        BY <1>5, <3>3
    <2>2. ~About(requests[1], u, j)
      BY <1>1, <1>2, <1>5 DEF About, TheItem
    <2> QED
      BY <1>1, <1>3, <1>5, <2>1, <2>2, TracksPop DEF Same
  <1>6. ASSUME i \in Item, inStep[u], inStep'[u], Tracks(u, i) PROVE Tracks(u, i)'
    <2>1. About(requests[1], u, i)
      BY <1>1, <1>2 DEF About, TheItem, DBSaveItem, DBDeleteItem, IsNext, ItemTypes
    <2>2. ~StatementFails(u)
      BY <1>1, <1>6 DEF StatementFails, TypeOK
    <2>3. ASSUME requests[1].type = "SAVE_ITEM" <=> i \in DOMAIN bag[u]
          PROVE  i \in DOMAIN rows'[u] <=> i \in DOMAIN bag'[u]
      <3>1. CASE DBSaveItem(u)
        <4>1. requests[1].type = "SAVE_ITEM"
          BY <1>1, <3>1 DEF DBSaveItem, IsNext
        <4>2. rows' = [rows EXCEPT ![u] = Merge([k \in {i} |-> bag[u][k]], rows[u])]
          BY <1>2, <2>2, <2>3, <3>1, <4>1 DEF DBSaveItem
        <4>3. i \in DOMAIN rows'[u]
          BY <1>1, <4>2 DEF Domains, Merge
        <4> QED
          BY <1>3, <2>3, <4>1, <4>3
      <3>2. CASE DBDeleteItem(u)
        <4>1. requests[1].type = "DELETE_ITEM"
          BY <1>1, <3>2 DEF DBDeleteItem, IsNext
        <4>2. rows' = [rows EXCEPT ![u] = Without(rows[u], i)]
          BY <1>2, <2>2, <3>2 DEF DBDeleteItem
        <4>3. rows[u] \in Record
          BY <1>1 DEF TypeOK
        <4>4. i \notin DOMAIN rows'[u]
          BY <1>1, <4>2, <4>3, WithoutOne DEF Domains
        <4> QED
          BY <1>3, <2>3, <4>1, <4>4
      <3> QED
        BY <3>1, <3>2
    <2> QED
      BY <1>1, <1>3, <1>6, <2>1, <2>3, TracksPop
  <1>7. (online'[u] = "in" /\ inStep'[u]) => \A j \in Item : Tracks(u, j)'
    BY <1>3, <1>5, <1>6 DEF JInv, Follows
  <1> QED
    BY <1>3, <1>4, <1>7, FollowsOthers DEF JInv

LEMMA LogoutFollows == ASSUME JInv, NEW u \in User, DBLogout(u) PROVE Follows'
  <1>1. TypeOK /\ Domains /\ requests # <<>> /\ Head(requests).user = u /\ Pop
    BY DEF JInv, IInv, DBLogout, IsNext
  <1>2. /\ online'[u] = "off" /\ UNCHANGED bag
        /\ \A v \in User \ {u} : /\ rows'[v] = rows[v] /\ inStep'[v] = inStep[v]
                                 /\ online'[v] = online[v]
    BY <1>1 DEF DBLogout, DBSaveInventory, StatementFails, TypeOK, Domains
  <1>3. \A v \in User \ {u}, i \in Item : Tracks(v, i) => Tracks(v, i)'
    BY <1>1, <1>2, ServedOthers
  <1> QED
    BY <1>2, <1>3, FollowsOthers DEF JInv

LEMMA NextFollows == ASSUME JInv, [Next]_vars PROVE Follows'
  <1>1. ASSUME NEW u \in User, Play(u) PROVE Follows'
    BY <1>1, MoveFollows, PickUpFollows, DropFollows, LevelUpFollows, ConnectFollows DEF Play
  <1>2. ASSUME NEW u \in User, DBWoker(u) PROVE Follows'
    BY <1>2, LoginFollows, ItemFollows, LogoutFollows, RedisFollows DEF DBWoker
  <1>3. CASE (\E u \in User : Expire(u)) \/ UNCHANGED vars
    <2>1. UNCHANGED <<online, bag, rows, requests, inStep>>
      BY <1>3 DEF Expire, history, vars, stores
    <2>2. \A v \in User, i \in Item : Tracks(v, i) => Tracks(v, i)'
      BY <2>1, TracksStay DEF Same
    <2> QED
      BY <2>1, <2>2 DEF JInv, Follows
  <1>4. CASE Crash
    BY <1>4 DEF Crash, Follows
  <1> QED
    BY <1>1, <1>2, <1>3, <1>4 DEF Next

LEMMA NextOnline == ASSUME JInv, [Next]_vars PROVE Online'
  <1>1. Online /\ DOMAIN saved = User
    BY DEF JInv, IInv, Domains
  <1>2. CASE \E u \in User : DBLogout(u)
    BY <1>1, <1>2 DEF DBLogout, Online
  <1>3. CASE Crash
    BY <1>1, <1>3 DEF Crash, Online
  <1>4. CASE saved' = saved
    BY <1>1, <1>4 DEF Online
  <1>5. saved' = saved \/ Crash \/ \E u \in User : DBLogout(u)
    BY DEF Next, Play, DBWoker, Move, PickUp, DropItem, LevelUp, Connect, Disconnect, DBLogin,
           DBSaveItem, DBDeleteItem, SaveRedisRead, SaveRedisWrite, Expire, vars, history
  <1> QED
    BY <1>2, <1>3, <1>4, <1>5

LEMMA InitJInv == ASSUME Init PROVE JInv
  <1>1. Online
    BY DEF Init, Online
  <1>2. Follows
    BY DEF Init, Follows
  <1> QED
    BY <1>1, <1>2, InitIInv, InitTypes DEF JInv

LEMMA NextJInv == ASSUME JInv, [Next]_vars PROVE JInv'
  BY NextIInv, NextTypes, NextOnline, NextFollows DEF JInv, IInv

LEMMA JInvariance == Spec => []JInv
  <1> QED
    BY InitJInv, NextJInv, PTL DEF Spec

----------------------------------------------------------------------------
\* In every behaviour every variable keeps its type; in particular no inventory
\* ever has two items in one place, however the fields of a hash overlap.
THEOREM TypeCorrect == Spec => []TypeOK
  <1>1. JInv => TypeOK
    BY DEF JInv
  <1> QED
    BY <1>1, JInvariance, PTL

\* Once the requests of a player have been served and none of them has failed,
\* SQL has a row for each of his items and for no other, however often he dropped
\* an item and picked it up again while requests were waiting
\* (Player.cpp:1006, 1080, 1372-1450; DB.cpp:176-181).
THEOREM RowsFollow == Spec => []SqlFollows
  <1>1. ASSUME JInv, NEW u \in User, online[u] = "in", inStep[u], ~Waits(u)
        PROVE  DOMAIN rows[u] = DOMAIN bag[u]
    <2>1. \A i \in Item : i \in DOMAIN rows[u] <=> i \in DOMAIN bag[u]
      BY <1>1 DEF JInv, Follows, Tracks, About, Waits
    <2>2. rows[u] \in Record /\ bag[u] \in Record
      BY <1>1, IsBag DEF JInv, TypeOK
    <2>3. DOMAIN rows[u] \subseteq Item /\ DOMAIN bag[u] \subseteq Item
      BY <2>2, IsRecord
    <2> QED
      BY <2>1, <2>3
  <1>2. JInv => SqlFollows
    BY <1>1 DEF SqlFollows
  <1> QED
    BY <1>2, JInvariance, PTL

\* From a record of places the inventory gets each item at its place, or another
\* item that is there.
LEMMA LoadsEach ==
    ASSUME NEW h, NEW b \in Loads(h), NEW i \in DOMAIN h
    PROVE  \/ i \in DOMAIN b /\ b[i] = h[i]
           \/ \E j \in DOMAIN b : j \in DOMAIN h /\ j # i /\ b[j] = h[i] /\ h[j] = h[i]
  <1>1. PICK I \in SUBSET DOMAIN h :
          /\ \A c \in Range(h) : \E k \in I : h[k] = c /\ \A j \in I \ {k} : h[j] # c
          /\ b = Restrict(h, I)
    BY DEF Loads
  <1>2. DOMAIN b = I /\ \A k \in I : b[k] = h[k]
    BY <1>1 DEF Restrict
  <1>3. h[i] \in Range(h)
    BY DEF Range
  <1>4. PICK k \in I : h[k] = h[i]
    BY <1>1, <1>3
  <1> QED
    BY <1>2, <1>4

\* A log-in gives back what the user held when he was last in the game: from the
\* hash, except what it names wrongly and what that has displaced, or from the rows
\* that his last saved log-out left when the hash has expired
\* (Player.cpp:346-383).
THEOREM ItemsAreResumed == Spec => ResumesItems
  <1>1. ASSUME JInv, [Next]_vars, NEW u \in User,
               online[u] = "queued", online'[u] = "in", hash[u] # Empty,
               NEW i \in DOMAIN left[u] \ Misnamed(u)
        PROVE  \/ i \in DOMAIN bag'[u] /\ bag'[u][i] = left[u][i]
               \/ \E j \in Misnamed(u) \intersect DOMAIN bag'[u] : bag'[u][j] = left[u][i]
    <2>1. TypeOK /\ Domains /\ Redis
      BY <1>1 DEF JInv, IInv
    <2>2. PICK a \in BOOLEAN : DBLogin(u, a)
      <3>1. \A v \in User : ~(Move(v) \/ PickUp(v) \/ DropItem(v) \/ LevelUp(v) \/ Connect(v) \/ Disconnect(v))
        BY <1>1, <2>1 DEF Move, PickUp, DropItem, LevelUp, Connect, Disconnect, Domains
      <3>2. \A v \in User : ~(DBSaveItem(v) \/ DBDeleteItem(v) \/ DBLogout(v) \/ Expire(v))
        BY <1>1, <2>1 DEF DBSaveItem, DBDeleteItem, DBLogout, Expire, Domains
      <3>3. \A v \in User : ~(SaveRedisRead(v) \/ SaveRedisWrite(v))
        BY <1>1 DEF SaveRedisRead, SaveRedisWrite
      <3>4. \A v \in User, a \in BOOLEAN : DBLogin(v, a) => v = u
        BY <1>1, <2>1 DEF DBLogin, Domains
      <3>5. ~Crash /\ ~UNCHANGED vars
        BY <1>1 DEF Crash, vars
      <3> QED
        BY <1>1, <3>1, <3>2, <3>3, <3>4, <3>5 DEF Next, Play, DBWoker
    <2>3. PICK b \in Found(u, a) : bag'[u] = b
      BY <2>1, <2>2 DEF DBLogin, Domains
    <2>4. b \in Loads(hash[u])
      BY <1>1, <2>3 DEF Found
    <2>5. /\ \A j \in DOMAIN left[u] : j \in DOMAIN hash[u]
          /\ \A j \in DOMAIN left[u] \ Misnamed(u) : hash[u][j] = left[u][j]
      BY <1>1, <2>1 DEF Redis, InRedis, Near, Misnamed
    <2>6. CASE i \in DOMAIN b /\ b[i] = hash[u][i]
      BY <2>3, <2>5, <2>6
    <2>7. ASSUME NEW j \in DOMAIN b, j \in DOMAIN hash[u], j # i, b[j] = hash[u][i], hash[u][j] = hash[u][i]
          PROVE  j \in Misnamed(u)
      <3>1. ASSUME j \notin Misnamed(u) PROVE FALSE
        <4>1. j \in DOMAIN left[u]
          BY <2>7, <3>1 DEF Misnamed
        <4>2. left[u][j] = left[u][i]
          BY <2>5, <2>7, <3>1, <4>1
        <4>3. IsInjective(left[u])
          BY <2>1, IsBag DEF TypeOK
        <4> QED
          BY <2>7, <4>1, <4>2, <4>3 DEF IsInjective
      <3> QED
        BY <3>1
    <2>8. \/ i \in DOMAIN b /\ b[i] = hash[u][i]
          \/ \E j \in DOMAIN b : j \in DOMAIN hash[u] /\ j # i /\ b[j] = hash[u][i] /\ hash[u][j] = hash[u][i]
      BY <2>4, <2>5, LoadsEach
    <2> QED
      BY <2>3, <2>5, <2>6, <2>7, <2>8
  <1>2. ASSUME JInv, NEW u \in User, DBLogin(u, TRUE), hash[u] = Empty, saved[u]
        PROVE  bag'[u] = left[u]
    <2>1. TypeOK /\ Domains /\ IsQueue /\ Ordered /\ States /\ Kept
      BY <1>2 DEF JInv, IInv
    <2>2. PICK b \in Found(u, TRUE) : bag'[u] = b
      BY <1>2, <2>1 DEF DBLogin, Domains
    <2>3. online[u] = "queued"
      BY <1>2, <2>1, NextSuits DEF DBLogin
    <2>4. rows[u] = left[u]
      BY <1>2, <2>1, <2>3 DEF Kept
    <2>5. b \in Loads(left[u])
      BY <1>2, <2>2, <2>4 DEF Found
    <2>6. left[u] \in Record /\ IsInjective(left[u])
      BY <2>1, IsBag DEF TypeOK
    <2> QED
      BY <2>2, <2>5, <2>6, LoadsBag
  <1>3. ASSUME JInv, [Next]_vars, NEW u \in User PROVE ResumedFromRedis(u) /\ ResumedFromSql(u)
    BY <1>1, <1>2, <1>3 DEF ResumedFromRedis, ResumedFromSql
  <1>4. JInv /\ [Next]_vars => [\A u \in User : ResumedFromRedis(u) /\ ResumedFromSql(u)]_vars
    BY <1>3
  <1> QED
    BY <1>4, JInvariance, PTL DEF Spec, ResumesItems
=============================================================================
