------------------------------ MODULE Ranking ------------------------------
(***************************************************************************)
(* How the server comes up and what it ranks: the choice between SQL and   *)
(* off-line mode (SERVER/DB.cpp, ConnectWithDataBase), the load of every   *)
(* record into Redis, and the list of the best that a thread of its own    *)
(* refreshes every ten seconds (SERVER/RankingManager.cpp).                *)
(*                                                                         *)
(* Names are numbers, which is how they sort.  The way a level takes from  *)
(* the game to Redis and SQL is PlayerSession's subject: here it is one    *)
(* step.                                                                   *)
(***************************************************************************)
EXTENDS Naturals, Sequences, FiniteSets, Functions

CONSTANTS
    User,           \* the names
    Broken,         \* those with a control character in them
    None,
    Top,            \* TARGET_COUNT, 100
    Extra,          \* how many more are asked for, 10
    MaxLevel,       \* bound on the levels
    MaxExp,         \* bound on the experience
    MaxRestarts,    \* bound on the restarts of the server
    CONNECT_TRY     \* DB_CONNECT_TRY, 3

ASSUME NameAssumption == /\ User \subseteq Nat \ {0} /\ IsFiniteSet(User)
                         /\ Broken \subseteq User /\ None \notin Nat
ASSUME TopAssumption  == Top \in Nat \ {0} /\ Extra \in Nat
ASSUME TryAssumption  == CONNECT_TRY \in Nat \ {0}
ASSUME BoundAssumption == MaxLevel \in Nat \ {0} /\ {MaxExp, MaxRestarts} \subseteq Nat

VARIABLES
    phase,      \* main(): "redis", "sql", "load", "run", "stopped"
    sqlServer,  \* SQL Server: "up", "down", "bare" (tables are missing), "none"
    attempt,    \* ConnectWithDataBase: attempt
    hdbc,       \* "sql", or "offline" for SQL_NULL_HDBC
    rows,       \* user_term_table: level and exp of a user, or None
    toLoad,     \* the users whose row SQLFetch has yet to return
    hash,       \* Redis, User:<name>: level, 0 if there is none
    board,      \* Redis, Leaderboard: the score of a user, or None
    manager,    \* the ranking thread: "sleep", "fetch", "levels", "publish"
    start,      \* UpdateRankingCache: start_index
    names,      \* UpdateRankingCache: valid_names
    ranks,      \* UpdateRankingCache: temp_ranks
    cache,      \* cached_ranking_
    answer,     \* the last list a player has been sent
    restarts

bootVars  == <<phase, sqlServer, attempt, hdbc>>
redisVars == <<hash, board>>
rankVars  == <<manager, start, names, ranks>>
vars == <<bootVars, rows, toLoad, redisVars, rankVars, cache, answer, restarts>>

Record == [level : 1 .. MaxLevel, exp : 0 .. MaxExp]
Known  == {u \in User : rows[u] # None}

Init ==
    /\ phase = "redis"
    /\ sqlServer \in {"up", "down", "bare", "none"}
    /\ attempt = 1
    /\ hdbc = "offline"
    /\ rows \in [User -> Record \union {None}]
    /\ toLoad = {}
    /\ hash = [u \in User |-> 0]
    /\ board = [u \in User |-> None]
    /\ manager = "sleep"
    /\ start = 0
    /\ names = <<>>
    /\ ranks = <<>>
    /\ cache = <<>>
    /\ answer = <<>>
    /\ restarts = 0

----------------------------------------------------------------------------
(* main(): Redis, then SQL, then the load.                                 *)

\* Without Redis there is no server.
ConnectWithRedis ==
    /\ phase = "redis"
    /\ phase' \in {"sql", "stopped"}
    /\ UNCHANGED <<sqlServer, attempt, hdbc, rows, toLoad, redisVars, rankVars,
                   cache, answer, restarts>>

Leave(h) ==
    /\ phase' = "load"
    /\ hdbc' = h
    /\ toLoad' = IF h = "sql" THEN Known ELSE {}
    /\ UNCHANGED <<sqlServer, attempt, rows, redisVars, rankVars, cache, answer, restarts>>

\* --offline, or ODBC cannot be set up.
StayOffline == phase = "sql" /\ Leave("offline")

Connected == phase = "sql" /\ sqlServer = "up" /\ Leave("sql")

\* HasRequiredSchema: something the server uses is not there, or the query fails.
SchemaMissing == phase = "sql" /\ sqlServer \in {"up", "bare"} /\ Leave("offline")

\* No data source: waiting does not help.
NoSource == phase = "sql" /\ sqlServer = "none" /\ Leave("offline")

\* Variant: one attempt too many.
UnreachableOften ==
    /\ phase = "sql"
    /\ sqlServer = "down"
    /\ \/ /\ attempt > CONNECT_TRY
          /\ Leave("offline")
       \/ /\ attempt <= CONNECT_TRY
          /\ attempt' = attempt + 1
          /\ UNCHANGED <<phase, sqlServer, hdbc, rows, toLoad, redisVars, rankVars,
                         cache, answer, restarts>>

\* 08xxx or HYT00: not reached, or too late.
Unreachable ==
    /\ phase = "sql"
    /\ sqlServer = "down"
    /\ \/ /\ attempt = CONNECT_TRY
          /\ Leave("offline")
       \/ /\ attempt < CONNECT_TRY
          /\ attempt' = attempt + 1
          /\ UNCHANGED <<phase, sqlServer, hdbc, rows, toLoad, redisVars, rankVars,
                         cache, answer, restarts>>

\* LoadAllRankingsFromSQL, a row: ORDER BY user_exp DESC.
LoadRow ==
    /\ phase = "load"
    /\ \E u \in toLoad :
         /\ \A v \in toLoad : rows[v].exp <= rows[u].exp
         /\ board' = [board EXCEPT ![u] = rows[u].exp]
         /\ hash' = [hash EXCEPT ![u] = rows[u].level]
         /\ toLoad' = toLoad \ {u}
    /\ UNCHANGED <<bootVars, rows, rankVars, cache, answer, restarts>>

\* No more rows, or a fetch has failed.  Then the threads start.
LoadEnd ==
    /\ phase = "load"
    /\ phase' = "run"
    /\ toLoad' = {}
    /\ manager' = "fetch"
    /\ UNCHANGED <<sqlServer, attempt, hdbc, rows, redisVars, start, names, ranks,
                   cache, answer, restarts>>

----------------------------------------------------------------------------
(* UpdateRankingCache.                                                     *)

\* The set S in the order Before.
Sorted(S, Before(_, _)) ==
    [k \in 1 .. Cardinality(S) |->
       CHOOSE x \in S : Cardinality({y \in S : Before(y, x)}) = k - 1]

IsAhead(u, v) == board[u] > board[v] \/ (board[u] = board[v] /\ u > v)

\* What zrevrange counts through.
Leaderboard == Sorted({u \in User : board[u] # None}, IsAhead)

IsValidName(u) == u \notin Broken

\* What is valid of a reply, in its order.
ValidNames(arr) ==
    LET valid == {i \in DOMAIN arr : IsValidName(arr[i])} IN
      [k \in 1 .. Cardinality(valid) |->
         arr[CHOOSE i \in valid : Cardinality({j \in valid : j < i}) = k - 1]]

AtMost(s, n) == SubSeq(s, 1, IF Len(s) < n THEN Len(s) ELSE n)

From(s, k) == SubSeq(s, k, Len(s))

Wanted == Top - Len(names) + Extra

\* zrevrange, from start_index.
Reply == AtMost(From(Leaderboard, start + 1), Wanted)

\* Variant: all that is valid of a reply is taken.
FetchUncut ==
    /\ manager = "fetch"
    /\ \E arr \in {Reply} : \E got \in {names \o ValidNames(arr)} :
         /\ names' = got
         /\ start' = start + Len(arr)
         /\ manager' = IF Len(arr) = Wanted /\ Len(got) < Top THEN "fetch"
                       ELSE IF got = <<>> THEN "sleep" ELSE "levels"
    /\ UNCHANGED <<bootVars, rows, toLoad, redisVars, ranks, cache, answer, restarts>>

\* One zrevrange, and what is valid of its reply; another one if names are still
\* wanted and there may be more.
Fetch ==
    /\ manager = "fetch"
    /\ \E arr \in {Reply} : \E got \in {AtMost(names \o ValidNames(arr), Top)} :
         /\ names' = got
         /\ start' = start + Len(arr)
         /\ manager' = IF Len(arr) = Wanted /\ Len(got) < Top THEN "fetch"
                       ELSE IF got = <<>> THEN "sleep" ELSE "levels"
    /\ UNCHANGED <<bootVars, rows, toLoad, redisVars, ranks, cache, answer, restarts>>

IsBetter(a, b) == a.level > b.level \/ (a.level = b.level /\ a.name < b.name)

SortRanks(S) == Sorted(S, IsBetter)

\* The levels, in one pipeline of hget, and the sort.
Levels ==
    /\ manager = "levels"
    /\ ranks' = SortRanks({[name |-> u, level |-> hash[u]] : u \in Range(names)})
    /\ manager' = "publish"
    /\ UNCHANGED <<bootVars, rows, toLoad, redisVars, start, names, cache, answer, restarts>>

\* Variant: a list that is no longer is kept.
PublishLonger ==
    /\ manager = "publish"
    /\ cache' = IF Len(ranks) > Len(cache) THEN ranks ELSE cache
    /\ manager' = "sleep"
    /\ UNCHANGED <<bootVars, rows, toLoad, redisVars, start, names, ranks, answer, restarts>>

Publish ==
    /\ manager = "publish"
    /\ cache' = ranks
    /\ manager' = "sleep"
    /\ UNCHANGED <<bootVars, rows, toLoad, redisVars, start, names, ranks, answer, restarts>>

\* RankingManagerThread: ten seconds later.
Again ==
    /\ manager = "sleep"
    /\ phase = "run"
    /\ manager' = "fetch"
    /\ start' = 0
    /\ names' = <<>>
    /\ ranks' = <<>>
    /\ UNCHANGED <<bootVars, rows, toLoad, redisVars, cache, answer, restarts>>

----------------------------------------------------------------------------
(* The game.                                                               *)

\* CS_RANKING_REQ: SendRankingToPlayer copies the cache under its lock.
Ask ==
    /\ phase = "run"
    /\ answer' = cache
    /\ UNCHANGED <<bootVars, rows, toLoad, redisVars, rankVars, cache, restarts>>

\* A log-in without a record: sp_UserLogin makes one, and SaveToRedis.
Newcomer(u) ==
    /\ phase = "run"
    /\ rows[u] = None
    /\ hash[u] = 0
    /\ rows' = IF hdbc = "sql" THEN [rows EXCEPT ![u] = [level |-> 1, exp |-> 0]] ELSE rows
    /\ hash' = [hash EXCEPT ![u] = 1]
    /\ UNCHANGED <<bootVars, toLoad, board, rankVars, cache, answer, restarts>>

\* A level is gained and SAVE_REDIS served.
LevelUp(u) ==
    /\ phase = "run"
    /\ hash[u] \in 1 .. (MaxLevel - 1)
    /\ hash' = [hash EXCEPT ![u] = @ + 1]
    /\ UNCHANGED <<bootVars, rows, toLoad, board, rankVars, cache, answer, restarts>>

\* A log-out: sp_UserLogout.
Save(u) ==
    /\ phase = "run"
    /\ hdbc = "sql"
    /\ hash[u] # 0 /\ u \in Known
    /\ \E e \in rows[u].exp .. MaxExp : rows' = [rows EXCEPT ![u] = [level |-> hash[u], exp |-> e]]
    /\ UNCHANGED <<bootVars, toLoad, redisVars, rankVars, cache, answer, restarts>>

\* The server ends and is started again; Redis and SQL stay.
Restart ==
    /\ phase \in {"run", "stopped"}
    /\ restarts < MaxRestarts
    /\ restarts' = restarts + 1
    /\ phase' = "redis"
    /\ attempt' = 1
    /\ hdbc' = "offline"
    /\ manager' = "sleep"
    /\ start' = 0
    /\ names' = <<>> /\ ranks' = <<>> /\ cache' = <<>> /\ answer' = <<>>
    /\ UNCHANGED <<sqlServer, rows, toLoad, redisVars>>

\* SQL Server comes up, in the time the attempts take.
SqlComesUp ==
    /\ phase = "sql"
    /\ sqlServer = "down"
    /\ sqlServer' = "up"
    /\ UNCHANGED <<phase, attempt, hdbc, rows, toLoad, redisVars, rankVars,
                   cache, answer, restarts>>

Boot == \/ ConnectWithRedis \/ StayOffline \/ Connected \/ SchemaMissing \/ NoSource
        \/ Unreachable \/ LoadRow \/ LoadEnd
UpdateRankingCache == Fetch \/ Levels \/ Publish \/ Again
Game == Ask \/ \E u \in User : Newcomer(u) \/ LevelUp(u) \/ Save(u)

Next == Boot \/ UpdateRankingCache \/ Game \/ Restart \/ SqlComesUp

Spec == Init /\ [][Next]_vars

\* main() goes on, and the ranking thread never ends; players come as they like.
Fairness == WF_vars(Boot) /\ WF_vars(UpdateRankingCache)

FairSpec == Spec /\ Fairness

----------------------------------------------------------------------------
Rank == [name : User, level : 0 .. MaxLevel]

\* Every variable has its type.
TypeOK ==
    /\ phase \in {"redis", "sql", "load", "run", "stopped"}
    /\ sqlServer \in {"up", "down", "bare", "none"}
    /\ attempt \in 1 .. CONNECT_TRY
    /\ hdbc \in {"sql", "offline"}
    /\ rows \in [User -> Record \union {None}]
    /\ toLoad \subseteq Known
    /\ hash \in [User -> 0 .. MaxLevel]
    /\ board \in [User -> 0 .. MaxExp \union {None}]
    /\ manager \in {"sleep", "fetch", "levels", "publish"}
    /\ start \in 0 .. Cardinality(User)
    /\ names \in Seq(User)
    /\ {ranks, cache, answer} \subseteq Seq(Rank)
    /\ restarts \in 0 .. MaxRestarts

\* Whose names count, and who of them has fewer than Top ahead of him.
Ranked == {u \in User : board[u] # None /\ IsValidName(u)}
Best   == {u \in Ranked : Cardinality({v \in Ranked : IsAhead(v, u)}) < Top}

\* What a player is sent is the best of the board, by level and then by name;
\* names that are not valid take nobody's place, however many rounds it takes to
\* get past them (RankingManager.cpp:107-222).
AnswerIsBest ==
    phase = "run" /\ answer # <<>> =>
      /\ {rank.name : rank \in Range(answer)} = Best
      /\ Len(answer) = Cardinality(Best)
      /\ \A j, k \in 1 .. Len(answer) : j < k => IsBetter(answer[j], answer[k])

\* A level that a ranked player has gained is in the list before long
\* (MainServer.cpp:322-330): nothing the manager reads is stale for ever.
CatchesUp ==
    \A u \in User :
      (phase = "run" /\ hash[u] = MaxLevel /\ u \in Best) ~>
        \/ [name |-> u, level |-> MaxLevel] \in Range(cache)
        \/ phase # "run"

\* Who has a record is ranked before long (README.md:151).
NewcomersAreRanked == \A u \in User : u \in Known /\ phase = "run" ~> board[u] # None \/ phase # "run"
============================================================================
