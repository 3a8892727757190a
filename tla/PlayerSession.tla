--------------------------- MODULE PlayerSession ---------------------------
(***************************************************************************)
(* The life of a connection in the game server: the IOCP workers accept,   *)
(* receive and tear down connections (SERVER/MainServer.cpp), the database *)
(* thread takes LOGIN, LOGOUT and SAVE_REDIS requests off one queue and    *)
(* moves the player's record between memory, Redis and SQL                 *)
(* (SERVER/DB.cpp, SERVER/Player.cpp).                                     *)
(*                                                                         *)
(* A session lives in one of MAX_USER slots of objects[]; the completion   *)
(* key of its socket is the slot number.  The handlers of one slot run on  *)
(* several threads and take no lock that spans a handler, so every handler *)
(* is a sequence of steps: a step boundary stands where another thread can *)
(* see or change what the handler has written.                             *)
(*                                                                         *)
(* The three Calm constants say what the environment does NOT do; a run    *)
(* that sets one to FALSE lets the environment do it.                      *)
(***************************************************************************)
EXTENDS Naturals, Sequences

CONSTANTS
    MaxUser,        \* MAX_USER: the number of player slots
    Worker,         \* the threads that run Worker()
    Client,         \* connections; each is opened and closed once
    User,           \* login names
    UserOf,         \* the name a connection logs in with
    None,           \* no socket, no slot, no record, no field
    NoName,         \* name_[0] == 0
    Position,       \* coordinates
    Origin,         \* the coordinates (0, 0)
    MaxLevel,       \* bound on level_
    Offline,        \* hdbc == SQL_NULL_HDBC
    SqlMayFail,     \* a statement on SQL Server may fail
    RedisMayExpire, \* the seven-day TTL of a Redis hash may run out
    MaxRestarts,    \* bound on the number of crashes of the server
    CalmLogin,      \* CS_LOGIN arrives only after the accept handler ended
    CalmClose,      \* a connection closes only while nothing works on it
    CalmReuse       \* a slot is reissued only after its teardown ended

Slot  == 1 .. MaxUser
Level == 1 .. MaxLevel
Name  == User \union {NoName}

ASSUME SlotAssumption    == MaxUser \in Nat \ {0}
ASSUME LevelAssumption   == MaxLevel \in Nat \ {0}
ASSUME RestartAssumption == MaxRestarts \in Nat
ASSUME NameAssumption    == UserOf \in [Client -> User] /\ NoName \notin User
ASSUME OriginAssumption  == Origin \in Position
ASSUME NoneAssumption    == None \notin Client \union Slot \union Position \union Level
ASSUME ModeAssumption    == {Offline, SqlMayFail, RedisMayExpire,
                             CalmLogin, CalmClose, CalmReuse} \subseteq BOOLEAN

VARIABLES
    state,      \* slot: state_
    name,       \* slot: name_
    mem,        \* slot: x_, y_ and level_, exp_
    socket,     \* slot: socket_
    inSector,   \* the slots whose id is in some g_ObjectSector
    playerList, \* g_player_list
    armed,      \* an AcceptEx is outstanding
    full,       \* an accept found no slot ("Max User")
    work,       \* worker: the handler it is in
    queue,      \* g_db_request_queue
    db,         \* the database thread: the request it is in
    sql,        \* user_term_table, by user
    redis,      \* the hashes "User:<name>", by name
    phase,      \* connection: how far its client has come
    key,        \* connection: its completion key
    recv,       \* connection: a WSARecv is outstanding
    send,       \* connection: a WSASend is outstanding
    last,       \* history: what a user last had in the game
    durable,    \* history: what a store last received for a user
    restarts    \* history: crashes so far

slotVars  == <<state, name, mem, socket, inSector, playerList>>
diskVars  == <<sql, redis>>
connVars  == <<phase, key, recv, send>>
histVars  == <<last, durable, restarts>>
vars == <<slotVars, armed, full, work, queue, db, diskVars, connVars, histVars>>

Record  == [pos : Position, lvl : Level]
Newborn == [pos |-> Origin, lvl |-> 1]          \* DBLogin's defaults
NoHash  == [pos |-> None, lvl |-> None]

ASSUME RecordAssumption == None \notin Record

AcceptPc   == {"reset", "bind", "enlist"}
ReceivePc  == {"login", "play", "rearm"}
TeardownPc == {"leave", "free", "close", "logout", "delist"}
Idle   == [pc |-> "idle", slot |-> None, conn |-> None]
DbIdle == [pc |-> "idle", slot |-> None, saved |-> FALSE]

Init ==
    /\ state = [k \in Slot |-> "FREE"]
    /\ name = [k \in Slot |-> NoName]
    /\ mem = [k \in Slot |-> Newborn]
    /\ socket = [k \in Slot |-> None]
    /\ inSector = {}
    /\ playerList = {}
    /\ armed = TRUE
    /\ full = FALSE
    /\ work = [w \in Worker |-> Idle]
    /\ queue = <<>>
    /\ db = DbIdle
    /\ sql = [n \in Name |-> None]
    /\ redis = [n \in Name |-> NoHash]
    /\ phase = [c \in Client |-> "new"]
    /\ key = [c \in Client |-> None]
    /\ recv = [c \in Client |-> FALSE]
    /\ send = [c \in Client |-> FALSE]
    /\ last = [n \in Name |-> Newborn]
    /\ durable = [n \in Name |-> Newborn]
    /\ restarts = 0

----------------------------------------------------------------------------
(* What the handlers share.                                                *)

Goto(w, pc)    == work' = [work EXCEPT ![w].pc = pc]
Finish(w)      == work' = [work EXCEPT ![w] = Idle]
Request(op, k) == queue' = Append(queue, [op |-> op, slot |-> k])

\* DoSend: WSASend on the socket the slot holds now; on INVALID_SOCKET it
\* fails at once and leaves no completion.
Sent(k) == IF socket[k] = None THEN send ELSE [send EXCEPT ![socket[k]] = TRUE]

Tell(k, news) ==
    phase' = IF socket[k] = None \/ phase[socket[k]] = "shut"
             THEN phase ELSE [phase EXCEPT ![socket[k]] = news]

\* Nothing is left of the slot's previous session.
Quiet(k) ==
    /\ \A w \in Worker : work[w].slot # k
    /\ db.slot # k
    /\ \A i \in 1 .. Len(queue) : queue[i].slot # k
    /\ \A c \in Client : key[c] = k => ~recv[c] /\ ~send[c]

Accepting(c) == \E w \in Worker : work[w].pc \in AcceptPc /\ work[w].conn = c
Serving(c)   == \E w \in Worker : work[w].conn = c

----------------------------------------------------------------------------
(* KEY_ACCEPT.                                                             *)

FreeSlot == {k \in Slot : state[k] = "FREE"}

\* GetNewClientId: the lowest free slot.
IsNewClientId(k) == k \in FreeSlot /\ \A j \in FreeSlot : k <= j

Accept(w, c) ==
    /\ work[w].pc = "idle"
    /\ armed
    /\ phase[c] = "new"
    /\ armed' = FALSE
    /\ phase' = [phase EXCEPT ![c] = "open"]
    /\ \E k \in Slot :
         /\ IsNewClientId(k)
         /\ CalmReuse => Quiet(k)
         /\ state' = [state EXCEPT ![k] = "ACTIVE"]
         /\ work' = [work EXCEPT ![w] = [pc |-> "reset", slot |-> k, conn |-> c]]
    /\ UNCHANGED <<name, mem, socket, inSector, playerList, full, queue, db,
                   diskVars, key, recv, send, histVars>>

\* "Max User": the connection stays on g_client_socket, and the AcceptEx that
\* follows fails because that socket is connected.
AcceptFull(w, c) ==
    /\ work[w].pc = "idle"
    /\ armed
    /\ phase[c] = "new"
    /\ FreeSlot = {}
    /\ armed' = FALSE
    /\ full' = TRUE
    /\ phase' = [phase EXCEPT ![c] = "open"]
    /\ UNCHANGED <<slotVars, work, queue, db, diskVars, key, recv, send, histVars>>

AcceptReset(w) ==
    /\ work[w].pc = "reset"
    /\ LET k == work[w].slot IN
         /\ mem' = [mem EXCEPT ![k].pos = Origin]
         /\ name' = [name EXCEPT ![k] = NoName]
    /\ Goto(w, "bind")
    /\ UNCHANGED <<state, socket, inSector, playerList, armed, full, queue, db,
                   diskVars, connVars, histVars>>

\* Variant: the socket is associated with the key of the first slot.
AcceptBindFirstKey(w) ==
    /\ work[w].pc = "bind"
    /\ socket' = [socket EXCEPT ![work[w].slot] = work[w].conn]
    /\ inSector' = inSector \union {work[w].slot}
    /\ key' = [key EXCEPT ![work[w].conn] = 1]
    /\ recv' = [recv EXCEPT ![work[w].conn] = TRUE]
    /\ Goto(w, "enlist")
    /\ UNCHANGED <<state, name, mem, playerList, armed, full, queue, db,
                   diskVars, phase, send, histVars>>

\* SetSocket, PutInSector, CreateIoCompletionPort, DoReceive.
AcceptBind(w) ==
    /\ work[w].pc = "bind"
    /\ LET k == work[w].slot
           c == work[w].conn IN
         /\ socket' = [socket EXCEPT ![k] = c]
         /\ inSector' = inSector \union {k}
         /\ key' = [key EXCEPT ![c] = k]
         /\ recv' = [recv EXCEPT ![c] = TRUE]
    /\ Goto(w, "enlist")
    /\ UNCHANGED <<state, name, mem, playerList, armed, full, queue, db,
                   diskVars, phase, send, histVars>>

\* Variant: the slot is not inserted in g_player_list.
AcceptUnlisted(w) ==
    /\ work[w].pc = "enlist"
    /\ armed' = TRUE
    /\ Finish(w)
    /\ UNCHANGED <<slotVars, full, queue, db, diskVars, connVars, histVars>>

\* Variant: AcceptEx is not called again.
AcceptOnce(w) ==
    /\ work[w].pc = "enlist"
    /\ playerList' = playerList \union {work[w].slot}
    /\ Finish(w)
    /\ UNCHANGED <<state, name, mem, socket, inSector, armed, full, queue, db,
                   diskVars, connVars, histVars>>

\* g_player_list.insert, a new g_client_socket, AcceptEx.
AcceptEnlist(w) ==
    /\ work[w].pc = "enlist"
    /\ playerList' = playerList \union {work[w].slot}
    /\ armed' = TRUE
    /\ Finish(w)
    /\ UNCHANGED <<state, name, mem, socket, inSector, full, queue, db,
                   diskVars, connVars, histVars>>

----------------------------------------------------------------------------
(* KEY_RECV and KEY_SEND.  A completion is taken off the port in one step, *)
(* its packet is processed in the next, and DoReceive is called in a third.*)
(* A client sends CS_LOGIN once, and plays after SC_LOGIN_INFO.            *)

Receive(w, c) ==
    /\ work[w].pc = "idle"
    /\ recv[c]
    /\ recv' = [recv EXCEPT ![c] = FALSE]
    /\ \/ /\ phase[c] = "open"
          /\ CalmLogin => ~Accepting(c)
          /\ phase' = [phase EXCEPT ![c] = "asked"]
          /\ work' = [work EXCEPT ![w] = [pc |-> "login", slot |-> key[c], conn |-> c]]
       \/ /\ phase[c] = "in"
          /\ work' = [work EXCEPT ![w] = [pc |-> "play", slot |-> key[c], conn |-> c]]
          /\ UNCHANGED phase
    /\ UNCHANGED <<slotVars, armed, full, queue, db, diskVars, key, send, histVars>>

\* CS_LOGIN.
RecvLogin(w) ==
    /\ work[w].pc = "login"
    /\ LET k == work[w].slot IN
         /\ name' = [name EXCEPT ![k] = UserOf[work[w].conn]]
         /\ Request("LOGIN", k)
    /\ Goto(w, "rearm")
    /\ UNCHANGED <<state, mem, socket, inSector, playerList, armed, full, db,
                   diskVars, connVars, histVars>>

\* Variant: a CS_LOGIN with an empty name gets no SC_LOGIN_FAIL.
RecvNoLoginSilently(w) ==
    /\ work[w].pc = "login"
    /\ Goto(w, "rearm")
    /\ UNCHANGED <<slotVars, armed, full, queue, db, diskVars, connVars, histVars>>

\* CS_LOGIN is ignored when it is too short, and then the client may send
\* another; one with an empty name is answered with SC_LOGIN_FAIL.
RecvNoLogin(w) ==
    /\ work[w].pc = "login"
    /\ \/ LET c == work[w].conn IN
            /\ phase' = IF phase[c] = "asked" THEN [phase EXCEPT ![c] = "open"] ELSE phase
            /\ UNCHANGED send
       \/ /\ Tell(work[w].slot, "denied")
          /\ send' = Sent(work[w].slot)
    /\ Goto(w, "rearm")
    /\ UNCHANGED <<slotVars, armed, full, queue, db, diskVars, key, recv, histVars>>

\* CS_MOVE: the new coordinates, PutInSector, and the move is sent back.
RecvMove(w) ==
    /\ work[w].pc = "play"
    /\ LET k == work[w].slot IN
         /\ \E p \in Position : mem' = [mem EXCEPT ![k].pos = p]
         /\ inSector' = inSector \union {k}
         /\ send' = Sent(k)
         /\ last' = [last EXCEPT ![name[k]] = mem'[k]]
    /\ Goto(w, "rearm")
    /\ UNCHANGED <<state, name, socket, playerList, armed, full, queue, db,
                   diskVars, phase, key, recv, durable, restarts>>

\* CS_ATTACK that kills and lifts exp_ over the level's requirement.
RecvLevelUp(w) ==
    /\ work[w].pc = "play"
    /\ LET k == work[w].slot IN
         /\ mem[k].lvl < MaxLevel
         /\ mem' = [mem EXCEPT ![k].lvl = @ + 1]
         /\ Request("SAVE_REDIS", k)
         /\ send' = Sent(k)
         /\ last' = [last EXCEPT ![name[k]] = mem'[k]]
    /\ Goto(w, "rearm")
    /\ UNCHANGED <<state, name, socket, inSector, playerList, armed, full, db,
                   diskVars, phase, key, recv, durable, restarts>>

\* A frame of impossible size: disconnect, and no DoReceive.
RecvBroken(w) ==
    /\ work[w].pc \in {"login", "play"}
    /\ CalmClose => db.slot # work[w].slot
    /\ Goto(w, "leave")
    /\ UNCHANGED <<slotVars, armed, full, queue, db, diskVars, connVars, histVars>>

\* DoReceive on whatever socket the slot holds by now.
Rearm(w) ==
    /\ work[w].pc = "rearm"
    /\ LET c == socket[work[w].slot] IN
         recv' = IF c = None THEN recv ELSE [recv EXCEPT ![c] = TRUE]
    /\ Finish(w)
    /\ UNCHANGED <<slotVars, armed, full, queue, db, diskVars, phase, key, send,
                   histVars>>

SendDone(c) ==
    /\ send[c]
    /\ phase[c] # "shut"
    /\ send' = [send EXCEPT ![c] = FALSE]
    /\ UNCHANGED <<slotVars, armed, full, work, queue, db, diskVars, phase, key,
                   recv, histVars>>

----------------------------------------------------------------------------
(* disconnect().  Any failed or empty completion starts it, for the slot   *)
(* the socket was associated with.                                         *)

\* Variant: a failed WSARecv is dropped without disconnect().
RecvFailDropped(w, c) ==
    /\ work[w].pc = "idle"
    /\ recv[c]
    /\ phase[c] = "shut"
    /\ recv' = [recv EXCEPT ![c] = FALSE]
    /\ UNCHANGED <<slotVars, armed, full, work, queue, db, diskVars, phase, key,
                   send, histVars>>

RecvFail(w, c) ==
    /\ work[w].pc = "idle"
    /\ recv[c]
    /\ phase[c] = "shut"
    /\ recv' = [recv EXCEPT ![c] = FALSE]
    /\ work' = [work EXCEPT ![w] = [pc |-> "leave", slot |-> key[c], conn |-> c]]
    /\ UNCHANGED <<slotVars, armed, full, queue, db, diskVars, phase, key, send,
                   histVars>>

SendFail(w, c) ==
    /\ work[w].pc = "idle"
    /\ send[c]
    /\ phase[c] = "shut"
    /\ send' = [send EXCEPT ![c] = FALSE]
    /\ work' = [work EXCEPT ![w] = [pc |-> "leave", slot |-> key[c], conn |-> c]]
    /\ UNCHANGED <<slotVars, armed, full, queue, db, diskVars, phase, key, recv,
                   histVars>>

LeaveSector(w) ==
    /\ work[w].pc = "leave"
    /\ inSector' = inSector \ {work[w].slot}
    /\ Goto(w, "free")
    /\ UNCHANGED <<state, name, mem, socket, playerList, armed, full, queue, db,
                   diskVars, connVars, histVars>>

FreeState(w) ==
    /\ work[w].pc = "free"
    /\ state' = [state EXCEPT ![work[w].slot] = "FREE"]
    /\ Goto(w, "close")
    /\ UNCHANGED <<name, mem, socket, inSector, playerList, armed, full, queue,
                   db, diskVars, connVars, histVars>>

CloseSocket(w) ==
    /\ work[w].pc = "close"
    /\ LET k == work[w].slot IN
         /\ socket' = [socket EXCEPT ![k] = None]
         /\ Tell(k, "shut")
    /\ Goto(w, "logout")
    /\ UNCHANGED <<state, name, mem, inSector, playerList, armed, full, queue, db,
                   diskVars, key, recv, send, histVars>>

\* Variant: no LOGOUT is requested.
PushNoLogout(w) ==
    /\ work[w].pc = "logout"
    /\ Goto(w, "delist")
    /\ UNCHANGED <<slotVars, armed, full, queue, db, diskVars, connVars, histVars>>

PushLogout(w) ==
    /\ work[w].pc = "logout"
    /\ Request("LOGOUT", work[w].slot)
    /\ Goto(w, "delist")
    /\ UNCHANGED <<slotVars, armed, full, db, diskVars, connVars, histVars>>

Delist(w) ==
    /\ work[w].pc = "delist"
    /\ playerList' = playerList \ {work[w].slot}
    /\ Finish(w)
    /\ UNCHANGED <<state, name, mem, socket, inSector, armed, full, queue, db,
                   diskVars, connVars, histVars>>

----------------------------------------------------------------------------
(* The database thread.                                                    *)

Take(op, pc) ==
    /\ db.pc = "idle"
    /\ queue # <<>>
    /\ Head(queue).op = op
    /\ queue' = Tail(queue)
    /\ db' = IF pc = "idle" THEN DbIdle
             ELSE [pc |-> pc, slot |-> Head(queue).slot, saved |-> FALSE]

\* DBLogin's loop over g_player_list.
AlreadyPlaying(k) == \E j \in playerList \ {k} : name[j] = name[k]

Refuse(k) ==
    /\ name' = [name EXCEPT ![k] = NoName]
    /\ send' = Sent(k)
    /\ Tell(k, "denied")

LoginDenied ==
    /\ Take("LOGIN", "idle")
    /\ AlreadyPlaying(Head(queue).slot)
    /\ Refuse(Head(queue).slot)
    /\ UNCHANGED <<state, mem, socket, inSector, playerList, armed, full, work,
                   diskVars, key, recv, histVars>>

\* LoadUserFromSQL fails; the record holds the defaults set before the call.
LoginSqlFails ==
    /\ ~Offline /\ SqlMayFail
    /\ Take("LOGIN", "idle")
    /\ LET k == Head(queue).slot IN
         /\ ~AlreadyPlaying(k)
         /\ mem' = [mem EXCEPT ![k] = Newborn]
         /\ Refuse(k)
    /\ UNCHANGED <<state, socket, inSector, playerList, armed, full, work,
                   diskVars, key, recv, histVars>>

\* DBLogin up to EnterGame: sp_UserLogin inserts the defaults for a new name.
LoginLoad ==
    /\ Take("LOGIN", "enter")
    /\ LET k == Head(queue).slot
           u == name[k]
           row == IF Offline \/ sql[u] = None THEN Newborn ELSE sql[u] IN
         /\ ~AlreadyPlaying(k)
         /\ mem' = [mem EXCEPT ![k] = row]
         /\ sql' = IF Offline THEN sql ELSE [sql EXCEPT ![u] = row]
    /\ UNCHANGED <<state, name, socket, inSector, playerList, armed, full, work,
                   redis, connVars, histVars>>

\* Variant: the defaults stand for what the hash does not have.
RestoredFromHash(r, hash) == [pos |-> IF hash.pos = None THEN Origin ELSE hash.pos,
                              lvl |-> IF hash.lvl = None THEN 1 ELSE hash.lvl]

\* Variant: the hash is not read.
RestoredFromSql(r, hash) == r

\* The fields the Redis hash has replace those read from SQL.
Restored(r, hash) == [pos |-> IF hash.pos = None THEN r.pos ELSE hash.pos,
                      lvl |-> IF hash.lvl = None THEN r.lvl ELSE hash.lvl]

\* EnterGame: hgetall, SaveToRedis, SC_LOGIN_INFO.
EnterGame ==
    /\ db.pc = "enter"
    /\ LET k == db.slot
           u == name[k]
           r == Restored(mem[k], redis[u]) IN
         /\ mem' = [mem EXCEPT ![k] = r]
         /\ redis' = [redis EXCEPT ![u] = r]
         /\ durable' = [durable EXCEPT ![u] = r]
         /\ last' = [last EXCEPT ![u] = r]
         /\ send' = Sent(k)
         /\ Tell(k, "in")
    /\ db' = [db EXCEPT !.pc = "place"]
    /\ UNCHANGED <<state, name, socket, inSector, playerList, armed, full, work,
                   queue, sql, key, recv, restarts>>

EnterSector ==
    /\ db.pc = "place"
    /\ inSector' = inSector \union {db.slot}
    /\ db' = [db EXCEPT !.pc = "ingame"]
    /\ UNCHANGED <<state, name, mem, socket, playerList, armed, full, work, queue,
                   diskVars, connVars, histVars>>

EnterIngame ==
    /\ db.pc = "ingame"
    /\ state' = [state EXCEPT ![db.slot] = "INGAME"]
    /\ db' = DbIdle
    /\ UNCHANGED <<name, mem, socket, inSector, playerList, armed, full, work,
                   queue, diskVars, connVars, histVars>>

\* DBLogout of a slot whose name is empty does nothing.
LogoutIgnored ==
    /\ Take("LOGOUT", "idle")
    /\ name[Head(queue).slot] = NoName
    /\ UNCHANGED <<slotVars, armed, full, work, diskVars, connVars, histVars>>

LogoutTake ==
    /\ Take("LOGOUT", "sql")
    /\ name[Head(queue).slot] # NoName
    /\ UNCHANGED <<slotVars, armed, full, work, diskVars, connVars, histVars>>

\* SaveUserToSQL.
LogoutSql ==
    /\ db.pc = "sql"
    /\ LET k == db.slot
           u == name[k] IN
         \/ /\ Offline
            /\ db' = [db EXCEPT !.pc = "redis", !.saved = TRUE]
            /\ UNCHANGED <<sql, durable>>
         \/ /\ ~Offline
            /\ sql' = [sql EXCEPT ![u] = mem[k]]
            /\ durable' = [durable EXCEPT ![u] = mem[k]]
            /\ db' = [db EXCEPT !.pc = "redis", !.saved = TRUE]
         \/ /\ ~Offline /\ SqlMayFail
            /\ db' = [db EXCEPT !.pc = "redis"]
            /\ UNCHANGED <<sql, durable>>
    /\ UNCHANGED <<slotVars, armed, full, work, queue, redis, connVars, last,
                   restarts>>

\* SaveToRedis under the name the slot has now.
RedisSave(k) ==
    /\ redis' = [redis EXCEPT ![name[k]] = mem[k]]
    /\ durable' = [durable EXCEPT ![name[k]] = mem[k]]

LogoutRedis ==
    /\ db.pc = "redis"
    /\ RedisSave(db.slot)
    /\ db' = [db EXCEPT !.pc = "clear"]
    /\ UNCHANGED <<slotVars, armed, full, work, queue, sql, connVars, last,
                   restarts>>

\* Variant: the thread keeps the slot of the finished request.
LogoutKeepsSlot ==
    /\ db.pc = "clear"
    /\ name' = IF db.saved THEN [name EXCEPT ![db.slot] = NoName] ELSE name
    /\ db' = [db EXCEPT !.pc = "idle"]
    /\ UNCHANGED <<state, mem, socket, inSector, playerList, armed, full, work,
                   queue, diskVars, connVars, histVars>>

LogoutClear ==
    /\ db.pc = "clear"
    /\ name' = IF db.saved THEN [name EXCEPT ![db.slot] = NoName] ELSE name
    /\ db' = DbIdle
    /\ UNCHANGED <<state, mem, socket, inSector, playerList, armed, full, work,
                   queue, diskVars, connVars, histVars>>

SaveRedis ==
    /\ Take("SAVE_REDIS", "idle")
    /\ LET k == Head(queue).slot IN
         \/ state[k] = "INGAME" /\ RedisSave(k)
         \/ state[k] # "INGAME" /\ UNCHANGED <<redis, durable>>
    /\ UNCHANGED <<slotVars, armed, full, work, sql, connVars, last, restarts>>

DbStep == \/ LoginDenied \/ LoginSqlFails \/ LoginLoad
          \/ EnterGame \/ EnterSector \/ EnterIngame
          \/ LogoutIgnored \/ LogoutTake \/ LogoutSql \/ LogoutRedis \/ LogoutClear
          \/ SaveRedis

----------------------------------------------------------------------------
(* The world around the server.                                            *)

ClientClose(c) ==
    /\ phase[c] \in {"open", "asked", "in", "denied"}
    /\ CalmClose => /\ ~Serving(c)
                    /\ phase[c] # "asked"
                    /\ db.slot = None \/ db.slot # key[c]
    /\ phase' = [phase EXCEPT ![c] = "shut"]
    /\ UNCHANGED <<slotVars, armed, full, work, queue, db, diskVars, key, recv,
                   send, histVars>>

\* The TTL of the hash runs out.
RedisExpire(n) ==
    /\ RedisMayExpire
    /\ redis[n] # NoHash
    /\ redis' = [redis EXCEPT ![n] = NoHash]
    /\ UNCHANGED <<slotVars, armed, full, work, queue, db, sql, connVars, histVars>>

\* The process dies and main() runs again: what was in memory is gone, the
\* connections are cut, and LoadAllRankingsFromSQL writes every SQL level over
\* the level of the Redis hash.
Restart ==
    /\ restarts < MaxRestarts
    /\ restarts' = restarts + 1
    /\ state' = [k \in Slot |-> "FREE"]
    /\ name' = [k \in Slot |-> NoName]
    /\ mem' = [k \in Slot |-> Newborn]
    /\ socket' = [k \in Slot |-> None]
    /\ inSector' = {}
    /\ playerList' = {}
    /\ armed' = TRUE
    /\ full' = FALSE
    /\ work' = [w \in Worker |-> Idle]
    /\ queue' = <<>>
    /\ db' = DbIdle
    /\ redis' = [n \in Name |->
                   IF Offline \/ sql[n] = None THEN redis[n]
                   ELSE [redis[n] EXCEPT !.lvl = sql[n].lvl]]
    /\ phase' = [c \in Client |-> IF phase[c] = "new" THEN "new" ELSE "shut"]
    /\ key' = [c \in Client |-> None]
    /\ recv' = [c \in Client |-> FALSE]
    /\ send' = [c \in Client |-> FALSE]
    /\ last' = durable
    /\ UNCHANGED <<sql, durable>>

----------------------------------------------------------------------------
Handler(w) == \/ AcceptReset(w) \/ AcceptBind(w) \/ AcceptEnlist(w)
              \/ RecvLogin(w) \/ RecvNoLogin(w) \/ RecvMove(w) \/ RecvLevelUp(w)
              \/ RecvBroken(w) \/ Rearm(w)
              \/ LeaveSector(w) \/ FreeState(w) \/ CloseSocket(w)
              \/ PushLogout(w) \/ Delist(w)

Completion(w, c) == \/ Accept(w, c) \/ AcceptFull(w, c) \/ Receive(w, c)
                    \/ RecvFail(w, c) \/ SendFail(w, c)

Next == \/ \E w \in Worker : Handler(w)
        \/ \E w \in Worker, c \in Client : Completion(w, c)
        \/ DbStep
        \/ \E c \in Client : SendDone(c) \/ ClientClose(c)
        \/ \E n \in Name : RedisExpire(n)
        \/ Restart

Spec == Init /\ [][Next]_vars

\* Every thread of the pool keeps running, and GetQueuedCompletionStatus hands
\* out completions in order, so a failed one is taken in the end.
Fairness == /\ \A w \in Worker : WF_vars(Handler(w))
            /\ \A c \in Client : /\ SF_vars(\E w \in Worker : RecvFail(w, c))
                                 /\ SF_vars(\E w \in Worker : SendFail(w, c))
            /\ WF_vars(DbStep)

FairSpec == Spec /\ Fairness

----------------------------------------------------------------------------
(* What must hold whatever the environment does.                           *)

BusyWorker == [pc : AcceptPc \union ReceivePc \union TeardownPc,
               slot : Slot, conn : Client]
DbRequest  == [op : {"LOGIN", "LOGOUT", "SAVE_REDIS"}, slot : Slot]
BusyDb     == [pc : {"enter", "place", "ingame", "sql", "redis", "clear"},
               slot : Slot, saved : BOOLEAN]

Handling == {w \in Worker : work[w].pc \in AcceptPc}

\* Every variable has its type; a worker or the database thread that is not
\* idle names the slot it works on, and a completion carries a slot.
TypeOK ==
    /\ state \in [Slot -> {"FREE", "ACTIVE", "INGAME"}]
    /\ name \in [Slot -> Name]
    /\ mem \in [Slot -> Record]
    /\ socket \in [Slot -> Client \union {None}]
    /\ inSector \subseteq Slot
    /\ playerList \subseteq Slot
    /\ armed \in BOOLEAN /\ full \in BOOLEAN
    /\ work \in [Worker -> {Idle} \union BusyWorker]
    /\ queue \in Seq(DbRequest)
    /\ db \in {DbIdle} \union BusyDb
    /\ sql \in [Name -> Record \union {None}]
    /\ redis \in [Name -> [pos : Position \union {None}, lvl : Level \union {None}]]
    /\ phase \in [Client -> {"new", "open", "asked", "in", "denied", "shut"}]
    /\ key \in [Client -> Slot \union {None}]
    /\ recv \in [Client -> BOOLEAN]
    /\ send \in [Client -> BOOLEAN]
    /\ last \in [Name -> Record]
    /\ durable \in [Name -> Record]
    /\ restarts \in 0 .. MaxRestarts

\* g_client_socket and g_over are shared by all workers and have no lock: what
\* protects them is that an accept is either outstanding or in the hands of
\* exactly one worker, until a connection found the server full
\* (MainServer.cpp:104-140).
AcceptChain ==
    /\ \A v, w \in Handling : v = w
    /\ armed => Handling = {} /\ ~full
    /\ full => Handling = {}
    /\ armed \/ full \/ Handling # {}

\* The completions of the socket a slot holds are delivered to that slot, and
\* no two slots hold one socket (MainServer.cpp:120-124: the key is the slot
\* number, the socket is read from a global).
SocketKeyed ==
    /\ \A k \in Slot : socket[k] # None => key[socket[k]] = k
    /\ \A c \in Client : recv[c] \/ send[c] => key[c] # None

----------------------------------------------------------------------------
(* What holds in a calm environment.                                       *)

Playing(k) == state[k] = "INGAME" /\ socket[k] # None

\* No two connected players in the game have one name, though DBLogin compares
\* names without a lock and a name is written before it is checked
\* (Player.cpp:244-255, 585).
NoDuplicateLogin ==
    \A j, k \in Slot : Playing(j) /\ Playing(k) /\ name[j] = name[k] => j = k

\* A session whose connection is gone is not forgotten: whatever the database
\* thread and the workers were doing when it was cut, a slot that still has a
\* name has a LOGOUT queued, or under way at the database thread, or a worker
\* about to ask for it.  It needs CalmReuse only, and statements that do not
\* fail (MainServer.cpp:208-254 against Player.cpp:346-402, 585).
LogoutToCome(k) ==
    \/ \E w \in Worker : work[w].slot = k /\ work[w].pc = "logout"
    \/ \E i \in 1 .. Len(queue) : queue[i].slot = k /\ queue[i].op = "LOGOUT"
    \/ db.slot = k /\ db.pc \in {"sql", "redis", "clear"}

NobodyForgotten ==
    \A k \in Slot : name[k] # NoName /\ socket[k] = None => LogoutToCome(k)

\* A slot in the game has a connection and a name, and a slot that can be
\* reissued has left the map: what EnterGame and disconnect() on two threads
\* break once CalmClose or CalmReuse is dropped (MainServer.cpp:236-253
\* against Player.cpp:397-402).  It is in no run: with both constants it says
\* nothing of that race.
NoGhost ==
    \A k \in Slot : /\ state[k] = "INGAME" => socket[k] # None /\ name[k] # NoName
                    /\ state[k] = "FREE" => k \notin inSector

Settled ==
    /\ \A c \in Client : phase[c] \in {"new", "shut"} /\ ~recv[c] /\ ~send[c]
    /\ \A w \in Worker : work[w] = Idle
    /\ queue = <<>> /\ db = DbIdle

\* Once everybody has left and the queue is empty, the stores hold what every
\* user last had: Redis always unless its hash has expired, SQL when its
\* statements succeed (Player.cpp:448-468).
SavedWhenSettled ==
    Settled =>
      \A u \in User :
        /\ redis[u] \in {NoHash, last[u]}
        /\ redis[u] = NoHash => RedisMayExpire \/ last[u] = Newborn
        /\ ~Offline /\ ~SqlMayFail =>
             sql[u] = last[u] \/ (sql[u] = None /\ last[u] = Newborn)

Entering(k) == db.pc = "enter" /\ db'.pc = "place" /\ db.slot = k

\* A user who comes back gets the record he last had, unless an older session
\* of his is still waiting to be logged out (Player.cpp:257-275, 346-386).
ResumesLast ==
    [][ \A k \in Slot : Entering(k) =>
          \/ mem'[k] = last[name[k]]
          \/ \E j \in Slot \ {k} : name[j] = name[k] ]_vars

\* A level that reached a store is not lost (Player.cpp:348).
LevelSurvives ==
    [][ \A k \in Slot : Entering(k) => mem'[k].lvl >= durable[name[k]].lvl ]_vars

\* A connection that has ended gives its slot's socket back
\* (MainServer.cpp:75-101, 208-259).
ClosedIsFreed ==
    \A c \in Client, k \in Slot :
        (phase[c] = "shut" /\ socket[k] = c) ~> (socket[k] # c)

\* A login is answered (Player.cpp:241-275, 391).
LoginIsAnswered == \A c \in Client : (phase[c] = "asked") ~> (phase[c] # "asked")
============================================================================
