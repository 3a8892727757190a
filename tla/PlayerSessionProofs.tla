------------------------ MODULE PlayerSessionProofs ------------------------
(* Proofs about PlayerSession, for every value of its constants.           *)
EXTENDS PlayerSession, TLAPS

USE DEF Slot, Level, Name, Record, Newborn, NoHash, AcceptPc, ReceivePc,
        TeardownPc

\* Goto keeps a busy worker busy, with its slot and its connection.
LEMMA GotoType ==
  ASSUME TypeOK, NEW w \in Worker, work[w].pc # "idle",
         NEW pc \in AcceptPc \union ReceivePc \union TeardownPc, Goto(w, pc)
  PROVE  /\ work' \in [Worker -> {Idle} \union BusyWorker]
         /\ work'[w] = [pc |-> pc, slot |-> work[w].slot, conn |-> work[w].conn]
         /\ \A v \in Worker \ {w} : work'[v] = work[v]
<1>1. work[w] \in BusyWorker
  BY DEF TypeOK, Idle
<1>2. [work[w] EXCEPT !.pc = pc]
        = [pc |-> pc, slot |-> work[w].slot, conn |-> work[w].conn]
  BY <1>1 DEF BusyWorker
<1>3. work' = [work EXCEPT ![w] = [work[w] EXCEPT !.pc = pc]]
  BY DEF Goto
<1>4. [pc |-> pc, slot |-> work[w].slot, conn |-> work[w].conn] \in BusyWorker
  BY <1>1 DEF BusyWorker
<1> QED
  BY <1>2, <1>3, <1>4 DEF TypeOK

\* The same, field by field.
LEMMA GotoStep ==
  ASSUME TypeOK, NEW w \in Worker, work[w].pc # "idle",
         NEW pc \in AcceptPc \union ReceivePc \union TeardownPc, Goto(w, pc)
  PROVE  /\ work'[w].pc = pc /\ work'[w].conn = work[w].conn
         /\ \A v \in Worker \ {w} : work'[v] = work[v]
<1>1. work'[w] = [pc |-> pc, slot |-> work[w].slot, conn |-> work[w].conn]
  BY GotoType
<1>2. \A v \in Worker \ {w} : work'[v] = work[v]
  BY GotoType
<1> QED
  BY <1>1, <1>2

\* A worker whose handler is under way has a slot and a connection.
LEMMA BusyType ==
  ASSUME TypeOK, NEW w \in Worker, work[w].pc # "idle"
  PROVE  work[w] \in BusyWorker /\ work[w].slot \in Slot /\ work[w].conn \in Client
  BY DEF TypeOK, Idle, BusyWorker

\* The database thread that is not idle has a slot.
LEMMA DbType ==
  ASSUME TypeOK, db.pc # "idle"
  PROVE  db \in BusyDb /\ db.slot \in Slot
  BY DEF TypeOK, DbIdle, BusyDb

\* A request appended to the queue is a request.
LEMMA RequestType ==
  ASSUME TypeOK, NEW k \in Slot, NEW op \in {"LOGIN", "LOGOUT", "SAVE_REDIS"},
         Request(op, k)
  PROVE  queue' \in Seq(DbRequest)
<1>1. [op |-> op, slot |-> k] \in DbRequest
  BY DEF DbRequest
<1> QED
  BY <1>1 DEF TypeOK, Request

\* Taking a request gives the database thread a slot, or leaves it idle.
LEMMA TakeType ==
  ASSUME TypeOK, NEW op,
         NEW pc \in {"idle", "enter", "place", "ingame", "sql", "redis", "clear"},
         Take(op, pc)
  PROVE  /\ Head(queue).slot \in Slot
         /\ queue' \in Seq(DbRequest)
         /\ db' \in {DbIdle} \union BusyDb
<1>1. Head(queue) \in DbRequest /\ Tail(queue) \in Seq(DbRequest)
  BY DEF TypeOK, Take
<1> QED
  BY <1>1 DEF Take, DbRequest, BusyDb

\* The server that has just started is well typed.
LEMMA InitType == Init => TypeOK
<1> SUFFICES ASSUME Init PROVE TypeOK
  OBVIOUS
<1> USE DEF Init
<1>1. Newborn \in [pos : Position, lvl : 1 .. MaxLevel]
  BY LevelAssumption, OriginAssumption
<1>2. work \in [Worker -> {Idle} \union BusyWorker] /\ db \in {DbIdle} \union BusyDb
  OBVIOUS
<1>3. queue \in Seq(DbRequest)
  OBVIOUS
<1>4. redis \in [Name -> [pos : Position \union {None}, lvl : Level \union {None}]]
  OBVIOUS
<1>5. /\ mem \in [Slot -> Record]
      /\ last \in [Name -> Record]
      /\ durable \in [Name -> Record]
      /\ sql \in [Name -> Record \union {None}]
  BY <1>1
<1>6. /\ state \in [Slot -> {"FREE", "ACTIVE", "INGAME"}]
      /\ name \in [Slot -> Name]
      /\ socket \in [Slot -> Client \union {None}]
      /\ inSector \subseteq Slot /\ playerList \subseteq Slot
      /\ armed \in BOOLEAN /\ full \in BOOLEAN
  OBVIOUS
<1>7. /\ phase \in [Client -> {"new", "open", "asked", "in", "denied", "shut"}]
      /\ key \in [Client -> Slot \union {None}]
      /\ recv \in [Client -> BOOLEAN] /\ send \in [Client -> BOOLEAN]
      /\ restarts \in 0 .. MaxRestarts
  BY RestartAssumption
<1> QED
  BY <1>2, <1>3, <1>4, <1>5, <1>6, <1>7 DEF TypeOK

\* A record with one field changed is a record.
LEMMA RecordType ==
  /\ \A r \in Record, p \in Position : [r EXCEPT !.pos = p] \in Record
  /\ \A r \in Record, l \in Level : [r EXCEPT !.lvl = l] \in Record
  OBVIOUS

\* The steps of a handler preserve the type invariant.
LEMMA HandlerType ==
  ASSUME TypeOK, SocketKeyed, NEW w \in Worker, Handler(w)
  PROVE  TypeOK'
<1> USE DEF slotVars, diskVars, connVars, histVars
<1>1. CASE AcceptReset(w)
  <2>1. work[w].slot \in Slot /\ mem[work[w].slot] \in Record
    BY <1>1, BusyType DEF AcceptReset, TypeOK
  <2>2. mem' \in [Slot -> Record]
    <3>1. [mem[work[w].slot] EXCEPT !.pos = Origin] \in Record
      BY <2>1, RecordType, OriginAssumption
    <3> QED
      BY <1>1, <2>1, <3>1 DEF AcceptReset, TypeOK
  <2>3. name' \in [Slot -> Name]
    BY <1>1, <2>1 DEF AcceptReset, TypeOK
  <2> QED
    BY <1>1, <2>2, <2>3, GotoType DEF AcceptReset, TypeOK
<1>2. CASE AcceptBind(w)
  BY <1>2, BusyType, GotoType DEF AcceptBind, TypeOK
<1>3. CASE AcceptEnlist(w)
  BY <1>3, BusyType DEF AcceptEnlist, Finish, TypeOK
<1>4. CASE RecvLogin(w)
  BY <1>4, BusyType, GotoType, NameAssumption, RequestType DEF RecvLogin, TypeOK
<1>5. CASE RecvMove(w)
  <2>1. work[w].slot \in Slot /\ mem[work[w].slot] \in Record /\ name[work[w].slot] \in Name
    BY <1>5, BusyType DEF RecvMove, TypeOK
  <2>2. PICK p \in Position : mem' = [mem EXCEPT ![work[w].slot].pos = p]
    BY <1>5 DEF RecvMove
  <2>3. [mem[work[w].slot] EXCEPT !.pos = p] \in Record
    BY <2>1, RecordType
  <2>4. mem' \in [Slot -> Record] /\ mem'[work[w].slot] \in Record
    BY <2>1, <2>2, <2>3 DEF TypeOK
  <2>5. last' \in [Name -> Record]
    BY <1>5, <2>1, <2>4 DEF RecvMove, TypeOK
  <2>6. send' \in [Client -> BOOLEAN]
    BY <1>5, <2>1 DEF RecvMove, TypeOK, Sent
  <2> QED
    BY <1>5, <2>1, <2>4, <2>5, <2>6, GotoType DEF RecvMove, TypeOK
<1>6. CASE RecvLevelUp(w)
  <2>1. work[w].slot \in Slot /\ mem[work[w].slot] \in Record /\ name[work[w].slot] \in Name
    BY <1>6, BusyType DEF RecvLevelUp, TypeOK
  <2>2. mem' = [mem EXCEPT ![work[w].slot].lvl = mem[work[w].slot].lvl + 1]
    BY <1>6 DEF RecvLevelUp
  <2>3. [mem[work[w].slot] EXCEPT !.lvl = mem[work[w].slot].lvl + 1] \in Record
    <3>1. mem[work[w].slot].lvl + 1 \in Level
      BY <1>6, <2>1, LevelAssumption DEF RecvLevelUp
    <3> QED
      BY <2>1, <3>1, RecordType
  <2>4. mem' \in [Slot -> Record] /\ mem'[work[w].slot] \in Record
    BY <2>1, <2>2, <2>3 DEF TypeOK
  <2>5. last' \in [Name -> Record]
    BY <1>6, <2>1, <2>4 DEF RecvLevelUp, TypeOK
  <2>6. send' \in [Client -> BOOLEAN]
    BY <1>6, <2>1 DEF RecvLevelUp, TypeOK, Sent
  <2> QED
    BY <1>6, <2>1, <2>4, <2>5, <2>6, GotoType, RequestType DEF RecvLevelUp, TypeOK
<1>7. CASE RecvBroken(w)
  BY <1>7, BusyType, GotoType DEF RecvBroken, TypeOK
<1>8. CASE Rearm(w)
  BY <1>8, BusyType DEF Rearm, Finish, TypeOK
<1>9. CASE LeaveSector(w)
  BY <1>9, BusyType, GotoType DEF LeaveSector, TypeOK
<1>10. CASE FreeState(w)
  BY <1>10, BusyType, GotoType DEF FreeState, TypeOK
<1>11. CASE CloseSocket(w)
  BY <1>11, BusyType, GotoType DEF CloseSocket, TypeOK, Tell
<1>12. CASE PushLogout(w)
  BY <1>12, BusyType, GotoType, RequestType DEF PushLogout, TypeOK
<1>13. CASE Delist(w)
  BY <1>13, BusyType DEF Delist, Finish, TypeOK
<1>14. CASE RecvNoLogin(w)
  <2>1. work[w].slot \in Slot /\ work[w].conn \in Client
    BY <1>14, BusyType DEF RecvNoLogin
  <2>2. phase' \in [Client -> {"new", "open", "asked", "in", "denied", "shut"}]
    <3>1. CASE Tell(work[w].slot, "denied")
      BY <2>1, <3>1 DEF Tell, TypeOK
    <3>2. CASE phase' = [phase EXCEPT ![work[w].conn] = "open"] \/ phase' = phase
      BY <2>1, <3>2 DEF TypeOK
    <3>3. QED BY <1>14, <3>1, <3>2 DEF RecvNoLogin
  <2>3. send' \in [Client -> BOOLEAN]
    BY <1>14, <2>1 DEF RecvNoLogin, Sent, TypeOK
  <2> QED
    BY <1>14, <2>1, <2>2, <2>3, GotoType DEF RecvNoLogin, TypeOK
<1> QED
  BY <1>1, <1>2, <1>3, <1>4, <1>5, <1>6, <1>7, <1>8, <1>9, <1>10, <1>11, <1>12, <1>13, <1>14 DEF Handler

\* Taking a completion off the port preserves the type invariant.
LEMMA CompletionType ==
  ASSUME TypeOK, SocketKeyed, NEW w \in Worker, NEW c \in Client, Completion(w, c)
  PROVE  TypeOK'
<1> USE DEF slotVars, diskVars, connVars, histVars
<1> DEFINE Taken(pc, k) == [pc |-> pc, slot |-> k, conn |-> c]
<1>1. \A pc \in AcceptPc \union ReceivePc \union TeardownPc, k \in Slot :
        Taken(pc, k) \in BusyWorker
  BY DEF BusyWorker
<1>2. recv[c] \/ send[c] => key[c] \in Slot
  BY DEF SocketKeyed, TypeOK
<1>3. CASE Accept(w, c)
  <2>1. PICK k \in Slot :
          /\ state' = [state EXCEPT ![k] = "ACTIVE"]
          /\ work' = [work EXCEPT ![w] = Taken("reset", k)]
    BY <1>3 DEF Accept
  <2>2. work' \in [Worker -> {Idle} \union BusyWorker]
    BY <1>1, <2>1 DEF TypeOK
  <2> QED
    BY <1>3, <2>1, <2>2 DEF Accept, TypeOK
<1>4. CASE AcceptFull(w, c)
  BY <1>4 DEF AcceptFull, TypeOK
<1>5. CASE Receive(w, c)
  <2>1. work' \in [Worker -> {Idle} \union BusyWorker]
    <3>1. \/ work' = [work EXCEPT ![w] = Taken("login", key[c])]
          \/ work' = [work EXCEPT ![w] = Taken("play", key[c])]
      BY <1>5 DEF Receive
    <3>2. key[c] \in Slot
      BY <1>2, <1>5 DEF Receive
    <3>3. Taken("login", key[c]) \in BusyWorker /\ Taken("play", key[c]) \in BusyWorker
      BY <1>1, <3>2
    <3> HIDE DEF Taken
    <3> QED
      BY <3>1, <3>3 DEF TypeOK
  <2> QED
    BY <1>5, <2>1 DEF Receive, TypeOK
<1>6. CASE RecvFail(w, c)
  <2>1. work' \in [Worker -> {Idle} \union BusyWorker]
    BY <1>1, <1>2, <1>6 DEF RecvFail, TypeOK
  <2> QED
    BY <1>6, <2>1 DEF RecvFail, TypeOK
<1>7. CASE SendFail(w, c)
  <2>1. work' \in [Worker -> {Idle} \union BusyWorker]
    BY <1>1, <1>2, <1>7 DEF SendFail, TypeOK
  <2> QED
    BY <1>7, <2>1 DEF SendFail, TypeOK
<1> QED
  BY <1>3, <1>4, <1>5, <1>6, <1>7 DEF Completion

\* Refusing a login preserves the types of what it changes.
LEMMA RefuseType ==
  ASSUME TypeOK, NEW k \in Slot, Refuse(k)
  PROVE  /\ name' \in [Slot -> Name]
         /\ send' \in [Client -> BOOLEAN]
         /\ phase' \in [Client -> {"new", "open", "asked", "in", "denied", "shut"}]
  BY DEF Refuse, Sent, Tell, TypeOK

\* A save to Redis preserves the types of what it changes.
LEMMA RedisSaveType ==
  ASSUME TypeOK, NEW k \in Slot, RedisSave(k)
  PROVE  /\ redis' \in [Name -> [pos : Position \union {None}, lvl : Level \union {None}]]
         /\ durable' \in [Name -> Record]
<1>1. name[k] \in Name /\ mem[k] \in Record
  BY DEF TypeOK
<1>2. mem[k] \in [pos : Position \union {None}, lvl : Level \union {None}]
  BY <1>1
<1> QED
  BY <1>1, <1>2 DEF RedisSave, TypeOK

\* The steps of the database thread preserve the type invariant.
LEMMA DbStepType ==
  ASSUME TypeOK, DbStep
  PROVE  TypeOK'
<1> USE DEF slotVars, diskVars, connVars, histVars
<1>0. Newborn \in Record
  BY LevelAssumption, OriginAssumption
<1>1. CASE LoginDenied
  BY <1>1, TakeType, RefuseType DEF LoginDenied, TypeOK
<1>2. CASE LoginSqlFails
  BY <1>0, <1>2, TakeType, RefuseType DEF LoginSqlFails, TypeOK
<1>3. CASE LoginLoad
  <2> DEFINE k == Head(queue).slot
             row == IF Offline \/ sql[name[k]] = None THEN Newborn ELSE sql[name[k]]
  <2>1. k \in Slot /\ name[k] \in Name
    BY <1>3, TakeType DEF LoginLoad, TypeOK
  <2>2. row \in Record
    BY <1>0, <2>1 DEF TypeOK
  <2>3. mem' = [mem EXCEPT ![k] = row]
        /\ (sql' = sql \/ sql' = [sql EXCEPT ![name[k]] = row])
    BY <1>3 DEF LoginLoad
  <2>4. mem' \in [Slot -> Record] /\ sql' \in [Name -> Record \union {None}]
    <3> HIDE DEF k, row
    <3> QED
      BY <2>1, <2>2, <2>3 DEF TypeOK
  <2> QED
    BY <1>3, <2>4, TakeType DEF LoginLoad, TypeOK
<1>4. CASE EnterGame
  <2> DEFINE k == db.slot
             r == Restored(mem[k], redis[name[k]])
  <2>1. k \in Slot /\ name[k] \in Name /\ db \in BusyDb
    BY <1>4, DbType DEF EnterGame, TypeOK
  <2>2. r \in Record
    BY <2>1 DEF Restored, TypeOK
  <2>3. /\ mem' = [mem EXCEPT ![k] = r]
        /\ redis' = [redis EXCEPT ![name[k]] = r]
        /\ durable' = [durable EXCEPT ![name[k]] = r]
        /\ last' = [last EXCEPT ![name[k]] = r]
    BY <1>4 DEF EnterGame
  <2>4. /\ mem' \in [Slot -> Record]
        /\ last' \in [Name -> Record] /\ durable' \in [Name -> Record]
    BY <2>1, <2>2, <2>3 DEF TypeOK
  <2>5. redis' \in [Name -> [pos : Position \union {None}, lvl : Level \union {None}]]
    <3> HIDE DEF r
    <3>1. r \in [pos : Position \union {None}, lvl : Level \union {None}]
      BY <2>2
    <3> QED
      BY <2>1, <2>3, <3>1 DEF TypeOK
  <2>6. /\ send' \in [Client -> BOOLEAN]
        /\ phase' \in [Client -> {"new", "open", "asked", "in", "denied", "shut"}]
    BY <1>4, <2>1 DEF EnterGame, Sent, Tell, TypeOK
  <2>7. db' \in {DbIdle} \union BusyDb
    BY <1>4, <2>1 DEF EnterGame, BusyDb
  <2> QED
    BY <1>4, <2>4, <2>5, <2>6, <2>7 DEF EnterGame, TypeOK
<1>5. CASE EnterSector
  <2>1. db.slot \in Slot /\ db' \in BusyDb
    BY <1>5, DbType DEF EnterSector, BusyDb
  <2> QED
    BY <1>5, <2>1 DEF EnterSector, TypeOK
<1>6. CASE EnterIngame
  BY <1>6, DbType DEF EnterIngame, TypeOK
<1>7. CASE LogoutIgnored
  BY <1>7, TakeType DEF LogoutIgnored, TypeOK
<1>8. CASE LogoutTake
  BY <1>8, TakeType DEF LogoutTake, TypeOK
<1>9. CASE LogoutSql
  <2>1. db.slot \in Slot /\ name[db.slot] \in Name /\ mem[db.slot] \in Record
    BY <1>9, DbType DEF LogoutSql, TypeOK
  <2>2. db' \in BusyDb
    BY <1>9, DbType DEF LogoutSql, BusyDb
  <2>3. sql' \in [Name -> Record \union {None}] /\ durable' \in [Name -> Record]
    BY <1>9, <2>1 DEF LogoutSql, TypeOK
  <2> QED
    BY <1>9, <2>2, <2>3 DEF LogoutSql, TypeOK
<1>10. CASE LogoutRedis
  <2>1. db.slot \in Slot
    BY <1>10, DbType DEF LogoutRedis
  <2>2. db' \in BusyDb
    BY <1>10, DbType DEF LogoutRedis, BusyDb
  <2> QED
    BY <1>10, <2>1, <2>2, RedisSaveType DEF LogoutRedis, TypeOK
<1>11. CASE LogoutClear
  BY <1>11, DbType DEF LogoutClear, TypeOK
<1>12. CASE SaveRedis
  <2>1. Head(queue).slot \in Slot
    BY <1>12, TakeType DEF SaveRedis
  <2>2. /\ redis' \in [Name -> [pos : Position \union {None}, lvl : Level \union {None}]]
        /\ durable' \in [Name -> Record]
    BY <1>12, <2>1, RedisSaveType DEF SaveRedis, TypeOK
  <2> QED
    BY <1>12, <2>2, TakeType DEF SaveRedis, TypeOK
<1> QED
  BY <1>1, <1>2, <1>3, <1>4, <1>5, <1>6, <1>7, <1>8, <1>9, <1>10, <1>11, <1>12
  DEF DbStep

\* Taken together, every step preserves the type invariant.
LEMMA NextType == TypeOK /\ SocketKeyed /\ [Next]_vars => TypeOK'
<1> SUFFICES ASSUME TypeOK, SocketKeyed, [Next]_vars PROVE TypeOK'
  OBVIOUS
<1> USE DEF slotVars, diskVars, connVars, histVars
<1>1. CASE \E w \in Worker : Handler(w)
  BY <1>1, HandlerType
<1>2. CASE \E w \in Worker, c \in Client : Completion(w, c)
  BY <1>2, CompletionType
<1>3. CASE DbStep
  BY <1>3, DbStepType
<1>4. CASE \E c \in Client : SendDone(c) \/ ClientClose(c)
  BY <1>4 DEF SendDone, ClientClose, TypeOK
<1>5. CASE \E n \in Name : RedisExpire(n)
  <2>1. redis' \in [Name -> [pos : Position \union {None}, lvl : Level \union {None}]]
    BY <1>5 DEF RedisExpire, TypeOK
  <2> QED
    BY <1>5, <2>1 DEF RedisExpire, TypeOK
<1>6. CASE Restart
  <2>1. Newborn \in Record
    BY LevelAssumption, OriginAssumption
  <2>2. redis' \in [Name -> [pos : Position \union {None}, lvl : Level \union {None}]]
    <3>1. \A n \in Name : sql[n] # None =>
            [redis[n] EXCEPT !.lvl = sql[n].lvl]
              \in [pos : Position \union {None}, lvl : Level \union {None}]
      <4> SUFFICES ASSUME NEW n \in Name, sql[n] # None
                   PROVE  [redis[n] EXCEPT !.lvl = sql[n].lvl]
                            \in [pos : Position \union {None}, lvl : Level \union {None}]
        OBVIOUS
      <4>1. sql[n] \in Record /\ sql[n].lvl \in Level
        BY DEF TypeOK
      <4>2. redis[n] \in [pos : Position \union {None}, lvl : Level \union {None}]
        BY DEF TypeOK
      <4> QED
        BY <4>1, <4>2
    <3> QED
      BY <1>6, <3>1 DEF Restart, TypeOK
  <2>3. /\ work' \in [Worker -> {Idle} \union BusyWorker]
        /\ queue' \in Seq(DbRequest)
        /\ db' \in {DbIdle} \union BusyDb
    BY <1>6 DEF Restart
  <2>4. mem' \in [Slot -> Record]
    BY <1>6, <2>1 DEF Restart
  <2>5. restarts' \in 0 .. MaxRestarts
    BY <1>6, RestartAssumption DEF Restart, TypeOK
  <2> QED
    BY <1>6, <2>2, <2>3, <2>4, <2>5 DEF Restart, TypeOK
<1>7. CASE UNCHANGED vars
  BY <1>7 DEF vars, TypeOK
<1> QED
  BY <1>1, <1>2, <1>3, <1>4, <1>5, <1>6, <1>7 DEF Next

----------------------------------------------------------------------------
(* The accept chain and the keys of the sockets.  Neither is inductive      *)
(* alone: that a second slot does not get a socket follows from there being *)
(* one accept handler and from its connection being held by no slot yet.    *)

Unbound ==
    /\ \A c \in Client, k \in Slot : phase[c] = "new" => socket[k] # c
    /\ \A w \in Worker, k \in Slot :
         work[w].pc \in {"reset", "bind"} =>
           socket[k] # work[w].conn /\ phase[work[w].conn] # "new"

IInv == TypeOK /\ AcceptChain /\ SocketKeyed /\ Unbound

\* The invariant holds when the server has started.
LEMMA InitInv == Init => IInv
<1> SUFFICES ASSUME Init PROVE IInv
  OBVIOUS
<1>1. TypeOK
  BY InitType
<1>2. AcceptChain
  BY DEF Init, Idle, AcceptChain, Handling
<1>3. SocketKeyed /\ Unbound
  BY NoneAssumption DEF Init, Idle, SocketKeyed, Unbound
<1> QED
  BY <1>1, <1>2, <1>3 DEF IInv

\* What a step may do without touching the accept chain or the keys.
FrameStep ==
    /\ armed' = armed /\ full' = full /\ key' = key
    /\ Handling' = Handling
    /\ \A v \in Worker : work'[v].pc \in {"reset", "bind"} => work'[v] = work[v]
    /\ \A k \in Slot : socket'[k] \in {socket[k], None}
    /\ \A c \in Client : phase'[c] = "new" => phase[c] = "new"
    /\ \A c \in Client : recv'[c] \/ send'[c] => key[c] # None

\* Such a step keeps the accept chain and the keys as they should be.
LEMMA FrameInv ==
  ASSUME IInv, FrameStep
  PROVE  (AcceptChain /\ SocketKeyed /\ Unbound)'
<1> USE DEF IInv
<1>1. AcceptChain'
  BY DEF FrameStep, AcceptChain
<1>2. SocketKeyed'
  BY DEF FrameStep, SocketKeyed
<1>3. Unbound'
  <2>1. \A v \in Worker : work'[v].pc \in {"reset", "bind"} => work'[v].conn \in Client
    BY BusyType DEF FrameStep
  <2> QED
    BY <2>1, NoneAssumption DEF FrameStep, Unbound
<1> QED
  BY <1>1, <1>2, <1>3

\* A worker that is outside an accept before and after its step leaves the
\* accept handlers as they were.
LEMMA OutsideAccept ==
  ASSUME IInv, NEW w \in Worker, work[w].pc \notin AcceptPc,
         work'[w].pc \notin AcceptPc, \A v \in Worker \ {w} : work'[v] = work[v]
  PROVE  /\ Handling' = Handling
         /\ \A v \in Worker : work'[v].pc \in {"reset", "bind"} => work'[v] = work[v]
  BY DEF Handling

\* The worker in Accept is the only one with an accept in hand afterwards.
LEMMA AcceptInv ==
  ASSUME IInv, NEW w \in Worker, NEW c \in Client, Accept(w, c)
  PROVE  (AcceptChain /\ SocketKeyed /\ Unbound)'
<1> USE DEF IInv
<1>1. PICK k \in Slot : work' = [work EXCEPT ![w] = [pc |-> "reset", slot |-> k, conn |-> c]]
  BY DEF Accept
<1>2. /\ work'[w].pc = "reset" /\ work'[w].conn = c
      /\ \A v \in Worker \ {w} : work'[v] = work[v]
  BY <1>1 DEF TypeOK
<1>3. armed /\ ~full /\ ~armed' /\ ~full' /\ Handling = {} /\ phase[c] = "new"
  BY DEF Accept, AcceptChain
<1>4. Handling' = {w}
  BY <1>2, <1>3 DEF Handling
<1>5. AcceptChain'
  BY <1>3, <1>4 DEF AcceptChain
<1>6. SocketKeyed'
  BY DEF Accept, SocketKeyed
<1>7. Unbound'
  <2>1. socket' = socket /\ phase' = [phase EXCEPT ![c] = "open"]
    BY DEF Accept
  <2>2. \A v \in Worker \ {w} : work'[v].pc \notin {"reset", "bind"}
    BY <1>2, <1>3 DEF Handling
  <2>3. \A k2 \in Slot : socket[k2] # c
    BY <1>3 DEF Unbound
  <2> QED
    BY <1>2, <2>1, <2>2, <2>3 DEF Unbound, TypeOK
<1> QED
  BY <1>5, <1>6, <1>7

\* The other completions touch neither the sockets nor the accept chain.
LEMMA CompletionInv ==
  ASSUME IInv, NEW w \in Worker, NEW c \in Client, Completion(w, c)
  PROVE  (AcceptChain /\ SocketKeyed /\ Unbound)'
<1> USE DEF IInv, slotVars
<1>1. CASE Accept(w, c)
  BY <1>1, AcceptInv
<1>2. CASE AcceptFull(w, c)
  <2>1. work' = work /\ socket' = socket /\ key' = key /\ recv' = recv /\ send' = send
    BY <1>2 DEF AcceptFull, connVars
  <2>2. phase' = [phase EXCEPT ![c] = "open"]
    BY <1>2 DEF AcceptFull
  <2>3. AcceptChain'
    BY <1>2, <2>1 DEF AcceptFull, AcceptChain, Handling
  <2>4. SocketKeyed' /\ Unbound'
    BY <2>1, <2>2 DEF SocketKeyed, Unbound, TypeOK
  <2> QED
    BY <2>3, <2>4
<1>3. CASE Receive(w, c) \/ RecvFail(w, c) \/ SendFail(w, c)
  <2>1. /\ armed' = armed /\ full' = full /\ socket' = socket /\ key' = key
        /\ work[w].pc = "idle"
    BY <1>3 DEF Receive, RecvFail, SendFail
  <2>2. \E pc \in {"login", "play", "leave"} :
          work' = [work EXCEPT ![w] = [pc |-> pc, slot |-> key[c], conn |-> c]]
    BY <1>3 DEF Receive, RecvFail, SendFail
  <2>3. /\ work'[w].pc \notin AcceptPc
        /\ \A v \in Worker \ {w} : work'[v] = work[v]
    BY <2>2 DEF TypeOK
  <2>4. \A d \in Client : (recv'[d] => recv[d]) /\ (send'[d] => send[d])
    BY <1>3 DEF Receive, RecvFail, SendFail, TypeOK
  <2>5. \A d \in Client : phase'[d] = "new" => phase[d] = "new"
    BY <1>3 DEF Receive, RecvFail, SendFail, TypeOK
  <2>6. FrameStep
    BY <2>1, <2>3, <2>4, <2>5, OutsideAccept DEF FrameStep, SocketKeyed, TypeOK
  <2> QED
    BY <2>6, FrameInv
<1> QED
  BY <1>1, <1>2, <1>3 DEF Completion

\* DoSend and DoReceive on the socket of a slot arm a connection that has a key.
LEMMA SocketHasKey ==
  ASSUME IInv, NEW k \in Slot, socket[k] # None
  PROVE  socket[k] \in Client /\ key[socket[k]] # None
  BY NoneAssumption DEF IInv, TypeOK, SocketKeyed

\* A DoSend keeps every connection with an outstanding transfer keyed.
LEMMA SentInv ==
  ASSUME IInv, NEW k \in Slot, send' = Sent(k)
  PROVE  \A c \in Client : send'[c] => key[c] # None
  BY SocketHasKey DEF IInv, TypeOK, SocketKeyed, Sent

\* So does a reply to a login.
LEMMA TellInv ==
  ASSUME IInv, NEW k \in Slot, NEW news \in {"in", "denied", "shut"}, Tell(k, news)
  PROVE  \A c \in Client : phase'[c] = "new" => phase[c] = "new"
  BY SocketHasKey DEF IInv, TypeOK, Tell

\* The binding of the accepted socket: no other slot has it.
LEMMA BindInv ==
  ASSUME IInv, NEW w \in Worker, AcceptBind(w)
  PROVE  (AcceptChain /\ SocketKeyed /\ Unbound)'
<1> USE DEF IInv
<1> DEFINE k == work[w].slot
           c == work[w].conn
<1>1. work[w].pc = "bind" /\ k \in Slot /\ c \in Client
  BY BusyType DEF AcceptBind
<1>2. /\ work'[w].pc = "enlist"
      /\ \A v \in Worker \ {w} : work'[v] = work[v]
  BY <1>1, GotoStep DEF AcceptBind
<1>3. Handling' = Handling /\ Handling = {w}
  BY <1>1, <1>2 DEF Handling, AcceptChain
<1>4. /\ armed' = armed /\ full' = full /\ phase' = phase /\ send' = send
      /\ socket' = [socket EXCEPT ![k] = c]
      /\ key' = [key EXCEPT ![c] = k]
      /\ recv' = [recv EXCEPT ![c] = TRUE]
  BY DEF AcceptBind
<1>5. (\A j \in Slot : socket[j] # c) /\ phase[c] # "new"
  BY <1>1 DEF Unbound
<1>6. AcceptChain'
  BY <1>3, <1>4 DEF AcceptChain
<1>7. SocketKeyed'
  <2>1. k # None
    BY <1>1, NoneAssumption
  <2> HIDE DEF k, c
  <2> QED
    BY <1>1, <1>4, <1>5, <2>1 DEF SocketKeyed, TypeOK
<1>8. Unbound'
  <2>1. \A v \in Worker : work'[v].pc \notin {"reset", "bind"}
    BY <1>2, <1>3 DEF Handling
  <2> HIDE DEF k, c
  <2> QED
    BY <1>1, <1>4, <1>5, <2>1 DEF Unbound, TypeOK
<1> QED
  BY <1>6, <1>7, <1>8

\* The steps of a handler.
LEMMA HandlerInv ==
  ASSUME IInv, NEW w \in Worker, Handler(w)
  PROVE  (AcceptChain /\ SocketKeyed /\ Unbound)'
<1> USE DEF IInv, slotVars, connVars
<1>1. CASE AcceptReset(w)
  <2>1. /\ work[w].pc = "reset" /\ work'[w].pc = "bind"
        /\ work'[w].conn = work[w].conn
        /\ \A v \in Worker \ {w} : work'[v] = work[v]
    BY <1>1, GotoStep DEF AcceptReset
  <2>2. Handling' = Handling
    BY <2>1 DEF Handling
  <2>3. /\ armed' = armed /\ full' = full /\ socket' = socket /\ phase' = phase
        /\ key' = key /\ recv' = recv /\ send' = send
    BY <1>1 DEF AcceptReset
  <2> QED
    BY <2>1, <2>2, <2>3 DEF AcceptChain, SocketKeyed, Unbound
<1>2. CASE AcceptBind(w)
  BY <1>2, BindInv
<1>3. CASE AcceptEnlist(w)
  <2>1. work[w].pc = "enlist" /\ armed' /\ full' = full
    BY <1>3 DEF AcceptEnlist
  <2>2. work' = [work EXCEPT ![w] = Idle]
    BY <1>3 DEF AcceptEnlist, Finish
  <2>3. Handling = {w} /\ ~full
    BY <2>1 DEF Handling, AcceptChain
  <2>4. work'[w].pc = "idle" /\ \A v \in Worker \ {w} : work'[v] = work[v]
    BY <2>2 DEF TypeOK, Idle
  <2>5. Handling' = {}
    BY <2>3, <2>4 DEF Handling
  <2>6. /\ socket' = socket /\ phase' = phase
        /\ key' = key /\ recv' = recv /\ send' = send
    BY <1>3 DEF AcceptEnlist
  <2> QED
    BY <2>1, <2>3, <2>4, <2>5, <2>6 DEF AcceptChain, SocketKeyed, Unbound
<1>4. CASE \/ RecvLogin(w) \/ RecvMove(w) \/ RecvLevelUp(w) \/ RecvBroken(w)
           \/ LeaveSector(w) \/ FreeState(w) \/ CloseSocket(w) \/ PushLogout(w)
  <2>1. \E pc \in {"rearm", "leave", "free", "close", "logout", "delist"} : Goto(w, pc)
    BY <1>4 DEF RecvLogin, RecvMove, RecvLevelUp, RecvBroken, LeaveSector,
                FreeState, CloseSocket, PushLogout
  <2>2. work[w].pc \in {"login", "play", "leave", "free", "close", "logout"}
    BY <1>4 DEF RecvLogin, RecvMove, RecvLevelUp, RecvBroken, LeaveSector,
                FreeState, CloseSocket, PushLogout
  <2>3. work'[w].pc \notin AcceptPc /\ \A v \in Worker \ {w} : work'[v] = work[v]
    BY <2>1, <2>2, GotoStep
  <2>4. work[w].slot \in Slot
    BY <2>2, BusyType
  <2>5. armed' = armed /\ full' = full /\ key' = key /\ recv' = recv
    BY <1>4 DEF RecvLogin, RecvMove, RecvLevelUp, RecvBroken, LeaveSector,
                FreeState, CloseSocket, PushLogout
  <2>6. send' = send \/ send' = Sent(work[w].slot)
    BY <1>4 DEF RecvLogin, RecvMove, RecvLevelUp, RecvBroken, LeaveSector,
                FreeState, CloseSocket, PushLogout
  <2>7. \A k \in Slot : socket'[k] \in {socket[k], None}
    BY <1>4, <2>4 DEF RecvLogin, RecvMove, RecvLevelUp, RecvBroken, LeaveSector,
                FreeState, CloseSocket, PushLogout, TypeOK
  <2>8. phase' = phase \/ Tell(work[w].slot, "shut")
    BY <1>4 DEF RecvLogin, RecvMove, RecvLevelUp, RecvBroken, LeaveSector,
                FreeState, CloseSocket, PushLogout
  <2>9. \A c \in Client : recv'[c] \/ send'[c] => key[c] # None
    BY <2>4, <2>5, <2>6, SentInv DEF SocketKeyed
  <2>10. \A c \in Client : phase'[c] = "new" => phase[c] = "new"
    BY <2>4, <2>8, TellInv
  <2>11. FrameStep
    BY <2>2, <2>3, <2>5, <2>7, <2>9, <2>10, OutsideAccept DEF FrameStep
  <2> QED
    BY <2>11, FrameInv
<1>5. CASE Rearm(w) \/ Delist(w)
  <2>1. /\ armed' = armed /\ full' = full /\ key' = key /\ socket' = socket
        /\ phase' = phase /\ send' = send
        /\ work[w].pc \in {"rearm", "delist"}
        /\ work' = [work EXCEPT ![w] = Idle]
    BY <1>5 DEF Rearm, Delist, Finish
  <2>2. work'[w].pc = "idle" /\ \A v \in Worker \ {w} : work'[v] = work[v]
    BY <2>1 DEF TypeOK, Idle
  <2>3. work[w].slot \in Slot
    BY <2>1, BusyType
  <2>4. \/ recv' = recv
        \/ /\ socket[work[w].slot] # None
           /\ recv' = [recv EXCEPT ![socket[work[w].slot]] = TRUE]
    BY <1>5 DEF Rearm, Delist
  <2>5. \A c \in Client : recv'[c] => key[c] # None
    BY <2>3, <2>4, SocketHasKey DEF SocketKeyed, TypeOK
  <2>6. FrameStep
    BY <2>1, <2>2, <2>5, OutsideAccept DEF FrameStep, SocketKeyed
  <2> QED
    BY <2>6, FrameInv
<1>6. CASE RecvNoLogin(w)
  <2>1. /\ work[w].pc = "login" /\ Goto(w, "rearm")
        /\ armed' = armed /\ full' = full /\ key' = key /\ recv' = recv /\ socket' = socket
    BY <1>6 DEF RecvNoLogin, slotVars
  <2>2. work'[w].pc \notin AcceptPc /\ \A v \in Worker \ {w} : work'[v] = work[v]
    BY <2>1, GotoStep
  <2>3. work[w].slot \in Slot /\ work[w].conn \in Client
    BY <2>1, BusyType
  <2>4. send' = send \/ send' = Sent(work[w].slot)
    BY <1>6 DEF RecvNoLogin
  <2>5. \A c \in Client : recv'[c] \/ send'[c] => key[c] # None
    BY <2>1, <2>3, <2>4, SentInv DEF SocketKeyed
  <2>6. \A c \in Client : phase'[c] = "new" => phase[c] = "new"
    BY <1>6, <2>3, TellInv DEF RecvNoLogin, TypeOK
  <2>7. FrameStep
    BY <2>1, <2>2, <2>5, <2>6, OutsideAccept DEF FrameStep
  <2> QED
    BY <2>7, FrameInv
<1> QED
  BY <1>1, <1>2, <1>3, <1>4, <1>5, <1>6 DEF Handler

\* The steps of the database thread.
LEMMA DbStepInv ==
  ASSUME IInv, DbStep
  PROVE  (AcceptChain /\ SocketKeyed /\ Unbound)'
<1> USE DEF IInv, slotVars, connVars
<1>1. armed' = armed /\ full' = full /\ key' = key /\ work' = work
      /\ socket' = socket /\ recv' = recv
  BY DEF DbStep, LoginDenied, LoginSqlFails, LoginLoad, EnterGame, EnterSector,
         EnterIngame, LogoutIgnored, LogoutTake, LogoutSql, LogoutRedis,
         LogoutClear, SaveRedis
<1>2. \/ send' = send /\ phase' = phase
      \/ \E k \in Slot, news \in {"denied", "in"} : send' = Sent(k) /\ Tell(k, news)
  <2>1. CASE LoginDenied \/ LoginSqlFails
    BY <2>1, TakeType DEF LoginDenied, LoginSqlFails, Refuse
  <2>2. CASE EnterGame
    BY <2>2, DbType DEF EnterGame
  <2>3. CASE ~(LoginDenied \/ LoginSqlFails \/ EnterGame)
    BY <2>3 DEF DbStep, LoginLoad, EnterSector, EnterIngame, LogoutIgnored,
                LogoutTake, LogoutSql, LogoutRedis, LogoutClear, SaveRedis
  <2> QED
    BY <2>1, <2>2, <2>3
<1>3. /\ \A c \in Client : send'[c] => key[c] # None
      /\ \A c \in Client : phase'[c] = "new" => phase[c] = "new"
  BY <1>2, SentInv, TellInv DEF SocketKeyed
<1>4. FrameStep
  BY <1>1, <1>3 DEF FrameStep, SocketKeyed, Handling
<1> QED
  BY <1>4, FrameInv

\* One step of the system keeps the invariant.
LEMMA NextInv == IInv /\ [Next]_vars => IInv'
<1> SUFFICES ASSUME IInv, [Next]_vars PROVE IInv'
  OBVIOUS
<1> USE DEF IInv
<1>1. TypeOK'
  BY NextType
<1>2. (AcceptChain /\ SocketKeyed /\ Unbound)'
  <2>1. CASE \E w \in Worker : Handler(w)
    BY <2>1, HandlerInv
  <2>2. CASE \E w \in Worker, c \in Client : Completion(w, c)
    BY <2>2, CompletionInv
  <2>3. CASE DbStep
    BY <2>3, DbStepInv
  <2>4. CASE \E c \in Client : SendDone(c) \/ ClientClose(c)
    <3>1. PICK c \in Client : SendDone(c) \/ ClientClose(c)
      BY <2>4
    <3>2. /\ armed' = armed /\ full' = full /\ key' = key /\ work' = work
          /\ socket' = socket /\ recv' = recv
      BY <3>1 DEF SendDone, ClientClose, slotVars
    <3>3. \A d \in Client : send'[d] => send[d]
      BY <3>1 DEF SendDone, ClientClose, TypeOK
    <3>4. \A d \in Client : phase'[d] = "new" => phase[d] = "new"
      BY <3>1 DEF SendDone, ClientClose, TypeOK
    <3>5. FrameStep
      BY <3>2, <3>3, <3>4 DEF FrameStep, SocketKeyed, Handling
    <3> QED
      BY <3>5, FrameInv
  <2>5. CASE \E n \in Name : RedisExpire(n)
    <3>1. FrameStep
      BY <2>5 DEF RedisExpire, FrameStep, SocketKeyed, Handling, slotVars, connVars
    <3> QED
      BY <3>1, FrameInv
  <2>6. CASE Restart
    <3>1. /\ armed' /\ ~full' /\ Handling' = {}
          /\ \A w \in Worker : work'[w].pc = "idle"
      BY <2>6 DEF Restart, Handling, Idle
    <3>2. /\ \A k \in Slot : socket'[k] = None
          /\ \A c \in Client : ~recv'[c] /\ ~send'[c]
      BY <2>6 DEF Restart
    <3> QED
      BY <3>1, <3>2, NoneAssumption DEF AcceptChain, SocketKeyed, Unbound
  <2>7. CASE UNCHANGED vars
    BY <2>7 DEF vars, slotVars, connVars, AcceptChain, SocketKeyed, Unbound, Handling
  <2> QED
    BY <2>1, <2>2, <2>3, <2>4, <2>5, <2>6, <2>7 DEF Next
<1> QED
  BY <1>1, <1>2

\* The invariant always holds.
LEMMA Invariance == Spec => []IInv
<1>1. Init => IInv
  BY InitInv
<1>2. IInv /\ [Next]_vars => IInv'
  BY NextInv
<1> QED
  BY <1>1, <1>2, PTL DEF Spec

----------------------------------------------------------------------------
\* In every behaviour every variable keeps its type; in particular a
\* completion, a request and a worker always name a slot of the table.
THEOREM TypeCorrect == Spec => []TypeOK
<1>1. IInv => TypeOK
  BY DEF IInv
<1> QED
  BY <1>1, Invariance, PTL

\* The globals g_client_socket and g_over are never in the hands of two
\* workers, and the server goes on accepting until it was found full
\* (MainServer.cpp:104-140), however connections come and go.
THEOREM AcceptIsExclusive == Spec => []AcceptChain
<1>1. IInv => AcceptChain
  BY DEF IInv
<1> QED
  BY <1>1, Invariance, PTL

\* No two slots hold one socket, and a socket's completions go to its slot
\* (MainServer.cpp:120-124).
THEOREM SocketsAreKeyed == Spec => []SocketKeyed
<1>1. IInv => SocketKeyed
  BY DEF IInv
<1> QED
  BY <1>1, Invariance, PTL

----------------------------------------------------------------------------
(* The life of a slot in a calm environment.  A slot is in one stage at a   *)
(* time; the stage says which handlers, requests and completions of the     *)
(* slot may still be under way.                                             *)

HIDE DEF Slot, Level, Name, Record, Newborn, NoHash

Calm == CalmLogin /\ CalmClose /\ CalmReuse

\* Every request of slot k in the queue is one of ops; there is at most one.
Queued(k, ops) == \A i \in 1 .. Len(queue) : queue[i].slot = k => queue[i].op \in ops
Once(k) == \A i, j \in 1 .. Len(queue) : queue[i].slot = k /\ queue[j].slot = k => i = j

\* Only connection c may still have a transfer under slot k; none but a failed
\* WSARecv is left.
Still(k, c) == \A d \in Client : key[d] = k /\ d # c => ~recv[d] /\ ~send[d]
Cut(k)      == \A d \in Client : key[d] = k /\ recv[d] => phase[d] = "shut"

\* At most one worker is on slot k, at one of pcs; no WSARecv is out then.
Served(k, c, pcs) ==
    \A w \in Worker : work[w].slot = k =>
      /\ work[w].pc \in pcs /\ work[w].conn = c /\ ~recv[c]
      /\ \A v \in Worker : work[v].slot = k => v = w

\* Free, though its teardown may go on.
Gone(k) ==
    /\ state[k] = "FREE" /\ k \notin inSector
    /\ \A w \in Worker : work[w].slot = k => work[w].pc \in TeardownPc
    /\ Queued(k, {"LOGOUT", "SAVE_REDIS"})
    /\ db.slot = k => db.pc \in {"sql", "redis", "clear"}
    /\ Cut(k)

\* The connection is lost or broken, and the slot not yet free.
Leaving(k, c) ==
    /\ state[k] # "FREE" /\ socket[k] = c
    /\ \A w \in Worker : work[w].slot = k =>
         work[w].pc \in {"leave", "free"} /\ (work[w].pc = "free" => k \notin inSector)
    /\ Queued(k, {"SAVE_REDIS"}) /\ db.slot # k
    /\ Cut(k)
    /\ state[k] = "INGAME" => name[k] # NoName /\ k \in playerList

\* In the hands of the accept handler.
Arrives(k, c) ==
    /\ \E w \in Worker : /\ work[w].slot = k /\ work[w].pc \in AcceptPc /\ work[w].conn = c
                         /\ \A v \in Worker : work[v].slot = k => v = w
                         /\ work[w].pc = "enlist" => socket[k] = c
    /\ state[k] = "ACTIVE" /\ phase[c] = "open"
    /\ Queued(k, {}) /\ db.slot # k
    /\ Still(k, c)

\* A connection that has sent no CS_LOGIN that counts; one whose CS_LOGIN is in hand, in
\* the queue, at the database thread; one that was refused; one in the game.
Opens(k, c) ==
    /\ phase[c] = "open"
    /\ Queued(k, {}) /\ db.slot # k /\ Served(k, c, {"rearm"})
Asks(k, c) ==
    /\ phase[c] = "asked"
    /\ Queued(k, {}) /\ db.slot # k /\ Served(k, c, {"login"})
Waits(k, c) ==
    /\ phase[c] = "asked" /\ name[k] # NoName
    /\ Queued(k, {"LOGIN"}) /\ Once(k) /\ db.slot # k /\ Served(k, c, {"rearm"})
Enters(k, c) ==
    /\ phase[c] = "asked" /\ name[k] # NoName
    /\ Queued(k, {}) /\ db.slot = k /\ db.pc = "enter" /\ Served(k, c, {"rearm"})
Refused(k, c) ==
    /\ phase[c] = "denied"
    /\ Queued(k, {}) /\ db.slot # k /\ Served(k, c, {"rearm"})
Plays(k, c) ==
    /\ phase[c] = "in" /\ name[k] # NoName
    /\ Queued(k, {"SAVE_REDIS"}) /\ Served(k, c, {"play", "rearm"})
    /\ db.slot = k => db.pc \in {"place", "ingame"}

Live(k, c) ==
    /\ socket[k] = c /\ k \in playerList /\ Still(k, c)
    /\ state[k] = IF phase[c] = "in" /\ db.slot # k THEN "INGAME" ELSE "ACTIVE"
    /\ \/ Opens(k, c) \/ Asks(k, c) \/ Waits(k, c)
       \/ Enters(k, c) \/ Refused(k, c) \/ Plays(k, c)

Stage(k) == Gone(k) \/ \E c \in Client : Arrives(k, c) \/ Leaving(k, c) \/ Live(k, c)
Stages == \A k \in Slot : Stage(k)

\* Past the check of the names: the database thread has let it in.
Inside(k) == state[k] = "INGAME" \/ (db.slot = k /\ db.pc \in {"enter", "place", "ingame"})
Distinct == \A j, k \in Slot : Inside(j) /\ Inside(k) /\ name[j] = name[k] => j = k

Fresh == \A c \in Client : phase[c] = "new" => key[c] = None

CalmInv == IInv /\ Calm /\ Fresh /\ Stages /\ Distinct

(* The queue: a request at its end, and one taken off its head.             *)
LEMMA QueuedMore ==
    ASSUME NEW k, NEW ops, NEW more, Queued(k, ops), ops \subseteq more PROVE Queued(k, more)
BY DEF Queued

LEMMA QueueGrows ==
    ASSUME TypeOK, NEW e, queue' = Append(queue, e), NEW k, NEW ops, Queued(k, ops)
    PROVE  /\ e.slot = k => Queued(k, ops \union {e.op})'
           /\ e.slot = k /\ ops = {} => Once(k)'
           /\ e.slot # k => Queued(k, ops)' /\ (Once(k) => Once(k)')
<1>1. queue \in Seq(DbRequest) /\ Len(queue) \in Nat
  BY DEF TypeOK
<1>2. Len(queue') = Len(queue) + 1 /\ queue'[Len(queue) + 1] = e
      /\ \A i \in 1 .. Len(queue) : queue'[i] = queue[i]
  BY <1>1
<1>3. \A i \in 1 .. Len(queue') : i \in 1 .. Len(queue) \/ i = Len(queue) + 1
  BY <1>1, <1>2
<1>4. e.slot = k => Queued(k, ops \union {e.op})'
  BY <1>2, <1>3 DEF Queued
<1>5. e.slot = k /\ ops = {} => Once(k)'
  BY <1>2, <1>3 DEF Queued, Once
<1>6. e.slot # k => Queued(k, ops)' /\ (Once(k) => Once(k)')
  BY <1>2, <1>3 DEF Queued, Once
<1>7. QED BY <1>4, <1>5, <1>6

LEMMA QueueShrinks ==
    ASSUME TypeOK, queue # <<>>, queue' = Tail(queue), NEW k, NEW ops, Queued(k, ops)
    PROVE  /\ Queued(k, ops)' /\ (Once(k) => Once(k)')
           /\ Head(queue).slot = k /\ Once(k) => Queued(k, {})'
           /\ Head(queue).slot = k => Head(queue).op \in ops
<1>1. queue \in Seq(DbRequest) /\ Len(queue) \in Nat \ {0}
  BY DEF TypeOK
<1>2. Len(queue') = Len(queue) - 1 /\ Head(queue) = queue[1]
      /\ \A i \in 1 .. Len(queue') : i + 1 \in 1 .. Len(queue) /\ queue'[i] = queue[i + 1]
  BY <1>1
<1>3. Queued(k, ops)'
  BY <1>2 DEF Queued
<1>4. ASSUME Once(k) PROVE Once(k)'
  <2>1. ASSUME NEW i \in 1 .. Len(queue'), NEW j \in 1 .. Len(queue'),
               queue'[i].slot = k, queue'[j].slot = k
        PROVE  i = j
    <3>1. i + 1 = j + 1
      BY <1>2, <1>4, <2>1 DEF Once
    <3>2. QED BY <1>1, <3>1
  <2>2. QED BY <2>1 DEF Once
<1>5. ASSUME Head(queue).slot = k, Once(k) PROVE Queued(k, {})'
  <2>1. ASSUME NEW i \in 1 .. Len(queue'), queue'[i].slot = k PROVE FALSE
    <3>1. 1 \in 1 .. Len(queue) /\ queue[1].slot = k
      BY <1>1, <1>2, <1>5
    <3>2. i + 1 = 1
      BY <1>2, <1>5, <2>1, <3>1 DEF Once
    <3>3. QED BY <1>1, <1>2, <3>2
  <2>2. QED BY <2>1 DEF Queued
<1>6. Head(queue).slot = k => Head(queue).op \in ops
  BY <1>1, <1>2 DEF Queued
<1>7. QED BY <1>3, <1>4, <1>5, <1>6

\* A step that concerns no slot but k and no connection but c.
Apart(k, c) ==
    /\ \A w \in Worker : \/ work'[w] = work[w]
                         \/ work[w].slot \in {k, None} /\ work'[w].slot \in {k, None}
    /\ \A j \in Slot \ {k} :
         /\ state'[j] = state[j] /\ name'[j] = name[j] /\ socket'[j] = socket[j]
         /\ j \in inSector' <=> j \in inSector
         /\ j \in playerList' <=> j \in playerList
    /\ \/ queue' = queue
       \/ \E e : queue' = Append(queue, e) /\ e.slot = k
       \/ queue # <<>> /\ queue' = Tail(queue)
    /\ db' = db \/ (db.slot \in {k, None} /\ db'.slot \in {k, None})
    /\ \A d \in Client : d # c => /\ phase'[d] = phase[d] /\ key'[d] = key[d]
                                  /\ recv'[d] = recv[d] /\ (send'[d] => send[d])
    /\ c \in Client =>
         /\ key'[c] \in {k, None}
         /\ \A j \in Slot \ {k} : socket[j] # c
         /\ \A w \in Worker : work[w].pc \in AcceptPc /\ work[w].slot # k => work[w].conn # c

LEMMA StageElsewhere ==
    ASSUME TypeOK, NEW k, NEW c, Apart(k, c), NEW j \in Slot, j # k, Stage(j)
    PROVE  Stage(j)' /\ (Inside(j)' <=> Inside(j)) /\ name'[j] = name[j]
<1>1. /\ state'[j] = state[j] /\ name'[j] = name[j] /\ socket'[j] = socket[j]
      /\ j \in inSector' <=> j \in inSector
      /\ j \in playerList' <=> j \in playerList
  BY DEF Apart
<1>2. j # None
  BY NoneAssumption
<1>3. \A w \in Worker : work[w].slot = j \/ work'[w].slot = j => work'[w] = work[w]
  BY <1>2 DEF Apart
<1>4. db'.slot = j \/ db.slot = j => db' = db
  BY <1>2 DEF Apart
<1>5. ASSUME NEW ops, Queued(j, ops) PROVE Queued(j, ops)' /\ (Once(j) => Once(j)')
  <2>1. CASE queue' = queue
    BY <1>5, <2>1 DEF Queued, Once
  <2>2. ASSUME NEW e, queue' = Append(queue, e), e.slot = k PROVE Queued(j, ops)' /\ (Once(j) => Once(j)')
    BY <1>5, <2>2, QueueGrows
  <2>3. CASE queue # <<>> /\ queue' = Tail(queue)
    BY <1>5, <2>3, QueueShrinks
  <2>4. QED BY <2>1, <2>2, <2>3 DEF Apart
<1>6. \A d \in Client : key'[d] = j => d # c /\ key[d] = j /\ phase'[d] = phase[d]
                                       /\ recv'[d] = recv[d] /\ (send'[d] => send[d])
  BY <1>2 DEF Apart
<1>7. Cut(j) => Cut(j)'
  BY <1>6 DEF Cut
<1>8. ASSUME NEW d PROVE Still(j, d) => Still(j, d)'
  BY <1>6 DEF Still
<1>9. CASE Gone(j)
  <2>1. Gone(j)'
    BY <1>1, <1>3, <1>4, <1>5, <1>7, <1>9 DEF Gone
  <2>2. QED BY <1>1, <1>4, <2>1 DEF Stage, Inside
<1>10. ASSUME NEW d \in Client, Leaving(j, d) PROVE Leaving(j, d)'
  BY <1>1, <1>3, <1>4, <1>5, <1>7, <1>10 DEF Leaving
<1>11. ASSUME NEW d \in Client, Arrives(j, d) PROVE Arrives(j, d)'
  <2>1. PICK w \in Worker : /\ work[w].slot = j /\ work[w].pc \in AcceptPc /\ work[w].conn = d
                            /\ \A v \in Worker : work[v].slot = j => v = w
                            /\ work[w].pc = "enlist" => socket[j] = d
    BY <1>11 DEF Arrives
  <2>2. d # c /\ phase'[d] = phase[d]
    BY <2>1 DEF Apart
  <2>3. work'[w] = work[w] /\ \A v \in Worker : work'[v].slot = j => v = w
    BY <1>3, <2>1
  <2>4. Queued(j, {})' /\ db'.slot # j /\ Still(j, d)'
    BY <1>4, <1>5, <1>8, <1>11 DEF Arrives
  <2>5. QED BY <1>1, <1>11, <2>1, <2>2, <2>3, <2>4 DEF Arrives
<1>12. ASSUME NEW d \in Client, Live(j, d) PROVE Live(j, d)'
  <2>1. d # c /\ phase'[d] = phase[d] /\ recv'[d] = recv[d]
    BY <1>12 DEF Live, Apart
  <2>2. ASSUME NEW pcs, Served(j, d, pcs) PROVE Served(j, d, pcs)'
    BY <1>3, <2>1, <2>2 DEF Served
  <2>3. (db'.slot = j <=> db.slot = j) /\ (db.slot = j => db'.pc = db.pc)
    BY <1>4
  <2>4. Opens(j, d) => Opens(j, d)'
    BY <1>5, <2>1, <2>2, <2>3 DEF Opens
  <2>5. Asks(j, d) => Asks(j, d)'
    BY <1>5, <2>1, <2>2, <2>3 DEF Asks
  <2>6. Waits(j, d) => Waits(j, d)'
    BY <1>1, <1>5, <2>1, <2>2, <2>3 DEF Waits
  <2>7. Enters(j, d) => Enters(j, d)'
    BY <1>1, <1>5, <2>1, <2>2, <2>3 DEF Enters
  <2>8. Refused(j, d) => Refused(j, d)'
    BY <1>5, <2>1, <2>2, <2>3 DEF Refused
  <2>9. Plays(j, d) => Plays(j, d)'
    BY <1>1, <1>5, <2>1, <2>2, <2>3 DEF Plays
  <2>10. QED
    BY <1>1, <1>8, <1>12, <2>1, <2>3, <2>4, <2>5, <2>6, <2>7, <2>8, <2>9 DEF Live
<1>13. Stage(j)'
  BY <1>9, <1>10, <1>11, <1>12 DEF Stage
<1>14. QED BY <1>1, <1>4, <1>13 DEF Inside

LEMMA StageStep ==
    ASSUME CalmInv, NEW k, NEW c, Apart(k, c),
           k \in Slot => Stage(k)' /\ (Inside(k)' => Inside(k) /\ name'[k] = name[k])
    PROVE  Stages' /\ Distinct'
<1>1. ASSUME NEW j \in Slot
      PROVE  Stage(j)' /\ (Inside(j)' => Inside(j) /\ name'[j] = name[j])
  <2>1. CASE j = k
    BY <2>1
  <2>2. CASE j # k
    BY <2>2, StageElsewhere DEF CalmInv, IInv, Stages
  <2>3. QED BY <2>1, <2>2
<1>2. Stages'
  BY <1>1 DEF Stages
<1>3. Distinct'
  BY <1>1 DEF CalmInv, Distinct
<1>4. QED BY <1>2, <1>3

(* Which stage a slot is in, by who works on it.                            *)
LEMMA StageOf ==
    ASSUME CalmInv, NEW k \in Slot
    PROVE  Gone(k) \/ \E c \in Client : Arrives(k, c) \/ Leaving(k, c) \/ Live(k, c)
BY DEF CalmInv, Stages, Stage

LEMMA LiveServed ==
    ASSUME NEW k \in Slot, NEW c, Live(k, c)
    PROVE  /\ Served(k, c, ReceivePc) /\ state[k] # "FREE" /\ phase[c] # "shut"
           /\ db.slot = k => db.pc \in {"enter", "place", "ingame"}
BY DEF Live, Served, Opens, Asks, Waits, Enters, Refused, Plays

LEMMA AcceptStage ==
    ASSUME CalmInv, NEW w \in Worker, work[w].pc \in AcceptPc
    PROVE  Arrives(work[w].slot, work[w].conn) /\ \A v \in Worker : work[v].slot = work[w].slot => v = w
<1>1. work[w].slot \in Slot
  BY BusyType DEF CalmInv, IInv
<1>2. PICK c \in Client : Arrives(work[w].slot, c)
  BY <1>1, StageOf, LiveServed DEF Gone, Leaving, Served
<1>3. QED BY <1>2 DEF Arrives

LEMMA ReceiveStage ==
    ASSUME CalmInv, NEW w \in Worker, work[w].pc \in ReceivePc
    PROVE  Live(work[w].slot, work[w].conn)
<1>1. work[w].slot \in Slot
  BY BusyType DEF CalmInv, IInv
<1>2. PICK c \in Client : Live(work[w].slot, c)
  BY <1>1, StageOf DEF Gone, Leaving, Arrives
<1>3. QED BY <1>1, <1>2, LiveServed DEF Served

LEMMA TeardownStage ==
    ASSUME CalmInv, NEW w \in Worker, work[w].pc \in TeardownPc
    PROVE  \/ Gone(work[w].slot)
           \/ work[w].pc \in {"leave", "free"} /\ \E c \in Client : Leaving(work[w].slot, c)
<1>1. work[w].slot \in Slot
  BY BusyType DEF CalmInv, IInv
<1>2. ASSUME NEW c \in Client PROVE ~Arrives(work[w].slot, c) /\ ~Live(work[w].slot, c)
  BY <1>1, LiveServed DEF Arrives, Served
<1>3. QED BY <1>1, <1>2, StageOf, LiveServed DEF Arrives, Served, Leaving

LEMMA SaveStage ==
    ASSUME CalmInv, NEW k \in Slot, db.slot = k
    PROVE  /\ db.pc \in {"sql", "redis", "clear"} => Gone(k)
           /\ db.pc = "enter" => \E c \in Client : Live(k, c) /\ Enters(k, c)
           /\ db.pc \in {"place", "ingame"} => \E c \in Client : Live(k, c) /\ Plays(k, c)
BY StageOf, LiveServed
   DEF Gone, Leaving, Arrives, Live, Opens, Asks, Waits, Enters, Refused, Plays

(* A transfer that is out under slot k, other than a failed one.            *)
LEMMA TransferStage ==
    ASSUME CalmInv, NEW c \in Client, NEW k \in Slot, key[c] = k, recv[c] \/ send[c]
    PROVE  Gone(k) \/ Arrives(k, c) \/ Live(k, c) \/ \E d \in Client : Leaving(k, d)
<1>1. CASE \E d \in Client : Arrives(k, d)
  BY <1>1 DEF Arrives, Still
<1>2. CASE \E d \in Client : Live(k, d)
  BY <1>2 DEF Live, Still
<1>3. QED BY <1>1, <1>2, StageOf

(* The handlers' steps from one point to the next, and to their end.        *)
LEMMA GotoAll ==
    ASSUME TypeOK, NEW w \in Worker, work[w].pc # "idle",
           NEW pc \in AcceptPc \union ReceivePc \union TeardownPc, Goto(w, pc)
    PROVE  /\ work'[w].pc = pc /\ work'[w].slot = work[w].slot /\ work'[w].conn = work[w].conn
           /\ \A v \in Worker : v # w => work'[v] = work[v]
<1>1. work'[w] = [pc |-> pc, slot |-> work[w].slot, conn |-> work[w].conn]
  BY GotoType
<1>2. \A v \in Worker : v # w => work'[v] = work[v]
  BY GotoType
<1>3. QED BY <1>1, <1>2

LEMMA FinishAll ==
    ASSUME TypeOK, NEW w \in Worker, Finish(w)
    PROVE  /\ work'[w].slot = None /\ work'[w].pc = "idle"
           /\ \A v \in Worker : v # w => work'[v] = work[v]
BY DEF TypeOK, Finish, Idle

LEMMA BeginAll ==
    ASSUME TypeOK, NEW w \in Worker, NEW pc, NEW k, NEW c, work[w].pc = "idle",
           work' = [work EXCEPT ![w] = [pc |-> pc, slot |-> k, conn |-> c]]
    PROVE  /\ work'[w].slot = k /\ work'[w].pc = pc /\ work'[w].conn = c /\ work[w].slot = None
           /\ \A v \in Worker : v # w => work'[v] = work[v]
<1>1. work[w] \in {Idle} \union BusyWorker
  BY DEF TypeOK
<1>2. work[w] = Idle
  BY <1>1 DEF BusyWorker
<1>3. work[w].slot = None
  BY <1>2 DEF Idle
<1>4. DOMAIN work = Worker
  BY DEF TypeOK
<1>5. work'[w] = [pc |-> pc, slot |-> k, conn |-> c] /\ \A v \in Worker : v # w => work'[v] = work[v]
  BY <1>4
<1>6. QED BY <1>3, <1>5

(* KEY_ACCEPT.                                                              *)
LEMMA CalmReset == ASSUME CalmInv, NEW w \in Worker, AcceptReset(w) PROVE Stages' /\ Distinct'
<1> PICK k, c : k = work[w].slot /\ c = work[w].conn
  OBVIOUS
<1>1. TypeOK /\ work[w].pc = "reset" /\ k \in Slot /\ c \in Client
  BY BusyType DEF CalmInv, IInv, AcceptReset
<1>2. Arrives(k, c) /\ \A v \in Worker : work[v].slot = k => v = w
  BY <1>1, AcceptStage
<1>3. /\ work'[w].pc = "bind" /\ work'[w].slot = k /\ work'[w].conn = c
      /\ \A v \in Worker : v # w => work'[v] = work[v]
  BY <1>1, GotoAll DEF AcceptReset
<1>4. /\ \A j \in Slot \ {k} : name'[j] = name[j]
      /\ UNCHANGED <<state, socket, inSector, playerList, queue, db, phase, key, recv, send>>
  BY <1>1 DEF AcceptReset, connVars, TypeOK
<1>5. Apart(k, None)
  BY <1>1, <1>3, <1>4, NoneAssumption DEF Apart
<1>6. Arrives(k, c)'
  BY <1>1, <1>2, <1>3, <1>4 DEF Arrives, Queued, Still
<1>7. ~Inside(k)'
  BY <1>2, <1>4 DEF Arrives, Inside
<1>8. QED BY <1>1, <1>5, <1>6, <1>7, StageStep DEF Stage

LEMMA CalmBind == ASSUME CalmInv, NEW w \in Worker, AcceptBind(w) PROVE Stages' /\ Distinct'
<1> PICK k, c : k = work[w].slot /\ c = work[w].conn
  OBVIOUS
<1>1. TypeOK /\ work[w].pc = "bind" /\ k \in Slot /\ c \in Client
  BY BusyType DEF CalmInv, IInv, AcceptBind
<1>2. Arrives(k, c) /\ \A v \in Worker : work[v].slot = k => v = w
  BY <1>1, AcceptStage
<1>3. /\ work'[w].pc = "enlist" /\ work'[w].slot = k /\ work'[w].conn = c
      /\ \A v \in Worker : v # w => work'[v] = work[v]
  BY <1>1, GotoAll DEF AcceptBind
<1>4. /\ socket'[k] = c /\ key'[c] = k
      /\ \A j \in Slot \ {k} : socket'[j] = socket[j] /\ (j \in inSector' <=> j \in inSector)
      /\ \A d \in Client : d # c => key'[d] = key[d] /\ recv'[d] = recv[d]
      /\ UNCHANGED <<state, name, playerList, queue, db, phase, send>>
  BY <1>1 DEF AcceptBind, TypeOK
<1>5. Apart(k, c)
  <2>1. \A j \in Slot : socket[j] # c
    BY <1>1 DEF CalmInv, IInv, Unbound
  <2>2. \A v \in Worker : work[v].pc \in AcceptPc => v = w
    BY <1>1 DEF CalmInv, IInv, AcceptChain, Handling
  <2>3. QED BY <1>1, <1>3, <1>4, <2>1, <2>2 DEF Apart
<1>6. Arrives(k, c)'
  BY <1>1, <1>2, <1>3, <1>4 DEF Arrives, Queued, Still
<1>7. ~Inside(k)'
  BY <1>2, <1>4 DEF Arrives, Inside
<1>8. QED BY <1>1, <1>5, <1>6, <1>7, StageStep DEF Stage

LEMMA CalmEnlist == ASSUME CalmInv, NEW w \in Worker, AcceptEnlist(w) PROVE Stages' /\ Distinct'
<1> PICK k, c : k = work[w].slot /\ c = work[w].conn
  OBVIOUS
<1>1. TypeOK /\ work[w].pc = "enlist" /\ k \in Slot /\ c \in Client
  BY BusyType DEF CalmInv, IInv, AcceptEnlist
<1>2. Arrives(k, c) /\ \A v \in Worker : work[v].slot = k => v = w
  BY <1>1, AcceptStage
<1>3. work'[w].slot = None /\ \A v \in Worker : v # w => work'[v] = work[v]
  BY <1>1, FinishAll DEF AcceptEnlist
<1>4. /\ k \in playerList' /\ \A j \in Slot \ {k} : j \in playerList' <=> j \in playerList
      /\ UNCHANGED <<state, name, socket, inSector, queue, db, phase, key, recv, send>>
  BY <1>1 DEF AcceptEnlist, connVars
<1>5. Apart(k, None)
  BY <1>1, <1>3, <1>4, NoneAssumption DEF Apart
<1>6. Live(k, c)'
  <2>1. \A v \in Worker : work'[v].slot # k
    BY <1>1, <1>2, <1>3, NoneAssumption
  <2>2. Opens(k, c)'
    BY <1>2, <1>4, <2>1 DEF Opens, Arrives, Queued, Served
  <2>3. socket[k] = c
    BY <1>1, <1>2 DEF Arrives
  <2>4. QED BY <1>2, <1>4, <2>2, <2>3 DEF Live, Arrives, Still
<1>7. ~Inside(k)'
  BY <1>2, <1>4 DEF Arrives, Inside
<1>8. QED BY <1>1, <1>5, <1>6, <1>7, StageStep DEF Stage
(* The slot of a socket: no other slot and no accept handler has it.        *)
LEMMA Holder ==
    ASSUME CalmInv, NEW k \in Slot, NEW c \in Client, socket[k] = c
    PROVE  /\ key[c] = k /\ \A j \in Slot \ {k} : socket[j] # c
           /\ \A w \in Worker : work[w].pc \in AcceptPc /\ work[w].slot # k => work[w].conn # c
<1>1. c # None
  BY NoneAssumption
<1>2. key[c] = k /\ \A j \in Slot \ {k} : socket[j] # c
  BY <1>1 DEF CalmInv, IInv, SocketKeyed
<1>3. ASSUME NEW w \in Worker, work[w].pc \in AcceptPc, work[w].slot # k, work[w].conn = c
      PROVE  FALSE
  <2>1. work[w].pc = "enlist"
    BY <1>3 DEF CalmInv, IInv, Unbound
  <2>2. Arrives(work[w].slot, c) /\ \A v \in Worker : work[v].slot = work[w].slot => v = w
    BY <1>3, AcceptStage
  <2>3. socket[work[w].slot] = c
    BY <2>1, <2>2 DEF Arrives
  <2>4. work[w].slot \in Slot
    BY <1>3, BusyType DEF CalmInv, IInv
  <2>5. QED BY <1>2, <1>3, <2>3, <2>4
<1>4. QED BY <1>2, <1>3

(* KEY_RECV: a worker that processes a packet is alone on a live slot.      *)
LEMMA ReceiveAlone ==
    ASSUME CalmInv, NEW w \in Worker, work[w].pc \in ReceivePc,
           NEW k, NEW c, k = work[w].slot, c = work[w].conn
    PROVE  /\ TypeOK /\ k \in Slot /\ c \in Client /\ Live(k, c) /\ socket[k] = c /\ ~recv[c]
           /\ \A v \in Worker : work[v].slot = k => v = w
           /\ work[w].pc = "login" => Asks(k, c)
           /\ work[w].pc = "play" => Plays(k, c)
           /\ phase[c] \notin {"new", "shut"}
<1>1. TypeOK /\ k \in Slot /\ c \in Client
  BY BusyType DEF CalmInv, IInv
<1>2. Live(k, c)
  BY ReceiveStage
<1>3. Served(k, c, ReceivePc)
  BY <1>1, <1>2, LiveServed
<1>4. socket[k] = c /\ ~recv[c] /\ \A v \in Worker : work[v].slot = k => v = w
  BY <1>2, <1>3 DEF Live, Served
<1>5. /\ work[w].pc = "login" => Asks(k, c)
      /\ work[w].pc = "play" => Plays(k, c)
      /\ phase[c] \notin {"new", "shut"}
  BY <1>2 DEF Live, Opens, Asks, Waits, Enters, Refused, Plays, Served
<1>6. QED BY <1>1, <1>2, <1>4, <1>5

LEMMA CalmLogins == ASSUME CalmInv, NEW w \in Worker, RecvLogin(w) PROVE Stages' /\ Distinct'
<1> PICK k, c : k = work[w].slot /\ c = work[w].conn
  OBVIOUS
<1>0. work[w].pc = "login"
  BY DEF RecvLogin
<1>1. /\ TypeOK /\ k \in Slot /\ c \in Client /\ Live(k, c) /\ Asks(k, c)
      /\ \A v \in Worker : work[v].slot = k => v = w
  BY <1>0, ReceiveAlone
<1>2. /\ work'[w].pc = "rearm" /\ work'[w].slot = k /\ work'[w].conn = c
      /\ \A v \in Worker : v # w => work'[v] = work[v]
  BY <1>0, <1>1, GotoAll DEF RecvLogin
<1>3. /\ name'[k] # NoName /\ \A j \in Slot \ {k} : name'[j] = name[j]
      /\ UNCHANGED <<state, socket, inSector, playerList, db, phase, key, recv, send>>
  BY <1>1, NameAssumption DEF RecvLogin, connVars, TypeOK
<1>4. queue' = Append(queue, [op |-> "LOGIN", slot |-> k])
  BY DEF RecvLogin, Request
<1>5. Queued(k, {"LOGIN"})' /\ Once(k)'
  <2>1. Queued(k, {})
    BY <1>1 DEF Asks
  <2>2. PICK e : e = [op |-> "LOGIN", slot |-> k]
    OBVIOUS
  <2>3. e.slot = k /\ e.op = "LOGIN" /\ queue' = Append(queue, e)
    BY <1>4, <2>2
  <2>4. Queued(k, {} \union {e.op})' /\ Once(k)'
    BY <1>1, <2>1, <2>3, QueueGrows
  <2>5. QED BY <2>3, <2>4 DEF Queued
<1>6. Apart(k, None)
  BY <1>1, <1>2, <1>3, <1>4, NoneAssumption DEF Apart
<1>7. Live(k, c)'
  <2>1. Waits(k, c)'
    BY <1>1, <1>2, <1>3, <1>5 DEF Asks, Waits, Served
  <2>2. QED BY <1>1, <1>3, <2>1 DEF Live, Still
<1>8. ~Inside(k)'
  BY <1>1, <1>3 DEF Live, Asks, Inside
<1>9. QED BY <1>1, <1>6, <1>7, <1>8, StageStep DEF Stage

(* CS_MOVE and CS_ATTACK.                                                   *)
LEMMA SentOne ==
    ASSUME TypeOK, NEW k \in Slot, NEW c \in Client, socket[k] = c, send' = Sent(k)
    PROVE  \A d \in Client : d # c => send'[d] = send[d]
BY DEF Sent, TypeOK

\* A CS_LOGIN that is ignored, or refused at once.
LEMMA CalmNoLogin == ASSUME CalmInv, NEW w \in Worker, RecvNoLogin(w) PROVE Stages' /\ Distinct'
<1> PICK k, c : k = work[w].slot /\ c = work[w].conn
  OBVIOUS
<1>0. work[w].pc = "login"
  BY DEF RecvNoLogin
<1>1. /\ TypeOK /\ k \in Slot /\ c \in Client /\ Live(k, c) /\ Asks(k, c) /\ socket[k] = c
      /\ \A v \in Worker : work[v].slot = k => v = w
  BY <1>0, ReceiveAlone
<1>2. /\ work'[w].pc = "rearm" /\ work'[w].slot = k /\ work'[w].conn = c
      /\ \A v \in Worker : v # w => work'[v] = work[v]
  BY <1>0, <1>1, GotoAll DEF RecvNoLogin
<1>3. UNCHANGED <<state, name, socket, inSector, playerList, queue, db, key, recv>>
  BY DEF RecvNoLogin, slotVars
<1>4. c # None /\ phase[c] = "asked"
  BY <1>1, NoneAssumption DEF Asks
<1>5. /\ phase'[c] \in {"open", "denied"}
      /\ \A d \in Client : d # c => phase'[d] = phase[d] /\ send'[d] = send[d]
  <2>1. CASE Tell(k, "denied") /\ send' = Sent(k)
    <3>1. \A d \in Client : d # c => send'[d] = send[d]
      BY <1>1, <2>1, SentOne
    <3>2. QED BY <1>1, <1>4, <2>1, <3>1 DEF Tell, TypeOK
  <2>2. CASE phase' = [phase EXCEPT ![c] = "open"] /\ send' = send
    BY <1>1, <2>2 DEF TypeOK
  <2>3. QED BY <1>4, <2>1, <2>2 DEF RecvNoLogin
<1>6. Apart(k, c)
  BY <1>1, <1>2, <1>3, <1>5, Holder DEF Apart
<1>7. Live(k, c)'
  <2>1. Opens(k, c)' \/ Refused(k, c)'
    BY <1>1, <1>2, <1>3, <1>5 DEF Asks, Opens, Refused, Queued, Served
  <2>2. QED BY <1>1, <1>3, <1>4, <1>5, <2>1 DEF Live, Still
<1>8. (Inside(k)' => Inside(k)) /\ name'[k] = name[k]
  BY <1>3 DEF Inside
<1>9. QED BY <1>1, <1>6, <1>7, <1>8, StageStep DEF Stage

LEMMA CalmMove == ASSUME CalmInv, NEW w \in Worker, RecvMove(w) PROVE Stages' /\ Distinct'
<1> PICK k, c : k = work[w].slot /\ c = work[w].conn
  OBVIOUS
<1>0. work[w].pc = "play"
  BY DEF RecvMove
<1>1. /\ TypeOK /\ k \in Slot /\ c \in Client /\ Live(k, c) /\ Plays(k, c) /\ socket[k] = c
      /\ \A v \in Worker : work[v].slot = k => v = w
  BY <1>0, ReceiveAlone
<1>2. /\ work'[w].pc = "rearm" /\ work'[w].slot = k /\ work'[w].conn = c
      /\ \A v \in Worker : v # w => work'[v] = work[v]
  BY <1>0, <1>1, GotoAll DEF RecvMove
<1>3. /\ \A j \in Slot \ {k} : j \in inSector' <=> j \in inSector
      /\ UNCHANGED <<state, name, socket, playerList, queue, db, phase, key, recv>>
  BY DEF RecvMove
<1>4. \A d \in Client : d # c => send'[d] = send[d]
  BY <1>1, SentOne DEF RecvMove
<1>5. Apart(k, c)
  BY <1>1, <1>2, <1>3, <1>4, Holder DEF Apart
<1>6. Live(k, c)'
  <2>1. Plays(k, c)'
    BY <1>1, <1>2, <1>3 DEF Plays, Served, Queued
  <2>2. QED BY <1>1, <1>3, <1>4, <2>1 DEF Live, Still
<1>7. (Inside(k)' => Inside(k)) /\ name'[k] = name[k]
  BY <1>3 DEF Inside
<1>8. QED BY <1>1, <1>5, <1>6, <1>7, StageStep DEF Stage

LEMMA CalmLevelUp == ASSUME CalmInv, NEW w \in Worker, RecvLevelUp(w) PROVE Stages' /\ Distinct'
<1> PICK k, c : k = work[w].slot /\ c = work[w].conn
  OBVIOUS
<1>0. work[w].pc = "play"
  BY DEF RecvLevelUp
<1>1. /\ TypeOK /\ k \in Slot /\ c \in Client /\ Live(k, c) /\ Plays(k, c) /\ socket[k] = c
      /\ \A v \in Worker : work[v].slot = k => v = w
  BY <1>0, ReceiveAlone
<1>2. /\ work'[w].pc = "rearm" /\ work'[w].slot = k /\ work'[w].conn = c
      /\ \A v \in Worker : v # w => work'[v] = work[v]
  BY <1>0, <1>1, GotoAll DEF RecvLevelUp
<1>3. UNCHANGED <<state, name, socket, inSector, playerList, db, phase, key, recv>>
  BY DEF RecvLevelUp
<1>4. \A d \in Client : d # c => send'[d] = send[d]
  BY <1>1, SentOne DEF RecvLevelUp
<1>5. queue' = Append(queue, [op |-> "SAVE_REDIS", slot |-> k])
  BY DEF RecvLevelUp, Request
<1>6. Queued(k, {"SAVE_REDIS"})'
  <2>1. Queued(k, {"SAVE_REDIS"})
    BY <1>1 DEF Plays
  <2>2. PICK e : e = [op |-> "SAVE_REDIS", slot |-> k]
    OBVIOUS
  <2>3. e.slot = k /\ e.op = "SAVE_REDIS" /\ queue' = Append(queue, e)
    BY <1>5, <2>2
  <2>4. Queued(k, {"SAVE_REDIS"} \union {e.op})'
    BY <1>1, <2>1, <2>3, QueueGrows
  <2>5. QED BY <2>3, <2>4 DEF Queued
<1>7. Apart(k, c)
  BY <1>1, <1>2, <1>3, <1>4, <1>5, Holder DEF Apart
<1>8. Live(k, c)'
  <2>1. Plays(k, c)'
    BY <1>1, <1>2, <1>3, <1>6 DEF Plays, Served
  <2>2. QED BY <1>1, <1>3, <1>4, <2>1 DEF Live, Still
<1>9. (Inside(k)' => Inside(k)) /\ name'[k] = name[k]
  BY <1>3 DEF Inside
<1>10. QED BY <1>1, <1>7, <1>8, <1>9, StageStep DEF Stage

(* A broken frame.                                                          *)
LEMMA CalmBroken == ASSUME CalmInv, NEW w \in Worker, RecvBroken(w) PROVE Stages' /\ Distinct'
<1> PICK k, c : k = work[w].slot /\ c = work[w].conn
  OBVIOUS
<1>0. work[w].pc \in {"login", "play"} /\ db.slot # k
  BY DEF RecvBroken, CalmInv, Calm
<1>1. /\ TypeOK /\ k \in Slot /\ c \in Client /\ Live(k, c) /\ (Asks(k, c) \/ Plays(k, c))
      /\ socket[k] = c /\ ~recv[c] /\ \A v \in Worker : work[v].slot = k => v = w
  BY <1>0, ReceiveAlone
<1>2. /\ work'[w].pc = "leave" /\ work'[w].slot = k /\ work'[w].conn = c
      /\ \A v \in Worker : v # w => work'[v] = work[v]
  BY <1>0, <1>1, GotoAll DEF RecvBroken
<1>3. UNCHANGED <<state, name, socket, inSector, playerList, queue, db, phase, key, recv, send>>
  BY DEF RecvBroken, slotVars, connVars
<1>4. Apart(k, None)
  BY <1>1, <1>2, <1>3, NoneAssumption DEF Apart
<1>5. Leaving(k, c)'
  <2>1. Queued(k, {"SAVE_REDIS"})
    BY <1>1 DEF Asks, Plays, Queued
  <2>2. state[k] = "INGAME" => name[k] # NoName
    BY <1>1 DEF Live, Asks, Plays
  <2>3. state[k] # "FREE" /\ k \in playerList /\ Cut(k)
    BY <1>1 DEF Live, Still, Cut
  <2>4. Queued(k, {"SAVE_REDIS"})' /\ Cut(k)'
    BY <1>3, <2>1, <2>3 DEF Queued, Cut
  <2>5. QED BY <1>0, <1>1, <1>2, <1>3, <2>2, <2>3, <2>4 DEF Leaving
<1>6. (Inside(k)' => Inside(k)) /\ name'[k] = name[k]
  BY <1>3 DEF Inside
<1>7. QED BY <1>1, <1>4, <1>5, <1>6, StageStep DEF Stage

(* DoReceive.                                                               *)
LEMMA CalmRearm == ASSUME CalmInv, NEW w \in Worker, Rearm(w) PROVE Stages' /\ Distinct'
<1> PICK k, c : k = work[w].slot /\ c = work[w].conn
  OBVIOUS
<1>0. work[w].pc = "rearm"
  BY DEF Rearm
<1>1. /\ TypeOK /\ k \in Slot /\ c \in Client /\ Live(k, c) /\ socket[k] = c
      /\ \A v \in Worker : work[v].slot = k => v = w
  BY <1>0, ReceiveAlone
<1>2. work'[w].slot = None /\ \A v \in Worker : v # w => work'[v] = work[v]
  BY <1>1, FinishAll DEF Rearm
<1>3. /\ \A d \in Client : d # c => recv'[d] = recv[d]
      /\ UNCHANGED <<state, name, socket, inSector, playerList, queue, db, phase, key, send>>
  BY <1>1, NoneAssumption DEF Rearm, slotVars, TypeOK
<1>4. Apart(k, c)
  BY <1>1, <1>2, <1>3, Holder DEF Apart
<1>5. Live(k, c)'
  <2>1. \A v \in Worker : work'[v].slot # k
    BY <1>1, <1>2, NoneAssumption
  <2>2. \A pcs : Served(k, c, pcs)'
    BY <2>1 DEF Served
  <2>3. \/ Opens(k, c) \/ Waits(k, c) \/ Enters(k, c) \/ Refused(k, c) \/ Plays(k, c)
    BY <1>0, <1>1 DEF Live, Asks, Served
  <2>4. \/ Opens(k, c)' \/ Waits(k, c)' \/ Enters(k, c)' \/ Refused(k, c)' \/ Plays(k, c)'
    BY <1>3, <2>2, <2>3 DEF Opens, Waits, Enters, Refused, Plays, Queued, Once
  <2>5. QED BY <1>1, <1>3, <2>4 DEF Live, Still
<1>6. (Inside(k)' => Inside(k)) /\ name'[k] = name[k]
  BY <1>3 DEF Inside
<1>7. QED BY <1>1, <1>4, <1>5, <1>6, StageStep DEF Stage
(* The teardown.                                                            *)
LEMMA CalmLeave == ASSUME CalmInv, NEW w \in Worker, LeaveSector(w) PROVE Stages' /\ Distinct'
<1> PICK k : k = work[w].slot
  OBVIOUS
<1>0. work[w].pc = "leave"
  BY DEF LeaveSector
<1>1. TypeOK /\ k \in Slot
  BY <1>0, BusyType DEF CalmInv, IInv
<1>2. work'[w].pc = "free" /\ work'[w].slot = k /\ \A v \in Worker : v # w => work'[v] = work[v]
  BY <1>0, <1>1, GotoAll DEF LeaveSector
<1>3. /\ k \notin inSector' /\ \A j \in Slot \ {k} : j \in inSector' <=> j \in inSector
      /\ UNCHANGED <<state, name, socket, playerList, queue, db, phase, key, recv, send>>
  BY DEF LeaveSector, connVars
<1>4. Apart(k, None)
  BY <1>1, <1>2, <1>3, NoneAssumption DEF Apart
<1>5. Stage(k)'
  <2>1. CASE Gone(k)
    <3>1. Gone(k)'
      BY <1>2, <1>3, <2>1 DEF Gone, Queued, Cut
    <3>2. QED BY <3>1 DEF Stage
  <2>2. ASSUME NEW c \in Client, Leaving(k, c) PROVE Leaving(k, c)'
    BY <1>2, <1>3, <2>2 DEF Leaving, Queued, Cut
  <2>3. QED BY <1>0, <2>1, <2>2, TeardownStage DEF Stage
<1>6. (Inside(k)' => Inside(k)) /\ name'[k] = name[k]
  BY <1>3 DEF Inside
<1>7. QED BY <1>4, <1>5, <1>6, StageStep

LEMMA CalmFree == ASSUME CalmInv, NEW w \in Worker, FreeState(w) PROVE Stages' /\ Distinct'
<1> PICK k : k = work[w].slot
  OBVIOUS
<1>0. work[w].pc = "free"
  BY DEF FreeState
<1>1. TypeOK /\ k \in Slot
  BY <1>0, BusyType DEF CalmInv, IInv
<1>2. work'[w].pc = "close" /\ work'[w].slot = k /\ \A v \in Worker : v # w => work'[v] = work[v]
  BY <1>0, <1>1, GotoAll DEF FreeState
<1>3. /\ state'[k] = "FREE" /\ \A j \in Slot \ {k} : state'[j] = state[j]
      /\ UNCHANGED <<name, socket, inSector, playerList, queue, db, phase, key, recv, send>>
  BY <1>1 DEF FreeState, connVars, TypeOK
<1>4. Apart(k, None)
  BY <1>1, <1>2, <1>3, NoneAssumption DEF Apart
<1>5. Gone(k)'
  <2>1. CASE Gone(k)
    BY <1>2, <1>3, <2>1 DEF Gone, Queued, Cut
  <2>2. ASSUME NEW c \in Client, Leaving(k, c) PROVE Gone(k)'
    <3>1. k \notin inSector
      BY <1>0, <2>2 DEF Leaving
    <3>2. \A v \in Worker : work'[v].slot = k => work'[v].pc \in TeardownPc
      BY <1>2, <2>2 DEF Leaving
    <3>3. Queued(k, {"LOGOUT", "SAVE_REDIS"})' /\ Cut(k)' /\ db'.slot # k
      BY <1>3, <2>2 DEF Leaving, Queued, Cut
    <3>4. QED BY <1>3, <3>1, <3>2, <3>3 DEF Gone
  <2>3. QED BY <1>0, <2>1, <2>2, TeardownStage
<1>6. (Inside(k)' => Inside(k)) /\ name'[k] = name[k]
  BY <1>3 DEF Inside
<1>7. QED BY <1>4, <1>5, <1>6, StageStep DEF Stage

(* The rest of the teardown works on a slot that is gone.                   *)
LEMMA TeardownGone ==
    ASSUME CalmInv, NEW w \in Worker, work[w].pc \in {"close", "logout", "delist"},
           NEW k, k = work[w].slot
    PROVE  TypeOK /\ k \in Slot /\ Gone(k)
BY BusyType, TeardownStage DEF CalmInv, IInv

LEMMA CalmSocket == ASSUME CalmInv, NEW w \in Worker, CloseSocket(w) PROVE Stages' /\ Distinct'
<1> PICK k, c : k = work[w].slot /\ c = socket[k]
  OBVIOUS
<1>0. work[w].pc = "close"
  BY DEF CloseSocket
<1>1. TypeOK /\ k \in Slot /\ Gone(k)
  BY <1>0, TeardownGone
<1>2. work'[w].pc = "logout" /\ work'[w].slot = k /\ \A v \in Worker : v # w => work'[v] = work[v]
  BY <1>0, <1>1, GotoAll DEF CloseSocket
<1>3. /\ \A j \in Slot \ {k} : socket'[j] = socket[j]
      /\ \A d \in Client : d # c => phase'[d] = phase[d]
      /\ \A d \in Client : phase'[d] \in {phase[d], "shut"}
      /\ UNCHANGED <<state, name, inSector, playerList, queue, db, key, recv, send>>
  BY <1>1 DEF CloseSocket, Tell, TypeOK
<1>4. Apart(k, c)
  <2>1. c \in Client => /\ key[c] = k /\ \A j \in Slot \ {k} : socket[j] # c
                        /\ \A v \in Worker : work[v].pc \in AcceptPc /\ work[v].slot # k => work[v].conn # c
    BY <1>1, Holder
  <2>2. QED BY <1>1, <1>2, <1>3, <2>1 DEF Apart
<1>5. Gone(k)'
  BY <1>1, <1>2, <1>3 DEF Gone, Queued, Cut
<1>6. (Inside(k)' => Inside(k)) /\ name'[k] = name[k]
  BY <1>3 DEF Inside
<1>7. QED BY <1>4, <1>5, <1>6, StageStep DEF Stage

LEMMA CalmLogout == ASSUME CalmInv, NEW w \in Worker, PushLogout(w) PROVE Stages' /\ Distinct'
<1> PICK k : k = work[w].slot
  OBVIOUS
<1> PICK e : e = [op |-> "LOGOUT", slot |-> k]
  OBVIOUS
<1>0. work[w].pc = "logout"
  BY DEF PushLogout
<1>1. TypeOK /\ k \in Slot /\ Gone(k)
  BY <1>0, TeardownGone
<1>2. work'[w].pc = "delist" /\ work'[w].slot = k /\ \A v \in Worker : v # w => work'[v] = work[v]
  BY <1>0, <1>1, GotoAll DEF PushLogout
<1>3. UNCHANGED <<state, name, socket, inSector, playerList, db, phase, key, recv, send>>
  BY DEF PushLogout, slotVars, connVars
<1>4. queue' = Append(queue, e) /\ e.slot = k /\ e.op = "LOGOUT"
  BY DEF PushLogout, Request
<1>5. Apart(k, None)
  BY <1>1, <1>2, <1>3, <1>4, NoneAssumption DEF Apart
<1>6. Gone(k)'
  <2>1. Queued(k, {"LOGOUT", "SAVE_REDIS"} \union {e.op})'
    BY <1>1, <1>4, QueueGrows DEF Gone
  <2>2. Queued(k, {"LOGOUT", "SAVE_REDIS"})'
    BY <1>4, <2>1 DEF Queued
  <2>3. QED BY <1>1, <1>2, <1>3, <2>2 DEF Gone, Cut
<1>7. (Inside(k)' => Inside(k)) /\ name'[k] = name[k]
  BY <1>3 DEF Inside
<1>8. QED BY <1>5, <1>6, <1>7, StageStep DEF Stage

LEMMA CalmDelist == ASSUME CalmInv, NEW w \in Worker, Delist(w) PROVE Stages' /\ Distinct'
<1> PICK k : k = work[w].slot
  OBVIOUS
<1>0. work[w].pc = "delist"
  BY DEF Delist
<1>1. TypeOK /\ k \in Slot /\ Gone(k)
  BY <1>0, TeardownGone
<1>2. work'[w].slot = None /\ \A v \in Worker : v # w => work'[v] = work[v]
  BY <1>1, FinishAll DEF Delist
<1>3. /\ \A j \in Slot \ {k} : j \in playerList' <=> j \in playerList
      /\ UNCHANGED <<state, name, socket, inSector, queue, db, phase, key, recv, send>>
  BY DEF Delist, connVars
<1>4. Apart(k, None)
  BY <1>1, <1>2, <1>3, NoneAssumption DEF Apart
<1>5. Gone(k)'
  BY <1>1, <1>2, <1>3, NoneAssumption DEF Gone, Queued, Cut
<1>6. (Inside(k)' => Inside(k)) /\ name'[k] = name[k]
  BY <1>3 DEF Inside
<1>7. QED BY <1>4, <1>5, <1>6, StageStep DEF Stage
(* The completions.                                                         *)
LEMMA CalmAccept ==
    ASSUME CalmInv, NEW w \in Worker, NEW c \in Client, Accept(w, c) PROVE Stages' /\ Distinct'
<1>1. PICK k \in Slot : /\ IsNewClientId(k) /\ Quiet(k)
                        /\ state' = [state EXCEPT ![k] = "ACTIVE"]
                        /\ work' = [work EXCEPT ![w] = [pc |-> "reset", slot |-> k, conn |-> c]]
  BY DEF Accept, CalmInv, Calm
<1>2. TypeOK /\ work[w].pc = "idle" /\ armed /\ phase[c] = "new" /\ state[k] = "FREE"
  BY <1>1 DEF CalmInv, IInv, Accept, IsNewClientId, FreeSlot
<1>3. /\ work'[w].slot = k /\ work'[w].pc = "reset" /\ work'[w].conn = c /\ work[w].slot = None
      /\ \A v \in Worker : v # w => work'[v] = work[v]
  BY <1>1, <1>2, BeginAll
<1>4. /\ state'[k] = "ACTIVE" /\ \A j \in Slot \ {k} : state'[j] = state[j]
      /\ phase'[c] = "open" /\ \A d \in Client : d # c => phase'[d] = phase[d]
      /\ UNCHANGED <<name, socket, inSector, playerList, queue, db, key, recv, send>>
  BY <1>1, <1>2 DEF Accept, TypeOK
<1>5. Apart(k, c)
  <2>1. key[c] = None /\ \A j \in Slot : socket[j] # c
    BY <1>2 DEF CalmInv, Fresh, IInv, Unbound
  <2>2. \A v \in Worker : work[v].pc \notin AcceptPc
    BY <1>2 DEF CalmInv, IInv, AcceptChain, Handling
  <2>3. QED BY <1>1, <1>3, <1>4, <2>1, <2>2 DEF Apart
<1>6. Arrives(k, c)'
  <2>1. /\ \A v \in Worker : work[v].slot # k
        /\ db.slot # k
        /\ \A i \in 1 .. Len(queue) : queue[i].slot # k
        /\ \A d \in Client : key[d] = k => ~recv[d] /\ ~send[d]
    BY <1>1 DEF Quiet
  <2>2. Queued(k, {})' /\ Still(k, c)'
    BY <1>4, <2>1 DEF Queued, Still
  <2>3. \A v \in Worker : work'[v].slot = k => v = w
    BY <1>3, <2>1
  <2>4. QED BY <1>3, <1>4, <2>1, <2>2, <2>3 DEF Arrives
<1>7. ~Inside(k)'
  BY <1>1, <1>4 DEF Inside, Quiet
<1>8. QED BY <1>5, <1>6, <1>7, StageStep DEF Stage

LEMMA CalmFull ==
    ASSUME CalmInv, NEW w \in Worker, NEW c \in Client, AcceptFull(w, c) PROVE Stages' /\ Distinct'
<1>1. TypeOK /\ armed /\ phase[c] = "new"
  BY DEF CalmInv, IInv, AcceptFull
<1>2. /\ \A d \in Client : d # c => phase'[d] = phase[d]
      /\ UNCHANGED <<state, name, socket, inSector, playerList, work, queue, db, key, recv, send>>
  BY DEF AcceptFull, slotVars, TypeOK
<1>3. key[c] = None /\ \A j \in Slot : socket[j] # c
  BY <1>1 DEF CalmInv, Fresh, IInv, Unbound
<1>4. \A v \in Worker : work[v].pc \notin AcceptPc
  BY <1>1 DEF CalmInv, IInv, AcceptChain, Handling
<1>5. Apart(None, c)
  BY <1>2, <1>3, <1>4 DEF Apart
<1>6. None \notin Slot
  BY NoneAssumption
<1>7. QED BY <1>5, <1>6, StageStep

LEMMA CalmReceive ==
    ASSUME CalmInv, NEW w \in Worker, NEW c \in Client, Receive(w, c) PROVE Stages' /\ Distinct'
<1> PICK k : k = key[c]
  OBVIOUS
<1>1. /\ TypeOK /\ work[w].pc = "idle" /\ recv[c] /\ phase[c] \in {"open", "in"}
      /\ phase[c] = "open" => ~Accepting(c)
  BY DEF CalmInv, Calm, IInv, Receive
<1>2. k \in Slot
  BY <1>1 DEF CalmInv, IInv, SocketKeyed, TypeOK
<1>3. Live(k, c)
  <2>1. ~Gone(k) /\ \A d \in Client : ~Leaving(k, d)
    BY <1>1 DEF Gone, Leaving, Cut
  <2>2. ~Arrives(k, c)
    BY <1>1 DEF Arrives, Accepting
  <2>3. QED BY <1>1, <1>2, <2>1, <2>2, TransferStage
<1>4. \A v \in Worker : work[v].slot # k
  <2>1. Served(k, c, ReceivePc)
    BY <1>2, <1>3, LiveServed
  <2>2. QED BY <1>1, <2>1 DEF Served
<1>5. /\ UNCHANGED <<state, name, socket, inSector, playerList, queue, db, key, send>>
      /\ recv'[c] = FALSE /\ \A d \in Client : d # c => recv'[d] = recv[d]
  BY <1>1 DEF Receive, slotVars, TypeOK
<1>6. \/ /\ phase[c] = "open" /\ phase'[c] = "asked" /\ \A d \in Client : d # c => phase'[d] = phase[d]
         /\ work' = [work EXCEPT ![w] = [pc |-> "login", slot |-> k, conn |-> c]]
      \/ /\ phase[c] = "in" /\ phase' = phase
         /\ work' = [work EXCEPT ![w] = [pc |-> "play", slot |-> k, conn |-> c]]
  BY <1>1 DEF Receive, TypeOK
<1>7. /\ work'[w].slot = k /\ work'[w].conn = c /\ work[w].slot = None
      /\ work'[w].pc = IF phase[c] = "open" THEN "login" ELSE "play"
      /\ \A v \in Worker : v # w => work'[v] = work[v]
  BY <1>1, <1>6, BeginAll
<1>8. socket[k] = c
  BY <1>3 DEF Live
<1>9. Apart(k, c)
  <2>1. \A d \in Client : d # c => phase'[d] = phase[d]
    BY <1>6
  <2>2. QED BY <1>2, <1>5, <1>7, <1>8, <2>1, Holder DEF Apart
<1>10. Live(k, c)'
  <2>1. \A v \in Worker : work'[v].slot = k => v = w
    BY <1>4, <1>7
  <2>2. CASE phase[c] = "open"
    <3>1. Opens(k, c) /\ state[k] = "ACTIVE"
      BY <1>3, <2>2 DEF Live, Opens, Asks, Waits, Enters, Refused, Plays
    <3>2. Asks(k, c)'
      BY <1>5, <1>6, <1>7, <2>1, <2>2, <3>1 DEF Opens, Asks, Queued, Served
    <3>3. state'[k] = IF phase'[c] = "in" /\ db'.slot # k THEN "INGAME" ELSE "ACTIVE"
      BY <1>5, <1>6, <2>2, <3>1
    <3>4. QED BY <1>3, <1>5, <3>2, <3>3 DEF Live, Still
  <2>3. CASE phase[c] = "in"
    <3>1. Plays(k, c)
      BY <1>3, <2>3 DEF Live, Opens, Asks, Waits, Enters, Refused, Plays
    <3>2. Plays(k, c)'
      BY <1>5, <1>6, <1>7, <2>1, <2>3, <3>1 DEF Plays, Queued, Served
    <3>3. phase' = phase
      BY <1>6, <2>3
    <3>4. QED BY <1>3, <1>5, <3>2, <3>3 DEF Live, Still
  <2>4. QED BY <1>1, <2>2, <2>3
<1>11. (Inside(k)' => Inside(k)) /\ name'[k] = name[k]
  BY <1>5 DEF Inside
<1>12. QED BY <1>2, <1>9, <1>10, <1>11, StageStep DEF Stage

(* A failed completion starts a teardown of the slot of its connection.     *)
LEMMA CalmFail ==
    ASSUME CalmInv, NEW w \in Worker, NEW c \in Client, RecvFail(w, c) \/ SendFail(w, c)
    PROVE  Stages' /\ Distinct'
<1> PICK k : k = key[c]
  OBVIOUS
<1>1. TypeOK /\ work[w].pc = "idle" /\ (recv[c] \/ send[c]) /\ phase[c] = "shut"
  BY DEF CalmInv, IInv, RecvFail, SendFail
<1>2. k \in Slot
  BY <1>1 DEF CalmInv, IInv, SocketKeyed, TypeOK
<1>3. Gone(k) \/ \E d \in Client : Leaving(k, d)
  <2>1. ~Arrives(k, c)
    BY <1>1 DEF Arrives
  <2>2. ~Live(k, c)
    BY <1>1, <1>2, LiveServed
  <2>3. QED BY <1>1, <1>2, <2>1, <2>2, TransferStage
<1>4. /\ UNCHANGED <<state, name, socket, inSector, playerList, queue, db, phase, key>>
      /\ \A d \in Client : (recv'[d] => recv[d]) /\ (send'[d] => send[d])
      /\ \A d \in Client : d # c => recv'[d] = recv[d]
  BY <1>1 DEF RecvFail, SendFail, slotVars, TypeOK
<1>5. work' = [work EXCEPT ![w] = [pc |-> "leave", slot |-> k, conn |-> c]]
  BY DEF RecvFail, SendFail
<1>6. /\ work'[w].slot = k /\ work'[w].pc = "leave" /\ work[w].slot = None
      /\ \A v \in Worker : v # w => work'[v] = work[v]
  BY <1>1, <1>5, BeginAll
<1>7. Apart(k, c)
  <2>1. \A j \in Slot \ {k} : socket[j] # c
    BY NoneAssumption DEF CalmInv, IInv, SocketKeyed
  <2>2. \A v \in Worker : work[v].pc \in AcceptPc => work[v].conn # c
    <3>1. \A v \in Worker : work[v].pc \in AcceptPc => Arrives(work[v].slot, work[v].conn)
      BY AcceptStage
    <3>2. QED BY <1>1, <3>1 DEF Arrives
  <2>3. QED BY <1>2, <1>4, <1>6, <2>1, <2>2 DEF Apart
<1>8. Stage(k)'
  <2>1. CASE Gone(k)
    <3>1. Gone(k)'
      BY <1>4, <1>6, <2>1 DEF Gone, Queued, Cut
    <3>2. QED BY <3>1 DEF Stage
  <2>2. ASSUME NEW d \in Client, Leaving(k, d) PROVE Leaving(k, d)'
    BY <1>4, <1>6, <2>2 DEF Leaving, Queued, Cut
  <2>3. QED BY <1>3, <2>1, <2>2 DEF Stage
<1>9. (Inside(k)' => Inside(k)) /\ name'[k] = name[k]
  BY <1>4 DEF Inside
<1>10. QED BY <1>7, <1>8, <1>9, StageStep
(* The database thread.  It takes a request when it works on no slot.       *)
LEMMA TakeAll ==
    ASSUME CalmInv, NEW op, NEW pc, Take(op, pc)
    PROVE  /\ TypeOK /\ db.slot = None /\ queue # <<>> /\ queue' = Tail(queue)
           /\ Head(queue).op = op /\ Head(queue).slot \in Slot
           /\ pc = "idle" => db' = DbIdle /\ db'.slot = None
           /\ pc # "idle" => db'.pc = pc /\ db'.slot = Head(queue).slot
<1>1. TypeOK /\ db.slot = None
  BY DEF CalmInv, IInv, TypeOK, Take, DbIdle, BusyDb
<1>2. Head(queue) \in DbRequest
  BY <1>1 DEF TypeOK, Take
<1>3. QED BY <1>1, <1>2 DEF Take, DbIdle, DbRequest

\* What a slot whose request is next is at.
LEMMA NextRequest ==
    ASSUME CalmInv, NEW op, NEW pc, Take(op, pc), NEW k, k = Head(queue).slot
    PROVE  /\ op = "LOGIN" => \E c \in Client : Live(k, c) /\ Waits(k, c)
           /\ op = "LOGOUT" => Gone(k)
<1>1. TypeOK /\ queue # <<>> /\ queue' = Tail(queue) /\ Head(queue).op = op /\ k \in Slot
  BY TakeAll
<1>2. \A ops : Queued(k, ops) => op \in ops
  BY <1>1, QueueShrinks
<1>3. CASE Gone(k)
  BY <1>2, <1>3 DEF Gone
<1>4. ASSUME NEW c \in Client, Arrives(k, c) \/ Leaving(k, c) PROVE op \notin {"LOGIN", "LOGOUT"}
  BY <1>2, <1>4 DEF Arrives, Leaving
<1>5. ASSUME NEW c \in Client, Live(k, c) PROVE op # "LOGOUT" /\ (op = "LOGIN" => Waits(k, c))
  BY <1>2, <1>5 DEF Live, Opens, Asks, Waits, Enters, Refused, Plays
<1>6. QED BY <1>1, <1>3, <1>4, <1>5, StageOf

LEMMA CalmRefuse ==
    ASSUME CalmInv, LoginDenied \/ LoginSqlFails PROVE Stages' /\ Distinct'
<1> PICK k : k = Head(queue).slot
  OBVIOUS
<1>1. Take("LOGIN", "idle") /\ Refuse(k)
  BY DEF LoginDenied, LoginSqlFails
<1>2. /\ TypeOK /\ db.slot = None /\ queue # <<>> /\ queue' = Tail(queue)
      /\ k \in Slot /\ db'.slot = None /\ Head(queue).slot = k
  BY <1>1, TakeAll
<1>3. PICK c \in Client : Live(k, c) /\ Waits(k, c)
  BY <1>1, NextRequest
<1>4. socket[k] = c /\ phase[c] = "asked" /\ state[k] = "ACTIVE" /\ c # None
  BY <1>3, NoneAssumption DEF Live, Waits
<1>5. /\ \A j \in Slot \ {k} : name'[j] = name[j]
      /\ phase'[c] = "denied" /\ \A d \in Client : d # c => phase'[d] = phase[d]
      /\ \A d \in Client : d # c => send'[d] = send[d]
  <2>1. send' = Sent(k) /\ Tell(k, "denied") /\ name' = [name EXCEPT ![k] = NoName]
    BY <1>1 DEF Refuse
  <2>2. \A d \in Client : d # c => send'[d] = send[d]
    BY <1>2, <1>4, <2>1, SentOne
  <2>3. QED BY <1>2, <1>4, <2>1, <2>2 DEF Tell, TypeOK
<1>6. UNCHANGED <<state, socket, inSector, playerList, work, key, recv>>
  BY DEF LoginDenied, LoginSqlFails
<1>7. Apart(k, c)
  BY <1>2, <1>4, <1>5, <1>6, Holder DEF Apart
<1>8. Live(k, c)'
  <2>1. Queued(k, {})'
    BY <1>2, <1>3, QueueShrinks DEF Waits
  <2>2. db'.slot # k
    BY <1>2, NoneAssumption
  <2>3. Refused(k, c)'
    BY <1>3, <1>5, <1>6, <2>1, <2>2 DEF Refused, Waits, Served
  <2>4. QED BY <1>3, <1>4, <1>5, <1>6, <2>3 DEF Live, Still
<1>9. ~Inside(k)'
  BY <1>2, <1>4, <1>6, NoneAssumption DEF Inside
<1>10. QED BY <1>2, <1>7, <1>8, <1>9, StageStep DEF Stage

\* A slot inside is one that DBLogin compares names with.
LEMMA InsideListed == ASSUME CalmInv, NEW j \in Slot, Inside(j) PROVE j \in playerList
<1>1. ~Gone(j) /\ \A c \in Client : ~Arrives(j, c)
  BY DEF Inside, Gone, Arrives
<1>2. PICK c \in Client : Leaving(j, c) \/ Live(j, c)
  BY <1>1, StageOf
<1>3. QED BY <1>2 DEF Leaving, Live, Inside

LEMMA CalmLoad == ASSUME CalmInv, LoginLoad PROVE Stages' /\ Distinct'
<1> PICK k : k = Head(queue).slot
  OBVIOUS
<1>1. Take("LOGIN", "enter") /\ ~AlreadyPlaying(k)
  BY DEF LoginLoad
<1>2. /\ TypeOK /\ db.slot = None /\ queue # <<>> /\ queue' = Tail(queue)
      /\ k \in Slot /\ db'.slot = k /\ db'.pc = "enter" /\ Head(queue).slot = k
  BY <1>1, TakeAll
<1>3. PICK c \in Client : Live(k, c) /\ Waits(k, c)
  BY <1>1, NextRequest
<1>4. UNCHANGED <<state, name, socket, inSector, playerList, work, phase, key, recv, send>>
  BY DEF LoginLoad, connVars
<1>5. Apart(k, None)
  BY <1>2, <1>4, NoneAssumption DEF Apart
<1>6. Live(k, c)'
  <2>1. Queued(k, {})'
    BY <1>2, <1>3, QueueShrinks DEF Waits
  <2>2. Enters(k, c)'
    BY <1>2, <1>3, <1>4, <2>1 DEF Enters, Waits, Served
  <2>3. state[k] = "ACTIVE" /\ phase[c] = "asked"
    BY <1>3 DEF Live, Waits
  <2>4. QED BY <1>3, <1>4, <2>2, <2>3 DEF Live, Still
<1>7. ASSUME NEW j \in Slot, j # k PROVE Stage(j)' /\ (Inside(j)' <=> Inside(j)) /\ name'[j] = name[j]
  <2>1. Stage(j)
    BY DEF CalmInv, Stages
  <2>2. QED BY <1>2, <1>5, <1>7, <2>1, StageElsewhere
<1>8. Stages'
  BY <1>6, <1>7 DEF Stages, Stage
<1>9. \A j \in Slot : Inside(j) /\ j # k => name[j] # name[k]
  BY <1>1, InsideListed DEF AlreadyPlaying
<1>10. Distinct'
  <2>1. ASSUME NEW i \in Slot, NEW j \in Slot, Inside(i)', Inside(j)', name'[i] = name'[j] PROVE i = j
    <3>1. name[i] = name[j] /\ (i # k => Inside(i)) /\ (j # k => Inside(j))
      BY <1>4, <1>7, <2>1
    <3>2. CASE i # k /\ j # k
      BY <3>1, <3>2 DEF CalmInv, Distinct
    <3>3. QED BY <1>9, <3>1, <3>2
  <2>2. QED BY <2>1 DEF Distinct
<1>11. QED BY <1>8, <1>10

(* EnterGame puts the player in the game, step by step.                     *)
LEMMA CalmEnter == ASSUME CalmInv, EnterGame PROVE Stages' /\ Distinct'
<1> PICK k : k = db.slot
  OBVIOUS
<1>1. TypeOK /\ k \in Slot /\ db.pc = "enter" /\ db \in BusyDb
  BY DbType DEF CalmInv, IInv, EnterGame
<1>2. PICK c \in Client : Live(k, c) /\ Enters(k, c)
  BY <1>1, SaveStage
<1>3. socket[k] = c /\ phase[c] = "asked" /\ state[k] = "ACTIVE" /\ c # None
  BY <1>2, NoneAssumption DEF Live, Enters
<1>4. /\ phase'[c] = "in" /\ \A d \in Client : d # c => phase'[d] = phase[d]
      /\ \A d \in Client : d # c => send'[d] = send[d]
  <2>1. send' = Sent(k) /\ Tell(k, "in")
    BY DEF EnterGame
  <2>2. \A d \in Client : d # c => send'[d] = send[d]
    BY <1>1, <1>3, <2>1, SentOne
  <2>3. QED BY <1>1, <1>3, <2>1, <2>2 DEF Tell, TypeOK
<1>5. /\ db'.slot = k /\ db'.pc = "place"
      /\ UNCHANGED <<state, name, socket, inSector, playerList, work, queue, key, recv>>
  BY <1>1 DEF EnterGame, BusyDb
<1>6. Apart(k, c)
  BY <1>1, <1>3, <1>4, <1>5, Holder DEF Apart
<1>7. Live(k, c)'
  <2>1. Queued(k, {"SAVE_REDIS"})'
    BY <1>2, <1>5 DEF Enters, Queued
  <2>2. Plays(k, c)'
    BY <1>2, <1>4, <1>5, <2>1 DEF Plays, Enters, Served
  <2>3. QED BY <1>2, <1>3, <1>4, <1>5, <2>2 DEF Live, Still
<1>8. Inside(k) /\ name'[k] = name[k]
  BY <1>1, <1>5 DEF Inside
<1>9. QED BY <1>1, <1>6, <1>7, <1>8, StageStep DEF Stage

LEMMA CalmPlace == ASSUME CalmInv, EnterSector PROVE Stages' /\ Distinct'
<1> PICK k : k = db.slot
  OBVIOUS
<1>1. TypeOK /\ k \in Slot /\ db.pc = "place" /\ db \in BusyDb
  BY DbType DEF CalmInv, IInv, EnterSector
<1>2. PICK c \in Client : Live(k, c) /\ Plays(k, c)
  BY <1>1, SaveStage
<1>3. /\ db'.slot = k /\ db'.pc = "ingame" /\ \A j \in Slot \ {k} : j \in inSector' <=> j \in inSector
      /\ UNCHANGED <<state, name, socket, playerList, work, queue, phase, key, recv, send>>
  BY <1>1 DEF EnterSector, BusyDb, connVars
<1>4. Apart(k, None)
  BY <1>1, <1>3, NoneAssumption DEF Apart
<1>5. Live(k, c)'
  <2>1. Plays(k, c)'
    BY <1>1, <1>2, <1>3 DEF Plays, Served, Queued
  <2>2. QED BY <1>1, <1>2, <1>3, <2>1 DEF Live, Still
<1>6. Inside(k) /\ name'[k] = name[k]
  BY <1>1, <1>3 DEF Inside
<1>7. QED BY <1>1, <1>4, <1>5, <1>6, StageStep DEF Stage

LEMMA CalmIngame == ASSUME CalmInv, EnterIngame PROVE Stages' /\ Distinct'
<1> PICK k : k = db.slot
  OBVIOUS
<1>1. TypeOK /\ k \in Slot /\ db.pc = "ingame"
  BY DbType DEF CalmInv, IInv, EnterIngame
<1>2. PICK c \in Client : Live(k, c) /\ Plays(k, c)
  BY <1>1, SaveStage
<1>3. /\ db'.slot = None /\ k # None
      /\ state'[k] = "INGAME" /\ \A j \in Slot \ {k} : state'[j] = state[j]
      /\ UNCHANGED <<name, socket, inSector, playerList, work, queue, phase, key, recv, send>>
  BY <1>1, NoneAssumption DEF EnterIngame, DbIdle, connVars, TypeOK
<1>4. Apart(k, None)
  BY <1>1, <1>3, NoneAssumption DEF Apart
<1>5. Live(k, c)'
  <2>1. Plays(k, c)' /\ phase[c] = "in"
    BY <1>2, <1>3 DEF Plays, Served, Queued
  <2>2. QED BY <1>2, <1>3, <2>1 DEF Live, Still
<1>6. Inside(k) /\ name'[k] = name[k]
  BY <1>1, <1>3 DEF Inside
<1>7. QED BY <1>1, <1>4, <1>5, <1>6, StageStep DEF Stage
(* A request that ends at once only shortens the queue.                     *)
LEMMA CalmShort == ASSUME CalmInv, LogoutIgnored \/ SaveRedis PROVE Stages' /\ Distinct'
<1>1. PICK op : Take(op, "idle")
  BY DEF LogoutIgnored, SaveRedis
<1>2. db.slot = None /\ db'.slot = None /\ queue # <<>> /\ queue' = Tail(queue)
  BY <1>1, TakeAll
<1>3. UNCHANGED <<state, name, socket, inSector, playerList, work, phase, key, recv, send>>
  BY DEF LogoutIgnored, SaveRedis, slotVars, connVars
<1>4. None \notin Slot /\ None \notin Client
  BY NoneAssumption
<1>5. Apart(None, None)
  BY <1>2, <1>3, <1>4 DEF Apart
<1>6. QED BY <1>4, <1>5, StageStep

(* DBLogout.                                                                *)
LEMMA CalmTake == ASSUME CalmInv, LogoutTake PROVE Stages' /\ Distinct'
<1> PICK k : k = Head(queue).slot
  OBVIOUS
<1>1. Take("LOGOUT", "sql")
  BY DEF LogoutTake
<1>2. /\ TypeOK /\ db.slot = None /\ queue # <<>> /\ queue' = Tail(queue)
      /\ k \in Slot /\ db'.slot = k /\ db'.pc = "sql"
  BY <1>1, TakeAll
<1>3. Gone(k)
  BY <1>1, NextRequest
<1>4. UNCHANGED <<state, name, socket, inSector, playerList, work, phase, key, recv, send>>
  BY DEF LogoutTake, slotVars, connVars
<1>5. Apart(k, None)
  BY <1>2, <1>4, NoneAssumption DEF Apart
<1>6. Gone(k)'
  <2>1. Queued(k, {"LOGOUT", "SAVE_REDIS"})'
    BY <1>2, <1>3, QueueShrinks DEF Gone
  <2>2. QED BY <1>2, <1>3, <1>4, <2>1 DEF Gone, Cut
<1>7. ~Inside(k)'
  BY <1>2, <1>3, <1>4 DEF Inside, Gone
<1>8. QED BY <1>5, <1>6, <1>7, StageStep DEF Stage

LEMMA CalmSave == ASSUME CalmInv, LogoutSql \/ LogoutRedis \/ LogoutClear PROVE Stages' /\ Distinct'
<1> PICK k : k = db.slot
  OBVIOUS
<1>1. TypeOK /\ k \in Slot /\ db.pc \in {"sql", "redis", "clear"} /\ db \in BusyDb
  BY DbType DEF CalmInv, IInv, LogoutSql, LogoutRedis, LogoutClear
<1>2. Gone(k)
  BY <1>1, SaveStage
<1>3. (db'.slot = k /\ db'.pc \in {"sql", "redis", "clear"}) \/ db'.slot = None
  <2>1. CASE LogoutSql
    BY <1>1, <2>1 DEF LogoutSql, BusyDb
  <2>2. CASE LogoutRedis
    BY <1>1, <2>2 DEF LogoutRedis, BusyDb
  <2>3. CASE LogoutClear
    BY <2>3 DEF LogoutClear, DbIdle
  <2>4. QED BY <2>1, <2>2, <2>3
<1>4. /\ \A j \in Slot \ {k} : name'[j] = name[j]
      /\ UNCHANGED <<state, socket, inSector, playerList, work, queue, phase, key, recv, send>>
  BY <1>1 DEF LogoutSql, LogoutRedis, LogoutClear, slotVars, connVars, TypeOK
<1>5. Apart(k, None)
  BY <1>1, <1>3, <1>4, NoneAssumption DEF Apart
<1>6. Gone(k)'
  BY <1>1, <1>2, <1>3, <1>4, NoneAssumption DEF Gone, Queued, Cut
<1>7. ~Inside(k)'
  BY <1>1, <1>2, <1>3, <1>4, NoneAssumption DEF Inside, Gone
<1>8. QED BY <1>5, <1>6, <1>7, StageStep DEF Stage

(* A client closes its connection, in a calm environment: nothing works on  *)
(* it, and its login has been answered.                                     *)
LEMMA CalmGoodbye ==
    ASSUME CalmInv, NEW c \in Client, ClientClose(c) PROVE Stages' /\ Distinct'
<1> PICK k : k = key[c]
  OBVIOUS
<1>1. /\ TypeOK /\ phase[c] \in {"open", "in", "denied"}
      /\ \A w \in Worker : work[w].conn # c
      /\ db.slot = None \/ db.slot # k
  BY DEF ClientClose, CalmInv, Calm, IInv, Serving
<1>2. /\ phase'[c] = "shut" /\ \A d \in Client : d # c => phase'[d] = phase[d]
      /\ UNCHANGED <<state, name, socket, inSector, playerList, work, queue, db, key, recv, send>>
  BY <1>1 DEF ClientClose, slotVars, TypeOK
<1>3. Apart(k, c)
  <2>1. \A j \in Slot \ {k} : socket[j] # c
    BY NoneAssumption DEF CalmInv, IInv, SocketKeyed
  <2>2. QED BY <1>1, <1>2, <2>1 DEF Apart
<1>4. ASSUME k \in Slot PROVE Stage(k)'
  <2>1. CASE Gone(k)
    <3>1. Gone(k)'
      BY <1>2, <2>1 DEF Gone, Queued, Cut
    <3>2. QED BY <3>1 DEF Stage
  <2>2. ASSUME NEW d \in Client, Leaving(k, d) PROVE Leaving(k, d)'
    BY <1>2, <2>2 DEF Leaving, Queued, Cut
  <2>3. ASSUME NEW d \in Client, Arrives(k, d) PROVE Arrives(k, d)'
    <3>1. d # c
      BY <1>1, <2>3 DEF Arrives
    <3>2. QED BY <1>2, <2>3, <3>1 DEF Arrives, Queued, Still
  <2>4. ASSUME NEW d \in Client, d # c, Live(k, d) PROVE Live(k, d)'
    <3>1. phase'[d] = phase[d]
      BY <1>2, <2>4
    <3>2. QED BY <1>2, <2>4, <3>1 DEF Live, Still, Opens, Asks, Waits, Enters, Refused, Plays,
                                      Queued, Once, Served
  <2>5. CASE Live(k, c)
    <3>1. Opens(k, c) \/ Refused(k, c) \/ Plays(k, c)
      BY <1>1, <2>5 DEF Live, Opens, Asks, Waits, Enters, Refused, Plays
    <3>2. \A w \in Worker : work[w].slot # k
      BY <1>1, <3>1 DEF Opens, Refused, Plays, Served
    <3>3. Queued(k, {"SAVE_REDIS"}) /\ db.slot # k
      BY <1>1, <1>4, <3>1, NoneAssumption DEF Opens, Refused, Plays, Queued
    <3>4. /\ state[k] # "FREE" /\ socket[k] = c /\ k \in playerList
          /\ state[k] = "INGAME" => name[k] # NoName
      BY <2>5 DEF Live, Plays, Opens, Asks, Waits, Enters, Refused
    <3>5. Cut(k)'
      BY <1>2, <2>5 DEF Live, Still, Cut
    <3>6. Leaving(k, c)'
      BY <1>2, <3>2, <3>3, <3>4, <3>5 DEF Leaving, Queued
    <3>7. QED BY <3>6 DEF Stage
  <2>6. QED BY <1>4, <2>1, <2>2, <2>3, <2>4, <2>5, StageOf DEF Stage
<1>5. (Inside(k)' => Inside(k)) /\ name'[k] = name[k]
  BY <1>2 DEF Inside
<1>6. QED BY <1>3, <1>4, <1>5, StageStep

(* A completed WSASend, and the steps that concern no slot.                 *)
LEMMA CalmOther ==
    ASSUME CalmInv,
           \/ \E c \in Client : SendDone(c)
           \/ \E n \in Name : RedisExpire(n)
           \/ UNCHANGED vars
    PROVE  Stages' /\ Distinct'
<1>1. UNCHANGED <<state, name, socket, inSector, playerList, work, queue, db, phase, key, recv>>
  BY DEF SendDone, RedisExpire, vars, slotVars, connVars
<1>2. \A d \in Client : send'[d] => send[d]
  <2>1. TypeOK
    BY DEF CalmInv, IInv
  <2>2. CASE \E c \in Client : SendDone(c)
    BY <2>1, <2>2 DEF SendDone, TypeOK
  <2>3. CASE ~\E c \in Client : SendDone(c)
    BY <2>3 DEF RedisExpire, vars, connVars
  <2>4. QED BY <2>2, <2>3
<1>3. None \notin Slot /\ None \notin Client
  BY NoneAssumption
<1>4. Apart(None, None)
  BY <1>1, <1>2, <1>3 DEF Apart
<1>5. QED BY <1>3, <1>4, StageStep

LEMMA CalmRestart == ASSUME Restart PROVE Stages' /\ Distinct'
<1>1. ASSUME NEW k \in Slot PROVE Gone(k)' /\ ~Inside(k)'
  <2>1. k # None
    BY NoneAssumption
  <2>2. /\ state'[k] = "FREE" /\ inSector' = {} /\ queue' = <<>> /\ db'.slot = None
        /\ \A w \in Worker : work'[w].slot = None
        /\ \A c \in Client : ~recv'[c]
    BY DEF Restart, Idle, DbIdle
  <2>3. Queued(k, {"LOGOUT", "SAVE_REDIS"})'
    BY <2>2 DEF Queued
  <2>4. QED BY <2>1, <2>2, <2>3 DEF Gone, Inside, Cut
<1>2. QED BY <1>1 DEF Stages, Stage, Distinct
(* A connection that nobody has accepted has no slot.                       *)
LEMMA KeepFresh == ASSUME IInv, Fresh, [Next]_vars PROVE Fresh'
<1> SUFFICES ASSUME NEW c \in Client, phase'[c] = "new" PROVE key'[c] = None
  BY DEF Fresh
<1>0. TypeOK
  BY DEF IInv
<1>1. CASE Restart
  BY <1>1 DEF Restart
<1>2. CASE ~Restart
  <2>1. phase' = phase => phase[c] = "new"
    OBVIOUS
  <2>2. \A d \in Client : \A news : phase' = [phase EXCEPT ![d] = news] /\ news # "new" => phase[c] = "new"
    BY <1>0 DEF TypeOK
  <2>3. \A k \in Slot, news \in {"in", "denied", "shut"} : Tell(k, news) => phase[c] = "new"
    BY TellInv
  <2>4. ASSUME NEW w \in Worker, Handler(w) PROVE phase[c] = "new"
    <3>1. CASE CloseSocket(w)
      <4>1. work[w].slot \in Slot
        BY <1>0, <3>1, BusyType DEF CloseSocket
      <4>2. Tell(work[w].slot, "shut")
        BY <3>1 DEF CloseSocket
      <4>3. QED BY <2>3, <4>1, <4>2
    <3>2. CASE AcceptReset(w) \/ AcceptBind(w) \/ AcceptEnlist(w) \/ RecvLogin(w) \/ RecvMove(w)
      BY <2>1, <3>2 DEF AcceptReset, AcceptBind, AcceptEnlist, RecvLogin, RecvMove, connVars
    <3>3. CASE RecvLevelUp(w) \/ RecvBroken(w) \/ Rearm(w) \/ LeaveSector(w) \/ FreeState(w)
      BY <2>1, <3>3 DEF RecvLevelUp, RecvBroken, Rearm, LeaveSector, FreeState, connVars
    <3>4. CASE PushLogout(w) \/ Delist(w)
      BY <2>1, <3>4 DEF PushLogout, Delist, connVars
    <3>5. CASE RecvNoLogin(w)
      <4>1. work[w].slot \in Slot
        BY <1>0, <3>5, BusyType DEF RecvNoLogin
      <4>2. CASE Tell(work[w].slot, "denied")
        BY <2>3, <4>1, <4>2
      <4>3. CASE \/ phase' = phase
                 \/ phase[work[w].conn] = "asked" /\ phase' = [phase EXCEPT ![work[w].conn] = "open"]
        BY <1>0, <2>1, <4>3 DEF TypeOK
      <4>4. QED BY <3>5, <4>2, <4>3 DEF RecvNoLogin
    <3>6. QED BY <2>4, <3>1, <3>2, <3>3, <3>4, <3>5 DEF Handler
  <2>5. ASSUME NEW w \in Worker, NEW d \in Client, Completion(w, d) PROVE phase[c] = "new"
    BY <2>1, <2>2, <2>5 DEF Completion, Accept, AcceptFull, Receive, RecvFail, SendFail
  <2>6. ASSUME DbStep PROVE phase[c] = "new"
    <3>1. \/ phase' = phase
          \/ Tell(Head(queue).slot, "denied") /\ Take("LOGIN", "idle")
          \/ Tell(db.slot, "in") /\ db.pc = "enter"
      BY <2>6 DEF DbStep, LoginDenied, LoginSqlFails, LoginLoad, EnterGame, EnterSector, EnterIngame,
                  LogoutIgnored, LogoutTake, LogoutSql, LogoutRedis, LogoutClear, SaveRedis, Refuse, connVars
    <3>2. CASE Tell(Head(queue).slot, "denied") /\ Take("LOGIN", "idle")
      <4>1. Head(queue).slot \in Slot
        BY <1>0, <3>2, TakeType
      <4>2. QED BY <2>3, <3>2, <4>1
    <3>3. CASE Tell(db.slot, "in") /\ db.pc = "enter"
      <4>1. db.slot \in Slot
        BY <1>0, <3>3, DbType
      <4>2. QED BY <2>3, <3>3, <4>1
    <3>4. QED BY <2>1, <3>1, <3>2, <3>3
  <2>7. phase[c] = "new"
    <3>1. CASE \E d \in Client : SendDone(d) \/ ClientClose(d)
      BY <2>1, <2>2, <3>1 DEF SendDone, ClientClose
    <3>2. CASE (\E n \in Name : RedisExpire(n)) \/ UNCHANGED vars
      BY <2>1, <3>2 DEF RedisExpire, vars, connVars
    <3>3. QED BY <1>2, <2>4, <2>5, <2>6, <3>1, <3>2 DEF Next
  <2>8. key' = key \/ \E w \in Worker : AcceptBind(w)
    BY <1>2 DEF Next, Handler, AcceptReset, AcceptEnlist, RecvLogin, RecvNoLogin, RecvMove, RecvLevelUp, RecvBroken,
                Rearm, LeaveSector, FreeState, CloseSocket, PushLogout, Delist,
                Completion, Accept, AcceptFull, Receive, RecvFail, SendFail,
                DbStep, LoginDenied, LoginSqlFails, LoginLoad, EnterGame, EnterSector, EnterIngame,
                LogoutIgnored, LogoutTake, LogoutSql, LogoutRedis, LogoutClear, SaveRedis,
                SendDone, ClientClose, RedisExpire, vars, connVars
  <2>9. ASSUME NEW w \in Worker, AcceptBind(w) PROVE key'[c] = key[c]
    <3>1. work[w].conn # c /\ key' = [key EXCEPT ![work[w].conn] = work[w].slot]
      BY <2>7, <2>9, SlotAssumption DEF AcceptBind, IInv, Unbound, Slot
    <3>2. QED BY <1>0, <3>1 DEF TypeOK
  <2>10. QED BY <2>7, <2>8, <2>9 DEF Fresh
<1>3. QED BY <1>1, <1>2

(* The start, and every step.                                               *)
LEMMA InitCalm == Init /\ Calm => CalmInv
<1> SUFFICES ASSUME Init, Calm PROVE CalmInv
  OBVIOUS
<1>1. IInv
  BY InitInv
<1>2. Fresh
  BY DEF Init, Fresh
<1>3. ASSUME NEW k \in Slot PROVE Gone(k) /\ ~Inside(k)
  <2>1. /\ k # None /\ state[k] = "FREE" /\ inSector = {} /\ queue = <<>> /\ db.slot = None
        /\ \A w \in Worker : work[w].slot = None
        /\ \A c \in Client : ~recv[c]
    BY NoneAssumption DEF Init, Idle, DbIdle
  <2>2. Queued(k, {"LOGOUT", "SAVE_REDIS"})
    BY <2>1 DEF Queued
  <2>3. QED BY <2>1, <2>2 DEF Gone, Inside, Cut
<1>4. QED BY <1>1, <1>2, <1>3 DEF CalmInv, Stages, Stage, Distinct

LEMMA NextCalm == CalmInv /\ [Next]_vars => CalmInv'
<1> SUFFICES ASSUME CalmInv, [Next]_vars PROVE CalmInv'
  OBVIOUS
<1>1. IInv' /\ Fresh' /\ Calm'
  BY NextInv, KeepFresh DEF CalmInv, Calm
<1> SUFFICES Stages' /\ Distinct'
  BY <1>1 DEF CalmInv
<1>2. CASE \E w \in Worker : Handler(w)
  BY <1>2, CalmReset, CalmBind, CalmEnlist, CalmLogins, CalmNoLogin, CalmMove, CalmLevelUp, CalmBroken, CalmRearm,
     CalmLeave, CalmFree, CalmSocket, CalmLogout, CalmDelist DEF Handler
<1>3. CASE \E w \in Worker, c \in Client : Completion(w, c)
  BY <1>3, CalmAccept, CalmFull, CalmReceive, CalmFail DEF Completion
<1>4. CASE DbStep
  BY <1>4, CalmRefuse, CalmLoad, CalmEnter, CalmPlace, CalmIngame, CalmShort, CalmTake, CalmSave DEF DbStep
<1>5. CASE Restart
  BY <1>5, CalmRestart
<1>6. CASE \E c \in Client : ClientClose(c)
  BY <1>6, CalmGoodbye
<1>7. CASE \/ \E c \in Client : SendDone(c)
           \/ \E n \in Name : RedisExpire(n)
           \/ UNCHANGED vars
  BY <1>7, CalmOther
<1>8. QED BY <1>2, <1>3, <1>4, <1>5, <1>6, <1>7 DEF Next

LEMMA CalmInvariance == Calm /\ Spec => []CalmInv
<1>1. Init /\ Calm => CalmInv
  BY InitCalm
<1>2. CalmInv /\ [Next]_vars => CalmInv'
  BY NextCalm
<1> QED
  BY <1>1, <1>2, PTL DEF Spec

----------------------------------------------------------------------------
\* Among calm connections no two players in the game have one name, though a
\* name is written before it is checked, the check takes no lock, and the slots
\* of finished sessions are still being torn down (Player.cpp:244-255, 585).
THEOREM NamesAreDistinct == Calm /\ Spec => []NoDuplicateLogin
<1>1. CalmInv => NoDuplicateLogin
  BY DEF CalmInv, Distinct, NoDuplicateLogin, Playing, Inside
<1> QED
  BY <1>1, CalmInvariance, PTL

----------------------------------------------------------------------------
(* Which records are still to be saved, in a calm environment whose stores  *)
(* do not fail: a slot owes its user a record from the moment the player is *)
(* in the game to the end of the LOGOUT that saves it.                      *)

Tidy == Offline \/ (~SqlMayFail /\ MaxRestarts = 0)

SavePc == {"sql", "redis", "clear"}
Saves(k) == db.slot = k /\ db.pc \in SavePc
Holds(i, op, k) == queue[i].op = op /\ queue[i].slot = k

\* A LOGOUT of slot k is queued or at the database thread; its LOGIN is; a
\* worker has yet to request the LOGOUT of a slot that still is in the list.
Promised(k) == Saves(k) \/ \E i \in 1 .. Len(queue) : Holds(i, "LOGOUT", k)
Called(k)   == db.slot = k \/ \E i \in 1 .. Len(queue) : Holds(i, "LOGIN", k)
Quits       == TeardownPc \ {"delist"}
Due(k)      == k \in playerList /\ \E w \in Worker : work[w].slot = k /\ work[w].pc \in Quits

\* A name in a slot outside the game is there for a reason.
Accounted(k) ==
    /\ name[k] # NoName /\ state[k] = "ACTIVE" => Called(k)
    /\ name[k] # NoName /\ state[k] = "FREE" => Promised(k) \/ Due(k)
    /\ \A w \in Worker : work[w].slot = k /\ work[w].pc = "delist" /\ name[k] # NoName => Promised(k)

\* Slot k holds a record of u that has not been saved.
Owes(k, u) == name[k] = u /\ (state[k] # "ACTIVE" \/ (db.slot = k /\ db.pc # "enter"))

\* The LOGOUT of slot j is served before any of slot n.
Ahead(j, n) ==
    \/ Saves(j)
    \/ /\ ~Saves(n)
       /\ \E i \in 1 .. Len(queue) : /\ Holds(i, "LOGOUT", j)
                                     /\ \A h \in 1 .. i : ~Holds(h, "LOGOUT", n)

\* The stores have what u last had.
Stored(u) ==
    /\ redis[u] \in {NoHash, last[u]}
    /\ redis[u] = NoHash => RedisMayExpire \/ last[u] = Newborn
    /\ ~Offline => sql[u] = last[u] \/ (sql[u] = None /\ last[u] = Newborn)

\* Slot n has what u last had, and is the last of u's sessions to be saved.
Heir(n, u) ==
    /\ Owes(n, u) /\ mem[n] = last[u]
    /\ \A j \in Slot \ {n} : Owes(j, u) => Ahead(j, n)

Debtless(u) == \A j \in Slot : ~Owes(j, u)
Account(u) == (\E n \in Slot : Heir(n, u)) \/ (Debtless(u) /\ Stored(u))

\* How far the save of the slot at the database thread has come.
Written ==
    /\ db.pc \in {"redis", "clear"} =>
         db.saved /\ (~Offline => sql[name[db.slot]] = mem[db.slot])
    /\ db.pc = "clear" => \/ redis[name[db.slot]] = mem[db.slot]
                          \/ redis[name[db.slot]] = NoHash /\ RedisMayExpire

\* What DBLogin has read from SQL, and who else has a record of that user.
Loaded ==
    db.pc = "enter" =>
      /\ \A j \in Slot : Owes(j, name[db.slot]) => Promised(j)
      /\ Debtless(name[db.slot]) =>
           mem[db.slot] = IF Offline THEN Newborn ELSE last[name[db.slot]]

\* Offline, Redis is the only store.
Kept == Offline => \A u \in User : /\ redis[u] \in {NoHash, durable[u]}
                                   /\ redis[u] = NoHash => RedisMayExpire \/ durable[u] = Newborn

Accounts == \A u \in User : Account(u)
Books == (\A k \in Slot : Accounted(k)) /\ Accounts /\ Written /\ Loaded /\ Kept
BookInv == CalmInv /\ Tidy /\ Books

(* The queue: what a request at its end, and one taken off its head, change.*)
Steady ==
    /\ queue' = queue \/ \E e : queue' = Append(queue, e)
    /\ db'.slot = db.slot /\ (db'.pc \in SavePc <=> db.pc \in SavePc)

LEMMA SteadyQueue ==
    ASSUME TypeOK, Steady, NEW k, NEW n
    PROVE  /\ Promised(k) => Promised(k)'
           /\ Called(k) => Called(k)'
           /\ Ahead(k, n) => Ahead(k, n)'
<1>1. Len(queue) \in Nat /\ queue \in Seq(DbRequest)
  BY DEF TypeOK
<1>2. Len(queue') \in Nat /\ Len(queue) <= Len(queue') /\ \A i \in 1 .. Len(queue) : queue'[i] = queue[i]
  BY <1>1 DEF Steady
<1>3. \A i \in 1 .. Len(queue) : i \in 1 .. Len(queue')
  BY <1>1, <1>2
<1>4. \A i \in 1 .. Len(queue) : \A op, j : Holds(i, op, j)' <=> Holds(i, op, j)
  BY <1>2 DEF Holds
<1>5. \A j : Saves(j)' <=> Saves(j)
  BY DEF Steady, Saves
<1>6. Promised(k) => Promised(k)'
  BY <1>3, <1>4, <1>5 DEF Promised
<1>7. Called(k) => Called(k)'
  BY <1>3, <1>4 DEF Called, Steady
<1>8. Ahead(k, n) => Ahead(k, n)'
  <2>1. CASE Saves(k)
    BY <1>5, <2>1 DEF Ahead
  <2>2. ASSUME ~Saves(n), NEW i \in 1 .. Len(queue), Holds(i, "LOGOUT", k),
               \A h \in 1 .. i : ~Holds(h, "LOGOUT", n)
        PROVE  Ahead(k, n)'
    <3>1. \A h \in 1 .. i : h \in 1 .. Len(queue)
      BY <1>1
    <3>2. \A h \in 1 .. i : ~Holds(h, "LOGOUT", n)'
      BY <1>4, <2>2, <3>1
    <3>3. i \in 1 .. Len(queue') /\ Holds(i, "LOGOUT", k)' /\ ~Saves(n)'
      BY <1>3, <1>4, <1>5, <2>2
    <3>4. QED BY <3>2, <3>3 DEF Ahead
  <2>3. QED BY <2>1, <2>2 DEF Ahead
<1>9. QED BY <1>6, <1>7, <1>8

LEMMA TakenQueue ==
    ASSUME TypeOK, db.slot = None, queue # <<>>, queue' = Tail(queue), NEW k \in Slot, NEW n \in Slot
    PROVE  /\ Promised(k) /\ (Head(queue).op = "LOGOUT" /\ Head(queue).slot = k => Saves(k)') => Promised(k)'
           /\ Called(k) /\ (Head(queue).op = "LOGIN" => Head(queue).slot # k) => Called(k)'
           /\ Ahead(k, n) => Promised(k) /\ (Head(queue).op = "LOGOUT" => Head(queue).slot # n)
           /\ /\ Ahead(k, n)
              /\ Head(queue).op = "LOGOUT" /\ Head(queue).slot = k => Saves(k)'
              /\ Saves(n)' => Head(queue).op = "LOGOUT" /\ Head(queue).slot = n
              => Ahead(k, n)'
<1>1. queue \in Seq(DbRequest) /\ Len(queue) \in Nat \ {0}
  BY DEF TypeOK
<1>2. /\ Len(queue') = Len(queue) - 1 /\ Head(queue) = queue[1] /\ 1 \in 1 .. Len(queue)
      /\ \A i \in 1 .. Len(queue') : i + 1 \in 1 .. Len(queue) /\ queue'[i] = queue[i + 1]
  BY <1>1
<1>3. ASSUME NEW i \in 1 .. Len(queue), i # 1
      PROVE  i - 1 \in 1 .. Len(queue') /\ \A op, j : Holds(i - 1, op, j)' <=> Holds(i, op, j)
  <2>1. i - 1 \in 1 .. Len(queue') /\ (i - 1) + 1 = i
    BY <1>1, <1>2, <1>3
  <2>2. queue'[i - 1] = queue[i]
    BY <1>2, <2>1
  <2>3. QED BY <2>1, <2>2 DEF Holds
<1>4. ~Saves(k) /\ ~Saves(n) /\ db.slot # k
  BY NoneAssumption DEF Saves
<1>5. \A op, j : Holds(1, op, j) <=> Head(queue).op = op /\ Head(queue).slot = j
  BY <1>2 DEF Holds
<1>6. ASSUME Promised(k), Head(queue).op = "LOGOUT" /\ Head(queue).slot = k => Saves(k)'
      PROVE  Promised(k)'
  <2>1. PICK i \in 1 .. Len(queue) : Holds(i, "LOGOUT", k)
    BY <1>4, <1>6 DEF Promised
  <2>2. CASE i = 1
    BY <1>5, <1>6, <2>1, <2>2 DEF Promised
  <2>3. CASE i # 1
    BY <1>3, <2>1, <2>3 DEF Promised
  <2>4. QED BY <2>2, <2>3
<1>7. ASSUME Called(k), Head(queue).op = "LOGIN" => Head(queue).slot # k PROVE Called(k)'
  <2>1. PICK i \in 1 .. Len(queue) : Holds(i, "LOGIN", k)
    BY <1>4, <1>7 DEF Called
  <2>2. i # 1
    BY <1>5, <1>7, <2>1
  <2>3. QED BY <1>3, <2>1, <2>2 DEF Called
<1>8. ASSUME Ahead(k, n)
      PROVE  /\ Promised(k) /\ (Head(queue).op = "LOGOUT" => Head(queue).slot # n)
             /\ /\ Head(queue).op = "LOGOUT" /\ Head(queue).slot = k => Saves(k)'
                /\ Saves(n)' => Head(queue).op = "LOGOUT" /\ Head(queue).slot = n
                => Ahead(k, n)'
  <2>1. PICK i \in 1 .. Len(queue) : Holds(i, "LOGOUT", k) /\ \A h \in 1 .. i : ~Holds(h, "LOGOUT", n)
    BY <1>4, <1>8 DEF Ahead
  <2>2. Promised(k)
    BY <2>1 DEF Promised
  <2>3. 1 \in 1 .. i
    BY <1>1
  <2>4. Head(queue).op = "LOGOUT" => Head(queue).slot # n
    BY <1>5, <2>1, <2>3
  <2>5. ASSUME Head(queue).op = "LOGOUT" /\ Head(queue).slot = k => Saves(k)',
               Saves(n)' => Head(queue).op = "LOGOUT" /\ Head(queue).slot = n
        PROVE  Ahead(k, n)'
    <3>1. CASE i = 1
      BY <1>5, <2>1, <2>5, <3>1 DEF Ahead
    <3>2. CASE i # 1
      <4>1. i - 1 \in 1 .. Len(queue') /\ Holds(i - 1, "LOGOUT", k)'
        BY <1>3, <2>1, <3>2
      <4>2. ASSUME NEW h \in 1 .. i - 1 PROVE ~Holds(h, "LOGOUT", n)'
        <5>1. h + 1 \in 1 .. i /\ h + 1 # 1 /\ h + 1 \in 1 .. Len(queue) /\ (h + 1) - 1 = h
          BY <1>1
        <5>2. ~Holds(h + 1, "LOGOUT", n)
          BY <2>1, <5>1
        <5>3. \A op, j : Holds((h + 1) - 1, op, j)' <=> Holds(h + 1, op, j)
          BY <1>3, <5>1
        <5>4. QED BY <5>1, <5>2, <5>3
      <4>3. ~Saves(n)'
        BY <2>4, <2>5
      <4>4. QED BY <4>1, <4>2, <4>3 DEF Ahead
    <3>3. QED BY <3>1, <3>2
  <2>6. QED BY <2>2, <2>4, <2>5
<1>9. QED BY <1>6, <1>7, <1>8

(* What leaves the books as they are.                                       *)

\* No worker leaves the part of a teardown that comes before the LOGOUT, and
\* none comes past it.
Toil(k) ==
    \A v \in Worker :
      /\ work[v].slot = k /\ work[v].pc \in Quits => work'[v].slot = k /\ work'[v].pc \in Quits
      /\ work'[v].slot = k /\ work'[v].pc = "delist" => work[v].slot = k /\ work[v].pc = "delist"

LEMMA AccountedKept ==
    ASSUME NEW k, Accounted(k), Toil(k),
           name'[k] = name[k], state'[k] = state[k], k \in playerList => k \in playerList',
           Promised(k) => Promised(k)', Called(k) => Called(k)'
    PROVE  Accounted(k)'
<1>1. Due(k) => Due(k)'
  BY DEF Due, Toil
<1>2. QED BY <1>1 DEF Accounted, Toil

\* A slot that has no name has no account to keep.
LEMMA Unnamed == ASSUME NEW k, name'[k] = NoName PROVE Accounted(k)'
BY DEF Accounted

\* Two slots that owe one user: the order of their saves has not changed.
Ordered(u) == \A j, n \in Slot : Owes(j, u) /\ Ahead(j, n) => Ahead(j, n)'

LEMMA AccountKept ==
    ASSUME NEW u, Account(u), last'[u] = last[u],
           \A k \in Slot : Owes(k, u)' <=> Owes(k, u),
           \A k \in Slot : Owes(k, u) => mem'[k] = mem[k],
           Ordered(u),
           Debtless(u) /\ Stored(u) => Stored(u)'
    PROVE  Account(u)'
<1>1. CASE Debtless(u) /\ Stored(u)
  BY <1>1 DEF Debtless, Account
<1>2. ASSUME NEW n \in Slot, Heir(n, u) PROVE Heir(n, u)'
  <2>1. Owes(n, u)' /\ mem'[n] = last'[u]
    BY <1>2 DEF Heir
  <2>2. \A j \in Slot \ {n} : Owes(j, u)' => Ahead(j, n)'
    BY <1>2 DEF Heir, Ordered
  <2>3. QED BY <2>1, <2>2 DEF Heir
<1>3. QED BY <1>1, <1>2 DEF Account

LEMMA StoredKept ==
    ASSUME NEW u, sql'[u] = sql[u], last'[u] = last[u],
           redis'[u] = redis[u] \/ (RedisMayExpire /\ redis'[u] = NoHash)
    PROVE  Stored(u) => Stored(u)'
BY DEF Stored, NoHash, Newborn

\* The database thread is where it was, or finishes an entry to the game.
Onward == db' = db \/ (db'.slot = db.slot /\ db.pc = "place" /\ db'.pc = "ingame")

LEMMA BooksKept ==
    ASSUME TypeOK, Accounts, Written, Loaded, Kept,
           UNCHANGED <<sql, redis, last, durable>>,
           queue' = queue \/ \E e : queue' = Append(queue, e),
           Onward,
           \A k \in Slot, u \in User : Owes(k, u)' <=> Owes(k, u),
           \A k \in Slot, u \in User : Owes(k, u) => mem'[k] = mem[k],
           db.slot \in Slot => name'[db.slot] = name[db.slot] /\ mem'[db.slot] = mem[db.slot],
           db.pc = "enter" => name[db.slot] \in User
    PROVE  Accounts' /\ Written' /\ Loaded' /\ Kept'
<1>1. Steady
  BY DEF Steady, Onward, SavePc
<1>2. ASSUME NEW u \in User PROVE Account(u)'
  <2>1. Ordered(u)
    BY <1>1, SteadyQueue DEF Ordered
  <2>2. Stored(u) => Stored(u)'
    BY StoredKept
  <2>3. Account(u)
    BY DEF Accounts
  <2>4. QED BY <2>1, <2>2, <2>3, AccountKept
<1>3. Written'
  <2>1. db.pc \in {"redis", "clear"} => db.slot \in Slot /\ db' = db
    BY DbType DEF Onward
  <2>2. db'.pc \in {"redis", "clear"} => db' = db
    BY DEF Onward
  <2>3. QED BY <2>1, <2>2 DEF Written, NoHash
<1>4. Loaded'
  <2>1. ASSUME db'.pc = "enter" PROVE db' = db /\ db.pc = "enter" /\ db.slot \in Slot
    BY <2>1, DbType DEF Onward
  <2>2. \A k \in Slot : Promised(k) => Promised(k)'
    BY <1>1, SteadyQueue
  <2>3. ASSUME db'.pc = "enter", NEW u \in User, u = name[db.slot]
        PROVE  /\ \A j \in Slot : Owes(j, u)' => Promised(j)'
               /\ Debtless(u)' => mem'[db'.slot] = IF Offline THEN Newborn ELSE last'[u]
    <3>1. Debtless(u)' => Debtless(u)
      BY DEF Debtless
    <3>2. QED BY <2>1, <2>2, <2>3, <3>1 DEF Loaded, Newborn
  <2>4. QED BY <2>1, <2>3 DEF Loaded, Newborn
<1>5. Kept'
  BY DEF Kept, NoHash, Newborn
<1>6. QED BY <1>2, <1>3, <1>4, <1>5 DEF Accounts

\* A step that touches neither names, nor states, nor records.
LEMMA BooksPlain ==
    ASSUME TypeOK, Books, Onward,
           UNCHANGED <<state, name, mem, sql, redis, last, durable>>,
           queue' = queue \/ \E e : queue' = Append(queue, e),
           playerList \subseteq playerList',
           \A k \in Slot : Toil(k),
           db.pc = "enter" => name[db.slot] \in User
    PROVE  Books'
<1>1. \A k \in Slot, u \in User : Owes(k, u)' <=> Owes(k, u)
  BY DEF Owes, Onward
<1>2. Accounts' /\ Written' /\ Loaded' /\ Kept'
  BY <1>1, BooksKept DEF Books
<1>3. Steady
  BY DEF Steady, Onward, SavePc
<1>4. ASSUME NEW k \in Slot PROVE Accounted(k)'
  <2>1. (Promised(k) => Promised(k)') /\ (Called(k) => Called(k)')
    BY <1>3, SteadyQueue
  <2>2. Accounted(k) /\ Toil(k)
    BY DEF Books
  <2>3. QED BY <2>1, <2>2, AccountedKept
<1>5. QED BY <1>2, <1>4 DEF Books

(* How the workers move.                                                    *)
LEMMA ToilGoto ==
    ASSUME TypeOK, NEW w \in Worker, work[w].pc # "idle",
           NEW pc \in AcceptPc \union ReceivePc \union TeardownPc, Goto(w, pc),
           work[w].pc \in Quits => pc \in Quits, NEW k, pc = "delist" => work[w].slot # k
    PROVE  Toil(k)
<1>1. /\ work'[w].pc = pc /\ work'[w].slot = work[w].slot
      /\ \A v \in Worker : v # w => work'[v] = work[v]
  BY GotoAll
<1>2. QED BY <1>1 DEF Toil

LEMMA ToilFinish ==
    ASSUME TypeOK, NEW w \in Worker, Finish(w), work[w].pc \notin Quits, NEW k \in Slot
    PROVE  Toil(k)
<1>1. work'[w].slot = None /\ work'[w].pc = "idle" /\ \A v \in Worker : v # w => work'[v] = work[v]
  BY FinishAll
<1>2. QED BY <1>1 DEF Toil

LEMMA ToilBegin ==
    ASSUME TypeOK, NEW w \in Worker, NEW pc, NEW j, NEW c, work[w].pc = "idle", pc # "delist",
           work' = [work EXCEPT ![w] = [pc |-> pc, slot |-> j, conn |-> c]], NEW k
    PROVE  Toil(k)
<1>1. work'[w].pc = pc /\ \A v \in Worker : v # w => work'[v] = work[v]
  BY BeginAll
<1>2. QED BY <1>1 DEF Toil, Quits

LEMMA ToilSame == ASSUME UNCHANGED work, NEW k PROVE Toil(k)
BY DEF Toil

\* The name under which a player enters is a user's.
LEMMA EntersAs == ASSUME CalmInv, db.pc = "enter" PROVE db.slot \in Slot /\ name[db.slot] \in User
<1>1. TypeOK /\ db.slot \in Slot
  BY DbType DEF CalmInv, IInv
<1>2. name[db.slot] # NoName
  BY <1>1, SaveStage DEF Enters
<1>3. QED BY <1>1, <1>2 DEF TypeOK, Name

(* The handlers of the workers.                                             *)
LEMMA BookFacts ==
    ASSUME BookInv
    PROVE  /\ TypeOK /\ CalmInv /\ Tidy /\ Books /\ Accounts /\ Written /\ Loaded /\ Kept
           /\ \A k \in Slot : Accounted(k)
           /\ db.pc = "enter" => name[db.slot] \in User
BY EntersAs DEF BookInv, CalmInv, IInv, Books

LEMMA BookPlain ==
    ASSUME BookInv, NEW w \in Worker,
           \/ AcceptBind(w) \/ AcceptEnlist(w) \/ RecvNoLogin(w) \/ RecvBroken(w) \/ Rearm(w)
           \/ LeaveSector(w) \/ CloseSocket(w)
    PROVE  Books'
<1>1. TypeOK
  BY BookFacts
<1>2. /\ UNCHANGED <<state, name, mem, sql, redis, last, durable, queue, db>>
      /\ playerList \subseteq playerList'
  BY DEF AcceptBind, AcceptEnlist, RecvNoLogin, RecvBroken, Rearm, LeaveSector, CloseSocket,
         slotVars, diskVars, histVars
<1>3. ASSUME NEW k \in Slot PROVE Toil(k)
  <2>1. CASE AcceptBind(w) \/ RecvNoLogin(w) \/ RecvBroken(w) \/ LeaveSector(w) \/ CloseSocket(w)
    <3>1. PICK pc \in {"enlist", "rearm", "leave", "free", "logout"} :
            /\ Goto(w, pc) /\ work[w].pc # "idle" /\ (work[w].pc \in Quits => pc \in Quits)
      BY <2>1 DEF AcceptBind, RecvNoLogin, RecvBroken, LeaveSector, CloseSocket, Quits
    <3>2. QED BY <1>1, <3>1, ToilGoto
  <2>2. CASE AcceptEnlist(w) \/ Rearm(w)
    <3>1. Finish(w) /\ work[w].pc \notin Quits
      BY <2>2 DEF AcceptEnlist, Rearm, Quits
    <3>2. QED BY <1>1, <3>1, ToilFinish
  <2>3. QED BY <2>1, <2>2
<1>4. QED BY <1>1, <1>2, <1>3, BookFacts, BooksPlain DEF Onward

\* A slot that is not in the game has its name changed, or its coordinates.
LEMMA BookReset == ASSUME BookInv, NEW w \in Worker, AcceptReset(w) PROVE Books'
<1> PICK k : k = work[w].slot
  OBVIOUS
<1>1. TypeOK /\ work[w].pc = "reset" /\ k \in Slot
  BY BookFacts, BusyType DEF AcceptReset
<1>2. state[k] = "ACTIVE" /\ db.slot # k
  BY <1>1, AcceptStage, BookFacts DEF Arrives
<1>3. /\ name'[k] = NoName /\ \A j \in Slot \ {k} : name'[j] = name[j] /\ mem'[j] = mem[j]
      /\ UNCHANGED <<state, playerList, queue, db, sql, redis, last, durable>>
  BY <1>1 DEF AcceptReset, TypeOK, diskVars, histVars
<1>4. \A j \in Slot, u \in User : (Owes(j, u)' <=> Owes(j, u)) /\ (Owes(j, u) => j # k)
  BY <1>2, <1>3 DEF Owes
<1>5. Accounts' /\ Written' /\ Loaded' /\ Kept'
  BY <1>1, <1>2, <1>3, <1>4, BookFacts, BooksKept DEF Onward
<1>6. ASSUME NEW j \in Slot, j # k PROVE Accounted(j)'
  <2>1. Goto(w, "bind") /\ work[w].pc # "idle" /\ work[w].pc \notin Quits
    BY <1>1 DEF AcceptReset, Quits
  <2>2. Toil(j)
    BY <1>1, <2>1, ToilGoto
  <2>3. (Promised(j) => Promised(j)') /\ (Called(j) => Called(j)')
    BY <1>1, <1>3, SteadyQueue DEF Steady
  <2>4. QED BY <1>3, <1>6, <2>2, <2>3, BookFacts, AccountedKept
<1>7. QED BY <1>3, <1>5, <1>6, Unnamed DEF Books

LEMMA BookLogins == ASSUME BookInv, NEW w \in Worker, RecvLogin(w) PROVE Books'
<1> PICK k, c : k = work[w].slot /\ c = work[w].conn
  OBVIOUS
<1>0. work[w].pc = "login"
  BY DEF RecvLogin
<1>1. /\ TypeOK /\ k \in Slot /\ state[k] = "ACTIVE" /\ db.slot # k
      /\ \A v \in Worker : work[v].slot = k => v = w
  BY <1>0, ReceiveAlone, BookFacts DEF Live, Asks
<1>2. PICK e : e = [op |-> "LOGIN", slot |-> k]
  OBVIOUS
<1>3. /\ \A j \in Slot \ {k} : name'[j] = name[j]
      /\ queue' = Append(queue, e) /\ e.op = "LOGIN" /\ e.slot = k
      /\ UNCHANGED <<state, mem, playerList, db, sql, redis, last, durable>>
  BY <1>2 DEF RecvLogin, Request, diskVars, histVars
<1>4. \A j \in Slot, u \in User : (Owes(j, u)' <=> Owes(j, u)) /\ (Owes(j, u) => j # k)
  BY <1>1, <1>3 DEF Owes
<1>5. Accounts' /\ Written' /\ Loaded' /\ Kept'
  <2>1. db.slot \in Slot => name'[db.slot] = name[db.slot] /\ mem'[db.slot] = mem[db.slot]
    BY <1>1, <1>3
  <2>2. Onward /\ \E d : queue' = Append(queue, d)
    BY <1>3 DEF Onward
  <2>3. QED BY <1>1, <1>3, <1>4, <2>1, <2>2, BookFacts, BooksKept
<1>6. Goto(w, "rearm") /\ work[w].pc # "idle" /\ work[w].pc \notin Quits
  BY <1>0 DEF RecvLogin, Quits
<1>7. ASSUME NEW j \in Slot, j # k PROVE Accounted(j)'
  <2>1. Toil(j)
    BY <1>1, <1>6, ToilGoto
  <2>2. (Promised(j) => Promised(j)') /\ (Called(j) => Called(j)')
    BY <1>1, <1>3, SteadyQueue DEF Steady
  <2>3. QED BY <1>3, <1>7, <2>1, <2>2, BookFacts, AccountedKept
<1>8. Accounted(k)'
  <2>1. Called(k)'
    <3>1. Len(queue) \in Nat /\ queue \in Seq(DbRequest)
      BY <1>1 DEF TypeOK
    <3>2. Len(queue') = Len(queue) + 1 /\ queue'[Len(queue) + 1] = e
      BY <1>3, <3>1
    <3>3. Len(queue') \in 1 .. Len(queue')
      BY <3>1, <3>2
    <3>4. QED BY <1>3, <3>2, <3>3 DEF Called, Holds
  <2>2. \A v \in Worker : work'[v].slot = k => work'[v].pc # "delist"
    <3>1. /\ work'[w].pc = "rearm" /\ \A v \in Worker : v # w => work'[v] = work[v]
      BY <1>1, <1>6, GotoAll
    <3>2. QED BY <1>1, <3>1
  <2>3. state'[k] = "ACTIVE"
    BY <1>1, <1>3
  <2>4. QED BY <2>1, <2>2, <2>3 DEF Accounted
<1>9. QED BY <1>5, <1>7, <1>8 DEF Books

\* A slot whose player is in the game is the heir of that player: the LOGOUT
\* of every other slot that owes him has been requested, and none of this one.
LEMMA PlayerIsHeir ==
    ASSUME BookInv, NEW k \in Slot, NEW c \in Client, Live(k, c), Plays(k, c)
    PROVE  /\ name[k] \in User /\ Owes(k, name[k]) /\ Heir(k, name[k]) /\ ~Promised(k)
           /\ \A n \in Slot, u \in User : Heir(n, u) /\ name[k] = u => n = k
<1>1. TypeOK /\ Accounts
  BY BookFacts
<1>2. name[k] \in User
  BY <1>1 DEF Plays, TypeOK, Name
<1>3. Owes(k, name[k])
  BY DEF Owes, Live, Plays
<1>4. ~Promised(k)
  BY DEF Promised, Saves, SavePc, Holds, Plays, Queued
<1>5. \A n : ~Ahead(k, n)
  BY <1>4 DEF Ahead, Promised
<1>6. \A n \in Slot, u \in User : Heir(n, u) /\ name[k] = u => n = k
  BY <1>3, <1>5 DEF Heir
<1>7. Heir(k, name[k])
  <2>1. Account(name[k])
    BY <1>1, <1>2 DEF Accounts
  <2>2. QED BY <1>2, <1>3, <1>6, <2>1 DEF Account, Debtless
<1>8. QED BY <1>2, <1>3, <1>4, <1>6, <1>7

LEMMA BookPlay ==
    ASSUME BookInv, NEW w \in Worker, RecvMove(w) \/ RecvLevelUp(w) PROVE Books'
<1> PICK k, c, own : k = work[w].slot /\ c = work[w].conn /\ own = name[k]
  OBVIOUS
<1>0. work[w].pc = "play"
  BY DEF RecvMove, RecvLevelUp
<1>1. TypeOK /\ k \in Slot /\ c \in Client /\ Live(k, c) /\ Plays(k, c)
  BY <1>0, ReceiveAlone, BookFacts
<1>2. own \in User /\ own \in Name /\ Heir(k, own) /\ Owes(k, own)
  BY <1>1, PlayerIsHeir DEF Name
<1>3. /\ \A j \in Slot \ {k} : mem'[j] = mem[j]
      /\ last'[own] = mem'[k]
      /\ \A n \in Name \ {own} : last'[n] = last[n]
  BY <1>1, <1>2 DEF RecvMove, RecvLevelUp, TypeOK
<1>4. /\ UNCHANGED <<state, name, playerList, db, sql, redis, durable>>
      /\ queue' = queue \/ \E e : queue' = Append(queue, e)
  BY DEF RecvMove, RecvLevelUp, Request, diskVars
<1>5. Steady /\ \A j \in Slot, u \in User : Owes(j, u)' <=> Owes(j, u)
  BY <1>4 DEF Steady, Owes
<1>6. ASSUME NEW u \in User PROVE Account(u)'
  <2>1. CASE u = own
    <3>1. \A j \in Slot \ {k} : Owes(j, u)' => Ahead(j, k)'
      BY <1>1, <1>2, <1>5, <2>1, SteadyQueue DEF Heir
    <3>2. Heir(k, u)'
      BY <1>1, <1>2, <1>3, <1>5, <2>1, <3>1 DEF Heir
    <3>3. QED BY <1>1, <3>2 DEF Account
  <2>2. CASE u # own
    <3>1. last'[u] = last[u] /\ sql'[u] = sql[u] /\ redis'[u] = redis[u]
      BY <1>3, <1>4, <2>2 DEF Name
    <3>2. \A j \in Slot : Owes(j, u) => mem'[j] = mem[j]
      BY <1>1, <1>3, <2>2 DEF Owes
    <3>3. Ordered(u)
      BY <1>1, <1>5, SteadyQueue DEF Ordered
    <3>4. Account(u)
      BY BookFacts DEF Accounts
    <3>5. Stored(u) => Stored(u)'
      BY <3>1, StoredKept
    <3>6. QED BY <1>5, <3>1, <3>2, <3>3, <3>4, <3>5, AccountKept
  <2>3. QED BY <2>1, <2>2
<1>7. Written'
  <2>1. db.pc \in {"redis", "clear"} => db.slot \in Slot /\ db.slot # k
    BY <1>1, DbType DEF Plays
  <2>2. QED BY <1>3, <1>4, <2>1, BookFacts DEF Written, NoHash
<1>8. Loaded'
  <2>1. SUFFICES ASSUME db.pc = "enter", NEW u, u = name'[db'.slot]
                 PROVE  /\ \A j \in Slot : Owes(j, u)' => Promised(j)'
                        /\ Debtless(u)' => mem'[db.slot] = IF Offline THEN Newborn ELSE last'[u]
    BY <1>4 DEF Loaded, Newborn
  <2>2. u = name[db.slot]
    BY <1>4, <2>1
  <2>3. u \in User /\ db.slot \in Slot /\ db.slot # k /\ name'[db.slot] = u
    BY <1>1, <1>4, <2>1, <2>2, BookFacts, DbType DEF Plays
  <2>4. ASSUME NEW j \in Slot, Owes(j, u)' PROVE Promised(j)'
    BY <1>1, <1>5, <2>1, <2>2, <2>3, <2>4, BookFacts, SteadyQueue DEF Loaded
  <2>5. ASSUME Debtless(u)' PROVE mem'[db.slot] = IF Offline THEN Newborn ELSE last'[u]
    <3>1. Debtless(u) /\ u # own
      BY <1>1, <1>2, <1>5, <2>3, <2>5 DEF Debtless
    <3>2. last'[u] = last[u] /\ mem'[db.slot] = mem[db.slot]
      BY <1>3, <2>3, <3>1 DEF Name
    <3>3. Loaded
      BY BookFacts
    <3>4. mem[db.slot] = IF Offline THEN Newborn ELSE last[u]
      BY <2>1, <2>2, <3>1, <3>3 DEF Loaded
    <3>5. QED BY <3>2, <3>4
  <2>6. QED BY <2>4, <2>5
<1>9. Kept'
  BY <1>4, BookFacts DEF Kept, NoHash, Newborn
<1>10. ASSUME NEW j \in Slot PROVE Accounted(j)'
  <2>1. Goto(w, "rearm") /\ work[w].pc # "idle" /\ work[w].pc \notin Quits
    BY <1>0 DEF RecvMove, RecvLevelUp, Quits
  <2>2. Toil(j)
    BY <1>1, <2>1, ToilGoto
  <2>3. (Promised(j) => Promised(j)') /\ (Called(j) => Called(j)')
    BY <1>1, <1>5, SteadyQueue
  <2>4. QED BY <1>4, <2>2, <2>3, BookFacts, AccountedKept
<1>11. QED BY <1>6, <1>7, <1>8, <1>9, <1>10 DEF Books, Accounts

\* A free slot's name is there until its LOGOUT has been served.
LEMMA BookFree == ASSUME BookInv, NEW w \in Worker, FreeState(w) PROVE Books'
<1> PICK k : k = work[w].slot
  OBVIOUS
<1>0. work[w].pc = "free"
  BY DEF FreeState
<1>1. TypeOK /\ k \in Slot
  BY <1>0, BusyType, BookFacts
<1>2. /\ state'[k] = "FREE" /\ \A j \in Slot \ {k} : state'[j] = state[j]
      /\ UNCHANGED <<name, mem, playerList, queue, db, sql, redis, last, durable>>
  BY <1>1 DEF FreeState, TypeOK, diskVars, histVars
<1>3. Goto(w, "close") /\ work[w].pc # "idle" /\ "close" \in Quits
  BY <1>0 DEF FreeState, Quits
<1>4. /\ work'[w].pc = "close" /\ work'[w].slot = k
      /\ \A v \in Worker : v # w => work'[v] = work[v]
  BY <1>1, <1>3, GotoAll
<1>5. \A j : Toil(j)
  BY <1>1, <1>3, ToilGoto
<1>6. Steady
  BY <1>2 DEF Steady
<1>7. ASSUME NEW j \in Slot, state'[j] = state[j] PROVE Accounted(j)'
  <2>1. (Promised(j) => Promised(j)') /\ (Called(j) => Called(j)')
    BY <1>1, <1>6, SteadyQueue
  <2>2. QED BY <1>2, <1>5, <1>7, <2>1, BookFacts, AccountedKept
<1>8. ASSUME NEW c \in Client, Leaving(k, c)
      PROVE  Accounted(k)' /\ (state[k] = "ACTIVE" => name[k] = NoName)
  <2>1. ~Called(k)
    BY <1>8 DEF Called, Leaving, Queued, Holds
  <2>2. state[k] = "ACTIVE" => name[k] = NoName
    BY <1>1, <2>1, BookFacts DEF Accounted
  <2>3. state[k] = "INGAME" => k \in playerList
    BY <1>8 DEF Leaving
  <2>4. state[k] \in {"ACTIVE", "INGAME"}
    BY <1>1, <1>8 DEF Leaving, TypeOK
  <2>5. \A v \in Worker : work'[v].slot = k => work'[v].pc # "delist"
    BY <1>4, <1>8 DEF Leaving
  <2>6. name[k] # NoName => Due(k)'
    BY <1>2, <1>3, <1>4, <2>2, <2>3, <2>4 DEF Due
  <2>7. Accounted(k)'
    BY <1>2, <2>5, <2>6 DEF Accounted
  <2>8. QED BY <2>2, <2>7
<1>9. Gone(k) \/ \E c \in Client : Leaving(k, c)
  BY <1>0, TeardownStage, BookFacts
<1>10. Accounted(k)' /\ (state[k] = "ACTIVE" => name[k] = NoName)
  BY <1>1, <1>2, <1>7, <1>8, <1>9 DEF Gone
<1>11. \A j \in Slot, u \in User : Owes(j, u)' <=> Owes(j, u)
  BY <1>1, <1>2, <1>10, NameAssumption DEF Owes
<1>12. Accounts' /\ Written' /\ Loaded' /\ Kept'
  BY <1>1, <1>2, <1>11, BookFacts, BooksKept DEF Onward
<1>13. QED BY <1>2, <1>7, <1>10, <1>12 DEF Books

LEMMA BookLogout == ASSUME BookInv, NEW w \in Worker, PushLogout(w) PROVE Books'
<1> PICK k : k = work[w].slot
  OBVIOUS
<1> PICK e : e = [op |-> "LOGOUT", slot |-> k]
  OBVIOUS
<1>1. work[w].pc = "logout" /\ Goto(w, "delist")
  BY DEF PushLogout
<1>2. TypeOK /\ k \in Slot /\ state[k] = "FREE"
  BY <1>1, TeardownGone, BookFacts DEF Gone
<1>3. /\ UNCHANGED <<state, name, mem, playerList, db, sql, redis, last, durable>>
      /\ queue' = Append(queue, e) /\ e.slot = k /\ e.op = "LOGOUT"
  BY DEF PushLogout, Request, slotVars, diskVars, histVars
<1>4. Steady /\ \A j \in Slot, u \in User : Owes(j, u)' <=> Owes(j, u)
  BY <1>3 DEF Steady, Owes
<1>5. Accounts' /\ Written' /\ Loaded' /\ Kept'
  <2>1. Onward /\ \E d : queue' = Append(queue, d)
    BY <1>3 DEF Onward
  <2>2. QED BY <1>2, <1>3, <1>4, <2>1, BookFacts, BooksKept
<1>6. ASSUME NEW j \in Slot, j # k PROVE Accounted(j)'
  <2>1. Toil(j)
    <3>1. work'[w].slot = k /\ work[w].slot # j /\ \A v \in Worker : v # w => work'[v] = work[v]
      BY <1>1, <1>2, <1>6, GotoAll
    <3>2. QED BY <1>6, <3>1 DEF Toil
  <2>2. (Promised(j) => Promised(j)') /\ (Called(j) => Called(j)')
    BY <1>2, <1>4, SteadyQueue
  <2>3. QED BY <1>3, <1>6, <2>1, <2>2, BookFacts, AccountedKept
<1>7. Promised(k)'
  <2>1. Len(queue) \in Nat /\ queue \in Seq(DbRequest)
    BY <1>2 DEF TypeOK
  <2>2. Len(queue') = Len(queue) + 1 /\ queue'[Len(queue) + 1] = e
    BY <1>3, <2>1
  <2>3. Len(queue') \in 1 .. Len(queue')
    BY <2>1, <2>2
  <2>4. QED BY <1>3, <2>2, <2>3 DEF Promised, Holds
<1>8. Accounted(k)'
  BY <1>2, <1>3, <1>7 DEF Accounted
<1>9. QED BY <1>5, <1>6, <1>8 DEF Books

LEMMA BookDelist == ASSUME BookInv, NEW w \in Worker, Delist(w) PROVE Books'
<1> PICK k : k = work[w].slot
  OBVIOUS
<1>1. work[w].pc = "delist" /\ Finish(w)
  BY DEF Delist
<1>2. TypeOK /\ k \in Slot /\ state[k] = "FREE"
  BY <1>1, TeardownGone, BookFacts DEF Gone
<1>3. /\ UNCHANGED <<state, name, mem, queue, db, sql, redis, last, durable>>
      /\ playerList' = playerList \ {k}
  BY DEF Delist, diskVars, histVars
<1>4. Steady /\ \A j \in Slot, u \in User : Owes(j, u)' <=> Owes(j, u)
  BY <1>3 DEF Steady, Owes
<1>5. Accounts' /\ Written' /\ Loaded' /\ Kept'
  BY <1>2, <1>3, <1>4, BookFacts, BooksKept DEF Onward
<1>6. ASSUME NEW j \in Slot PROVE (Promised(j) => Promised(j)') /\ (Called(j) => Called(j)')
  BY <1>2, <1>4, SteadyQueue
<1>7. ASSUME NEW j \in Slot, j # k PROVE Accounted(j)'
  <2>1. Toil(j)
    BY <1>1, <1>2, ToilFinish DEF Quits
  <2>2. QED BY <1>3, <1>6, <1>7, <2>1, BookFacts, AccountedKept
<1>8. name[k] # NoName => Promised(k)'
  BY <1>1, <1>2, <1>6, BookFacts DEF Accounted
<1>9. Accounted(k)'
  BY <1>2, <1>3, <1>8 DEF Accounted
<1>10. QED BY <1>5, <1>7, <1>9 DEF Books

(* The completions, and what the connections do.                            *)
LEMMA BookAccept == ASSUME BookInv, NEW w \in Worker, NEW c \in Client, Accept(w, c) PROVE Books'
<1>1. PICK k \in Slot : /\ IsNewClientId(k) /\ Quiet(k)
                        /\ state' = [state EXCEPT ![k] = "ACTIVE"]
                        /\ work' = [work EXCEPT ![w] = [pc |-> "reset", slot |-> k, conn |-> c]]
  BY BookFacts DEF Accept, CalmInv, Calm
<1>2. TypeOK /\ work[w].pc = "idle" /\ state[k] = "FREE"
  BY <1>1, BookFacts DEF Accept, IsNewClientId, FreeSlot
<1>3. /\ \A j \in Slot \ {k} : state'[j] = state[j]
      /\ UNCHANGED <<name, mem, playerList, queue, db, sql, redis, last, durable>>
  BY <1>1, <1>2 DEF Accept, TypeOK, diskVars, histVars
<1>4. name[k] = NoName
  <2>1. ~Promised(k) /\ ~Due(k)
    BY <1>1 DEF Quiet, Promised, Due, Saves, Holds
  <2>2. QED BY <1>2, <2>1, BookFacts DEF Accounted
<1>5. \A j \in Slot, u \in User : Owes(j, u)' <=> Owes(j, u)
  BY <1>3, <1>4, NameAssumption DEF Owes
<1>6. Accounts' /\ Written' /\ Loaded' /\ Kept'
  BY <1>2, <1>3, <1>5, BookFacts, BooksKept DEF Onward
<1>7. ASSUME NEW j \in Slot, j # k PROVE Accounted(j)'
  <2>1. Toil(j)
    BY <1>1, <1>2, ToilBegin
  <2>2. (Promised(j) => Promised(j)') /\ (Called(j) => Called(j)')
    BY <1>2, <1>3, SteadyQueue DEF Steady
  <2>3. QED BY <1>3, <1>7, <2>1, <2>2, BookFacts, AccountedKept
<1>8. QED BY <1>3, <1>4, <1>6, <1>7, Unnamed DEF Books

LEMMA BookCompletion ==
    ASSUME BookInv, NEW w \in Worker, NEW c \in Client,
           AcceptFull(w, c) \/ Receive(w, c) \/ RecvFail(w, c) \/ SendFail(w, c)
    PROVE  Books'
<1>1. TypeOK
  BY BookFacts
<1>2. UNCHANGED <<state, name, mem, playerList, queue, db, sql, redis, last, durable>>
  BY DEF AcceptFull, Receive, RecvFail, SendFail, slotVars, diskVars, histVars
<1>3. ASSUME NEW k \in Slot PROVE Toil(k)
  <2>1. CASE AcceptFull(w, c)
    BY <2>1, ToilSame DEF AcceptFull
  <2>2. CASE Receive(w, c) \/ RecvFail(w, c) \/ SendFail(w, c)
    <3>1. PICK pc \in {"login", "play", "leave"} :
            /\ work[w].pc = "idle"
            /\ work' = [work EXCEPT ![w] = [pc |-> pc, slot |-> key[c], conn |-> c]]
      BY <2>2 DEF Receive, RecvFail, SendFail
    <3>2. QED BY <1>1, <3>1, ToilBegin
  <2>3. QED BY <2>1, <2>2
<1>4. QED BY <1>1, <1>2, <1>3, BookFacts, BooksPlain DEF Onward

LEMMA BookConnection ==
    ASSUME BookInv, (\E c \in Client : SendDone(c) \/ ClientClose(c)) \/ UNCHANGED vars PROVE Books'
<1>1. UNCHANGED <<state, name, mem, playerList, work, queue, db, sql, redis, last, durable>>
  BY DEF SendDone, ClientClose, vars, slotVars, diskVars, histVars
<1>2. \A k \in Slot : Toil(k)
  BY <1>1, ToilSame
<1>3. QED BY <1>1, <1>2, BookFacts, BooksPlain DEF Onward

(* The database thread.                                                     *)
LEMMA NotNoHash == ASSUME NEW r \in Record PROVE r # NoHash
<1>1. r.pos \in Position /\ NoHash.pos = None
  BY DEF Record, NoHash
<1>2. QED BY <1>1, NoneAssumption

\* A request taken off the queue: a LOGOUT is served, or is of no account.
LEMMA TakenKept ==
    ASSUME BookInv, NEW op, NEW pc, Take(op, pc), NEW k, k = Head(queue).slot,
           op = "LOGOUT" => pc = "sql" \/ name[k] = NoName,
           pc \in {"idle", "enter"} \/ (pc = "sql" /\ op = "LOGOUT")
    PROVE  /\ \A u \in User : Ordered(u)
           /\ \A j \in Slot : op # "LOGOUT" \/ j # k \/ pc = "sql" => (Promised(j) => Promised(j)')
           /\ \A j \in Slot : op # "LOGIN" \/ j # k => (Called(j) => Called(j)')
<1>1. /\ TypeOK /\ db.slot = None /\ queue # <<>> /\ queue' = Tail(queue)
      /\ Head(queue).op = op /\ Head(queue).slot = k /\ k \in Slot
      /\ pc = "idle" => db'.slot = None
      /\ pc # "idle" => db'.pc = pc /\ db'.slot = k
  BY TakeAll, BookFacts
<1>2. pc = "sql" => Saves(k)'
  BY <1>1 DEF Saves, SavePc
<1>3. \A n \in Slot : Saves(n)' => op = "LOGOUT" /\ n = k
  BY <1>1, NoneAssumption DEF Saves, SavePc
<1>4. ASSUME NEW u \in User, NEW j \in Slot, NEW n \in Slot, Owes(j, u), Ahead(j, n) PROVE Ahead(j, n)'
  <2>1. name[j] # NoName
    BY <1>4, NameAssumption DEF Owes
  <2>2. op = "LOGOUT" /\ k = j => Saves(j)'
    BY <1>2, <2>1
  <2>3. QED BY <1>1, <1>3, <1>4, <2>2, TakenQueue
<1>5. ASSUME NEW j \in Slot, op # "LOGOUT" \/ j # k \/ pc = "sql", Promised(j) PROVE Promised(j)'
  BY <1>1, <1>2, <1>5, TakenQueue
<1>6. ASSUME NEW j \in Slot, op # "LOGIN" \/ j # k, Called(j) PROVE Called(j)'
  BY <1>1, <1>6, TakenQueue
<1>7. QED BY <1>4, <1>5, <1>6 DEF Ordered

LEMMA IdleBooks == ASSUME db' = DbIdle PROVE Written' /\ Loaded'
BY DEF DbIdle, Written, Loaded

LEMMA BookRefuse == ASSUME BookInv, LoginDenied \/ LoginSqlFails PROVE Books'
<1> PICK k : k = Head(queue).slot
  OBVIOUS
<1>1. Take("LOGIN", "idle") /\ Refuse(k)
  BY DEF LoginDenied, LoginSqlFails
<1>2. TypeOK /\ db.slot = None /\ k \in Slot /\ db' = DbIdle /\ db'.slot = None
  BY <1>1, TakeAll, BookFacts
<1>3. PICK c \in Client : Live(k, c) /\ Waits(k, c)
  BY <1>1, NextRequest, BookFacts
<1>4. state[k] = "ACTIVE" /\ k # None
  BY <1>2, <1>3, NoneAssumption DEF Live, Waits
<1>5. /\ name'[k] = NoName /\ \A j \in Slot \ {k} : name'[j] = name[j] /\ mem'[j] = mem[j]
      /\ UNCHANGED <<state, playerList, work, sql, redis, last, durable>>
  BY <1>1, <1>2 DEF LoginDenied, LoginSqlFails, Refuse, TypeOK, diskVars, histVars
<1>6. /\ \A u \in User : Ordered(u)
      /\ \A j \in Slot : (Promised(j) => Promised(j)') /\ (j # k => (Called(j) => Called(j)'))
  BY <1>1, TakenKept
<1>7. \A j \in Slot, u \in User : (Owes(j, u)' <=> Owes(j, u)) /\ (Owes(j, u) => j # k)
  BY <1>2, <1>4, <1>5, NoneAssumption, NameAssumption DEF Owes
<1>8. ASSUME NEW u \in User PROVE Account(u)'
  <2>1. Account(u)
    BY BookFacts DEF Accounts
  <2>2. Stored(u) => Stored(u)'
    BY <1>5, StoredKept
  <2>3. QED BY <1>5, <1>6, <1>7, <2>1, <2>2, AccountKept
<1>9. ASSUME NEW j \in Slot PROVE Accounted(j)'
  BY <1>5, <1>6, <1>9, BookFacts, AccountedKept, Unnamed, ToilSame
<1>10. Kept'
  BY <1>5, BookFacts DEF Kept, NoHash, Newborn
<1>11. QED BY <1>2, <1>8, <1>9, <1>10, IdleBooks DEF Books, Accounts

\* The save under a slot's name, by LOGOUT or by SAVE_REDIS.
LEMMA SavedBooks ==
    ASSUME BookInv, NEW k \in Slot, RedisSave(k), NEW u \in User
    PROVE  /\ ~Owes(k, u) /\ (state[k] # "ACTIVE") => redis'[u] = redis[u] /\ durable'[u] = durable[u]
           /\ redis'[name[k]] = mem[k]
           /\ Kept'
<1>1. TypeOK /\ Kept
  BY BookFacts
<1>2. /\ name[k] \in Name /\ redis'[name[k]] = mem[k] /\ durable'[name[k]] = mem[k]
      /\ \A n \in Name \ {name[k]} : redis'[n] = redis[n] /\ durable'[n] = durable[n]
  BY <1>1 DEF RedisSave, TypeOK
<1>3. mem[k] # NoHash
  BY <1>1, NotNoHash DEF TypeOK
<1>4. ~Owes(k, u) /\ state[k] # "ACTIVE" => redis'[u] = redis[u] /\ durable'[u] = durable[u]
  BY <1>2 DEF Owes, Name
<1>5. ASSUME Offline, NEW v \in User
      PROVE  redis'[v] \in {NoHash, durable'[v]} /\ (redis'[v] = NoHash => RedisMayExpire \/ durable'[v] = Newborn)
  <2>1. CASE v = name[k]
    BY <1>2, <1>3, <2>1
  <2>2. CASE v # name[k]
    BY <1>1, <1>2, <1>5, <2>2 DEF Kept, Name
  <2>3. QED BY <2>1, <2>2
<1>6. Kept'
  BY <1>5 DEF Kept, NoHash, Newborn
<1>7. QED BY <1>2, <1>4, <1>6

LEMMA BookSaveRedis == ASSUME BookInv, SaveRedis PROVE Books'
<1> PICK k : k = Head(queue).slot
  OBVIOUS
<1>1. Take("SAVE_REDIS", "idle")
  BY DEF SaveRedis
<1>2. TypeOK /\ db.slot = None /\ k \in Slot /\ db' = DbIdle /\ db'.slot = None
  BY <1>1, TakeAll, BookFacts
<1>3. UNCHANGED <<state, name, mem, playerList, work, sql, last>>
  BY DEF SaveRedis, slotVars
<1>4. \/ state[k] = "INGAME" /\ RedisSave(k)
      \/ UNCHANGED <<redis, durable>>
  BY DEF SaveRedis
<1>5. /\ \A u \in User : Ordered(u)
      /\ \A j \in Slot : (Promised(j) => Promised(j)') /\ (Called(j) => Called(j)')
  BY <1>1, TakenKept
<1>6. \A j \in Slot, u \in User : Owes(j, u)' <=> Owes(j, u)
  BY <1>2, <1>3, NoneAssumption DEF Owes
<1>7. ASSUME NEW u \in User PROVE Account(u)'
  <2>1. Account(u)
    BY BookFacts DEF Accounts
  <2>2. Debtless(u) => redis'[u] = redis[u]
    BY <1>2, <1>4, SavedBooks DEF Debtless
  <2>3. Debtless(u) /\ Stored(u) => Stored(u)'
    BY <1>3, <2>2, StoredKept
  <2>4. QED BY <1>3, <1>5, <1>6, <2>1, <2>3, AccountKept
<1>8. ASSUME NEW j \in Slot PROVE Accounted(j)'
  BY <1>3, <1>5, BookFacts, AccountedKept, ToilSame
<1>9. Kept'
  <2>1. CASE RedisSave(k) /\ \E u \in User : TRUE
    BY <1>2, <2>1, SavedBooks
  <2>2. CASE UNCHANGED <<redis, durable>>
    BY <2>2, BookFacts DEF Kept, NoHash, Newborn
  <2>3. CASE ~\E u \in User : TRUE
    BY <2>3 DEF Kept
  <2>4. QED BY <1>4, <2>1, <2>2, <2>3
<1>10. QED BY <1>2, <1>7, <1>8, <1>9, IdleBooks DEF Books, Accounts

LEMMA BookIgnored == ASSUME BookInv, LogoutIgnored PROVE Books'
<1> PICK k : k = Head(queue).slot
  OBVIOUS
<1>1. Take("LOGOUT", "idle") /\ name[k] = NoName
  BY DEF LogoutIgnored
<1>2. TypeOK /\ db.slot = None /\ k \in Slot /\ db' = DbIdle /\ db'.slot = None
  BY <1>1, TakeAll, BookFacts
<1>3. UNCHANGED <<state, name, mem, playerList, work, sql, redis, last, durable>>
  BY DEF LogoutIgnored, slotVars, diskVars, histVars
<1>4. /\ \A u \in User : Ordered(u)
      /\ \A j \in Slot : (j # k => (Promised(j) => Promised(j)')) /\ (Called(j) => Called(j)')
  BY <1>1, TakenKept
<1>5. \A j \in Slot, u \in User : Owes(j, u)' <=> Owes(j, u)
  BY <1>2, <1>3, NoneAssumption DEF Owes
<1>6. ASSUME NEW u \in User PROVE Account(u)'
  <2>1. Account(u)
    BY BookFacts DEF Accounts
  <2>2. Stored(u) => Stored(u)'
    BY <1>3, StoredKept
  <2>3. QED BY <1>3, <1>4, <1>5, <2>1, <2>2, AccountKept
<1>7. ASSUME NEW j \in Slot PROVE Accounted(j)'
  BY <1>1, <1>3, <1>4, BookFacts, AccountedKept, Unnamed, ToilSame
<1>8. Kept'
  BY <1>3, BookFacts DEF Kept, NoHash, Newborn
<1>9. QED BY <1>2, <1>6, <1>7, <1>8, IdleBooks DEF Books, Accounts

LEMMA BookTake == ASSUME BookInv, LogoutTake PROVE Books'
<1> PICK k : k = Head(queue).slot
  OBVIOUS
<1>1. Take("LOGOUT", "sql")
  BY DEF LogoutTake
<1>2. TypeOK /\ db.slot = None /\ k \in Slot /\ db'.pc = "sql" /\ db'.slot = k
  BY <1>1, TakeAll, BookFacts
<1>3. UNCHANGED <<state, name, mem, playerList, work, sql, redis, last, durable>>
  BY DEF LogoutTake, slotVars, diskVars, histVars
<1>4. state[k] = "FREE"
  BY <1>1, NextRequest, BookFacts DEF Gone
<1>5. /\ \A u \in User : Ordered(u)
      /\ \A j \in Slot : (Promised(j) => Promised(j)') /\ (Called(j) => Called(j)')
  BY <1>1, TakenKept
<1>6. \A j \in Slot, u \in User : Owes(j, u)' <=> Owes(j, u)
  BY <1>2, <1>3, <1>4, NoneAssumption DEF Owes
<1>7. ASSUME NEW u \in User PROVE Account(u)'
  <2>1. Account(u)
    BY BookFacts DEF Accounts
  <2>2. Stored(u) => Stored(u)'
    BY <1>3, StoredKept
  <2>3. QED BY <1>3, <1>5, <1>6, <2>1, <2>2, AccountKept
<1>8. ASSUME NEW j \in Slot PROVE Accounted(j)'
  BY <1>3, <1>5, BookFacts, AccountedKept, ToilSame
<1>9. Written' /\ Loaded'
  BY <1>2 DEF Written, Loaded
<1>10. Kept'
  BY <1>3, BookFacts DEF Kept, NoHash, Newborn
<1>11. QED BY <1>7, <1>8, <1>9, <1>10 DEF Books, Accounts

\* A user whose name is read from no other listed slot: every slot that still
\* owes him has its LOGOUT in the queue.
LEMMA BookLoad == ASSUME BookInv, LoginLoad PROVE Books'
<1> PICK k, own, row : /\ k = Head(queue).slot /\ own = name[k]
                       /\ row = IF Offline \/ sql[own] = None THEN Newborn ELSE sql[own]
  OBVIOUS
<1>1. Take("LOGIN", "enter") /\ ~AlreadyPlaying(k)
  BY DEF LoginLoad
<1>2. TypeOK /\ db.slot = None /\ k \in Slot /\ db'.pc = "enter" /\ db'.slot = k
  BY <1>1, TakeAll, BookFacts
<1>3. PICK c \in Client : Live(k, c) /\ Waits(k, c)
  BY <1>1, NextRequest, BookFacts
<1>4. state[k] = "ACTIVE" /\ k # None /\ own \in User /\ own \in Name
  BY <1>2, <1>3, NoneAssumption DEF Live, Waits, TypeOK, Name
<1>5. /\ mem'[k] = row /\ \A j \in Slot \ {k} : mem'[j] = mem[j]
      /\ \A n \in Name \ {own} : sql'[n] = sql[n]
      /\ ~Offline => sql'[own] = row
      /\ UNCHANGED <<state, name, playerList, work, redis, last, durable>>
  BY <1>2, <1>4 DEF LoginLoad, TypeOK, histVars
<1>6. /\ \A u \in User : Ordered(u)
      /\ \A j \in Slot : (Promised(j) => Promised(j)') /\ (j # k => (Called(j) => Called(j)'))
  BY <1>1, TakenKept
<1>7. \A j \in Slot, u \in User : (Owes(j, u)' <=> Owes(j, u)) /\ (Owes(j, u) => j # k)
  BY <1>2, <1>4, <1>5, NoneAssumption DEF Owes
<1>8. Stored(own) => /\ Stored(own)'
                     /\ row = IF Offline THEN Newborn ELSE last[own]
  <2>1. CASE Offline
    BY <1>4, <1>5, <2>1 DEF Stored, NoHash, Newborn
  <2>2. CASE ~Offline
    <3>1. Stored(own) => row = last[own]
      <4>1. last[own] \in Record
        BY <1>2, <1>4 DEF TypeOK
      <4>2. last[own] # None
        BY <4>1, RecordAssumption
      <4>3. QED BY <2>2, <4>2 DEF Stored
    <3>2. Stored(own) => Stored(own)'
      BY <1>5, <2>2, <3>1 DEF Stored, NoHash, Newborn
    <3>3. QED BY <2>2, <3>1, <3>2
  <2>3. QED BY <2>1, <2>2
<1>9. ASSUME NEW u \in User PROVE Account(u)'
  <2>1. Account(u)
    BY BookFacts DEF Accounts
  <2>2. Stored(u) => Stored(u)'
    BY <1>5, <1>8, StoredKept DEF Name
  <2>3. QED BY <1>5, <1>6, <1>7, <2>1, <2>2, AccountKept
<1>10. ASSUME NEW j \in Slot, Owes(j, own) PROVE Promised(j)'
  <2>1. j # k /\ j \notin playerList /\ name[j] = own
    BY <1>1, <1>4, <1>7, <1>10 DEF AlreadyPlaying, Owes
  <2>2. state[j] = "FREE"
    <3>1. state[j] # "INGAME"
      BY <2>1, InsideListed, BookFacts DEF Inside
    <3>2. state[j] # "ACTIVE"
      BY <1>2, <1>10, NoneAssumption DEF Owes
    <3>3. QED BY <1>2, <3>1, <3>2 DEF TypeOK
  <2>3. name[j] # NoName /\ ~Due(j)
    BY <1>4, <2>1, NameAssumption DEF Due
  <2>4. Promised(j)
    BY <2>2, <2>3, BookFacts DEF Accounted
  <2>5. QED BY <1>6, <2>4
<1>11. Debtless(own)' => mem'[k] = IF Offline THEN Newborn ELSE last'[own]
  <2>1. Debtless(own)' => Debtless(own)
    BY <1>4, <1>7 DEF Debtless
  <2>2. Account(own)
    BY <1>4, BookFacts DEF Accounts
  <2>3. Debtless(own) => Stored(own)
    BY <2>2 DEF Account, Debtless, Heir
  <2>4. QED BY <1>5, <1>8, <2>1, <2>3
<1>12. Loaded' /\ Written'
  <2>1. name'[db'.slot] = own
    BY <1>2, <1>5
  <2>2. \A j \in Slot : Owes(j, own)' => Promised(j)'
    BY <1>4, <1>7, <1>10
  <2>3. Loaded'
    BY <1>2, <1>11, <2>1, <2>2 DEF Loaded, Newborn
  <2>4. QED BY <1>2, <2>3 DEF Written
<1>13. ASSUME NEW j \in Slot PROVE Accounted(j)'
  <2>1. CASE j # k
    BY <1>5, <1>6, <2>1, BookFacts, AccountedKept, ToilSame
  <2>2. CASE j = k
    <3>1. \A w \in Worker : work'[w].slot = k => work'[w].pc # "delist"
      BY <1>3, <1>5 DEF Waits, Served
    <3>2. Called(k)' /\ state'[k] = "ACTIVE"
      BY <1>2, <1>4, <1>5 DEF Called
    <3>3. QED BY <2>2, <3>1, <3>2 DEF Accounted
  <2>3. QED BY <2>1, <2>2
<1>14. Kept'
  BY <1>5, BookFacts DEF Kept, NoHash, Newborn
<1>15. QED BY <1>9, <1>12, <1>13, <1>14 DEF Books, Accounts

\* What EnterGame gives the player: what he last had, unless an older session
\* of his still owes him a record.
LEMMA Restores ==
    ASSUME BookInv, db.pc = "enter", Debtless(name[db.slot]), ~(Offline /\ RedisMayExpire)
    PROVE  Restored(mem[db.slot], redis[name[db.slot]]) = last[name[db.slot]]
<1> PICK k, u : k = db.slot /\ u = name[k]
  OBVIOUS
<1>1. TypeOK /\ u \in User /\ u \in Name /\ Loaded /\ k \in Slot
  BY BookFacts, DbType DEF Name
<1>2. Account(u)
  BY <1>1, BookFacts DEF Accounts
<1>3. Stored(u)
  BY <1>2 DEF Account, Debtless, Heir
<1>4. mem[k] = IF Offline THEN Newborn ELSE last[u]
  BY <1>1 DEF Loaded
<1>5. last[u] \in Record
  BY <1>1 DEF TypeOK
<1>6. \A r \in Record : r = [pos |-> r.pos, lvl |-> r.lvl] /\ r.pos # None /\ r.lvl # None
  BY NoneAssumption DEF Record
<1>7. CASE redis[u] = last[u]
  <2>1. Restored(mem[k], last[u]) = [pos |-> last[u].pos, lvl |-> last[u].lvl]
    BY <1>5, <1>6 DEF Restored
  <2>2. QED BY <1>5, <1>6, <1>7, <2>1
<1>8. CASE redis[u] = NoHash
  <2>1. mem[k] = last[u]
    BY <1>3, <1>4, <1>8 DEF Stored
  <2>2. Restored(mem[k], NoHash) = [pos |-> last[u].pos, lvl |-> last[u].lvl]
    BY <2>1 DEF Restored, NoHash
  <2>3. QED BY <1>5, <1>6, <1>8, <2>2
<1>9. QED BY <1>3, <1>7, <1>8 DEF Stored

LEMMA BookEnter == ASSUME BookInv, EnterGame PROVE Books'
<1> PICK k, own, r : k = db.slot /\ own = name[k] /\ r = Restored(mem[k], redis[own])
  OBVIOUS
<1>1. TypeOK /\ db.pc = "enter" /\ db \in BusyDb /\ k \in Slot /\ own \in User /\ own \in Name
  BY BookFacts, DbType DEF EnterGame, Name
<1>2. PICK c \in Client : Live(k, c) /\ Enters(k, c)
  BY <1>1, SaveStage, BookFacts
<1>3. /\ mem'[k] = r /\ \A j \in Slot \ {k} : mem'[j] = mem[j]
      /\ redis'[own] = r /\ durable'[own] = r /\ last'[own] = r
      /\ \A n \in Name \ {own} : redis'[n] = redis[n] /\ durable'[n] = durable[n] /\ last'[n] = last[n]
      /\ db'.slot = k /\ db'.pc = "place"
      /\ UNCHANGED <<state, name, playerList, work, queue, sql>>
  BY <1>1 DEF EnterGame, TypeOK, BusyDb
<1>4. r # NoHash
  <2>1. mem'[k] \in Record
    <3>1. TypeOK'
      BY BookFacts, NextInv DEF Next, DbStep, CalmInv, IInv
    <3>2. QED BY <1>1, <3>1 DEF TypeOK
  <2>2. QED BY <1>3, <2>1, NotNoHash
<1>5. Steady
  BY <1>1, <1>3 DEF Steady, SavePc
<1>6. \A j \in Slot, u \in User : j # k => (Owes(j, u)' <=> Owes(j, u))
  BY <1>3 DEF Owes
<1>7. \A u \in User : ~Owes(k, u) /\ (Owes(k, u)' <=> u = own)
  BY <1>1, <1>2, <1>3 DEF Owes, Live, Enters
<1>8. ASSUME NEW j \in Slot, j # k, Owes(j, own) PROVE Ahead(j, k)'
  <2>1. Promised(j) /\ ~Saves(j)
    BY <1>1, <1>8, BookFacts DEF Loaded, Saves, SavePc
  <2>2. PICK i \in 1 .. Len(queue) : Holds(i, "LOGOUT", j)
    BY <2>1 DEF Promised
  <2>3. \A h \in 1 .. i : ~Holds(h, "LOGOUT", k)
    <3>1. Len(queue) \in Nat
      BY <1>1 DEF TypeOK
    <3>2. \A h \in 1 .. i : h \in 1 .. Len(queue)
      BY <3>1
    <3>3. QED BY <1>2, <3>2 DEF Enters, Queued, Holds
  <2>4. ~Saves(k)
    BY <1>1 DEF Saves, SavePc
  <2>5. Ahead(j, k)
    BY <2>2, <2>3, <2>4 DEF Ahead
  <2>6. QED BY <1>1, <1>5, <2>5, SteadyQueue
<1>9. ASSUME NEW u \in User PROVE Account(u)'
  <2>1. CASE u = own
    <3>1. Heir(k, u)'
      BY <1>1, <1>3, <1>6, <1>7, <1>8, <2>1 DEF Heir
    <3>2. QED BY <1>1, <3>1 DEF Account
  <2>2. CASE u # own
    <3>1. last'[u] = last[u] /\ sql'[u] = sql[u] /\ redis'[u] = redis[u]
      BY <1>3, <2>2 DEF Name
    <3>2. \A j \in Slot : (Owes(j, u)' <=> Owes(j, u)) /\ (Owes(j, u) => mem'[j] = mem[j])
      BY <1>3, <1>6, <1>7, <2>2
    <3>3. Ordered(u)
      BY <1>1, <1>5, SteadyQueue DEF Ordered
    <3>4. Account(u)
      BY BookFacts DEF Accounts
    <3>5. Stored(u) => Stored(u)'
      BY <3>1, StoredKept
    <3>6. QED BY <3>1, <3>2, <3>3, <3>4, <3>5, AccountKept
  <2>3. QED BY <2>1, <2>2
<1>10. ASSUME NEW j \in Slot PROVE Accounted(j)'
  BY <1>1, <1>3, <1>5, SteadyQueue, BookFacts, AccountedKept, ToilSame
<1>11. Written' /\ Loaded'
  BY <1>3 DEF Written, Loaded
<1>12. Kept'
  <2>1. ASSUME Offline, NEW v \in User
        PROVE  redis'[v] \in {NoHash, durable'[v]} /\ (redis'[v] = NoHash => RedisMayExpire \/ durable'[v] = Newborn)
    <3>1. CASE v = own
      BY <1>3, <1>4, <3>1
    <3>2. CASE v # own
      BY <1>3, <2>1, <3>2, BookFacts DEF Kept, Name
    <3>3. QED BY <3>1, <3>2
  <2>2. QED BY <2>1 DEF Kept, NoHash, Newborn
<1>13. QED BY <1>9, <1>10, <1>11, <1>12 DEF Books, Accounts

LEMMA BookPlace == ASSUME BookInv, EnterSector PROVE Books'
<1>1. TypeOK /\ db \in BusyDb
  BY BookFacts, DbType DEF EnterSector
<1>2. UNCHANGED <<state, name, mem, playerList, work, queue, sql, redis, last, durable>>
  BY DEF EnterSector, diskVars, histVars
<1>3. Onward
  BY <1>1 DEF EnterSector, Onward, BusyDb
<1>4. QED BY <1>1, <1>2, <1>3, BookFacts, BooksPlain, ToilSame

LEMMA BookIngame == ASSUME BookInv, EnterIngame PROVE Books'
<1> PICK k : k = db.slot
  OBVIOUS
<1>1. TypeOK /\ db.pc = "ingame" /\ k \in Slot /\ k # None
  BY BookFacts, DbType, NoneAssumption DEF EnterIngame
<1>2. PICK c \in Client : Live(k, c) /\ Plays(k, c)
  BY <1>1, SaveStage, BookFacts
<1>3. /\ state'[k] = "INGAME" /\ \A j \in Slot \ {k} : state'[j] = state[j]
      /\ db' = DbIdle /\ db'.slot = None
      /\ UNCHANGED <<name, mem, playerList, work, queue, sql, redis, last, durable>>
  BY <1>1 DEF EnterIngame, TypeOK, DbIdle, diskVars, histVars
<1>4. \A j : ~Saves(j) /\ ~Saves(j)'
  BY <1>1, <1>3 DEF Saves, SavePc, DbIdle
<1>5. /\ \A j : Promised(j) => Promised(j)'
      /\ \A j, n : Ahead(j, n) => Ahead(j, n)'
  BY <1>3, <1>4 DEF Promised, Ahead, Holds
<1>6. \A j \in Slot, u \in User : Owes(j, u)' <=> Owes(j, u)
  BY <1>1, <1>3, NoneAssumption DEF Owes
<1>7. ASSUME NEW u \in User PROVE Account(u)'
  <2>1. Account(u) /\ Ordered(u)
    BY <1>5, BookFacts DEF Accounts, Ordered
  <2>2. Stored(u) => Stored(u)'
    BY <1>3, StoredKept
  <2>3. QED BY <1>3, <1>6, <2>1, <2>2, AccountKept
<1>8. ASSUME NEW j \in Slot PROVE Accounted(j)'
  <2>1. CASE j # k
    <3>1. Called(j) => Called(j)'
      BY <1>1, <1>3, <2>1 DEF Called, Holds
    <3>2. QED BY <1>3, <1>5, <2>1, <3>1, BookFacts, AccountedKept, ToilSame
  <2>2. CASE j = k
    <3>1. \A w \in Worker : work'[w].slot = k => work'[w].pc # "delist"
      BY <1>2, <1>3 DEF Plays, Served
    <3>2. QED BY <1>3, <2>2, <3>1 DEF Accounted
  <2>3. QED BY <2>1, <2>2
<1>9. Kept'
  BY <1>3, BookFacts DEF Kept, NoHash, Newborn
<1>10. QED BY <1>3, <1>7, <1>8, <1>9, IdleBooks DEF Books, Accounts

\* The slot at the database thread is gone, and owes the user of its name.
LEMMA SavingSlot ==
    ASSUME BookInv, db.pc \in SavePc, NEW k, k = db.slot
    PROVE  /\ TypeOK /\ k \in Slot /\ db \in BusyDb /\ state[k] = "FREE" /\ Saves(k)
           /\ name[k] \in Name /\ Owes(k, name[k]) /\ mem[k] \in Record
           /\ \A j : j # k => ~Saves(j)
<1>1. TypeOK /\ k \in Slot /\ db \in BusyDb
  BY BookFacts, DbType DEF SavePc
<1>2. state[k] = "FREE"
  BY <1>1, SaveStage, BookFacts DEF SavePc, Gone
<1>3. QED BY <1>1, <1>2 DEF Saves, Owes, TypeOK

LEMMA BookSql == ASSUME BookInv, LogoutSql PROVE Books'
<1> PICK k, own : k = db.slot /\ own = name[k]
  OBVIOUS
<1>0. db.pc = "sql" /\ db.pc \in SavePc
  BY DEF LogoutSql, SavePc
<1>1. /\ TypeOK /\ k \in Slot /\ db \in BusyDb /\ own \in Name /\ Owes(k, own)
  BY <1>0, SavingSlot
<1>2. /\ UNCHANGED <<state, name, mem, playerList, work, queue, redis, last>>
      /\ db' = [db EXCEPT !.pc = "redis", !.saved = TRUE]
      /\ \/ Offline /\ UNCHANGED <<sql, durable>>
         \/ /\ ~Offline
            /\ sql' = [sql EXCEPT ![own] = mem[k]]
  BY BookFacts DEF LogoutSql, Tidy, slotVars
<1>3. db'.slot = k /\ db'.pc = "redis" /\ db'.saved
  BY <1>1, <1>2 DEF BusyDb
<1>4. Steady
  BY <1>0, <1>2, <1>3 DEF Steady, SavePc
<1>5. \A j \in Slot, u \in User : Owes(j, u)' <=> Owes(j, u)
  BY <1>0, <1>2, <1>3 DEF Owes
<1>6. ASSUME NEW u \in User PROVE Account(u)'
  <2>1. Account(u)
    BY BookFacts DEF Accounts
  <2>2. Ordered(u)
    BY <1>1, <1>4, SteadyQueue DEF Ordered
  <2>3. Debtless(u) => sql'[u] = sql[u]
    <3>1. Debtless(u) => u # own
      BY <1>1 DEF Debtless
    <3>2. QED BY <1>1, <1>2, <3>1 DEF TypeOK, Name
  <2>4. Debtless(u) /\ Stored(u) => Stored(u)'
    BY <1>2, <2>3, StoredKept
  <2>5. QED BY <1>2, <1>5, <2>1, <2>2, <2>4, AccountKept
<1>7. ASSUME NEW j \in Slot PROVE Accounted(j)'
  BY <1>1, <1>2, <1>4, SteadyQueue, BookFacts, AccountedKept, ToilSame
<1>8. Written' /\ Loaded'
  <2>1. ~Offline => sql'[own] = mem[k]
    BY <1>1, <1>2 DEF TypeOK
  <2>2. QED BY <1>2, <1>3, <2>1 DEF Written, Loaded
<1>9. Kept'
  BY <1>2, BookFacts DEF Kept, NoHash, Newborn
<1>10. QED BY <1>6, <1>7, <1>8, <1>9 DEF Books, Accounts

LEMMA BookRedis == ASSUME BookInv, LogoutRedis PROVE Books'
<1> PICK k, own : k = db.slot /\ own = name[k]
  OBVIOUS
<1>0. db.pc = "redis" /\ db.pc \in SavePc
  BY DEF LogoutRedis, SavePc
<1>1. /\ TypeOK /\ k \in Slot /\ db \in BusyDb /\ own \in Name /\ Owes(k, own) /\ state[k] = "FREE"
  BY <1>0, SavingSlot
<1>2. /\ UNCHANGED <<state, name, mem, playerList, work, queue, sql, last>>
      /\ db' = [db EXCEPT !.pc = "clear"] /\ RedisSave(k)
  BY DEF LogoutRedis, slotVars
<1>3. db'.slot = k /\ db'.pc = "clear" /\ db'.saved = db.saved
  BY <1>1, <1>2 DEF BusyDb
<1>4. Steady
  BY <1>0, <1>2, <1>3 DEF Steady, SavePc
<1>5. \A j \in Slot, u \in User : Owes(j, u)' <=> Owes(j, u)
  BY <1>0, <1>2, <1>3 DEF Owes
<1>6. redis'[own] = mem[k]
  BY <1>1, <1>2 DEF RedisSave, TypeOK
<1>7. ASSUME NEW u \in User PROVE Account(u)' /\ Kept'
  <2>1. Account(u)
    BY BookFacts DEF Accounts
  <2>2. Ordered(u)
    BY <1>1, <1>4, SteadyQueue DEF Ordered
  <2>3. Kept' /\ (Debtless(u) => redis'[u] = redis[u])
    BY <1>1, <1>2, SavedBooks DEF Debtless
  <2>4. Debtless(u) /\ Stored(u) => Stored(u)'
    BY <1>2, <2>3, StoredKept
  <2>5. QED BY <1>2, <1>5, <2>1, <2>2, <2>3, <2>4, AccountKept
<1>8. ASSUME NEW j \in Slot PROVE Accounted(j)'
  BY <1>1, <1>2, <1>4, SteadyQueue, BookFacts, AccountedKept, ToilSame
<1>9. Written' /\ Loaded'
  <2>1. Written
    BY BookFacts
  <2>2. db.saved /\ (~Offline => sql[own] = mem[k])
    BY <1>0, <2>1 DEF Written
  <2>3. QED BY <1>2, <1>3, <1>6, <2>2 DEF Written, Loaded
<1>10. Kept'
  <2>1. CASE \E u \in User : TRUE
    BY <1>7, <2>1
  <2>2. CASE ~\E u \in User : TRUE
    BY <2>2 DEF Kept
  <2>3. QED BY <2>1, <2>2
<1>11. QED BY <1>7, <1>8, <1>9, <1>10 DEF Books, Accounts

\* The slot that is cleared either was the user's heir, and then nobody owes
\* him any more, or it was not, and then his heir is another slot.
LEMMA BookClear == ASSUME BookInv, LogoutClear PROVE Books'
<1> PICK k, own : k = db.slot /\ own = name[k]
  OBVIOUS
<1>0. db.pc = "clear" /\ db.pc \in SavePc
  BY DEF LogoutClear, SavePc
<1>1. /\ TypeOK /\ k \in Slot /\ own \in Name /\ Owes(k, own) /\ state[k] = "FREE" /\ Saves(k) /\ k # None
      /\ \A j : j # k => ~Saves(j)
  BY <1>0, SavingSlot, NoneAssumption
<1>2. Written
  BY BookFacts
<1>3. /\ db.saved /\ (~Offline => sql[own] = mem[k])
      /\ redis[own] = mem[k] \/ (redis[own] = NoHash /\ RedisMayExpire)
  BY <1>0, <1>2 DEF Written
<1>4. /\ name'[k] = NoName /\ \A j \in Slot \ {k} : name'[j] = name[j]
      /\ db' = DbIdle /\ db'.slot = None
      /\ UNCHANGED <<state, mem, playerList, work, queue, sql, redis, last, durable>>
  BY <1>1, <1>3 DEF LogoutClear, TypeOK, DbIdle, diskVars, histVars
<1>5. \A j : ~Saves(j)'
  BY <1>4 DEF Saves, SavePc, DbIdle
<1>6. ASSUME NEW j \in Slot, j # k
      PROVE  /\ Promised(j) => Promised(j)'
             /\ Called(j) => Called(j)'
             /\ \A n : Ahead(j, n) => Ahead(j, n)'
             /\ ~Ahead(j, k)
             /\ \A u \in User : Owes(j, u)' <=> Owes(j, u)
  <2>1. ~Saves(j) /\ db.slot # j
    BY <1>1, <1>6
  <2>2. (Promised(j) => Promised(j)') /\ (Called(j) => Called(j)')
    BY <1>4, <2>1 DEF Promised, Called, Holds
  <2>3. \A n : Ahead(j, n) => Ahead(j, n)'
    BY <1>4, <1>5, <2>1 DEF Ahead, Holds
  <2>4. ~Ahead(j, k)
    BY <1>1, <2>1 DEF Ahead
  <2>5. \A u \in User : Owes(j, u)' <=> Owes(j, u)
    BY <1>4, <1>6, <2>1, NoneAssumption DEF Owes
  <2>6. QED BY <2>2, <2>3, <2>4, <2>5
<1>7. \A u \in User : ~Owes(k, u)'
  BY <1>4, NameAssumption DEF Owes
<1>8. ASSUME NEW u \in User PROVE Account(u)'
  <2>1. Account(u)
    BY BookFacts DEF Accounts
  <2>2. Stored(u) => Stored(u)'
    BY <1>4, StoredKept
  <2>3. CASE Debtless(u) /\ Stored(u)
    <3>1. Debtless(u)'
      BY <1>6, <1>7, <2>3 DEF Debtless
    <3>2. QED BY <2>2, <2>3, <3>1 DEF Account
  <2>4. CASE Heir(k, u)
    <3>1. u = own /\ mem[k] = last[u]
      BY <2>4 DEF Heir, Owes
    <3>2. Stored(u)
      <4>1. mem[k] # NoHash
        BY <1>0, SavingSlot, NotNoHash
      <4>2. QED BY <1>3, <3>1, <4>1 DEF Stored
    <3>3. Debtless(u)'
      BY <1>6, <1>7, <2>4 DEF Debtless, Heir
    <3>4. QED BY <2>2, <3>2, <3>3 DEF Account
  <2>5. ASSUME NEW n \in Slot, n # k, Heir(n, u) PROVE Account(u)'
    <3>1. Owes(n, u)' /\ mem'[n] = last'[u]
      BY <1>4, <1>6, <2>5 DEF Heir
    <3>2. \A j \in Slot \ {n} : Owes(j, u)' => Ahead(j, n)'
      BY <1>6, <1>7, <2>5 DEF Heir
    <3>3. Heir(n, u)'
      BY <3>1, <3>2 DEF Heir
    <3>4. QED BY <3>3 DEF Account
  <2>6. QED BY <2>1, <2>3, <2>4, <2>5 DEF Account
<1>9. ASSUME NEW j \in Slot PROVE Accounted(j)'
  BY <1>4, <1>6, BookFacts, AccountedKept, Unnamed, ToilSame
<1>10. Kept'
  BY <1>4, BookFacts DEF Kept, NoHash, Newborn
<1>11. QED BY <1>4, <1>8, <1>9, <1>10, IdleBooks DEF Books, Accounts

(* What happens to the stores, and to the process.                          *)
LEMMA BookExpire == ASSUME BookInv, NEW n \in Name, RedisExpire(n) PROVE Books'
<1>1. /\ TypeOK /\ RedisMayExpire
      /\ UNCHANGED <<state, name, mem, playerList, work, queue, db, sql, last, durable>>
  BY BookFacts DEF RedisExpire, slotVars, histVars
<1>2. \A v \in Name : redis'[v] = redis[v] \/ redis'[v] = NoHash
  BY <1>1 DEF RedisExpire, TypeOK
<1>3. Steady /\ \A j \in Slot, u \in User : Owes(j, u)' <=> Owes(j, u)
  BY <1>1 DEF Steady, Owes
<1>4. ASSUME NEW u \in User PROVE Account(u)'
  <2>1. Account(u)
    BY BookFacts DEF Accounts
  <2>2. Ordered(u)
    BY <1>1, <1>3, SteadyQueue DEF Ordered
  <2>3. Stored(u) => Stored(u)'
    BY <1>1, <1>2, StoredKept DEF Name
  <2>4. QED BY <1>1, <1>3, <2>1, <2>2, <2>3, AccountKept
<1>5. ASSUME NEW j \in Slot PROVE Accounted(j)'
  BY <1>1, <1>3, SteadyQueue, BookFacts, AccountedKept, ToilSame
<1>6. Written'
  <2>1. db.pc = "clear" => name[db.slot] \in Name
    BY <1>1, DbType DEF TypeOK
  <2>2. Written
    BY BookFacts
  <2>3. QED BY <1>1, <1>2, <2>1, <2>2 DEF Written
<1>7. Loaded'
  <2>1. ASSUME db.pc = "enter", NEW u, u = name[db.slot]
        PROVE  /\ \A j \in Slot : Owes(j, u)' => Promised(j)'
               /\ Debtless(u)' => mem[db.slot] = IF Offline THEN Newborn ELSE last[u]
    <3>1. u \in User /\ Loaded
      BY <2>1, BookFacts
    <3>2. Debtless(u)' => Debtless(u)
      BY <1>3, <3>1 DEF Debtless
    <3>3. \A j \in Slot : Promised(j) => Promised(j)'
      BY <1>1, <1>3, SteadyQueue
    <3>4. QED BY <1>3, <2>1, <3>1, <3>2, <3>3 DEF Loaded
  <2>2. QED BY <1>1, <2>1 DEF Loaded, Newborn
<1>8. Kept'
  <2>1. Kept
    BY BookFacts
  <2>2. QED BY <1>1, <1>2, <2>1 DEF Kept, NoHash, Newborn, Name
<1>9. QED BY <1>4, <1>5, <1>6, <1>7, <1>8 DEF Books, Accounts

LEMMA BookRestart == ASSUME BookInv, Restart PROVE Books'
<1>1. Offline
  <2>1. MaxRestarts # 0
    BY BookFacts DEF Restart, TypeOK
  <2>2. QED BY <2>1, BookFacts DEF Tidy
<1>2. /\ \A k \in Slot : name'[k] = NoName
      /\ \A u \in User : redis'[u] = redis[u]
      /\ last' = durable /\ durable' = durable /\ db' = DbIdle
  BY <1>1 DEF Restart, Name
<1>3. Kept'
  BY <1>2, BookFacts DEF Kept, NoHash, Newborn
<1>4. ASSUME NEW u \in User PROVE Account(u)'
  <2>1. Kept
    BY BookFacts
  <2>2. Stored(u)'
    BY <1>1, <1>2, <2>1 DEF Stored, Kept, NoHash, Newborn
  <2>3. Debtless(u)'
    BY <1>2, NameAssumption DEF Debtless, Owes
  <2>4. QED BY <2>2, <2>3 DEF Account
<1>5. QED BY <1>2, <1>3, <1>4, Unnamed, IdleBooks DEF Books, Accounts

(* The start, and every step.                                               *)
LEMMA InitBooks == Init /\ Calm /\ Tidy => BookInv
<1> SUFFICES ASSUME Init, Calm, Tidy PROVE BookInv
  OBVIOUS
<1>1. /\ \A k \in Slot : name[k] = NoName /\ state[k] = "FREE"
      /\ \A u \in User : redis[u] = NoHash /\ sql[u] = None /\ last[u] = Newborn /\ durable[u] = Newborn
      /\ db.pc = "idle"
  BY DEF Init, Name, DbIdle
<1>2. \A u \in User : Account(u)
  BY <1>1, NameAssumption DEF Account, Debtless, Owes, Stored
<1>3. \A k \in Slot : Accounted(k)
  BY <1>1 DEF Accounted
<1>4. Written /\ Loaded /\ Kept
  BY <1>1 DEF Written, Loaded, Kept
<1>5. CalmInv
  BY InitCalm
<1>6. QED BY <1>2, <1>3, <1>4, <1>5 DEF BookInv, Books, Accounts

LEMMA NextBooks == BookInv /\ [Next]_vars => BookInv'
<1> SUFFICES ASSUME BookInv, [Next]_vars PROVE BookInv'
  OBVIOUS
<1>1. CalmInv' /\ Tidy'
  BY NextCalm DEF BookInv, Tidy
<1> SUFFICES Books'
  BY <1>1 DEF BookInv
<1>2. CASE \E w \in Worker : Handler(w)
  BY <1>2, BookPlain, BookReset, BookLogins, BookPlay, BookFree, BookLogout, BookDelist DEF Handler
<1>3. CASE \E w \in Worker, c \in Client : Completion(w, c)
  BY <1>3, BookAccept, BookCompletion DEF Completion
<1>4. CASE DbStep
  BY <1>4, BookRefuse, BookLoad, BookEnter, BookPlace, BookIngame, BookIgnored, BookTake,
     BookSql, BookRedis, BookClear, BookSaveRedis DEF DbStep
<1>5. CASE Restart
  BY <1>5, BookRestart
<1>6. CASE (\E c \in Client : SendDone(c) \/ ClientClose(c)) \/ UNCHANGED vars
  BY <1>6, BookConnection
<1>7. CASE \E n \in Name : RedisExpire(n)
  BY <1>7, BookExpire
<1>8. QED BY <1>2, <1>3, <1>4, <1>5, <1>6, <1>7 DEF Next

LEMMA BookInvariance == Calm /\ Tidy /\ Spec => []BookInv
<1>1. Init /\ Calm /\ Tidy => BookInv
  BY InitBooks
<1>2. BookInv /\ [Next]_vars => BookInv'
  BY NextBooks
<1> QED
  BY <1>1, <1>2, PTL DEF Spec
----------------------------------------------------------------------------
(* A slot that is in use is attended: a handler works on it that will end   *)
(* in the next WSARecv or in the teardown, or a WSARecv is out.             *)

AttendPc == AcceptPc \union ReceivePc \union {"leave", "free"}
AttendedBy(k) == \E w \in Worker : work[w].slot = k /\ work[w].pc \in AttendPc
Hears(k)      == socket[k] # None /\ recv[socket[k]]
Attended(k)   == state[k] # "FREE" => AttendedBy(k) \/ Hears(k)

Listening == \A w \in Worker : work[w].pc = "enlist" => recv[work[w].conn]
Watch     == (\A k \in Slot : Attended(k)) /\ Listening
WatchInv  == CalmInv /\ Watch

LEMMA AttendedKept ==
    ASSUME NEW k, Attended(k), state'[k] # "FREE" => state[k] # "FREE",
           AttendedBy(k) => AttendedBy(k)' \/ Hears(k)',
           Hears(k) => AttendedBy(k)' \/ Hears(k)'
    PROVE  Attended(k)'
BY DEF Attended

\* The workers go on, and nothing else of this changes.
LEMMA WatchSame ==
    ASSUME Watch, UNCHANGED <<socket, recv>>,
           \A k \in Slot : state'[k] # "FREE" => state[k] # "FREE",
           \A v \in Worker : \/ work'[v] = work[v]
                             \/ /\ work[v].pc \in AttendPc => work'[v].slot = work[v].slot /\ work'[v].pc \in AttendPc
                                /\ work'[v].pc # "enlist"
    PROVE  Watch'
<1>1. Listening'
  BY DEF Watch, Listening
<1>2. ASSUME NEW k \in Slot PROVE Attended(k)'
  <2>1. AttendedBy(k) => AttendedBy(k)'
    BY DEF AttendedBy
  <2>2. Hears(k) => Hears(k)'
    BY DEF Hears
  <2>3. QED BY <2>1, <2>2, AttendedKept DEF Watch
<1>3. QED BY <1>1, <1>2 DEF Watch

LEMMA WatchGoto ==
    ASSUME WatchInv, NEW w \in Worker, UNCHANGED <<state, socket, recv>>,
           \/ AcceptReset(w) \/ RecvLogin(w) \/ RecvNoLogin(w) \/ RecvMove(w) \/ RecvLevelUp(w) \/ RecvBroken(w)
           \/ LeaveSector(w) \/ PushLogout(w)
    PROVE  Watch'
<1>1. PICK pc \in {"bind", "rearm", "leave", "free", "delist"} :
        /\ Goto(w, pc) /\ work[w].pc # "idle"
        /\ work[w].pc \in AttendPc => pc \in AttendPc
  BY DEF AcceptReset, RecvLogin, RecvNoLogin, RecvMove, RecvLevelUp, RecvBroken, LeaveSector, PushLogout, AttendPc
<1>2. TypeOK
  BY DEF WatchInv, CalmInv, IInv
<1>3. /\ work'[w].pc = pc /\ work'[w].slot = work[w].slot
      /\ \A v \in Worker : v # w => work'[v] = work[v]
  BY <1>1, <1>2, GotoAll
<1>4. \A v \in Worker : \/ work'[v] = work[v]
                        \/ /\ work[v].pc \in AttendPc => work'[v].slot = work[v].slot /\ work'[v].pc \in AttendPc
                           /\ work'[v].pc # "enlist"
  BY <1>1, <1>3
<1>5. QED BY <1>4, WatchSame DEF WatchInv

LEMMA WatchBind == ASSUME WatchInv, NEW w \in Worker, AcceptBind(w) PROVE Watch'
<1> PICK k, c : k = work[w].slot /\ c = work[w].conn
  OBVIOUS
<1>1. TypeOK /\ work[w].pc = "bind" /\ Goto(w, "enlist") /\ Watch
  BY DEF AcceptBind, WatchInv, CalmInv, IInv
<1>2. k \in Slot /\ c \in Client
  BY <1>1, BusyType
<1>3. /\ work'[w].pc = "enlist" /\ work'[w].slot = k /\ work'[w].conn = c
      /\ \A v \in Worker : v # w => work'[v] = work[v]
  BY <1>1, GotoAll
<1>4. /\ state' = state /\ \A j \in Slot \ {k} : socket'[j] = socket[j]
      /\ recv'[c] /\ \A d \in Client : recv[d] => recv'[d]
  BY <1>1, <1>2 DEF AcceptBind, TypeOK
<1>5. ASSUME NEW j \in Slot PROVE Attended(j)'
  <2>1. CASE j = k
    BY <1>3, <2>1 DEF Attended, AttendedBy, AttendPc
  <2>2. CASE j # k
    <3>1. AttendedBy(j) => AttendedBy(j)'
      BY <1>3, <2>2 DEF AttendedBy
    <3>2. Hears(j) => Hears(j)'
      BY <1>1, <1>4, <2>2 DEF Hears, TypeOK
    <3>3. QED BY <1>1, <1>4, <3>1, <3>2, AttendedKept DEF Watch
  <2>3. QED BY <2>1, <2>2
<1>6. Listening'
  <2>1. ASSUME NEW v \in Worker, v # w, work[v].pc = "enlist" PROVE recv'[work[v].conn]
    <3>1. work[v].conn \in Client /\ recv[work[v].conn]
      BY <1>1, <2>1, BusyType DEF Watch, Listening
    <3>2. QED BY <1>4, <3>1
  <2>2. QED BY <1>3, <1>4, <2>1 DEF Listening
<1>7. QED BY <1>5, <1>6 DEF Watch

\* A handler that ends with its WSARecv out.
LEMMA WatchEnd ==
    ASSUME WatchInv, NEW w \in Worker, AcceptEnlist(w) \/ Rearm(w) PROVE Watch'
<1> PICK k, c : k = work[w].slot /\ c = socket[k]
  OBVIOUS
<1>1. TypeOK /\ Finish(w) /\ work[w].pc \in {"enlist", "rearm"} /\ CalmInv /\ Watch
  BY DEF AcceptEnlist, Rearm, WatchInv, CalmInv, IInv
<1>2. k \in Slot
  BY <1>1, BusyType
<1>3. c # None /\ c \in Client /\ recv'[c] /\ \A d \in Client : recv[d] => recv'[d]
  <2>1. CASE AcceptEnlist(w)
    <3>1. work[w].pc = "enlist" /\ recv' = recv
      BY <2>1 DEF AcceptEnlist, connVars
    <3>2. Arrives(k, work[w].conn) /\ \A v \in Worker : work[v].slot = k => v = w
      BY <1>1, <3>1, AcceptStage
    <3>3. c = work[w].conn /\ c \in Client
      BY <1>1, <3>1, <3>2, BusyType DEF Arrives
    <3>4. recv[c]
      BY <1>1, <3>1, <3>3 DEF Watch, Listening
    <3>5. QED BY <3>1, <3>3, <3>4, NoneAssumption
  <2>2. CASE Rearm(w)
    <3>1. c \in Client
      BY <1>1, <2>2, ReceiveAlone DEF Rearm
    <3>2. c # None /\ recv' = [recv EXCEPT ![c] = TRUE]
      BY <2>2, <3>1, NoneAssumption DEF Rearm
    <3>3. QED BY <1>1, <3>1, <3>2 DEF TypeOK
  <2>3. QED BY <2>1, <2>2
<1>4. UNCHANGED <<state, socket>>
  BY DEF AcceptEnlist, Rearm, slotVars
<1>5. work'[w].slot = None /\ work'[w].pc = "idle" /\ \A v \in Worker : v # w => work'[v] = work[v]
  BY <1>1, FinishAll
<1>6. ASSUME NEW j \in Slot PROVE Attended(j)'
  <2>1. CASE j = k
    BY <1>3, <1>4, <2>1 DEF Attended, Hears
  <2>2. CASE j # k
    <3>1. AttendedBy(j) => AttendedBy(j)'
      BY <1>5, <2>2 DEF AttendedBy
    <3>2. Hears(j) => Hears(j)'
      BY <1>1, <1>3, <1>4 DEF Hears, TypeOK
    <3>3. QED BY <1>1, <1>4, <3>1, <3>2, AttendedKept DEF Watch
  <2>3. QED BY <2>1, <2>2
<1>7. Listening'
  <2>1. ASSUME NEW v \in Worker, v # w, work[v].pc = "enlist" PROVE recv'[work[v].conn]
    <3>1. work[v].conn \in Client /\ recv[work[v].conn]
      BY <1>1, <2>1, BusyType DEF Watch, Listening
    <3>2. QED BY <1>3, <3>1
  <2>2. QED BY <1>5, <2>1 DEF Listening
<1>8. QED BY <1>6, <1>7 DEF Watch

\* The teardown's steps past the one that frees the slot.
LEMMA WatchTeardown ==
    ASSUME WatchInv, NEW w \in Worker, FreeState(w) \/ CloseSocket(w) \/ Delist(w) PROVE Watch'
<1> PICK k : k = work[w].slot
  OBVIOUS
<1>1. TypeOK /\ CalmInv /\ Watch /\ work[w].pc \in {"free", "close", "delist"} /\ recv' = recv
  BY DEF FreeState, CloseSocket, Delist, WatchInv, CalmInv, IInv, connVars
<1>2. k \in Slot
  BY <1>1, BusyType
<1>3. state'[k] = "FREE" /\ \A j \in Slot \ {k} : state'[j] = state[j] /\ socket'[j] = socket[j]
  <2>1. CASE FreeState(w)
    BY <1>1, <1>2, <2>1 DEF FreeState, TypeOK
  <2>2. CASE CloseSocket(w)
    BY <1>1, <1>2, <2>2, TeardownGone DEF CloseSocket, TypeOK, Gone
  <2>3. CASE Delist(w)
    BY <1>1, <1>2, <2>3, TeardownGone DEF Delist, Gone
  <2>4. QED BY <2>1, <2>2, <2>3
<1>4. /\ \A v \in Worker : v # w => work'[v] = work[v]
      /\ work'[w].pc # "enlist"
  <2>1. CASE Delist(w)
    BY <1>1, <2>1, FinishAll DEF Delist
  <2>2. ASSUME NEW pc \in {"close", "logout"}, Goto(w, pc)
        PROVE  work'[w].pc # "enlist" /\ \A v \in Worker : v # w => work'[v] = work[v]
    BY <1>1, <2>2, GotoAll
  <2>3. QED BY <2>1, <2>2 DEF FreeState, CloseSocket
<1>5. ASSUME NEW j \in Slot PROVE Attended(j)'
  <2>1. CASE j = k
    BY <1>3, <2>1 DEF Attended
  <2>2. CASE j # k
    <3>1. AttendedBy(j) => AttendedBy(j)'
      BY <1>4, <2>2 DEF AttendedBy
    <3>2. Hears(j) => Hears(j)'
      BY <1>1, <1>3, <2>2 DEF Hears
    <3>3. QED BY <1>1, <1>3, <2>2, <3>1, <3>2, AttendedKept DEF Watch
  <2>3. QED BY <2>1, <2>2
<1>6. Listening'
  BY <1>1, <1>4 DEF Watch, Listening
<1>7. QED BY <1>5, <1>6 DEF Watch

LEMMA WatchAccept == ASSUME WatchInv, NEW w \in Worker, NEW c \in Client, Accept(w, c) PROVE Watch'
<1>1. PICK k \in Slot : /\ state' = [state EXCEPT ![k] = "ACTIVE"]
                        /\ work' = [work EXCEPT ![w] = [pc |-> "reset", slot |-> k, conn |-> c]]
  BY DEF Accept
<1>2. TypeOK /\ Watch /\ work[w].pc = "idle" /\ UNCHANGED <<socket, recv>>
  BY DEF WatchInv, CalmInv, IInv, Accept
<1>3. work'[w].slot = k /\ work'[w].pc = "reset" /\ work[w].slot = None
      /\ \A v \in Worker : v # w => work'[v] = work[v]
  BY <1>1, <1>2, BeginAll
<1>4. ASSUME NEW j \in Slot PROVE Attended(j)'
  <2>1. CASE j = k
    BY <1>3, <2>1 DEF Attended, AttendedBy, AttendPc
  <2>2. CASE j # k
    <3>1. AttendedBy(j) => AttendedBy(j)'
      BY <1>3, <2>2, NoneAssumption DEF AttendedBy
    <3>2. Hears(j) => Hears(j)'
      BY <1>2 DEF Hears
    <3>3. state'[j] = state[j]
      BY <1>1, <1>2, <2>2 DEF TypeOK
    <3>4. QED BY <1>2, <3>1, <3>2, <3>3, AttendedKept DEF Watch
  <2>3. QED BY <2>1, <2>2
<1>5. Listening'
  BY <1>2, <1>3 DEF Watch, Listening
<1>6. QED BY <1>4, <1>5 DEF Watch

\* A completion that is taken off the port, of a connection that is accepted.
LEMMA WatchCompletion ==
    ASSUME WatchInv, NEW w \in Worker, NEW c \in Client,
           Receive(w, c) \/ RecvFail(w, c) \/ SendFail(w, c)
    PROVE  Watch'
<1>1. PICK pc \in {"login", "play", "leave"} :
        work' = [work EXCEPT ![w] = [pc |-> pc, slot |-> key[c], conn |-> c]]
  BY DEF Receive, RecvFail, SendFail
<1>2. /\ TypeOK /\ CalmInv /\ Watch /\ work[w].pc = "idle" /\ UNCHANGED <<state, socket>>
  BY DEF WatchInv, CalmInv, IInv, Receive, RecvFail, SendFail, slotVars
<1>3. work'[w].slot = key[c] /\ work'[w].pc = pc /\ work[w].slot = None
      /\ \A v \in Worker : v # w => work'[v] = work[v]
  BY <1>1, <1>2, BeginAll
<1>4. \A d \in Client : d # c => recv'[d] = recv[d]
  BY <1>2 DEF Receive, RecvFail, SendFail, TypeOK
<1>5. ASSUME NEW j \in Slot PROVE Attended(j)'
  <2>1. CASE socket[j] = c
    <3>1. key[c] = j
      BY <1>2, <2>1, Holder
    <3>2. QED BY <1>3, <3>1 DEF Attended, AttendedBy, AttendPc
  <2>2. CASE socket[j] # c
    <3>1. AttendedBy(j) => AttendedBy(j)'
      BY <1>3, NoneAssumption DEF AttendedBy
    <3>2. Hears(j) => Hears(j)'
      BY <1>2, <1>4, <2>2 DEF Hears, TypeOK
    <3>3. QED BY <1>2, <3>1, <3>2, AttendedKept DEF Watch
  <2>3. QED BY <2>1, <2>2
<1>6. ASSUME NEW v \in Worker, work[v].pc = "enlist" PROVE recv'[work[v].conn]
  <2>1. work[v].conn \in Client /\ recv[work[v].conn] /\ Arrives(work[v].slot, work[v].conn)
    BY <1>2, <1>6, AcceptStage, BusyType DEF Watch, Listening
  <2>2. phase[work[v].conn] = "open" /\ Accepting(work[v].conn)
    BY <1>6, <2>1 DEF Arrives, Accepting
  <2>3. work[v].conn # c \/ recv' = recv
    BY <1>2, <2>2 DEF Receive, RecvFail, SendFail, CalmInv, Calm
  <2>4. QED BY <1>4, <2>1, <2>3
<1>7. Listening'
  BY <1>3, <1>6 DEF Listening
<1>8. QED BY <1>5, <1>7 DEF Watch

LEMMA WatchDb == ASSUME WatchInv, DbStep PROVE Watch'
<1>1. UNCHANGED <<socket, recv, work>>
  BY DEF DbStep, LoginDenied, LoginSqlFails, LoginLoad, EnterGame, EnterSector, EnterIngame,
         LogoutIgnored, LogoutTake, LogoutSql, LogoutRedis, LogoutClear, SaveRedis, slotVars, connVars
<1>2. \A k \in Slot : state'[k] # "FREE" => state[k] # "FREE"
  <2>1. CASE EnterIngame
    <3>1. TypeOK /\ CalmInv /\ db.pc = "ingame" /\ db.slot \in Slot
      BY <2>1, DbType DEF EnterIngame, WatchInv, CalmInv, IInv
    <3>2. PICK c \in Client : Live(db.slot, c)
      BY <3>1, SaveStage
    <3>3. state[db.slot] # "FREE"
      BY <3>1, <3>2, LiveServed
    <3>4. QED BY <2>1, <3>1, <3>3 DEF EnterIngame, TypeOK
  <2>2. CASE ~EnterIngame
    BY <2>2 DEF DbStep, LoginDenied, LoginSqlFails, LoginLoad, EnterGame, EnterSector,
       LogoutIgnored, LogoutTake, LogoutSql, LogoutRedis, LogoutClear, SaveRedis, slotVars
  <2>3. QED BY <2>1, <2>2
<1>3. QED BY <1>1, <1>2, WatchSame DEF WatchInv

LEMMA WatchOther ==
    ASSUME WatchInv,
           \/ \E w \in Worker, c \in Client : AcceptFull(w, c)
           \/ \E c \in Client : SendDone(c) \/ ClientClose(c)
           \/ \E n \in Name : RedisExpire(n)
           \/ UNCHANGED vars
    PROVE  Watch'
<1>1. UNCHANGED <<state, socket, recv, work>>
  BY DEF AcceptFull, SendDone, ClientClose, RedisExpire, vars, slotVars, connVars
<1>2. QED BY <1>1, WatchSame DEF WatchInv

LEMMA NextWatch == WatchInv /\ [Next]_vars => WatchInv'
<1> SUFFICES ASSUME WatchInv, [Next]_vars PROVE Watch'
  BY NextCalm DEF WatchInv
<1>1. ASSUME NEW w \in Worker, Handler(w) PROVE Watch'
  <2>1. CASE \/ AcceptReset(w) \/ RecvLogin(w) \/ RecvNoLogin(w) \/ RecvMove(w) \/ RecvLevelUp(w) \/ RecvBroken(w)
             \/ LeaveSector(w) \/ PushLogout(w)
    <3>1. UNCHANGED <<state, socket, recv>>
      BY <2>1 DEF AcceptReset, RecvLogin, RecvNoLogin, RecvMove, RecvLevelUp, RecvBroken, LeaveSector,
                  PushLogout, slotVars, connVars
    <3>2. QED BY <2>1, <3>1, WatchGoto
  <2>2. CASE AcceptBind(w) \/ AcceptEnlist(w) \/ Rearm(w) \/ FreeState(w) \/ CloseSocket(w) \/ Delist(w)
    BY <2>2, WatchBind, WatchEnd, WatchTeardown
  <2>3. QED BY <1>1, <2>1, <2>2 DEF Handler
<1>2. CASE \E w \in Worker, c \in Client : Completion(w, c)
  BY <1>2, WatchAccept, WatchCompletion, WatchOther DEF Completion
<1>3. CASE DbStep
  BY <1>3, WatchDb
<1>4. CASE Restart
  <2>1. /\ \A k \in Slot : state'[k] = "FREE"
        /\ \A w \in Worker : work'[w].pc = "idle"
    BY <1>4 DEF Restart, Idle
  <2>2. QED BY <2>1 DEF Watch, Attended, Listening
<1>5. CASE \/ \E c \in Client : SendDone(c) \/ ClientClose(c)
           \/ \E n \in Name : RedisExpire(n)
           \/ UNCHANGED vars
  BY <1>5, WatchOther
<1>6. QED BY <1>1, <1>2, <1>3, <1>4, <1>5 DEF Next

LEMMA WatchInvariance == Calm /\ Spec => []WatchInv
<1>1. Init /\ Calm => WatchInv
  <2>1. Init => /\ \A k \in Slot : state[k] = "FREE"
                /\ \A w \in Worker : work[w].pc = "idle"
    BY DEF Init, Idle
  <2>2. QED BY <2>1, InitCalm DEF WatchInv, Watch, Attended, Listening
<1>2. WatchInv /\ [Next]_vars => WatchInv'
  BY NextWatch
<1> QED
  BY <1>1, <1>2, PTL DEF Spec
----------------------------------------------------------------------------
\* Among calm connections, with stores that do not fail, nothing a user had is
\* lost when everybody has left: the LOGOUTs of his sessions are served in the
\* order of the sessions, though each is requested by another worker, after
\* the slot was freed and before it left the list (MainServer.cpp:236-253,
\* Player.cpp:448-468).
THEOREM NothingIsLost == Calm /\ Tidy /\ Spec => []SavedWhenSettled
<1>1. ASSUME BookInv, WatchInv, Settled, NEW u \in User PROVE Stored(u)
  <2>1. ASSUME NEW k \in Slot PROVE ~Owes(k, u)
    <3>1. k # None /\ u # NoName
      BY NoneAssumption, NameAssumption
    <3>2. /\ \A w \in Worker : work[w].slot = None /\ work[w].pc = "idle"
          /\ queue = <<>> /\ db.slot = None
          /\ \A c \in Client : ~recv[c]
      BY <1>1 DEF Settled, Idle, DbIdle
    <3>3. ~Promised(k) /\ ~Due(k)
      BY <3>1, <3>2 DEF Promised, Due, Saves
    <3>4. ~AttendedBy(k) /\ ~Hears(k)
      BY <1>1, <3>1, <3>2, BookFacts DEF AttendedBy, Hears, TypeOK
    <3>5. state[k] = "FREE"
      BY <1>1, <3>4 DEF WatchInv, Watch, Attended
    <3>6. name[k] = NoName
      BY <1>1, <3>3, <3>5, BookFacts DEF Accounted
    <3>7. QED BY <3>1, <3>6 DEF Owes
  <2>2. Account(u)
    BY <1>1, BookFacts DEF Accounts
  <2>3. QED BY <2>1, <2>2 DEF Account, Heir
<1>2. BookInv /\ WatchInv => SavedWhenSettled
  BY <1>1 DEF SavedWhenSettled, Stored, Tidy, NoHash, Newborn
<1> QED
  BY <1>2, BookInvariance, WatchInvariance, PTL

\* A user who comes back gets the record he last had, unless an older session
\* of his is still waiting to be logged out. When Redis is the only store, its
\* hashes must not expire (Player.cpp:257-275, 346-386).
THEOREM ComesBackAsHeLeft ==
    Calm /\ Tidy /\ ~(Offline /\ RedisMayExpire) /\ Spec => ResumesLast
<1> DEFINE Lasting == ~(Offline /\ RedisMayExpire)
           Resumes == \A k \in Slot : Entering(k) =>
                        \/ mem'[k] = last[name[k]]
                        \/ \E j \in Slot \ {k} : name[j] = name[k]
<1>1. ASSUME BookInv, Lasting, [Next]_vars, NEW k \in Slot, Entering(k),
             \A j \in Slot \ {k} : name[j] # name[k]
      PROVE  mem'[k] = last[name[k]]
  <2>1. TypeOK /\ db.pc = "enter" /\ db'.pc = "place" /\ k = db.slot
    BY <1>1, BookFacts DEF Entering
  <2>2. EnterGame
    <3>1. db' # db /\ db' # DbIdle
      BY <2>1 DEF DbIdle
    <3>2. ASSUME NEW w \in Worker PROVE ~Handler(w)
      BY <3>1 DEF Handler, AcceptReset, AcceptBind, AcceptEnlist, RecvLogin, RecvNoLogin, RecvMove, RecvLevelUp,
                  RecvBroken, Rearm, LeaveSector, FreeState, CloseSocket, PushLogout, Delist
    <3>3. ASSUME NEW w \in Worker, NEW c \in Client PROVE ~Completion(w, c)
      BY <3>1 DEF Completion, Accept, AcceptFull, Receive, RecvFail, SendFail
    <3>4. ~Restart /\ ~UNCHANGED vars /\ (\A n \in Name : ~RedisExpire(n))
          /\ \A c \in Client : ~SendDone(c) /\ ~ClientClose(c)
      BY <3>1 DEF Restart, vars, RedisExpire, SendDone, ClientClose
    <3>5. DbStep
      BY <1>1, <3>2, <3>3, <3>4 DEF Next
    <3>6. ~LoginDenied /\ ~LoginSqlFails /\ ~LoginLoad /\ ~LogoutIgnored /\ ~LogoutTake
          /\ ~SaveRedis
      BY <2>1 DEF LoginDenied, LoginSqlFails, LoginLoad, LogoutIgnored, LogoutTake, SaveRedis, Take
    <3>7. ~EnterSector /\ ~EnterIngame /\ ~LogoutSql /\ ~LogoutRedis /\ ~LogoutClear
      BY <2>1 DEF EnterSector, EnterIngame, LogoutSql, LogoutRedis, LogoutClear
    <3>8. QED
      BY <3>5, <3>6, <3>7 DEF DbStep
  <2>3. Debtless(name[k])
    <3>1. db \in BusyDb
      BY <2>1, BookFacts, DbType
    <3>2. PICK c \in Client : Live(k, c) /\ Enters(k, c)
      BY <1>1, <2>1, <3>1, SaveStage, BookFacts
    <3>3. ~Owes(k, name[k])
      BY <2>1, <3>2 DEF Owes, Live, Enters
    <3>4. \A j \in Slot \ {k} : ~Owes(j, name[k])
      BY <1>1 DEF Owes
    <3>5. QED BY <3>3, <3>4 DEF Debtless
  <2>4. mem'[k] = Restored(mem[k], redis[name[k]])
    BY <1>1, <2>1, <2>2 DEF EnterGame, TypeOK
  <2>5. QED BY <1>1, <2>1, <2>3, <2>4, Restores
<1>2. BookInv /\ Lasting /\ [Next]_vars => [Resumes]_vars
  BY <1>1
<1> HIDE DEF Lasting, Resumes
<1>3. Lasting => Lasting'
  BY DEF Lasting
<1>4. [][Resumes]_vars => ResumesLast
  BY DEF ResumesLast, Resumes
<1> QED
  BY <1>2, <1>3, <1>4, BookInvariance, PTL DEF Spec, Lasting
----------------------------------------------------------------------------
(* Who is forgotten, when connections may be cut at any step.  A connection *)
(* that has not logged in yet is alone on its slot: no request, no send and *)
(* no teardown of the slot is under way, so its CS_LOGIN still finds the    *)
(* socket in the slot, and whoever closes the socket later asks for a       *)
(* LOGOUT after that.                                                       *)

Alone(k, c, W) ==
    /\ \A v \in Worker \ W : work[v].slot = k => work[v].pc = "enlist"
    /\ Queued(k, {}) /\ db.slot # k
    /\ \A d \in Client : key[d] = k => ~send[d] /\ (d # c => ~recv[d])

\* A worker with a connection that has not logged in, before and after its
\* socket is bound.
Binding(w) == work[w].pc \in {"reset", "bind"}
Early(w)   == work[w].pc = "login" \/ (work[w].pc = "rearm" /\ phase[work[w].conn] = "open")

Handled(w) ==
    /\ Binding(w) => /\ Alone(work[w].slot, work[w].conn, {w})
                     /\ \A d \in Client : key[d] = work[w].slot => ~recv[d]
    /\ Early(w) => /\ Alone(work[w].slot, work[w].conn, {w}) /\ ~recv[work[w].conn]
                   /\ socket[work[w].slot] = work[w].conn
    /\ work[w].pc \in {"login", "play"} => phase[work[w].conn] # "open"
    /\ ~Binding(w) => /\ key[work[w].conn] = work[w].slot
                      /\ socket[work[w].slot] \in {None, work[w].conn}

Heard(c) ==
    /\ phase[c] = "open" /\ recv[c] => Alone(key[c], c, {}) /\ socket[key[c]] = c
    /\ recv[c] \/ send[c] => socket[key[c]] \in {None, c}

Secure(k) ==
    /\ \A w \in Worker : work[w].slot = k => Handled(w)
    /\ \A c \in Client : key[c] = k => Heard(c)
    /\ name[k] # NoName /\ socket[k] = None => LogoutToCome(k)

Unkeyed == \A w \in Worker : Binding(w) => key[work[w].conn] = None
Saving  == db.pc \in {"redis", "clear"} => db.saved

\* A slot is not reissued during its teardown, and SQL statements succeed.
Mild == CalmReuse /\ (Offline \/ ~SqlMayFail)

SecureInv == IInv /\ Fresh /\ Mild /\ Unkeyed /\ Saving /\ \A k \in Slot : Secure(k)

\* A step that concerns no slot but k.
Touches(k) ==
    /\ \A v \in Worker : \/ work'[v] = work[v]
                         \/ work[v].slot \in {k, None} /\ work'[v].slot \in {k, None}
    /\ \A j \in Slot \ {k} : name'[j] = name[j] /\ socket'[j] = socket[j]
    /\ \/ queue' = queue
       \/ \E e : queue' = Append(queue, e) /\ e.slot = k
       \/ queue # <<>> /\ queue' = Tail(queue) /\ Head(queue).slot = k
    /\ db' = db \/ (db.slot \in {k, None} /\ db'.slot \in {k, None})
    /\ \A d \in Client : /\ key'[d] = key[d] \/ (key[d] = None /\ key'[d] = k)
                         /\ recv'[d] => recv[d] \/ key'[d] = k
                         /\ send'[d] => send[d] \/ key'[d] = k
                         /\ phase'[d] = "open" => phase[d] = "open" \/ key[d] \in {k, None}

\* A LOGOUT that is queued stays so, or is taken.
LEMMA LogoutStays ==
    ASSUME TypeOK, NEW j,
           \/ queue' = queue
           \/ \E e : queue' = Append(queue, e)
           \/ queue # <<>> /\ queue' = Tail(queue) /\ (Head(queue).slot # j \/ Head(queue).op # "LOGOUT"),
           NEW i \in 1 .. Len(queue), queue[i].slot = j, queue[i].op = "LOGOUT"
    PROVE  \E n \in 1 .. Len(queue') : queue'[n].slot = j /\ queue'[n].op = "LOGOUT"
<1>1. queue \in Seq(DbRequest) /\ Len(queue) \in Nat
  BY DEF TypeOK
<1>2. ASSUME NEW e, queue' = Append(queue, e) PROVE i \in 1 .. Len(queue') /\ queue'[i] = queue[i]
  BY <1>1, <1>2
<1>3. CASE queue # <<>> /\ queue' = Tail(queue) /\ (Head(queue).slot # j \/ Head(queue).op # "LOGOUT")
  <2>1. Head(queue) = queue[1] /\ Len(queue') = Len(queue) - 1
        /\ \A n \in 1 .. Len(queue') : queue'[n] = queue[n + 1]
    BY <1>1, <1>3
  <2>2. ASSUME i = 1 PROVE FALSE
    <3>1. Head(queue).slot = j /\ Head(queue).op = "LOGOUT"
      BY <2>1, <2>2
    <3>2. QED BY <1>3, <3>1
  <2>3. i - 1 \in 1 .. Len(queue') /\ queue'[i - 1] = queue[i]
    BY <1>1, <2>1, <2>2
  <2>4. QED BY <2>3
<1>4. QED BY <1>2, <1>3

LEMMA SecureElsewhere ==
    ASSUME SecureInv, NEW k, Touches(k), NEW j \in Slot, j # k PROVE Secure(j)'
<1>1. TypeOK /\ Secure(j) /\ j # None
  BY NoneAssumption DEF SecureInv, IInv
<1>2. \A v \in Worker : work'[v].slot = j \/ work[v].slot = j => work'[v] = work[v]
  BY <1>1 DEF Touches
<1>3. /\ \A d \in Client : key'[d] = j => /\ key[d] = j /\ (send'[d] => send[d]) /\ (recv'[d] => recv[d])
                                          /\ phase'[d] = "open" => phase[d] = "open"
      /\ \A d \in Client : key[d] = j => key'[d] = j
  BY <1>1 DEF Touches
<1>4. db'.slot = j \/ db.slot = j => db' = db
  BY <1>1 DEF Touches
<1>5. socket'[j] = socket[j] /\ name'[j] = name[j]
  BY DEF Touches
<1>6. Queued(j, {}) => Queued(j, {})'
  <2>1. CASE queue' = queue
    BY <2>1 DEF Queued
  <2>2. ASSUME NEW e, queue' = Append(queue, e), e.slot = k PROVE Queued(j, {}) => Queued(j, {})'
    BY <1>1, <2>2, QueueGrows
  <2>3. CASE queue # <<>> /\ queue' = Tail(queue)
    BY <1>1, <2>3, QueueShrinks
  <2>4. QED BY <2>1, <2>2, <2>3 DEF Touches
<1>7. \A c, W : Alone(j, c, W) => Alone(j, c, W)'
  BY <1>2, <1>3, <1>4, <1>6 DEF Alone
<1>8. ASSUME NEW w \in Worker, work'[w].slot = j PROVE Handled(w)'
  <2>1. work'[w] = work[w] /\ work[w].slot = j /\ Handled(w)
    BY <1>1, <1>2, <1>8 DEF Secure
  <2>2. work[w].conn \in Client
    <3>1. work[w].pc # "idle"
      <4>1. work[w] # Idle
        BY <1>1, <2>1 DEF Idle
      <4>2. work[w] \in BusyWorker
        BY <1>1, <4>1 DEF TypeOK
      <4>3. QED BY <4>2 DEF BusyWorker, AcceptPc, ReceivePc, TeardownPc
    <3>2. QED BY <1>1, <3>1, BusyType
  <2>3. Binding(w)' <=> Binding(w)
    BY <2>1 DEF Binding
  <2>4. ~Binding(w) => key[work[w].conn] = j
    BY <2>1 DEF Handled
  <2>5. ~Binding(w) /\ phase'[work[w].conn] = "open" => phase[work[w].conn] = "open"
    BY <1>3, <2>2, <2>4
  <2>6. ~(work[w].pc \in {"login", "play", "rearm"} /\ Binding(w))
    BY DEF Binding
  <2>7. Early(w)' => Early(w)
    BY <2>1, <2>5, <2>6 DEF Early
  <2>8. Binding(w)' => /\ Alone(work[w].slot, work[w].conn, {w})'
                       /\ \A d \in Client : key'[d] = work'[w].slot => ~recv'[d]
    BY <1>3, <1>7, <2>1, <2>3 DEF Handled
  <2>9. Early(w)' => /\ Alone(work[w].slot, work[w].conn, {w})' /\ ~recv'[work'[w].conn]
                     /\ socket'[work'[w].slot] = work'[w].conn
    <3>1. Early(w)' => Alone(j, work[w].conn, {w}) /\ ~recv[work[w].conn] /\ socket[j] = work[w].conn
                       /\ ~Binding(w)
      BY <2>1, <2>6, <2>7 DEF Handled, Early
    <3>2. Early(w)' => ~recv'[work[w].conn]
      BY <1>3, <2>2, <2>4, <3>1
    <3>3. QED BY <1>5, <1>7, <2>1, <3>1, <3>2
  <2>10. work'[w].pc \in {"login", "play"} => phase'[work'[w].conn] # "open"
    BY <2>1, <2>5, <2>6 DEF Handled
  <2>11. ~Binding(w)' => /\ key'[work'[w].conn] = work'[w].slot
                         /\ socket'[work'[w].slot] \in {None, work'[w].conn}
    BY <1>3, <1>5, <2>1, <2>2, <2>3 DEF Handled
  <2>12. QED BY <2>8, <2>9, <2>10, <2>11 DEF Handled
<1>9. ASSUME NEW c \in Client, key'[c] = j PROVE Heard(c)'
  BY <1>1, <1>3, <1>5, <1>7, <1>9 DEF Secure, Heard
<1>10. LogoutToCome(j) => LogoutToCome(j)'
  <2>1. (\E i \in 1 .. Len(queue) : queue[i].slot = j /\ queue[i].op = "LOGOUT") => LogoutToCome(j)'
    <3>1. /\ TypeOK
          /\ \/ queue' = queue
             \/ \E e : queue' = Append(queue, e)
             \/ queue # <<>> /\ queue' = Tail(queue) /\ (Head(queue).slot # j \/ Head(queue).op # "LOGOUT")
      BY <1>1 DEF Touches
    <3>2. QED BY <3>1, LogoutStays DEF LogoutToCome
  <2>2. QED BY <1>2, <1>4, <2>1 DEF LogoutToCome
<1>11. QED BY <1>1, <1>5, <1>8, <1>9, <1>10 DEF Secure

LEMMA SecureStep ==
    ASSUME SecureInv, NEW k, Touches(k), k \in Slot => Secure(k)' PROVE \A j \in Slot : Secure(j)'
BY SecureElsewhere

\* Who works on a slot knows that nobody else there is early.
LEMMA Intruder ==
    ASSUME SecureInv, NEW k \in Slot,
           \/ \E w \in Worker : work[w].slot = k /\ work[w].pc # "enlist"
           \/ db.slot = k
           \/ ~Queued(k, {})
    PROVE  /\ \A w, v \in Worker :
                /\ work[w].slot = k /\ work[w].pc # "enlist" /\ v # w /\ work[v].slot = k
                => ~Early(v) /\ ~Binding(v)
           /\ db.slot = k \/ ~Queued(k, {}) =>
                \A v \in Worker : work[v].slot = k => ~Early(v) /\ ~Binding(v)
           /\ \A d \in Client : key[d] = k => ~(phase[d] = "open" /\ recv[d])
<1>1. Secure(k)
  BY DEF SecureInv
<1>2. \A v \in Worker : work[v].slot = k /\ (Early(v) \/ Binding(v)) => Alone(k, work[v].conn, {v})
  BY <1>1 DEF Secure, Handled
<1>3. \A d \in Client : key[d] = k /\ phase[d] = "open" /\ recv[d] => Alone(k, d, {})
  BY <1>1 DEF Secure, Heard
<1>4. QED BY <1>2, <1>3 DEF Alone

\* A worker that is not accepting goes on with its slot.
LEMMA SecureMoves ==
    ASSUME SecureInv, NEW w \in Worker, work[w].pc \notin {"idle", "enlist"},
           NEW k, k = work[w].slot,
           \A v \in Worker : v # w => work'[v] = work[v],
           work'[w].slot \in {k, None}, work'[w].slot = k => Handled(w)',
           key' = key, recv' = recv,
           \A d \in Client : phase'[d] = "open" => phase[d] = "open",
           \A d \in Client : send'[d] => send[d] \/ d = socket[k],
           socket'[k] \in {socket[k], None},
           name'[k] # NoName /\ socket'[k] = None => LogoutToCome(k)'
    PROVE  Secure(k)'
<1>1. k \in Slot /\ Secure(k) /\ k # None /\ TypeOK
  BY BusyType, NoneAssumption DEF SecureInv, IInv
<1>2. ASSUME NEW v \in Worker, v # w, work[v].slot = k PROVE ~Early(v) /\ ~Binding(v) /\ Handled(v)
  BY <1>1, <1>2, Intruder DEF Secure
<1>3. \A d \in Client : key[d] = k => ~(phase[d] = "open" /\ recv[d]) /\ Heard(d)
  BY <1>1, Intruder DEF Secure
<1>4. ASSUME NEW v \in Worker, work'[v].slot = k PROVE Handled(v)'
  <2>1. CASE v = w
    BY <1>4, <2>1
  <2>2. CASE v # w
    <3>1. work'[v] = work[v] /\ work[v].slot = k
      BY <1>4, <2>2
    <3>2. work[v].conn \in Client
      <4>1. work[v] # Idle
        BY <1>1, <3>1 DEF Idle
      <4>2. QED BY <1>1, <4>1 DEF TypeOK, BusyWorker
    <3>3. ~Early(v)' /\ ~Binding(v)'
      BY <1>2, <2>2, <3>1, <3>2 DEF Early, Binding
    <3>4. QED BY <1>2, <2>2, <3>1, <3>2, <3>3 DEF Handled
  <2>3. QED BY <2>1, <2>2
<1>5. ASSUME NEW d \in Client, key'[d] = k PROVE Heard(d)'
  BY <1>3, <1>5, NoneAssumption DEF Heard
<1>6. QED BY <1>4, <1>5 DEF Secure

\* The database thread goes on with the slot of a request.
LEMMA SecureDb ==
    ASSUME SecureInv, NEW k \in Slot,
           db.slot = k \/ ~Queued(k, {}),
           work' = work, key' = key, recv' = recv, socket' = socket,
           \A d \in Client : phase'[d] = "open" => phase[d] = "open",
           \A d \in Client : send'[d] => send[d] \/ d = socket[k],
           name'[k] \in {name[k], NoName},
           name'[k] # NoName /\ LogoutToCome(k) => LogoutToCome(k)'
    PROVE  Secure(k)'
<1>1. Secure(k) /\ k # None /\ TypeOK
  BY NoneAssumption DEF SecureInv, IInv
<1>2. ASSUME NEW v \in Worker, work[v].slot = k PROVE ~Early(v) /\ ~Binding(v) /\ Handled(v)
  BY <1>1, <1>2, Intruder DEF Secure
<1>3. \A d \in Client : key[d] = k => ~(phase[d] = "open" /\ recv[d]) /\ Heard(d)
  BY <1>1, Intruder DEF Secure
<1>4. ASSUME NEW v \in Worker, work'[v].slot = k PROVE Handled(v)'
  <2>1. work'[v] = work[v] /\ work[v].slot = k
    BY <1>4
  <2>2. work[v].conn \in Client
    <3>1. work[v] # Idle
      BY <1>1, <2>1 DEF Idle
    <3>2. QED BY <1>1, <3>1 DEF TypeOK, BusyWorker
  <2>3. ~Early(v)' /\ ~Binding(v)'
    BY <1>2, <2>1, <2>2 DEF Early, Binding
  <2>4. QED BY <1>2, <2>1, <2>2, <2>3 DEF Handled
<1>5. ASSUME NEW d \in Client, key'[d] = k PROVE Heard(d)'
  BY <1>3, <1>5 DEF Heard
<1>6. name'[k] # NoName /\ socket'[k] = None => LogoutToCome(k)'
  BY <1>1 DEF Secure
<1>7. QED BY <1>4, <1>5, <1>6 DEF Secure

\* A completion of a connection that has logged in, or was cut, is taken.
LEMMA SecureServe ==
    ASSUME SecureInv, NEW w \in Worker, NEW c \in Client, NEW k, k = key[c],
           NEW pc \in {"play", "leave"}, work[w].pc = "idle", recv[c] \/ send[c], phase[c] # "open",
           work' = [work EXCEPT ![w] = [pc |-> pc, slot |-> k, conn |-> c]],
           \A d \in Client : (recv'[d] => recv[d]) /\ (send'[d] => send[d]),
           UNCHANGED <<name, socket, queue, db, phase, key>>
    PROVE  \A j \in Slot : Secure(j)'
<1>1. TypeOK /\ k \in Slot /\ k # None
  BY NoneAssumption DEF SecureInv, IInv, SocketKeyed, TypeOK
<1>2. Secure(k) /\ Heard(c)
  BY <1>1 DEF SecureInv, Secure
<1>3. /\ work'[w].slot = k /\ work'[w].pc = pc /\ work'[w].conn = c /\ work[w].slot = None
      /\ \A v \in Worker : v # w => work'[v] = work[v]
  <2>1. work[w] = Idle
    BY <1>1 DEF TypeOK, BusyWorker, AcceptPc, ReceivePc, TeardownPc
  <2>2. QED BY <1>1, <2>1 DEF TypeOK, Idle
<1>4. Touches(k)
  BY <1>1, <1>3 DEF Touches
<1>5. socket[k] \in {None, c}
  BY <1>2 DEF Heard
<1>6. ASSUME NEW v \in Worker, work[v].slot = k PROVE ~Early(v) /\ ~Binding(v)
  BY <1>2, <1>6 DEF Secure, Handled, Alone
<1>7. ASSUME NEW v \in Worker, work'[v].slot = k PROVE Handled(v)'
  <2>1. CASE v = w
    <3>1. ~Early(w)' /\ ~Binding(w)'
      BY <1>3 DEF Early, Binding
    <3>2. QED BY <1>3, <1>5, <2>1, <3>1 DEF Handled
  <2>2. CASE v # w
    <3>1. work'[v] = work[v] /\ work[v].slot = k /\ Handled(v)
      BY <1>2, <1>3, <1>7, <2>2 DEF Secure
    <3>2. ~Early(v)' /\ ~Binding(v)'
      BY <1>6, <3>1 DEF Early, Binding
    <3>3. QED BY <1>6, <3>1, <3>2 DEF Handled
  <2>3. QED BY <2>1, <2>2
<1>8. ASSUME NEW d \in Client, key'[d] = k PROVE Heard(d)'
  <2>1. Heard(d) /\ key[d] = k
    BY <1>2, <1>8 DEF Secure
  <2>2. ~(phase[d] = "open" /\ recv[d])
    <3>1. CASE d = c
      BY <3>1
    <3>2. CASE d # c
      BY <2>1, <3>2 DEF Heard, Alone
    <3>3. QED BY <3>1, <3>2
  <2>3. QED BY <2>1, <2>2 DEF Heard
<1>9. LogoutToCome(k) => LogoutToCome(k)'
  <2>1. ASSUME NEW v \in Worker, work[v].slot = k PROVE work'[v] = work[v]
    BY <1>1, <1>3, <2>1
  <2>2. QED BY <2>1 DEF LogoutToCome
<1>10. Secure(k)'
  BY <1>2, <1>7, <1>8, <1>9 DEF Secure
<1>11. QED BY <1>4, <1>10, SecureStep

\* The accept handler.
LEMMA SecureAccept ==
    ASSUME SecureInv, NEW w \in Worker, NEW c \in Client, Accept(w, c)
    PROVE  (\A k \in Slot : Secure(k)') /\ Unkeyed'
<1>1. TypeOK /\ phase[c] = "new" /\ work[w].pc = "idle" /\ key[c] = None /\ CalmReuse
  BY DEF SecureInv, IInv, Accept, Fresh, Mild
<1>2. PICK k \in Slot : /\ Quiet(k)
                        /\ work' = [work EXCEPT ![w] = [pc |-> "reset", slot |-> k, conn |-> c]]
  BY <1>1 DEF Accept
<1>3. /\ work'[w].slot = k /\ work'[w].pc = "reset" /\ work'[w].conn = c /\ work[w].slot = None
      /\ \A v \in Worker : v # w => work'[v] = work[v]
  BY <1>1, <1>2, BeginAll
<1>4. /\ UNCHANGED <<name, socket, queue, db, key, recv, send>>
      /\ phase' = [phase EXCEPT ![c] = "open"]
  BY DEF Accept
<1>5. k # None /\ c # None
  BY NoneAssumption
<1>6. Touches(k)
  BY <1>1, <1>3, <1>4 DEF Touches, TypeOK
<1>7. /\ \A v \in Worker : work[v].slot # k
      /\ db.slot # k /\ Queued(k, {})
      /\ \A d \in Client : key[d] = k => ~recv[d] /\ ~send[d]
  BY <1>2 DEF Quiet, Queued
<1>8. Handled(w)'
  <2>1. Alone(k, c, {w})' /\ \A d \in Client : key'[d] = k => ~recv'[d]
    BY <1>3, <1>4, <1>7 DEF Alone, Queued
  <2>2. Binding(w)' /\ ~Early(w)'
    BY <1>3 DEF Binding, Early
  <2>3. QED BY <1>3, <2>1, <2>2 DEF Handled
<1>9. Secure(k)'
  <2>1. \A v \in Worker : work'[v].slot = k => v = w
    BY <1>3, <1>7
  <2>2. \A d \in Client : key'[d] = k => Heard(d)'
    BY <1>4, <1>7 DEF Heard
  <2>3. Secure(k)
    BY DEF SecureInv
  <2>4. ~LogoutToCome(k)
    BY <1>7 DEF LogoutToCome, Queued
  <2>5. QED BY <1>4, <1>8, <2>1, <2>2, <2>3, <2>4 DEF Secure
<1>10. Unkeyed'
  BY <1>1, <1>3, <1>4 DEF SecureInv, Unkeyed, Binding
<1>11. QED BY <1>6, <1>9, <1>10, SecureStep

\* The binding worker is the only one of its slot, and of the accept handler.
LEMMA BinderAlone ==
    ASSUME SecureInv, NEW w \in Worker, Binding(w), NEW k, NEW c, k = work[w].slot, c = work[w].conn
    PROVE  /\ TypeOK /\ k \in Slot /\ c \in Client /\ work[w].pc # "idle" /\ key[c] = None
           /\ \A v \in Worker : v # w => work[v].slot # k /\ ~Binding(v)
           /\ Alone(k, c, {w}) /\ \A d \in Client : key[d] = k => ~recv[d] /\ ~send[d]
           /\ ~recv[c] /\ ~send[c]
<1>1. TypeOK /\ work[w].pc # "idle" /\ work[w].pc \in AcceptPc /\ AcceptChain
  BY DEF Binding, SecureInv, IInv, AcceptPc
<1>2. k \in Slot /\ c \in Client
  BY <1>1, BusyType
<1>3. Handled(w) /\ key[c] = None
  BY <1>2 DEF SecureInv, Secure, Unkeyed
<1>4. \A v \in Worker : v # w => work[v].pc \notin AcceptPc
  BY <1>1 DEF AcceptChain, Handling
<1>5. Alone(k, c, {w}) /\ \A d \in Client : key[d] = k => ~recv[d]
  BY <1>3 DEF Handled
<1>6. \A v \in Worker : v # w => work[v].slot # k /\ ~Binding(v)
  BY <1>4, <1>5 DEF Alone, Binding, AcceptPc
<1>7. ~recv[c] /\ ~send[c]
  BY <1>2, <1>3 DEF SecureInv, IInv, SocketKeyed
<1>8. QED BY <1>1, <1>2, <1>3, <1>5, <1>6, <1>7 DEF Alone

LEMMA SecureReset ==
    ASSUME SecureInv, NEW w \in Worker, AcceptReset(w)
    PROVE  (\A k \in Slot : Secure(k)') /\ Unkeyed'
<1> PICK k, c : k = work[w].slot /\ c = work[w].conn
  OBVIOUS
<1>1. Binding(w)
  BY DEF AcceptReset, Binding
<1>2. /\ TypeOK /\ k \in Slot /\ c \in Client /\ work[w].pc # "idle" /\ key[c] = None
      /\ \A v \in Worker : v # w => work[v].slot # k /\ ~Binding(v)
      /\ Alone(k, c, {w}) /\ \A d \in Client : key[d] = k => ~recv[d] /\ ~send[d]
  BY <1>1, BinderAlone
<1>3. /\ work'[w].pc = "bind" /\ work'[w].slot = k /\ work'[w].conn = c
      /\ \A v \in Worker : v # w => work'[v] = work[v]
  BY <1>2, GotoAll DEF AcceptReset
<1>4. /\ UNCHANGED <<socket, queue, db, phase, key, recv, send>>
      /\ name'[k] = NoName /\ \A j \in Slot \ {k} : name'[j] = name[j]
  BY <1>2 DEF AcceptReset, connVars, TypeOK
<1>5. Touches(k)
  BY <1>3, <1>4 DEF Touches
<1>6. Handled(w)'
  <2>1. Alone(k, c, {w})' /\ \A d \in Client : key'[d] = k => ~recv'[d]
    BY <1>2, <1>3, <1>4 DEF Alone, Queued
  <2>2. Binding(w)' /\ ~Early(w)'
    BY <1>3 DEF Binding, Early
  <2>3. QED BY <1>3, <2>1, <2>2 DEF Handled
<1>7. Secure(k)'
  <2>1. \A d \in Client : key'[d] = k => Heard(d)'
    BY <1>2, <1>4 DEF Heard
  <2>2. QED BY <1>2, <1>3, <1>4, <1>6, <2>1 DEF Secure
<1>8. Unkeyed'
  BY <1>2, <1>3, <1>4 DEF SecureInv, Unkeyed, Binding
<1>9. QED BY <1>5, <1>7, <1>8, SecureStep

LEMMA SecureBind ==
    ASSUME SecureInv, NEW w \in Worker, AcceptBind(w)
    PROVE  (\A k \in Slot : Secure(k)') /\ Unkeyed'
<1> PICK k, c : k = work[w].slot /\ c = work[w].conn
  OBVIOUS
<1>1. Binding(w)
  BY DEF AcceptBind, Binding
<1>2. /\ TypeOK /\ k \in Slot /\ c \in Client /\ work[w].pc # "idle" /\ key[c] = None
      /\ \A v \in Worker : v # w => work[v].slot # k /\ ~Binding(v)
      /\ Alone(k, c, {w}) /\ \A d \in Client : key[d] = k => ~recv[d] /\ ~send[d]
      /\ ~recv[c] /\ ~send[c]
  BY <1>1, BinderAlone
<1>3. /\ work'[w].pc = "enlist" /\ work'[w].slot = k /\ work'[w].conn = c
      /\ \A v \in Worker : v # w => work'[v] = work[v]
  BY <1>2, GotoAll DEF AcceptBind
<1>4. /\ UNCHANGED <<name, queue, db, phase, send>>
      /\ socket'[k] = c /\ \A j \in Slot \ {k} : socket'[j] = socket[j]
      /\ key'[c] = k /\ recv'[c]
      /\ \A d \in Client : d # c => key'[d] = key[d] /\ recv'[d] = recv[d]
  BY <1>2 DEF AcceptBind, TypeOK
<1>5. Touches(k)
  BY <1>2, <1>3, <1>4 DEF Touches
<1>6. Handled(w)'
  BY <1>3, <1>4 DEF Handled, Binding, Early
<1>7. Alone(k, c, {})'
  BY <1>2, <1>3, <1>4 DEF Alone, Queued
<1>8. ASSUME NEW d \in Client, key'[d] = k PROVE Heard(d)'
  <2>1. CASE d = c
    BY <1>4, <1>7, <2>1 DEF Heard
  <2>2. CASE d # c
    BY <1>2, <1>4, <1>8, <2>2 DEF Heard
  <2>3. QED BY <2>1, <2>2
<1>9. Secure(k)'
  <2>1. c # None
    BY <1>2, NoneAssumption
  <2>2. QED BY <1>2, <1>3, <1>4, <1>6, <1>8, <2>1 DEF Secure
<1>10. Unkeyed'
  BY <1>2, <1>3, <1>4 DEF SecureInv, Unkeyed, Binding
<1>11. QED BY <1>5, <1>9, <1>10, SecureStep

LEMMA SecureEnlist ==
    ASSUME SecureInv, NEW w \in Worker, AcceptEnlist(w)
    PROVE  (\A k \in Slot : Secure(k)') /\ Unkeyed'
<1> PICK k : k = work[w].slot
  OBVIOUS
<1>1. TypeOK /\ work[w].pc = "enlist"
  BY DEF SecureInv, IInv, AcceptEnlist
<1>2. k \in Slot /\ k # None
  BY <1>1, BusyType, NoneAssumption
<1>3. work'[w].slot = None /\ work'[w].pc = "idle" /\ \A v \in Worker : v # w => work'[v] = work[v]
  BY <1>1, FinishAll DEF AcceptEnlist
<1>4. UNCHANGED <<name, socket, queue, db, phase, key, recv, send>>
  BY DEF AcceptEnlist, connVars
<1>5. Touches(k)
  BY <1>3, <1>4 DEF Touches
<1>6. \A d, W : Alone(k, d, W) => Alone(k, d, W)'
  BY <1>2, <1>3, <1>4 DEF Alone, Queued
<1>7. Secure(k)
  BY <1>2 DEF SecureInv
<1>8. ASSUME NEW v \in Worker, work'[v].slot = k PROVE Handled(v)'
  <2>1. v # w /\ work'[v] = work[v] /\ Handled(v)
    BY <1>2, <1>3, <1>7, <1>8 DEF Secure
  <2>2. (Early(v)' <=> Early(v)) /\ (Binding(v)' <=> Binding(v))
    BY <1>4, <2>1 DEF Early, Binding
  <2>3. work[v].slot = k
    BY <1>8, <2>1
  <2>4. QED BY <1>4, <1>6, <2>1, <2>2, <2>3 DEF Handled
<1>9. ASSUME NEW d \in Client, key'[d] = k PROVE Heard(d)'
  BY <1>4, <1>6, <1>7, <1>9 DEF Secure, Heard
<1>10. LogoutToCome(k) => LogoutToCome(k)'
  BY <1>1, <1>3, <1>4 DEF LogoutToCome
<1>11. Secure(k)'
  BY <1>4, <1>7, <1>8, <1>9, <1>10 DEF Secure
<1>12. Unkeyed'
  BY <1>3, <1>4 DEF SecureInv, Unkeyed, Binding
<1>13. QED BY <1>5, <1>11, <1>12, SecureStep

\* The handlers of packets, and the teardown.
LEMMA SecureLogin ==
    ASSUME SecureInv, NEW w \in Worker, RecvLogin(w)
    PROVE  (\A k \in Slot : Secure(k)') /\ Unkeyed'
<1> PICK k, c : k = work[w].slot /\ c = work[w].conn
  OBVIOUS
<1>1. TypeOK /\ work[w].pc = "login"
  BY DEF SecureInv, IInv, RecvLogin
<1>2. k \in Slot /\ c \in Client /\ c # None
  BY <1>1, BusyType, NoneAssumption
<1>3. /\ work'[w].pc = "rearm" /\ work'[w].slot = k /\ work'[w].conn = c
      /\ \A v \in Worker : v # w => work'[v] = work[v]
  BY <1>1, GotoAll DEF RecvLogin
<1>4. /\ UNCHANGED <<socket, db, phase, key, recv, send>>
      /\ \A j \in Slot \ {k} : name'[j] = name[j]
      /\ \E e : queue' = Append(queue, e) /\ e.slot = k
  BY <1>1, <1>2 DEF RecvLogin, connVars, TypeOK, Request
<1>5. Touches(k)
  BY <1>3, <1>4 DEF Touches
<1>6. /\ Handled(w) /\ Early(w) /\ ~Binding(w) /\ socket[k] = c /\ phase[c] # "open"
  BY <1>1, <1>2 DEF SecureInv, Secure, Handled, Early, Binding
<1>7. Handled(w)'
  <2>1. ~Early(w)' /\ ~Binding(w)'
    BY <1>3, <1>4, <1>6 DEF Early, Binding
  <2>2. QED BY <1>3, <1>4, <1>6, <2>1 DEF Handled
<1>8. Secure(k)'
  BY <1>1, <1>2, <1>3, <1>4, <1>6, <1>7, SecureMoves
<1>9. Unkeyed'
  BY <1>3, <1>4 DEF SecureInv, Unkeyed, Binding
<1>10. QED BY <1>5, <1>8, <1>9, SecureStep

LEMMA SecureNoLogin ==
    ASSUME SecureInv, NEW w \in Worker, RecvNoLogin(w)
    PROVE  (\A k \in Slot : Secure(k)') /\ Unkeyed'
<1> PICK k, c : k = work[w].slot /\ c = work[w].conn
  OBVIOUS
<1>1. TypeOK /\ work[w].pc = "login"
  BY DEF SecureInv, IInv, RecvNoLogin
<1>2. k \in Slot /\ c \in Client /\ c # None /\ k # None
  BY <1>1, BusyType, NoneAssumption
<1>3. /\ work'[w].pc = "rearm" /\ work'[w].slot = k /\ work'[w].conn = c
      /\ \A v \in Worker : v # w => work'[v] = work[v]
  BY <1>1, GotoAll DEF RecvNoLogin
<1>4. UNCHANGED <<name, socket, queue, db, key, recv>>
  BY DEF RecvNoLogin, slotVars
<1>5. /\ Handled(w) /\ Early(w) /\ ~Binding(w) /\ socket[k] = c /\ phase[c] # "open" /\ key[c] = k
      /\ Alone(k, c, {w}) /\ ~recv[c]
  BY <1>1, <1>2 DEF SecureInv, Secure, Handled, Early, Binding
<1>6. /\ \A d \in Client : d # c => phase'[d] = phase[d] /\ send'[d] = send[d]
      /\ phase'[c] = "open" => send' = send
  <2>1. CASE Tell(k, "denied") /\ send' = Sent(k)
    BY <1>1, <1>2, <1>5, <2>1 DEF Tell, Sent, TypeOK
  <2>2. CASE (phase' = phase \/ phase' = [phase EXCEPT ![c] = "open"]) /\ send' = send
    BY <1>1, <1>2, <2>2 DEF TypeOK
  <2>3. QED BY <2>1, <2>2 DEF RecvNoLogin
<1>7. Touches(k)
  BY <1>2, <1>3, <1>4, <1>5, <1>6 DEF Touches
<1>8. ASSUME NEW v \in Worker, v # w, work[v].slot = k PROVE work'[v] = work[v] /\ work[v].pc = "enlist" /\ Handled(v)
  BY <1>2, <1>3, <1>5, <1>8 DEF Alone, SecureInv, Secure
<1>9. Handled(w)'
  <2>1. phase'[c] = "open" => Alone(k, c, {w})'
    BY <1>3, <1>4, <1>5, <1>6, <1>8 DEF Alone, Queued
  <2>2. ~Binding(w)' /\ (Early(w)' => phase'[c] = "open")
    BY <1>3 DEF Binding, Early
  <2>3. QED BY <1>3, <1>4, <1>5, <2>1, <2>2 DEF Handled
<1>10. ASSUME NEW v \in Worker, work'[v].slot = k PROVE Handled(v)'
  <2>1. CASE v = w
    BY <1>9, <2>1
  <2>2. CASE v # w
    <3>1. work'[v] = work[v] /\ work[v].pc = "enlist" /\ Handled(v)
      BY <1>3, <1>8, <1>10, <2>2
    <3>2. ~Early(v)' /\ ~Binding(v)' /\ ~Binding(v)
      BY <3>1 DEF Early, Binding
    <3>3. QED BY <1>4, <3>1, <3>2 DEF Handled
  <2>3. QED BY <2>1, <2>2
<1>11. ASSUME NEW d \in Client, key'[d] = k PROVE Heard(d)'
  <2>1. ~recv'[d] /\ (d # c => ~send'[d])
    BY <1>4, <1>5, <1>6, <1>11 DEF Alone
  <2>2. QED BY <1>4, <1>5, <2>1 DEF Heard
<1>12. Secure(k)'
  BY <1>2, <1>4, <1>5, <1>10, <1>11 DEF Secure
<1>13. Unkeyed'
  BY <1>3, <1>4 DEF SecureInv, Unkeyed, Binding
<1>14. QED BY <1>7, <1>12, <1>13, SecureStep

LEMMA SecurePlay ==
    ASSUME SecureInv, NEW w \in Worker, RecvMove(w) \/ RecvLevelUp(w)
    PROVE  (\A k \in Slot : Secure(k)') /\ Unkeyed'
<1> PICK k, c : k = work[w].slot /\ c = work[w].conn
  OBVIOUS
<1>1. TypeOK /\ work[w].pc = "play" /\ Goto(w, "rearm")
  BY DEF SecureInv, IInv, RecvMove, RecvLevelUp
<1>2. k \in Slot /\ c \in Client /\ c # None
  BY <1>1, BusyType, NoneAssumption
<1>3. /\ work'[w].pc = "rearm" /\ work'[w].slot = k /\ work'[w].conn = c
      /\ \A v \in Worker : v # w => work'[v] = work[v]
  BY <1>1, GotoAll
<1>4. /\ UNCHANGED <<name, socket, db, phase, key, recv>>
      /\ send' = Sent(k)
      /\ queue' = queue \/ \E e : queue' = Append(queue, e) /\ e.slot = k
  BY DEF RecvMove, RecvLevelUp, Request
<1>5. /\ \A d \in Client : send'[d] => send[d] \/ d = socket[k]
      /\ \A d \in Client : d = socket[k] => key[d] = k
  BY <1>1, <1>2, <1>4, NoneAssumption DEF Sent, TypeOK, SecureInv, IInv, SocketKeyed
<1>6. Touches(k)
  BY <1>3, <1>4, <1>5 DEF Touches
<1>7. Secure(k) /\ Handled(w) /\ ~Binding(w)
  BY <1>1, <1>2 DEF SecureInv, Secure, Binding
<1>8. Handled(w)'
  <2>1. phase[c] # "open"
    BY <1>1, <1>7 DEF Handled
  <2>2. ~Early(w)' /\ ~Binding(w)'
    BY <1>3, <1>4, <2>1 DEF Early, Binding
  <2>3. QED BY <1>3, <1>4, <1>7, <2>2 DEF Handled
<1>9. LogoutToCome(k) => LogoutToCome(k)'
  <2>1. (\E i \in 1 .. Len(queue) : queue[i].slot = k /\ queue[i].op = "LOGOUT") => LogoutToCome(k)'
    BY <1>1, <1>4, LogoutStays DEF LogoutToCome
  <2>2. QED BY <1>1, <1>3, <1>4, <2>1 DEF LogoutToCome
<1>10. name'[k] # NoName /\ socket'[k] = None => LogoutToCome(k)'
  BY <1>4, <1>7, <1>9 DEF Secure
<1>11. Secure(k)'
  BY <1>1, <1>3, <1>4, <1>5, <1>8, <1>10, SecureMoves
<1>12. Unkeyed'
  BY <1>3, <1>4 DEF SecureInv, Unkeyed, Binding
<1>13. QED BY <1>6, <1>11, <1>12, SecureStep

LEMMA SecureTeardown ==
    ASSUME SecureInv, NEW w \in Worker,
           RecvBroken(w) \/ LeaveSector(w) \/ FreeState(w) \/ CloseSocket(w) \/ PushLogout(w) \/ Delist(w)
    PROVE  (\A k \in Slot : Secure(k)') /\ Unkeyed'
<1> PICK k, c : k = work[w].slot /\ c = work[w].conn
  OBVIOUS
<1>1. /\ TypeOK /\ work[w].pc \in {"login", "play", "leave", "free", "close", "logout", "delist"}
      /\ \/ Finish(w) /\ work[w].pc = "delist"
         \/ \E pc \in {"leave", "free", "close", "logout", "delist"} :
              Goto(w, pc) /\ (work[w].pc = "logout" <=> PushLogout(w)) /\ (pc = "logout" <=> CloseSocket(w))
  BY DEF SecureInv, IInv, RecvBroken, LeaveSector, FreeState, CloseSocket, PushLogout, Delist
<1>2. k \in Slot /\ c \in Client /\ c # None /\ k # None
  BY <1>1, BusyType, NoneAssumption
<1>3. /\ work'[w].slot \in {k, None}
      /\ work'[w].slot = k => /\ work'[w].pc \in {"leave", "free", "close", "logout", "delist"}
                              /\ work'[w].conn = c
      /\ work'[w].pc \in {"idle", "leave", "free", "close", "logout", "delist"}
      /\ \A v \in Worker : v # w => work'[v] = work[v]
  <2>1. CASE Finish(w)
    BY <1>1, <1>2, <2>1, FinishAll
  <2>2. ASSUME NEW pc \in {"leave", "free", "close", "logout", "delist"}, Goto(w, pc)
        PROVE  /\ work'[w].slot = k /\ work'[w].pc = pc /\ work'[w].conn = c
               /\ \A v \in Worker : v # w => work'[v] = work[v]
    BY <1>1, <2>2, GotoAll DEF TeardownPc
  <2>3. QED BY <1>1, <2>1, <2>2
<1>4. /\ UNCHANGED <<name, db, key, recv, send>>
      /\ socket' = socket \/ (socket' = [socket EXCEPT ![k] = None] /\ Tell(k, "shut") /\ CloseSocket(w))
      /\ ~CloseSocket(w) => phase' = phase /\ socket' = socket
      /\ queue' = queue \/ queue' = Append(queue, [op |-> "LOGOUT", slot |-> k])
      /\ PushLogout(w) => queue' = Append(queue, [op |-> "LOGOUT", slot |-> k])
  BY DEF RecvBroken, LeaveSector, FreeState, CloseSocket, PushLogout, Delist, slotVars, connVars, Request
<1>5. \A d \in Client : phase'[d] = "open" => phase[d] = "open"
  <2>1. CASE CloseSocket(w)
    <3>1. Tell(k, "shut")
      BY <2>1 DEF CloseSocket
    <3>2. QED BY <1>1, <1>2, <3>1 DEF Tell, TypeOK
  <2>2. QED BY <1>4, <2>1
<1>6. \A j \in Slot : socket'[j] \in {socket[j], None} /\ (j # k => socket'[j] = socket[j])
  BY <1>1, <1>2, <1>4 DEF TypeOK
<1>7. Touches(k)
  <2>1. \/ queue' = queue
        \/ \E e : queue' = Append(queue, e) /\ e.slot = k
    <3>1. [op |-> "LOGOUT", slot |-> k].slot = k
      OBVIOUS
    <3>2. QED BY <1>4, <3>1
  <2>2. QED BY <1>3, <1>4, <1>5, <1>6, <2>1 DEF Touches
<1>8. Secure(k) /\ Handled(w) /\ ~Binding(w)
  BY <1>1, <1>2 DEF SecureInv, Secure, Binding
<1>9. work'[w].slot = k => Handled(w)'
  <2>1. work'[w].slot = k => ~Early(w)' /\ ~Binding(w)'
    BY <1>3 DEF Early, Binding
  <2>2. QED BY <1>2, <1>3, <1>4, <1>6, <1>8, <2>1 DEF Handled
<1>10. LogoutToCome(k) => LogoutToCome(k)'
  <2>1. (\E i \in 1 .. Len(queue) : queue[i].slot = k /\ queue[i].op = "LOGOUT") => LogoutToCome(k)'
    BY <1>1, <1>4, LogoutStays DEF LogoutToCome
  <2>2. CASE PushLogout(w)
    <3>1. /\ Len(queue') = Len(queue) + 1 /\ queue'[Len(queue) + 1] = [op |-> "LOGOUT", slot |-> k]
          /\ Len(queue) \in Nat
      BY <1>1, <1>4, <2>2 DEF TypeOK
    <3>2. QED BY <3>1 DEF LogoutToCome
  <2>3. CASE ~PushLogout(w)
    <3>1. work[w].pc # "logout"
      BY <1>1, <2>3
    <3>2. QED BY <1>3, <1>4, <2>1, <3>1 DEF LogoutToCome
  <2>4. QED BY <2>2, <2>3
<1>11. name'[k] # NoName /\ socket'[k] = None => LogoutToCome(k)'
  <2>1. CASE CloseSocket(w)
    <3>1. work'[w].pc = "logout" /\ work'[w].slot = k
      BY <1>1, <2>1, GotoAll DEF CloseSocket, TeardownPc
    <3>2. QED BY <3>1 DEF LogoutToCome
  <2>2. CASE ~CloseSocket(w)
    BY <1>4, <1>8, <1>10, <2>2 DEF Secure
  <2>3. QED BY <2>1, <2>2
<1>12. Secure(k)'
  <2>1. /\ work[w].pc \notin {"idle", "enlist"} /\ key' = key /\ recv' = recv
        /\ \A d \in Client : send'[d] => send[d] \/ d = socket[k]
        /\ socket'[k] \in {socket[k], None}
    BY <1>1, <1>2, <1>4, <1>6
  <2>2. QED BY <1>3, <1>5, <1>9, <1>11, <2>1, SecureMoves
<1>13. Unkeyed'
  BY <1>3, <1>4 DEF SecureInv, Unkeyed, Binding
<1>14. QED BY <1>7, <1>12, <1>13, SecureStep

LEMMA SecureRearm ==
    ASSUME SecureInv, NEW w \in Worker, Rearm(w)
    PROVE  (\A k \in Slot : Secure(k)') /\ Unkeyed'
<1> PICK k, c : k = work[w].slot /\ c = work[w].conn
  OBVIOUS
<1>1. TypeOK /\ work[w].pc = "rearm" /\ Finish(w)
  BY DEF SecureInv, IInv, Rearm
<1>2. k \in Slot /\ c \in Client /\ c # None /\ k # None
  BY <1>1, BusyType, NoneAssumption
<1>3. work'[w].slot = None /\ work'[w].pc = "idle" /\ \A v \in Worker : v # w => work'[v] = work[v]
  BY <1>1, FinishAll
<1>4. Secure(k) /\ Handled(w) /\ ~Binding(w) /\ key[c] = k /\ socket[k] \in {None, c}
  BY <1>1, <1>2 DEF SecureInv, Secure, Binding, Handled
<1>5. /\ UNCHANGED <<name, socket, queue, db, phase, key, send>>
      /\ \A d \in Client : recv'[d] = recv[d] \/ (d = c /\ socket[k] = c)
  BY <1>1, <1>2, <1>4 DEF Rearm, slotVars, TypeOK
<1>6. Touches(k)
  BY <1>3, <1>4, <1>5 DEF Touches
<1>7. ASSUME NEW v \in Worker, work'[v].slot = k PROVE Handled(v)'
  <2>1. v # w /\ work'[v] = work[v] /\ work[v].slot = k
    BY <1>2, <1>3, <1>7
  <2>2. ~Early(v) /\ ~Binding(v) /\ Handled(v)
    BY <1>1, <1>2, <1>4, <2>1, Intruder DEF Secure
  <2>3. ~Early(v)' /\ ~Binding(v)'
    BY <1>5, <2>1, <2>2 DEF Early, Binding
  <2>4. QED BY <1>5, <2>1, <2>2, <2>3 DEF Handled
<1>8. ASSUME NEW d \in Client, key'[d] = k PROVE Heard(d)'
  <2>1. Heard(d) /\ ~(phase[d] = "open" /\ recv[d])
    BY <1>1, <1>2, <1>4, <1>5, <1>8, Intruder DEF Secure
  <2>2. CASE recv'[d] = recv[d]
    BY <1>5, <2>1, <2>2 DEF Heard
  <2>3. CASE d = c /\ socket[k] = c
    <3>1. phase[c] = "open" => Alone(k, c, {w})
      BY <1>1, <1>4 DEF Handled, Early
    <3>2. phase[c] = "open" => Alone(k, c, {})'
      BY <1>2, <1>3, <1>5, <3>1 DEF Alone, Queued
    <3>3. QED BY <1>4, <1>5, <2>3, <3>2 DEF Heard
  <2>4. QED BY <1>5, <2>2, <2>3
<1>9. LogoutToCome(k) => LogoutToCome(k)'
  BY <1>1, <1>3, <1>5 DEF LogoutToCome
<1>10. Secure(k)'
  BY <1>4, <1>5, <1>7, <1>8, <1>9 DEF Secure
<1>11. Unkeyed'
  BY <1>3, <1>5 DEF SecureInv, Unkeyed, Binding
<1>12. QED BY <1>6, <1>10, <1>11, SecureStep

\* The completions.
LEMMA SecureReceive ==
    ASSUME SecureInv, NEW w \in Worker, NEW c \in Client, Receive(w, c)
    PROVE  (\A k \in Slot : Secure(k)') /\ Unkeyed'
<1> PICK k : k = key[c]
  OBVIOUS
<1>1. TypeOK /\ work[w].pc = "idle" /\ recv[c] /\ recv' = [recv EXCEPT ![c] = FALSE]
  BY DEF SecureInv, IInv, Receive
<1>2. k \in Slot /\ k # None /\ c # None
  BY <1>1, NoneAssumption DEF SecureInv, IInv, SocketKeyed, TypeOK
<1>3. UNCHANGED <<name, socket, queue, db, key, send>>
  BY DEF Receive, slotVars
<1>4. \A d \in Client : recv'[d] = (recv[d] /\ d # c)
  BY <1>1 DEF TypeOK
<1>5. CASE phase[c] = "open"
  <2>1. /\ phase' = [phase EXCEPT ![c] = "asked"]
        /\ work' = [work EXCEPT ![w] = [pc |-> "login", slot |-> k, conn |-> c]]
    BY <1>5 DEF Receive
  <2>2. /\ work'[w].slot = k /\ work'[w].pc = "login" /\ work'[w].conn = c /\ work[w].slot = None
        /\ \A v \in Worker : v # w => work'[v] = work[v]
    <3>1. work[w] = Idle
      BY <1>1 DEF TypeOK, BusyWorker, AcceptPc, ReceivePc, TeardownPc
    <3>2. QED BY <1>1, <2>1, <3>1 DEF TypeOK, Idle
  <2>3. /\ phase'[c] = "asked" /\ \A d \in Client : d # c => phase'[d] = phase[d]
    BY <1>1, <2>1 DEF TypeOK
  <2>4. Touches(k)
    BY <1>3, <1>4, <2>2, <2>3 DEF Touches
  <2>5. Secure(k) /\ Alone(k, c, {}) /\ socket[k] = c
    BY <1>1, <1>2, <1>5 DEF SecureInv, Secure, Heard
  <2>6. Handled(w)'
    <3>1. Alone(k, c, {w})'
      BY <1>3, <1>4, <2>2, <2>5 DEF Alone, Queued
    <3>2. ~Binding(w)'
      BY <2>2 DEF Binding
    <3>3. QED BY <1>3, <1>4, <2>2, <2>3, <2>5, <3>1, <3>2 DEF Handled
  <2>7. ASSUME NEW v \in Worker, work'[v].slot = k, v # w PROVE Handled(v)'
    <3>1. work'[v] = work[v] /\ work[v].pc = "enlist" /\ Handled(v)
      BY <2>2, <2>5, <2>7 DEF Alone, Secure
    <3>2. ~Early(v)' /\ ~Binding(v)' /\ ~Binding(v)
      BY <3>1 DEF Early, Binding
    <3>3. QED BY <1>3, <3>1, <3>2 DEF Handled
  <2>8. ASSUME NEW d \in Client, key'[d] = k PROVE Heard(d)'
    BY <1>3, <1>4, <2>5, <2>8 DEF Alone, Heard
  <2>9. Secure(k)'
    BY <1>2, <1>3, <2>5, <2>6, <2>7, <2>8, NoneAssumption DEF Secure
  <2>10. Unkeyed'
    BY <1>3, <2>2 DEF SecureInv, Unkeyed, Binding
  <2>11. QED BY <2>4, <2>9, <2>10, SecureStep
<1>6. CASE phase[c] = "in"
  <2>1. /\ UNCHANGED <<name, socket, queue, db, phase, key>>
        /\ work' = [work EXCEPT ![w] = [pc |-> "play", slot |-> k, conn |-> c]]
    BY <1>3, <1>6 DEF Receive
  <2>2. \A j \in Slot : Secure(j)'
    BY <1>1, <1>3, <1>4, <1>6, <2>1, SecureServe
  <2>3. work'[w].pc = "play" /\ \A v \in Worker : v # w => work'[v] = work[v]
    BY <1>1, <2>1, BeginAll
  <2>4. Unkeyed'
    BY <1>3, <2>3 DEF SecureInv, Unkeyed, Binding
  <2>5. QED BY <2>2, <2>4
<1>7. QED BY <1>5, <1>6 DEF Receive

LEMMA SecureFail ==
    ASSUME SecureInv, NEW w \in Worker, NEW c \in Client, RecvFail(w, c) \/ SendFail(w, c)
    PROVE  (\A k \in Slot : Secure(k)') /\ Unkeyed'
<1>1. /\ TypeOK /\ work[w].pc = "idle" /\ (recv[c] \/ send[c]) /\ phase[c] = "shut"
      /\ work' = [work EXCEPT ![w] = [pc |-> "leave", slot |-> key[c], conn |-> c]]
      /\ UNCHANGED <<name, socket, queue, db, phase, key>>
      /\ \/ recv' = [recv EXCEPT ![c] = FALSE] /\ send' = send
         \/ send' = [send EXCEPT ![c] = FALSE] /\ recv' = recv
  BY DEF SecureInv, IInv, RecvFail, SendFail, slotVars
<1>2. \A d \in Client : (recv'[d] => recv[d]) /\ (send'[d] => send[d])
  BY <1>1 DEF TypeOK
<1>3. \A j \in Slot : Secure(j)'
  BY <1>1, <1>2, SecureServe
<1>4. work'[w].pc = "leave" /\ \A v \in Worker : v # w => work'[v] = work[v]
  BY <1>1, BeginAll
<1>5. Unkeyed'
  BY <1>1, <1>4 DEF SecureInv, Unkeyed, Binding
<1>6. QED BY <1>3, <1>5

\* The steps that concern no slot.
LEMMA SecureOther ==
    ASSUME SecureInv,
           \/ \E w \in Worker, c \in Client : AcceptFull(w, c)
           \/ \E c \in Client : SendDone(c) \/ ClientClose(c)
           \/ \E n \in Name : RedisExpire(n)
           \/ UNCHANGED vars
    PROVE  (\A k \in Slot : Secure(k)') /\ Unkeyed'
<1>1. /\ TypeOK /\ Fresh
      /\ UNCHANGED <<name, socket, work, queue, db, key, recv>>
      /\ \/ phase' = phase
         \/ \E c \in Client : phase[c] = "new" /\ phase' = [phase EXCEPT ![c] = "open"]
         \/ \E c \in Client : phase' = [phase EXCEPT ![c] = "shut"]
      /\ send' = send \/ \E c \in Client : send' = [send EXCEPT ![c] = FALSE]
  BY DEF SecureInv, IInv, AcceptFull, SendDone, ClientClose, RedisExpire, vars, slotVars, connVars
<1>2. \A d \in Client : /\ send'[d] => send[d]
                        /\ phase'[d] = "open" => phase[d] = "open" \/ key[d] = None
  BY <1>1 DEF Fresh, TypeOK
<1>3. Touches(None)
  BY <1>1, <1>2 DEF Touches
<1>4. None \notin Slot
  BY NoneAssumption
<1>5. Unkeyed'
  BY <1>1 DEF SecureInv, Unkeyed, Binding
<1>6. QED BY <1>3, <1>4, <1>5, SecureStep

\* The database thread.
LEMMA TakeSlot ==
    ASSUME TypeOK, NEW op, NEW pc, Take(op, pc)
    PROVE  /\ db.slot = None /\ db.pc = "idle" /\ queue # <<>> /\ queue' = Tail(queue)
           /\ Head(queue).op = op /\ Head(queue).slot \in Slot
           /\ db' = DbIdle \/ (db'.pc = pc /\ db'.slot = Head(queue).slot /\ pc # "idle")
           /\ pc # "idle" => db'.pc = pc /\ db'.slot = Head(queue).slot
           /\ ~Queued(Head(queue).slot, {})
<1>1. db.slot = None
  BY DEF TypeOK, Take, DbIdle, BusyDb
<1>2. Head(queue) \in DbRequest /\ 1 \in 1 .. Len(queue) /\ queue[1] = Head(queue)
  BY DEF TypeOK, Take
<1>3. ~Queued(Head(queue).slot, {})
  BY <1>2 DEF Queued
<1>4. QED BY <1>1, <1>2, <1>3 DEF Take, DbIdle, DbRequest

LEMMA SecureRequest ==
    ASSUME SecureInv, DbStep, queue' # queue
    PROVE  (\A k \in Slot : Secure(k)') /\ Unkeyed' /\ Saving'
<1> PICK k : k = Head(queue).slot
  OBVIOUS
<1>1. /\ UNCHANGED <<work, key, recv, socket>>
      /\ \/ LoginDenied \/ LoginSqlFails \/ LoginLoad \/ LogoutIgnored \/ LogoutTake \/ SaveRedis
  BY DEF DbStep, LoginDenied, LoginSqlFails, LoginLoad, EnterGame, EnterSector, EnterIngame,
         LogoutIgnored, LogoutTake, LogoutSql, LogoutRedis, LogoutClear, SaveRedis, slotVars, connVars
<1>2. /\ TypeOK /\ db.slot = None /\ db.pc = "idle" /\ queue # <<>> /\ queue' = Tail(queue) /\ k \in Slot
      /\ db' = DbIdle \/ (db'.slot = k /\ db'.pc \in {"enter", "sql"})
      /\ ~Queued(k, {}) /\ k # None
  BY <1>1, TakeSlot, NoneAssumption DEF SecureInv, IInv, LoginDenied, LoginSqlFails, LoginLoad,
     LogoutIgnored, LogoutTake, SaveRedis
<1>3. /\ \A j \in Slot \ {k} : name'[j] = name[j]
      /\ name'[k] \in {name[k], NoName}
      /\ send' = send \/ send' = Sent(k)
      /\ phase' = phase \/ Tell(k, "denied")
  BY <1>1, <1>2 DEF LoginDenied, LoginSqlFails, LoginLoad, LogoutIgnored, LogoutTake, SaveRedis,
     Refuse, slotVars, connVars, TypeOK
<1>4. \A d \in Client : phase'[d] = "open" => phase[d] = "open"
  BY <1>2, <1>3 DEF Tell, TypeOK
<1>5. /\ \A d \in Client : send'[d] => send[d] \/ d = socket[k]
      /\ \A d \in Client : d = socket[k] => key[d] = k
  BY <1>2, <1>3, NoneAssumption DEF Sent, TypeOK, SecureInv, IInv, SocketKeyed
<1>6. Touches(k)
  BY <1>1, <1>2, <1>3, <1>4, <1>5 DEF Touches, DbIdle
<1>7. ASSUME name'[k] # NoName, LogoutToCome(k) PROVE LogoutToCome(k)'
  <2>1. CASE LogoutTake
    BY <1>2, <2>1, TakeSlot DEF LogoutTake, LogoutToCome
  <2>2. CASE ~LogoutTake
    <3>1. Head(queue).op # "LOGOUT"
      BY <1>1, <1>2, <1>7, <2>2, TakeSlot DEF LoginDenied, LoginSqlFails, LoginLoad, LogoutIgnored,
         SaveRedis, slotVars
    <3>2. \A i \in 1 .. Len(queue) : queue[i].slot = k /\ queue[i].op = "LOGOUT" => LogoutToCome(k)'
      BY <1>2, <3>1, LogoutStays DEF LogoutToCome
    <3>3. QED BY <1>1, <1>2, <1>7, <3>2 DEF LogoutToCome
  <2>3. QED BY <2>1, <2>2
<1>8. Secure(k)'
  BY <1>1, <1>2, <1>3, <1>4, <1>5, <1>7, SecureDb
<1>9. Unkeyed' /\ Saving'
  BY <1>1, <1>2 DEF SecureInv, Unkeyed, Binding, Saving, DbIdle
<1>10. QED BY <1>6, <1>8, <1>9, SecureStep

LEMMA SecureThread ==
    ASSUME SecureInv, DbStep, queue' = queue, NEW k, k = db.slot
    PROVE  (\A j \in Slot : Secure(j)') /\ Unkeyed' /\ Saving'
<1>0. TypeOK
  BY DEF SecureInv, IInv
<1>1. ~LoginDenied /\ ~LoginSqlFails /\ ~LoginLoad /\ ~LogoutIgnored /\ ~LogoutTake /\ ~SaveRedis
  <2>1. \A op, pc : ~Take(op, pc)
    <3>1. ASSUME NEW op, NEW pc, Take(op, pc) PROVE FALSE
      <4>1. queue # <<>> /\ queue' = Tail(queue) /\ queue \in Seq(DbRequest)
        BY <1>0, <3>1 DEF Take, TypeOK
      <4>2. Len(queue') = Len(queue) - 1 /\ Len(queue) \in Nat
        BY <4>1
      <4>3. QED BY <4>2
    <3>2. QED BY <3>1
  <2>2. QED BY <2>1 DEF LoginDenied, LoginSqlFails, LoginLoad, LogoutIgnored, LogoutTake, SaveRedis
<1>2. /\ UNCHANGED <<work, key, recv, socket>>
      /\ \/ EnterGame \/ EnterSector \/ EnterIngame \/ LogoutSql \/ LogoutRedis \/ LogoutClear
  BY <1>1 DEF DbStep, EnterGame, EnterSector, EnterIngame, LogoutSql, LogoutRedis, LogoutClear,
         slotVars, connVars
<1>3. db.pc # "idle" /\ k \in Slot /\ k # None /\ db \in BusyDb
  BY <1>0, <1>2, DbType, NoneAssumption DEF EnterGame, EnterSector, EnterIngame, LogoutSql, LogoutRedis,
     LogoutClear
<1>4. /\ Saving' /\ (db' = DbIdle \/ db'.slot = k)
      /\ (db.pc \in {"sql", "redis"} => db'.slot = k /\ db'.pc \in {"redis", "clear"})
      /\ (db.pc \in {"sql", "redis", "clear"} => LogoutSql \/ LogoutRedis \/ LogoutClear)
  <2>0. db = [pc |-> db.pc, slot |-> db.slot, saved |-> db.saved]
    BY <1>3 DEF BusyDb
  <2>1. CASE LogoutSql
    <3>1. db.pc = "sql" /\ db' = [db EXCEPT !.pc = "redis", !.saved = TRUE]
      BY <2>1 DEF LogoutSql, SecureInv, Mild
    <3>2. QED BY <2>0, <2>1, <3>1 DEF Saving
  <2>2. CASE LogoutRedis
    <3>1. db.pc = "redis" /\ db' = [db EXCEPT !.pc = "clear"] /\ Saving
      BY <2>2 DEF LogoutRedis, SecureInv
    <3>2. QED BY <2>0, <2>2, <3>1 DEF Saving
  <2>3. CASE LogoutClear
    <3>1. db.pc = "clear" /\ db' = DbIdle
      BY <2>3 DEF LogoutClear
    <3>2. QED BY <2>3, <3>1 DEF Saving, DbIdle
  <2>4. CASE EnterGame \/ EnterSector \/ EnterIngame
    <3>1. db.pc \in {"enter", "place", "ingame"}
      BY <2>4 DEF EnterGame, EnterSector, EnterIngame
    <3>2. \/ db' = [db EXCEPT !.pc = "place"]
          \/ db' = [db EXCEPT !.pc = "ingame"]
          \/ db' = DbIdle
      BY <2>4 DEF EnterGame, EnterSector, EnterIngame
    <3>3. QED BY <2>0, <3>1, <3>2 DEF Saving, DbIdle
  <2>5. QED BY <1>2, <2>1, <2>2, <2>3, <2>4
<1>5. /\ \A j \in Slot \ {k} : name'[j] = name[j]
      /\ name'[k] \in {name[k], NoName}
      /\ db.pc = "clear" => name'[k] = NoName
      /\ send' = send \/ send' = Sent(k)
      /\ phase' = phase \/ Tell(k, "in")
  BY <1>0, <1>2, <1>3 DEF EnterGame, EnterSector, EnterIngame, LogoutSql, LogoutRedis, LogoutClear,
     SecureInv, Saving, slotVars, connVars, TypeOK
<1>6. \A d \in Client : phase'[d] = "open" => phase[d] = "open"
  BY <1>0, <1>3, <1>5 DEF Tell, TypeOK
<1>7. /\ \A d \in Client : send'[d] => send[d] \/ d = socket[k]
      /\ \A d \in Client : d = socket[k] => key[d] = k
  <2>1. \A d \in Client : send'[d] => send[d] \/ d = socket[k]
    BY <1>0, <1>3, <1>5 DEF Sent, TypeOK
  <2>2. \A d \in Client : d = socket[k] => key[d] = k
    BY <1>3, NoneAssumption DEF SecureInv, IInv, SocketKeyed
  <2>3. QED BY <2>1, <2>2
<1>8. Touches(k)
  <2>1. /\ work' = work /\ key' = key /\ recv' = recv /\ socket' = socket /\ queue' = queue
        /\ db.slot \in {k, None} /\ db'.slot \in {k, None}
    BY <1>2, <1>4 DEF DbIdle
  <2>2. QED BY <1>5, <1>6, <1>7, <2>1 DEF Touches
<1>9. ASSUME name'[k] # NoName, LogoutToCome(k) PROVE LogoutToCome(k)'
  <2>1. CASE db.pc \in {"sql", "redis"}
    BY <1>4, <2>1 DEF LogoutToCome
  <2>2. CASE db.pc \notin {"sql", "redis", "clear"}
    BY <1>2, <1>9, <2>2 DEF LogoutToCome
  <2>3. QED BY <1>5, <1>9, <2>1, <2>2
<1>10. Secure(k)'
  <2>1. work' = work /\ key' = key /\ recv' = recv /\ socket' = socket /\ (db.slot = k \/ ~Queued(k, {}))
    BY <1>2
  <2>2. QED BY <1>3, <1>5, <1>6, <1>7, <1>9, <2>1, SecureDb
<1>11. Unkeyed'
  BY <1>2 DEF SecureInv, Unkeyed, Binding
<1>12. QED BY <1>4, <1>8, <1>10, <1>11, SecureStep

\* The start, and every step.
LEMMA InitSecure == Init /\ Mild => SecureInv
<1> SUFFICES ASSUME Init, Mild PROVE SecureInv
  OBVIOUS
<1>1. IInv /\ Fresh
  BY InitInv DEF Init, Fresh
<1>2. /\ \A w \in Worker : work[w].slot = None /\ work[w].pc = "idle"
      /\ \A c \in Client : ~recv[c] /\ ~send[c]
      /\ \A k \in Slot : name[k] = NoName /\ k # None
      /\ db.pc = "idle"
  BY NoneAssumption DEF Init, Idle, DbIdle
<1>3. \A k \in Slot : Secure(k)
  BY <1>2 DEF Secure, Heard
<1>4. QED BY <1>1, <1>2, <1>3 DEF SecureInv, Unkeyed, Binding, Saving

LEMMA NextSecure == SecureInv /\ [Next]_vars => SecureInv'
<1> SUFFICES ASSUME SecureInv, [Next]_vars PROVE SecureInv'
  OBVIOUS
<1>1. IInv' /\ Fresh' /\ Mild'
  BY NextInv, KeepFresh DEF SecureInv, Mild
<1> SUFFICES (\A k \in Slot : Secure(k)') /\ Unkeyed' /\ Saving'
  BY <1>1 DEF SecureInv
<1>2. ASSUME db' = db PROVE Saving'
  BY <1>2 DEF SecureInv, Saving
<1>3. ASSUME NEW w \in Worker, Handler(w) PROVE (\A k \in Slot : Secure(k)') /\ Unkeyed' /\ Saving'
  <2>1. db' = db
    BY <1>3 DEF Handler, AcceptReset, AcceptBind, AcceptEnlist, RecvLogin, RecvNoLogin, RecvMove,
       RecvLevelUp, RecvBroken, Rearm, LeaveSector, FreeState, CloseSocket, PushLogout, Delist
  <2>2. QED BY <1>2, <1>3, <2>1, SecureReset, SecureBind, SecureEnlist, SecureLogin, SecureNoLogin,
        SecurePlay, SecureTeardown, SecureRearm DEF Handler
<1>4. ASSUME NEW w \in Worker, NEW c \in Client, Completion(w, c)
      PROVE  (\A k \in Slot : Secure(k)') /\ Unkeyed' /\ Saving'
  <2>1. db' = db
    BY <1>4 DEF Completion, Accept, AcceptFull, Receive, RecvFail, SendFail
  <2>2. QED BY <1>2, <1>4, <2>1, SecureAccept, SecureReceive, SecureFail, SecureOther DEF Completion
<1>5. CASE DbStep
  BY <1>5, SecureRequest, SecureThread
<1>6. CASE Restart
  <2>1. /\ \A w \in Worker : work'[w].slot = None /\ work'[w].pc = "idle"
        /\ \A c \in Client : ~recv'[c] /\ ~send'[c]
        /\ \A k \in Slot : name'[k] = NoName /\ k # None
        /\ db'.pc = "idle"
    BY <1>6, NoneAssumption DEF Restart, Idle, DbIdle
  <2>2. \A k \in Slot : Secure(k)'
    BY <2>1 DEF Secure, Heard
  <2>3. QED BY <2>1, <2>2 DEF Unkeyed, Binding, Saving
<1>7. CASE \/ \E c \in Client : SendDone(c) \/ ClientClose(c)
           \/ \E n \in Name : RedisExpire(n)
           \/ UNCHANGED vars
  <2>1. db' = db
    BY <1>7 DEF SendDone, ClientClose, RedisExpire, vars
  <2>2. QED BY <1>2, <1>7, <2>1, SecureOther
<1>8. QED BY <1>3, <1>4, <1>5, <1>6, <1>7 DEF Next

\* However a connection is cut, and whatever the database thread is doing for
\* its slot then, the session is not forgotten: while the slot has a name and
\* no socket, a LOGOUT for it is to come.  Only the reissue of a slot during its
\* teardown and a statement that fails are ruled out (MainServer.cpp:208-254
\* against Player.cpp:346-402, 585).
THEOREM NoneIsForgotten == Mild /\ Spec => []NobodyForgotten
<1>1. SecureInv => NobodyForgotten
  BY DEF SecureInv, Secure, NobodyForgotten
<1> QED
  BY <1>1, InitSecure, NextSecure, PTL DEF Spec
============================================================================
