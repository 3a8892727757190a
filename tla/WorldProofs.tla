---------------------------- MODULE WorldProofs ----------------------------
(***************************************************************************)
(* Proofs about World, for every map, every set of NPCs and players and    *)
(* every number of threads. With none of the calm assumptions: the types,  *)
(* and that an NPC never has two turns at once. With the ones they name,   *)
(* and with the history of Watched: that an NPC that is seen is awake.     *)
(***************************************************************************)
EXTENDS Watched, SequenceTheorems, TLAPS

USE DEF Start

----------------------------------------------------------------------------
(* Types.                                                                  *)

\* A sector computed from a cell is a sector, and so are those around it.
LEMMA SectorType ==
    ASSUME NEW x \in Cell
    PROVE  SectorOf(x) \in Sector /\ Around(x) \in SUBSET Sector
  BY MapAssumption DEF Cell, Sector, SectorOf, Around

\* The idle record and the records a handler starts from are handlers.
LEMMA StartRecord ==
    /\ Idle \in Handler
    /\ \A pc \in Pc, o, m \in Object :
         [Idle EXCEPT !.pc = pc, !.self = o, !.me = m] \in Handler
    /\ \A pc \in Pc, o, m \in Object, S \in SUBSET Object :
         /\ [Idle EXCEPT !.pc = pc, !.self = o, !.me = m, !.seen = S] \in Handler
         /\ [[Idle EXCEPT !.prev = S] EXCEPT !.pc = pc, !.self = o, !.me = m] \in Handler
    /\ \A pc \in Pc, o, m \in Object, L \in SUBSET Sector :
         /\ [Idle EXCEPT !.pc = pc, !.self = o, !.me = m, !.left = L] \in Handler
         /\ [[Idle EXCEPT !.left = L] EXCEPT !.pc = pc, !.self = o, !.me = m] \in Handler
  <1>1. <<>> \in Seq(ViewOp)
    OBVIOUS
  <1>2. Idle \in Handler
    BY <1>1 DEF Idle, Handler, Pc
  <1>3. ASSUME NEW pc \in Pc, NEW o \in Object, NEW m \in Object
        PROVE  [Idle EXCEPT !.pc = pc, !.self = o, !.me = m] \in Handler
    BY <1>2 DEF Handler
  <1>4. ASSUME NEW pc \in Pc, NEW o \in Object, NEW m \in Object, NEW S \in SUBSET Object
        PROVE  /\ [Idle EXCEPT !.pc = pc, !.self = o, !.me = m, !.seen = S] \in Handler
               /\ [[Idle EXCEPT !.prev = S] EXCEPT !.pc = pc, !.self = o, !.me = m] \in Handler
    <2>1. [Idle EXCEPT !.pc = pc, !.self = o, !.me = m, !.seen = S] \in Handler
      BY <1>2 DEF Handler
    <2>2. [Idle EXCEPT !.prev = S] \in Handler
      BY <1>2 DEF Handler
    <2>3. [[Idle EXCEPT !.prev = S] EXCEPT !.pc = pc, !.self = o, !.me = m] \in Handler
      BY <2>2 DEF Handler
    <2> QED
      BY <2>1, <2>3
  <1>5. ASSUME NEW pc \in Pc, NEW o \in Object, NEW m \in Object, NEW L \in SUBSET Sector
        PROVE  /\ [Idle EXCEPT !.pc = pc, !.self = o, !.me = m, !.left = L] \in Handler
               /\ [[Idle EXCEPT !.left = L] EXCEPT !.pc = pc, !.self = o, !.me = m] \in Handler
    <2>1. [Idle EXCEPT !.pc = pc, !.self = o, !.me = m, !.left = L] \in Handler
      BY <1>2 DEF Handler
    <2>2. [Idle EXCEPT !.left = L] \in Handler
      BY <1>2 DEF Handler
    <2>3. [[Idle EXCEPT !.left = L] EXCEPT !.pc = pc, !.self = o, !.me = m] \in Handler
      BY <2>2 DEF Handler
    <2> QED
      BY <2>1, <2>3
  <1> QED
    BY <1>2, <1>3, <1>4, <1>5

\* A change of one field, or of the ones that change together, keeps the type.
LEMMA EditRecord ==
    /\ \A r \in Handler, pc \in Pc : [r EXCEPT !.pc = pc] \in Handler
    /\ \A r \in Handler, q \in Seq(ViewOp) : [r EXCEPT !.ops = q] \in Handler
    /\ \A r \in Handler, S \in SUBSET Object : [r EXCEPT !.seen = S] \in Handler
    /\ \A r \in Handler, S \in SUBSET Object, q \in Seq(ViewOp) :
         /\ [r EXCEPT !.seen = S, !.ops = q] \in Handler
         /\ [r EXCEPT !.prev = S, !.ops = q] \in Handler
    /\ \A r \in Handler, L \in SUBSET Sector, S \in SUBSET Object :
         [r EXCEPT !.left = L, !.seen = S] \in Handler
    /\ \A r \in Handler, pc \in Pc, L \in SUBSET Sector :
         [r EXCEPT !.pc = pc, !.left = L] \in Handler
    /\ \A r \in Handler, pc \in Pc, L \in SUBSET Sector, S \in SUBSET Object :
         [r EXCEPT !.pc = pc, !.left = L, !.prev = S] \in Handler
    /\ \A r \in Handler, pc \in Pc, f, g \in Sector \union {None} :
         [r EXCEPT !.pc = pc, !.from = f, !.to = g] \in Handler
    /\ \A r \in Handler, s \in Sector, L \in SUBSET Sector, S \in SUBSET Object :
         [r EXCEPT !.to = s, !.left = L, !.seen = S] \in Handler
  <1>1. \A r \in Handler, pc \in Pc : [r EXCEPT !.pc = pc] \in Handler
    BY DEF Handler
  <1>2. \A r \in Handler, q \in Seq(ViewOp) : [r EXCEPT !.ops = q] \in Handler
    BY DEF Handler
  <1>3. \A r \in Handler, S \in SUBSET Object : [r EXCEPT !.seen = S] \in Handler
    BY DEF Handler
  <1>4. \A r \in Handler, S \in SUBSET Object, q \in Seq(ViewOp) :
           /\ [r EXCEPT !.seen = S, !.ops = q] \in Handler
           /\ [r EXCEPT !.prev = S, !.ops = q] \in Handler
    BY DEF Handler
  <1>5. \A r \in Handler, L \in SUBSET Sector, S \in SUBSET Object :
           [r EXCEPT !.left = L, !.seen = S] \in Handler
    BY DEF Handler
  <1>6. \A r \in Handler, pc \in Pc, L \in SUBSET Sector :
           [r EXCEPT !.pc = pc, !.left = L] \in Handler
    BY DEF Handler
  <1>7. \A r \in Handler, pc \in Pc, L \in SUBSET Sector, S \in SUBSET Object :
           [r EXCEPT !.pc = pc, !.left = L, !.prev = S] \in Handler
    BY DEF Handler
  <1>8. \A r \in Handler, pc \in Pc, f, g \in Sector \union {None} :
           [r EXCEPT !.pc = pc, !.from = f, !.to = g] \in Handler
    BY DEF Handler
  <1>9. \A r \in Handler, s \in Sector, L \in SUBSET Sector, S \in SUBSET Object :
           [r EXCEPT !.to = s, !.left = L, !.seen = S] \in Handler
    BY DEF Handler
  <1> QED
    BY <1>1, <1>2, <1>3, <1>4, <1>5, <1>6, <1>7, <1>8, <1>9

\* The packets an object is sent are well formed: only players have a client.
LEMMA OpsType ==
    ASSUME NEW o \in Object, NEW x \in Object
    PROVE  /\ AddOps(o, x) \in Seq(ViewOp) /\ RemoveOps(o, x) \in Seq(ViewOp)
           /\ MeetOps(o, x) \in Seq(ViewOp) /\ PartOps(o, x) \in Seq(ViewOp)
  <1>1. ASSUME NEW a \in Object, NEW b \in Object
        PROVE  AddOps(a, b) \in Seq(ViewOp) /\ RemoveOps(a, b) \in Seq(ViewOp)
    <2>1. /\ Op("insert", a, b) \in ViewOp
          /\ Op("erase", a, b) \in ViewOp
          /\ a \notin Npc => Op("add", a, b) \in ViewOp /\ Op("remove", a, b) \in ViewOp
      BY <1>1 DEF Op, ViewOp, Object
    <2> QED
      BY <2>1 DEF AddOps, RemoveOps
  <1>2. \A a, b \in Seq(ViewOp) : a \o b \in Seq(ViewOp)
    OBVIOUS
  <1>3. <<>> \in Seq(ViewOp)
    OBVIOUS
  <1> QED
    BY <1>1, <1>2, <1>3 DEF MeetOps, PartOps

\* Who a handler works for: an NPC's turn is its own, and a handler that is
\* not a walk or a turn belongs to a player; the database thread serves only
\* players.
Owned(r) ==
    /\ r.pc = "idle" => r = Idle
    /\ r.pc # "idle" => r.self \in Object /\ r.me \in Object
    /\ r.pc \in WalkPc \union NpcPc => r.self = r.me
    /\ r.pc \in NpcPc => r.me \in Npc
    /\ r.pc \notin WalkPc \union NpcPc => r.self \notin Npc

Ownership == /\ \A t \in Thread : Owned(work[t])
             /\ work[Db].self \notin Npc

IInv == TypeOK /\ Ownership /\ OneToken

\* An NPC's turn goes on, and the NPC itself is the only one that may move.
Goes(t, n) ==
    \E r \in Handler :
      /\ Start(t, r)
      /\ r.self = n /\ r.me = n /\ r.pc \in NpcPc \union {"place"}
      /\ pos' \in [Object -> Cell] /\ \A o \in Object \ {n} : pos'[o] = pos[o]
      /\ r.pc # "place" => pos' = pos

\* It goes on where it stands: at once, or with a search for players.
LEMMA TurnGoes ==
    ASSUME TypeOK, NEW t \in Thread, NEW n \in Npc, NEW pc \in NpcPc, pos' = pos,
           Turn(t, n, pc, Idle) \/ Search(t, n, pc)
    PROVE  Goes(t, n)
  <1> DEFINE i == [Idle EXCEPT !.pc = pc, !.self = n, !.me = n]
             j == [[Idle EXCEPT !.left = around[n]] EXCEPT !.pc = pc, !.self = n, !.me = n]
  <1>1. n \in Object /\ pc \in Pc /\ around[n] \in SUBSET Sector /\ pos \in [Object -> Cell]
    BY DEF Object, Pc, TypeOK
  <1>2. /\ i \in Handler /\ i.pc = pc /\ i.self = n /\ i.me = n
        /\ j \in Handler /\ j.pc = pc /\ j.self = n /\ j.me = n
    <2>1. i \in Handler /\ j \in Handler
      BY <1>1, StartRecord
    <2> QED
      BY <2>1 DEF Idle
  <1>3. Start(t, i) \/ Start(t, j)
    BY DEF Turn, Search
  <1> HIDE DEF i, j
  <1>4. pc # "place"
    BY DEF NpcPc
  <1> QED
    BY <1>1, <1>2, <1>3, <1>4 DEF Goes

\* It takes a step to another cell.
LEMMA StepGoes ==
    ASSUME TypeOK, NEW t \in Thread, NEW n \in Npc, NEW x \in Cell, Step(t, n, x)
    PROVE  Goes(t, n)
  <1> DEFINE j == [[Idle EXCEPT !.prev = view[n]] EXCEPT !.pc = "place", !.self = n, !.me = n]
  <1>1. n \in Object /\ "place" \in Pc /\ view[n] \in SUBSET Object
    BY DEF Object, Pc, WalkPc, TypeOK
  <1>2. j \in Handler /\ j.pc = "place" /\ j.self = n /\ j.me = n
    <2>1. j \in Handler
      BY <1>1, StartRecord
    <2> QED
      BY <2>1 DEF Idle
  <1>3. Start(t, j)
    BY DEF Step, Turn
  <1> HIDE DEF j
  <1>4. pos' \in [Object -> Cell] /\ \A o \in Object \ {n} : pos'[o] = pos[o]
    BY <1>1 DEF Step, TypeOK
  <1> QED
    BY <1>2, <1>3, <1>4 DEF Goes

\* It goes after a player, one cell at a time.
LEMMA ChaseGoes ==
    ASSUME TypeOK, NEW t \in Thread, NEW n \in Npc, NEW p \in Object, Chase(t, n, p)
    PROVE  Goes(t, n)
  <1>1. pos[n] \in Cell /\ pos[p] \in Cell
    BY DEF Object, TypeOK
  <1>2. /\ pos[p] > pos[n] + 1 => pos[n] + 1 \in Cell
        /\ pos[p] + 1 < pos[n] => pos[n] - 1 \in Cell
    BY <1>1, MapAssumption DEF Cell
  <1>3. "schedule" \in NpcPc
    BY DEF NpcPc
  <1> QED
    BY <1>2, <1>3, TurnGoes, StepGoes DEF Chase

\* The steps that begin an NPC's turn, and those that look for players.
Looking(t) == Seek(t) \/ SeekEnd(t) \/ Decide(t)

LEMMA NpcGoes ==
    ASSUME TypeOK, Ownership, NEW t \in Thread, NEW n \in Npc,
           Act(t, n) \/ (work[t].me = n /\ (Looking(t) \/ DiffEnd(t)))
    PROVE  Goes(t, n)
  <1> USE DEF placeVars
  <1>0. /\ work[t] \in Handler /\ Owned(work[t]) /\ pos[n] \in Cell
        /\ work[t].seen \subseteq Object /\ work[t].left \subseteq Sector
        /\ \A s \in Sector : members[s] \subseteq Object
        /\ pos \in [Object -> Cell]
    BY DEF TypeOK, Ownership, Object, Handler
  <1>n. {"seek", "decide", "schedule", "sleep"} \subseteq NpcPc
    BY DEF NpcPc
  <1>1. CASE ActAgro(t, n)
    <2>1. \/ \E p \in Player : Chase(t, n, p)
          \/ Turn(t, n, "sleep", Idle) /\ pos' = pos
      BY <1>1 DEF ActAgro
    <2> QED
      BY <1>n, <2>1, ChaseGoes, TurnGoes DEF Object
  <1>2. CASE ActAgroSeek(t, n)
    BY <1>n, <1>2, TurnGoes DEF ActAgroSeek
  <1>3. CASE ActPeace(t, n)
    <2>1. /\ pos[n] + 1 < Width => pos[n] + 1 \in Cell
          /\ pos[n] > 0 => pos[n] - 1 \in Cell
      BY <1>0, MapAssumption DEF Cell
    <2> QED
      BY <1>n, <1>3, <2>1, TurnGoes, StepGoes DEF ActPeace
  <1>4. CASE work[t].me = n /\ Seek(t)
    <2> DEFINE found(s) == work[t].seen \union Prey(n, s)
               r(s) == [work[t] EXCEPT !.left = work[t].left \ {s}, !.seen = found(s)]
    <2>1. PICK s \in work[t].left : \/ Turn(t, n, "sleep", Idle)
                                    \/ Start(t, r(s))
      BY <1>4 DEF Seek
    <2>2. work[t].pc = "seek" /\ work[t].self = n /\ pos' = pos
      BY <1>0, <1>4 DEF Seek, Owned, NpcPc
    <2>3. r(s) \in Handler /\ r(s).pc = "seek" /\ r(s).self = n /\ r(s).me = n
      <3>1. found(s) \in SUBSET Object
        BY <1>0 DEF Prey
      <3>2. work[t].left \ {s} \in SUBSET Sector
        BY <1>0
      <3>3. r(s) \in Handler
        BY <1>0, <3>1, <3>2, EditRecord
      <3> QED
        BY <1>0, <1>4, <2>2, <3>3 DEF Handler
    <2> HIDE DEF r, found
    <2>4. CASE Start(t, r(s))
      BY <1>0, <1>n, <2>2, <2>3, <2>4 DEF Goes
    <2> QED
      BY <1>n, <2>1, <2>2, <2>4, TurnGoes
  <1>5. CASE work[t].me = n /\ SeekEnd(t)
    <2>1. \/ \E p \in work[t].seen : Chase(t, n, p)
          \/ Turn(t, n, "sleep", Idle) /\ pos' = pos
      BY <1>5 DEF SeekEnd
    <2> QED
      BY <1>0, <1>n, <2>1, ChaseGoes, TurnGoes
  <1>6. CASE work[t].me = n /\ Decide(t)
    <2> DEFINE r(s) == [work[t] EXCEPT !.left = work[t].left \ {s}]
    <2>1. PICK s \in work[t].left : \/ Turn(t, n, "schedule", Idle)
                                    \/ Turn(t, n, "sleep", Idle)
                                    \/ Start(t, r(s))
      BY <1>6 DEF Decide
    <2>2. work[t].pc = "decide" /\ work[t].self = n /\ pos' = pos
      BY <1>0, <1>6 DEF Decide, Owned, NpcPc
    <2>3. r(s) \in Handler /\ r(s).pc = "decide" /\ r(s).self = n /\ r(s).me = n
      <3>1. r(s) \in Handler
        BY <1>0 DEF Handler
      <3> QED
        BY <1>0, <1>6, <2>2, <3>1 DEF Handler
    <2> HIDE DEF r
    <2>4. CASE Start(t, r(s))
      BY <1>0, <1>n, <2>2, <2>3, <2>4 DEF Goes
    <2> QED
      BY <1>n, <2>1, <2>2, <2>4, TurnGoes
  <1>7. CASE work[t].me = n /\ DiffEnd(t)
    <2>1. \/ Turn(t, n, "schedule", Idle) /\ pos' = pos
          \/ Search(t, n, "decide") /\ pos' = pos
      BY <1>7, IdAssumption DEF DiffEnd
    <2> QED
      BY <1>n, <2>1, TurnGoes
  <1> QED
    BY <1>1, <1>2, <1>3, <1>4, <1>5, <1>6, <1>7 DEF Act, Looking

\* None of those steps touches anything but the worker and the NPC's place.
LEMMA NpcKeeps ==
    ASSUME NEW t \in Thread, NEW n \in Npc, Act(t, n) \/ Looking(t) \/ DiffEnd(t)
    PROVE  /\ UNCHANGED <<state, sector, around, members, viewVars, onceVars, active, timer>>
           /\ Looking(t) \/ DiffEnd(t) => posted' = posted
  BY DEF Act, ActAgro, ActAgroSeek, ActPeace, Looking, Seek, SeekEnd, Decide, DiffEnd,
         placeVars, npcVars

\* So they preserve the types, if a completion they take is there.
LEMMA GoesType ==
    ASSUME TypeOK, Ownership, NEW t \in Thread, NEW n \in Npc,
           Act(t, n) \/ (work[t].me = n /\ (Looking(t) \/ DiffEnd(t)))
    PROVE  TypeOK'
  <1>1. work' \in [Thread -> Handler] /\ pos' \in [Object -> Cell]
    <2>1. PICK r \in Handler : Start(t, r) /\ pos' \in [Object -> Cell]
      BY NpcGoes DEF Goes
    <2> QED
      BY <2>1 DEF TypeOK
  <1>2. posted' \in [Npc -> Nat]
    <2>1. CASE Act(t, n)
      BY <2>1 DEF Act, ActAgro, ActAgroSeek, ActPeace, Take, TypeOK
    <2>2. CASE Looking(t) \/ DiffEnd(t)
      BY <2>2, NpcKeeps DEF TypeOK
    <2> QED
      BY <2>1, <2>2
  <1> QED
    BY <1>1, <1>2, NpcKeeps DEF TypeOK, viewVars, onceVars

\* The steps of a walk preserve the types.
LEMMA WalkType ==
    ASSUME TypeOK, Ownership, NEW t \in Thread, Walk(t)
    PROVE  TypeOK'
  <1> USE DEF placeVars, viewVars, onceVars, npcVars
  <1>0. work[t] \in Handler /\ (work[t].pc # "idle" => work[t].me \in Object)
    BY DEF TypeOK, Ownership, Owned
  <1>a. AfterPlace(t) \in Handler
    BY <1>0, EditRecord DEF AfterPlace, Pc, WalkPc
  <1>i. Idle \in Handler
    BY StartRecord
  <1>1. CASE Place(t)
    <2>1. /\ SectorOf(pos[work[t].me]) \in Sector
          /\ Around(pos[work[t].me]) \in SUBSET Sector
      BY <1>0, <1>1, SectorType DEF Place, TypeOK
    <2>2. [work[t] EXCEPT !.pc = "enroll", !.from = sector[work[t].me],
                          !.to = SectorOf(pos[work[t].me])] \in Handler
      BY <1>0, <1>1, <2>1, EditRecord DEF Place, TypeOK, Pc, WalkPc
    <2> QED
      BY <1>1, <1>a, <2>1, <2>2 DEF Place, TypeOK
  <1>2. CASE Enroll(t)
    <2>1. [work[t] EXCEPT !.pc = "withdraw"] \in Handler
      BY <1>0, EditRecord DEF Pc, WalkPc
    <2> QED
      BY <1>0, <1>2, <1>a, <2>1 DEF Enroll, TypeOK
  <1>3. CASE Withdraw(t)
    BY <1>0, <1>3, <1>a DEF Withdraw, TypeOK
  <1>4. CASE Look(t)
    <2>1. /\ around[work[t].me] \in SUBSET Sector
          /\ view[work[t].me] \in SUBSET Object
          /\ work[t].prev \in SUBSET Object
      BY <1>0, <1>4 DEF Look, TypeOK, Handler
    <2>2. \A S \in SUBSET Object :
            [work[t] EXCEPT !.pc = "scan", !.left = around[work[t].me], !.prev = S] \in Handler
      BY <1>0, <2>1, EditRecord DEF Pc, WalkPc
    <2> QED
      BY <1>4, <2>1, <2>2 DEF Look, TypeOK
  <1>5. CASE Scan(t)
    <2>1. work[t].left \in SUBSET Sector /\ work[t].seen \in SUBSET Object
      BY <1>0 DEF Handler
    <2>2. CASE work[t].left = {}
      <3>1. [work[t] EXCEPT !.pc = "diff"] \in Handler
        BY <1>0, EditRecord DEF Pc, WalkPc
      <3> QED
        BY <1>5, <2>2, <3>1 DEF Scan, Goto, TypeOK
    <2>3. CASE work[t].left # {}
      <3> DEFINE me == work[t].me
      <3>1. PICK s \in work[t].left :
              IF me \in Npc
              THEN /\ Start(t, [work[t] EXCEPT !.left = @ \ {s},
                                  !.seen = @ \union (Visible(me, s) \intersect Player)])
                   /\ UNCHANGED <<active, posted>>
              ELSE /\ Start(t, [work[t] EXCEPT !.left = @ \ {s},
                                  !.seen = @ \union Visible(me, s)])
                   /\ WakeUp(Visible(me, s) \intersect Npc)
        BY <1>5, <2>3 DEF Scan
      <3>2. Visible(me, s) \in SUBSET Object
        BY <2>1 DEF Visible, TypeOK
      <3>3. /\ [work[t] EXCEPT !.left = work[t].left \ {s},
                  !.seen = work[t].seen \union (Visible(me, s) \intersect Player)] \in Handler
            /\ [work[t] EXCEPT !.left = work[t].left \ {s},
                  !.seen = work[t].seen \union Visible(me, s)] \in Handler
        BY <1>0, <2>1, <3>2, EditRecord
      <3>4. work' \in [Thread -> Handler]
        BY <3>1, <3>3 DEF TypeOK
      <3>5. active' \in [Npc -> BOOLEAN] /\ posted' \in [Npc -> Nat]
        <4>1. CASE UNCHANGED <<active, posted>>
          BY <4>1 DEF TypeOK
        <4>2. CASE WakeUp(Visible(me, s) \intersect Npc)
          BY <4>2 DEF WakeUp, TypeOK
        <4> QED
          BY <3>1, <4>1, <4>2
      <3> QED
        BY <1>5, <3>4, <3>5 DEF Scan, TypeOK
    <2> QED
      BY <2>2, <2>3
  <1>6. CASE Diff(t)
    <2>1. work[t].prev \in SUBSET Object /\ work[t].seen \in SUBSET Object
      BY <1>0 DEF Handler
    <2>2. \A o \in Object : /\ MeetOps(work[t].me, o) \in Seq(ViewOp)
                            /\ PartOps(work[t].me, o) \in Seq(ViewOp)
      BY <1>0, <1>6, OpsType DEF Diff
    <2>3. work' \in [Thread -> Handler]
      <3>1. CASE \E o \in work[t].seen \ work[t].prev :
                   Start(t, [work[t] EXCEPT !.prev = work[t].prev \union {o},
                                            !.ops = MeetOps(work[t].me, o)])
        <4>1. PICK o \in work[t].seen \ work[t].prev :
                Start(t, [work[t] EXCEPT !.prev = work[t].prev \union {o},
                                         !.ops = MeetOps(work[t].me, o)])
          BY <3>1
        <4>2. [work[t] EXCEPT !.prev = work[t].prev \union {o},
                              !.ops = MeetOps(work[t].me, o)] \in Handler
          BY <1>0, <2>1, <2>2, EditRecord
        <4> QED
          BY <4>1, <4>2 DEF TypeOK
      <3>2. CASE \E o \in work[t].prev \ work[t].seen :
                   Start(t, [work[t] EXCEPT !.prev = work[t].prev \ {o},
                                            !.ops = PartOps(work[t].me, o)])
        <4>1. PICK o \in work[t].prev \ work[t].seen :
                Start(t, [work[t] EXCEPT !.prev = work[t].prev \ {o},
                                         !.ops = PartOps(work[t].me, o)])
          BY <3>2
        <4>2. [work[t] EXCEPT !.prev = work[t].prev \ {o},
                              !.ops = PartOps(work[t].me, o)] \in Handler
          BY <1>0, <2>1, <2>2, EditRecord
        <4> QED
          BY <4>1, <4>2 DEF TypeOK
      <3> QED
        BY <1>6, <3>1, <3>2 DEF Diff
    <2> QED
      BY <1>6, <2>3 DEF Diff, TypeOK
  <1>7. CASE DiffEnd(t)
    <2>1. CASE work[t].me \in Player
      BY <1>7, <1>i, <2>1 DEF DiffEnd, Finish, TypeOK
    <2>2. CASE work[t].me \notin Player
      <3>1. work[t].me \in Npc
        BY <1>0, <1>7, <2>2 DEF DiffEnd, Object
      <3> QED
        BY <1>7, <3>1, GoesType
    <2> QED
      BY <2>1, <2>2
  <1> QED
    BY <1>1, <1>2, <1>3, <1>4, <1>5, <1>6, <1>7 DEF Walk

\* Sending and the view lists preserve the types.
LEMMA DoType ==
    ASSUME TypeOK, NEW t \in Thread, Do(t)
    PROVE  TypeOK'
  <1> USE DEF placeVars, viewVars, onceVars, npcVars
  <1>0. work[t] \in Handler /\ work[t].ops \in Seq(ViewOp)
    BY DEF TypeOK, Handler
  <1>1. Head(work[t].ops) \in ViewOp /\ Tail(work[t].ops) \in Seq(ViewOp)
    BY <1>0 DEF Do
  <1>2. [work[t] EXCEPT !.ops = Tail(work[t].ops)] \in Handler
    BY <1>0, <1>1, EditRecord
  <1> DEFINE o == Head(work[t].ops)
  <1>3. /\ o.who \in Object /\ o.what \in Object
        /\ o.op \in {"add", "remove"} => o.who \in Player
    BY <1>1 DEF ViewOp
  <1>4. view' \in [Object -> SUBSET Object]
    <2>1. view' \in {view, [view EXCEPT ![o.who] = @ \union {o.what}],
                     [view EXCEPT ![o.who] = @ \ {o.what}]}
      BY DEF Do
    <2> QED
      BY <1>3, <2>1 DEF TypeOK
  <1>5. shown' \in [Player -> SUBSET Object]
    <2>1. shown' \in {shown, [shown EXCEPT ![o.who] = @ \union {o.what}],
                      [shown EXCEPT ![o.who] = @ \ {o.what}]}
      BY DEF Do
    <2> QED
      BY <1>3, <2>1 DEF TypeOK
  <1> QED
    BY <1>2, <1>4, <1>5 DEF Do, TypeOK

\* The steps of disconnect() and of an attack preserve the types.
LEMMA DepartType ==
    ASSUME TypeOK, Ownership, NEW t \in Thread, Depart(t) \/ Bury(t)
    PROVE  TypeOK'
  <1> USE DEF placeVars, viewVars, onceVars, npcVars
  <1>0. /\ work[t] \in Handler /\ (work[t].pc # "idle" => work[t].me \in Object)
        /\ work[t].seen \in SUBSET Object /\ work[t].left \in SUBSET Sector
    BY DEF TypeOK, Ownership, Owned, Handler
  <1>i. Idle \in Handler
    BY StartRecord
  <1>o. /\ \A o \in Object : work[t].pc # "idle" => RemoveOps(o, work[t].me) \in Seq(ViewOp)
        /\ <<>> \in Seq(ViewOp)
    BY <1>0, OpsType
  <1>g. \A pc \in Pc : Goto(t, pc) => work' \in [Thread -> Handler]
    BY <1>0, EditRecord DEF Goto, TypeOK
  <1>1. CASE LeaveScan(t)
    <2>1. \A s \in work[t].left :
            [work[t] EXCEPT !.left = work[t].left \ {s}, !.seen = members[s]] \in Handler
      BY <1>0, EditRecord DEF TypeOK
    <2>2. work' \in [Thread -> Handler]
      BY <1>1, <1>g, <2>1 DEF LeaveScan, TypeOK, Pc, PlayerPc
    <2> QED
      BY <1>1, <2>2 DEF LeaveScan, TypeOK
  <1>2. CASE LeaveTell(t)
    <2>1. \A o \in work[t].seen, q \in Seq(ViewOp) :
            [work[t] EXCEPT !.seen = work[t].seen \ {o}, !.ops = q] \in Handler
      BY <1>0, EditRecord
    <2>2. PICK o \in work[t].seen :
            work' = [work EXCEPT ![t] =
                       [work[t] EXCEPT !.seen = work[t].seen \ {o},
                                       !.ops = IF /\ o \in Player \ {work[t].me}
                                                  /\ state[o] = "INGAME"
                                                  /\ CanSee(o, work[t].me)
                                               THEN RemoveOps(o, work[t].me) ELSE <<>>]]
      BY <1>2 DEF LeaveTell
    <2>3. work' \in [Thread -> Handler]
      <3> DEFINE q == IF /\ o \in Player \ {work[t].me}
                         /\ state[o] = "INGAME"
                         /\ CanSee(o, work[t].me)
                      THEN RemoveOps(o, work[t].me) ELSE <<>>
      <3>1. q \in Seq(ViewOp)
        BY <1>0, <1>2, <1>o DEF LeaveTell
      <3> HIDE DEF q
      <3> QED
        BY <2>1, <2>2, <3>1 DEF TypeOK, q
    <2> QED
      BY <1>2, <2>3 DEF LeaveTell, TypeOK
  <1>3. CASE Vanish(t)
    <2>1. work' \in [Thread -> Handler]
      BY <1>3, <1>g DEF Vanish, Pc, PlayerPc
    <2>2. /\ members' \in [Sector -> SUBSET Object]
          /\ sector' \in [Object -> Sector \union {None}]
          /\ around' \in [Object -> SUBSET Sector]
      BY <1>3 DEF Vanish, TypeOK
    <2> QED
      BY <1>3, <2>1, <2>2 DEF Vanish, TypeOK
  <1>4. CASE Free(t)
    BY <1>4, <1>i DEF Free, Finish, TypeOK
  <1>5. CASE Bury(t)
    <2>1. \A v \in work[t].seen :
            [work[t] EXCEPT !.seen = work[t].seen \ {v}, !.ops = RemoveOps(v, work[t].me)]
              \in Handler
      BY <1>0, <1>5, <1>o, EditRecord DEF Bury
    <2>2. work' \in [Thread -> Handler]
      BY <1>5, <1>i, <2>1 DEF Bury, Finish, TypeOK
    <2> QED
      BY <1>5, <2>2 DEF Bury, TypeOK
  <1> QED
    BY <1>1, <1>2, <1>3, <1>4, <1>5 DEF Depart

\* The end of an NPC's turn preserves the types.
LEMMA EndTurnType ==
    ASSUME TypeOK, Ownership, NEW t \in Thread, EndTurn(t)
    PROVE  TypeOK'
  <1> USE DEF placeVars, viewVars, onceVars, npcVars
  <1>0. work[t] \in Handler /\ (work[t].pc \in NpcPc => work[t].me \in Npc)
    BY DEF TypeOK, Ownership, Owned
  <1>i. Idle \in Handler
    BY StartRecord
  <1>1. CASE Looking(t)
    <2>1. work[t].me \in Npc
      BY <1>0, <1>1 DEF Looking, Seek, SeekEnd, Decide, NpcPc
    <2> QED
      BY <1>1, <2>1, GoesType
  <1>2. CASE Schedule(t)
    BY <1>0, <1>2, <1>i DEF Schedule, Finish, TypeOK, NpcPc
  <1>3. CASE Sleep(t)
    BY <1>0, <1>3, <1>i DEF Sleep, Finish, TypeOK, NpcPc
  <1> QED
    BY <1>1, <1>2, <1>3 DEF EndTurn, Looking

\* The steps of EnterGame preserve the types.
LEMMA EnterType ==
    ASSUME TypeOK, Ownership, EnterStep
    PROVE  TypeOK'
  <1> USE DEF placeVars, viewVars, onceVars, npcVars
  <1>0. /\ Db \in Thread /\ work[Db] \in Handler
        /\ work[Db].pc # "idle" => work[Db].me \in Object
        /\ work[Db].seen \in SUBSET Object /\ work[Db].left \in SUBSET Sector
    BY DEF TypeOK, Ownership, Owned, Handler, Thread
  <1>i. Idle \in Handler
    BY StartRecord
  <1>1. CASE EnterIngame
    <2>1. [work[Db] EXCEPT !.pc = "enter", !.left = around[work[Db].me]] \in Handler
      BY <1>0, <1>1, EditRecord DEF EnterIngame, TypeOK, Pc
    <2> QED
      BY <1>0, <1>1, <2>1 DEF EnterIngame, TypeOK
  <1>2. CASE EnterLock
    <2>1. \A s \in work[Db].left :
            [work[Db] EXCEPT !.to = s, !.left = work[Db].left \ {s}, !.seen = members[s]]
              \in Handler
      BY <1>0, EditRecord DEF TypeOK
    <2>2. work' \in [Thread -> Handler]
      BY <1>0, <1>2, <1>i, <2>1 DEF EnterLock, Finish, TypeOK
    <2> QED
      BY <1>2, <2>2 DEF EnterLock, TypeOK
  <1>3. CASE EnterMeet
    <2> DEFINE me == work[Db].me
    <2>1. PICK o \in work[Db].seen :
            IF o # me /\ state[o] = "INGAME" /\ CanSee(me, o)
            THEN /\ Start(Db, [work[Db] EXCEPT !.seen = work[Db].seen \ {o},
                                               !.ops = AddOps(o, me) \o AddOps(me, o)])
                 /\ WakeUp({o} \intersect Npc)
            ELSE /\ Start(Db, [work[Db] EXCEPT !.seen = work[Db].seen \ {o}])
                 /\ UNCHANGED <<active, posted>>
      BY <1>3 DEF EnterMeet
    <2>2. AddOps(o, me) \o AddOps(me, o) \in Seq(ViewOp)
      <3>1. AddOps(o, me) \in Seq(ViewOp) /\ AddOps(me, o) \in Seq(ViewOp)
        BY <1>0, <1>3, OpsType DEF EnterMeet
      <3> QED
        BY <3>1
    <2>3. /\ [work[Db] EXCEPT !.seen = work[Db].seen \ {o},
                              !.ops = AddOps(o, me) \o AddOps(me, o)] \in Handler
          /\ [work[Db] EXCEPT !.seen = work[Db].seen \ {o}] \in Handler
      BY <1>0, <2>2, EditRecord
    <2>4. work' \in [Thread -> Handler]
      BY <1>0, <2>1, <2>3 DEF TypeOK
    <2>5. active' \in [Npc -> BOOLEAN] /\ posted' \in [Npc -> Nat]
      <3>1. CASE UNCHANGED <<active, posted>>
        BY <3>1 DEF TypeOK
      <3>2. CASE WakeUp({o} \intersect Npc)
        BY <3>2 DEF WakeUp, TypeOK
      <3> QED
        BY <2>1, <3>1, <3>2
    <2> QED
      BY <1>3, <2>4, <2>5 DEF EnterMeet, TypeOK
  <1> QED
    BY <1>1, <1>2, <1>3 DEF EnterStep

\* What starts a handler for a player preserves the types.
LEMMA CommandType ==
    ASSUME TypeOK, NEW t \in Thread, NEW p \in Player, NEW x \in Cell,
           Command(t, p) \/ Connect(p) \/ Enter(p, x)
    PROVE  TypeOK'
  <1> USE DEF placeVars, viewVars, onceVars, npcVars
  <1>0. t \in Thread /\ Db \in Thread /\ p \in Object
    BY DEF Thread, Object
  <1>1. CASE Move(t, p) \/ Enter(p, x)
    <2>1. [Idle EXCEPT !.pc = "place", !.self = p, !.me = p] \in Handler
      BY <1>0, StartRecord DEF Pc, WalkPc
    <2>2. pos' \in [Object -> Cell]
      BY <1>1 DEF Move, Enter, TypeOK
    <2> QED
      BY <1>0, <1>1, <2>1, <2>2 DEF Move, Enter, TypeOK
  <1>2. CASE Teleport(t, p)
    BY <1>2 DEF Teleport, TypeOK
  <1>3. CASE Leave(t, p)
    <2>1. [Idle EXCEPT !.pc = "leave", !.self = p, !.me = p, !.left = around[p]] \in Handler
      BY <1>0, StartRecord DEF TypeOK, Pc, PlayerPc
    <2> QED
      BY <1>0, <1>3, <2>1 DEF Leave, TypeOK
  <1>4. ASSUME NEW n \in Npc, Kill(t, p, n) PROVE TypeOK'
    <2>1. n \in Object /\ view[n] \in SUBSET Object
      BY DEF Object, TypeOK
    <2>2. [Idle EXCEPT !.pc = "bury", !.self = p, !.me = n, !.seen = view[n]] \in Handler
      BY <1>0, <2>1, StartRecord DEF Pc, PlayerPc
    <2> QED
      BY <1>0, <1>4, <2>1, <2>2 DEF Kill, TypeOK
  <1>5. CASE Connect(p)
    <2>1. 0 \in Cell /\ SectorOf(0) = 0
      BY MapAssumption DEF Cell, SectorOf
    <2>2. 0 \in Sector /\ Around(0) \in SUBSET Sector
      BY <2>1, SectorType
    <2>3. members' \in [Sector -> SUBSET Object]
      BY <1>0, <1>5 DEF Connect, TypeOK
    <2> QED
      BY <1>0, <1>5, <2>1, <2>2, <2>3 DEF Connect, TypeOK
  <1> QED
    BY <1>1, <1>2, <1>3, <1>4, <1>5 DEF Command

\* The start of an NPC's turn, and its timer, preserve the types.
LEMMA ActType ==
    ASSUME TypeOK, Ownership, NEW n \in Npc, Fire(n) \/ \E t \in Worker : Act(t, n)
    PROVE  TypeOK'
  <1> USE DEF placeVars, viewVars, onceVars, npcVars
  <1>1. CASE Fire(n)
    BY <1>1 DEF Fire, TypeOK
  <1>2. ASSUME NEW t \in Worker, Act(t, n) PROVE TypeOK'
    BY <1>2, GoesType DEF Thread
  <1> QED
    BY <1>1, <1>2

----------------------------------------------------------------------------
(* One turn at a time.                                                     *)

\* A handler goes on, or a player's handler starts or ends: whose turn it is
\* stays as it was.
Carries(t) ==
    /\ \A u \in Thread \ {t} : work'[u] = work[u]
    /\ Owned(work'[t])
    /\ \/ work'[t].self = work[t].self
       \/ work'[t].self \notin Npc /\ work[t].self \notin Npc

\* Who is acting after a step that carries on.
LEMMA CarriesOn ==
    ASSUME TypeOK, Ownership, NEW t \in Thread, Carries(t)
    PROVE  /\ Ownership'
           /\ \A u \in Thread, n \in Npc : Acting(u, n)' <=> Acting(u, n)
  <1>1. \A u \in Thread : Owned(work'[u])
    BY DEF Carries, Ownership
  <1>2. work'[Db].self \notin Npc
    BY DEF Carries, Ownership, Thread
  <1>3. Ownership'
    BY <1>1, <1>2 DEF Ownership, Owned
  <1>4. \A u \in Thread, n \in Npc : (work'[u].self = n) <=> (work[u].self = n)
    BY DEF Carries
  <1> QED
    BY <1>3, <1>4 DEF Acting

\* The turns are as they were when nobody's turn, timer or completion changes.
LEMMA SameTokens ==
    ASSUME OneToken, UNCHANGED npcVars,
           \A u \in Thread, n \in Npc : Acting(u, n)' <=> Acting(u, n)
    PROVE  OneToken'
  <1>1. active' = active /\ timer' = timer /\ posted' = posted
    BY DEF npcVars
  <1> QED
    BY <1>1 DEF OneToken

\* An NPC that sleeps gets its one completion from whoever wakes it.
LEMMA WokenTokens ==
    ASSUME TypeOK, OneToken, NEW S \in SUBSET Npc, WakeUp(S), timer' = timer,
           \A u \in Thread, n \in Npc : Acting(u, n)' <=> Acting(u, n)
    PROVE  OneToken'
  <1> SUFFICES ASSUME NEW n \in Npc
               PROVE  /\ \A t, u \in Thread : Acting(t, n)' /\ Acting(u, n)' => t = u
                      /\ timer'[n] + posted'[n] <= 1
                      /\ timer'[n] + posted'[n] = 1 => \A t \in Thread : ~Acting(t, n)'
                      /\ active'[n] <=> (\/ timer'[n] + posted'[n] = 1
                                        \/ \E t \in Thread : Acting(t, n)')
    BY DEF OneToken
  <1>1. /\ active'[n] <=> (active[n] \/ n \in S)
        /\ posted'[n] = IF n \in S /\ ~active[n] THEN posted[n] + 1 ELSE posted[n]
        /\ timer'[n] = timer[n]
    BY DEF WakeUp
  <1>2. timer[n] \in Nat /\ posted[n] \in Nat
    BY DEF TypeOK
  <1>3. CASE n \in S /\ ~active[n]
    <2>1. timer[n] + posted[n] = 0 /\ \A t \in Thread : ~Acting(t, n)
      BY <1>2, <1>3 DEF OneToken
    <2> QED
      BY <1>1, <1>2, <1>3, <2>1
  <1>4. CASE ~(n \in S /\ ~active[n])
    BY <1>1, <1>2, <1>4 DEF OneToken
  <1> QED
    BY <1>3, <1>4

\* A step within a walk, or within a handler that is neither walk nor turn.
LEMMA StepCarries ==
    ASSUME TypeOK, Ownership, NEW t \in Thread, NEW r, Start(t, r),
           work[t].pc # "idle", r.pc # "idle",
           r.self = work[t].self, r.me = work[t].me,
           r.pc \in NpcPc => work[t].me \in Npc,
           (r.pc \in WalkPc \union NpcPc) <=> (work[t].pc \in WalkPc \union NpcPc)
    PROVE  Carries(t)
  <1>1. work'[t] = r /\ \A u \in Thread \ {t} : work'[u] = work[u]
    BY DEF TypeOK
  <1>2. Owned(work[t])
    BY DEF Ownership
  <1> QED
    BY <1>1, <1>2 DEF Carries, Owned

\* A handler that ends, and was not an NPC's.
LEMMA FinishCarries ==
    ASSUME TypeOK, NEW t \in Thread, Finish(t), work[t].self \notin Npc
    PROVE  Carries(t)
  <1>1. work'[t] = Idle /\ \A u \in Thread \ {t} : work'[u] = work[u]
    BY DEF Finish, TypeOK
  <1>2. Idle.self \notin Npc /\ Idle.pc = "idle"
    BY NoneAssumption DEF Idle, Object
  <1> QED
    BY <1>1, <1>2 DEF Carries, Owned, WalkPc, NpcPc

\* The end of a walk, and the search for players, carry on with the turn.
LEMMA GoesCarries ==
    ASSUME TypeOK, Ownership, NEW t \in Thread,
           Looking(t) \/ (DiffEnd(t) /\ work[t].me \in Npc)
    PROVE  Carries(t)
  <1>1. /\ work[t].me \in Npc /\ work[t].self = work[t].me
        /\ work[t].pc \in WalkPc \union NpcPc
    BY DEF Ownership, Owned, Looking, Seek, SeekEnd, Decide, DiffEnd, WalkPc, NpcPc
  <1>2. PICK r \in Handler : /\ Start(t, r) /\ r.self = work[t].me /\ r.me = work[t].me
                             /\ r.pc \in NpcPc \union {"place"}
    BY <1>1, NpcGoes DEF Goes
  <1> QED
    BY <1>1, <1>2, StepCarries DEF WalkPc, NpcPc

\* The steps of a walk carry on.
LEMMA WalkCarries ==
    ASSUME TypeOK, Ownership, NEW t \in Thread, Walk(t)
    PROVE  Carries(t)
  <1>0. work[t] \in Handler /\ Owned(work[t])
    BY DEF TypeOK, Ownership
  <1>1. CASE (Place(t) \/ Enroll(t) \/ Withdraw(t)) /\ Start(t, AfterPlace(t)) /\ t # Db
    <2>1. /\ AfterPlace(t).pc = "look" /\ AfterPlace(t).self = work[t].self
          /\ AfterPlace(t).me = work[t].me
      BY <1>0, <1>1 DEF AfterPlace, Handler
    <2>2. work[t].pc \in WalkPc
      BY <1>1 DEF Place, Enroll, Withdraw, WalkPc
    <2> QED
      BY <1>1, <2>1, <2>2, StepCarries DEF WalkPc, NpcPc
  <1>2. CASE (Place(t) \/ Enroll(t) \/ Withdraw(t)) /\ Start(t, AfterPlace(t)) /\ t = Db
    <2>1. /\ AfterPlace(t).pc = "ingame" /\ AfterPlace(t).self = work[t].self
          /\ AfterPlace(t).me = work[t].me
      BY <1>0, <1>2 DEF AfterPlace, Handler
    <2>2. work[t].pc # "idle" /\ work[t].self \notin Npc
      BY <1>2 DEF Place, Enroll, Withdraw, Ownership
    <2>3. work'[t] = AfterPlace(t) /\ \A u \in Thread \ {t} : work'[u] = work[u]
      BY <1>2 DEF TypeOK
    <2> QED
      BY <1>0, <2>1, <2>2, <2>3 DEF Carries, Owned, WalkPc, NpcPc
  <1>3. CASE Place(t) /\ ~Start(t, AfterPlace(t))
    <2> DEFINE r == [work[t] EXCEPT !.pc = "enroll", !.from = sector[work[t].me],
                                    !.to = SectorOf(pos[work[t].me])]
    <2>1. Start(t, r) /\ work[t].pc = "place"
      BY <1>3 DEF Place
    <2>2. r.pc = "enroll" /\ r.self = work[t].self /\ r.me = work[t].me
      BY <1>0 DEF Handler
    <2> HIDE DEF r
    <2> QED
      BY <2>1, <2>2, StepCarries DEF WalkPc, NpcPc
  <1>4. CASE Enroll(t) /\ ~Start(t, AfterPlace(t))
    <2> DEFINE r == [work[t] EXCEPT !.pc = "withdraw"]
    <2>1. Start(t, r) /\ work[t].pc = "enroll"
      BY <1>4 DEF Enroll
    <2>2. r.pc = "withdraw" /\ r.self = work[t].self /\ r.me = work[t].me
      BY <1>0 DEF Handler
    <2> HIDE DEF r
    <2> QED
      BY <2>1, <2>2, StepCarries DEF WalkPc, NpcPc
  <1>5. CASE Look(t)
    <2> DEFINE r == [work[t] EXCEPT !.pc = "scan", !.left = around[work[t].me],
                        !.prev = IF work[t].me \in Npc THEN @ ELSE view[work[t].me]]
    <2>1. Start(t, r) /\ work[t].pc = "look"
      BY <1>5 DEF Look
    <2>2. r.pc = "scan" /\ r.self = work[t].self /\ r.me = work[t].me
      BY <1>0 DEF Handler
    <2> HIDE DEF r
    <2> QED
      BY <2>1, <2>2, StepCarries DEF WalkPc, NpcPc
  <1>6. CASE Scan(t)
    <2>1. work[t].pc = "scan"
      BY <1>6 DEF Scan
    <2>2. CASE work[t].left = {}
      <3> DEFINE r == [work[t] EXCEPT !.pc = "diff"]
      <3>1. Start(t, r)
        BY <1>6, <2>2 DEF Scan, Goto
      <3>2. r.pc = "diff" /\ r.self = work[t].self /\ r.me = work[t].me
        BY <1>0 DEF Handler
      <3> HIDE DEF r
      <3> QED
        BY <2>1, <3>1, <3>2, StepCarries DEF WalkPc, NpcPc
    <2>3. CASE work[t].left # {}
      <3> DEFINE q(s, S) == [work[t] EXCEPT !.left = work[t].left \ {s},
                                            !.seen = work[t].seen \union S]
      <3>1. \E s, S : Start(t, q(s, S))
        BY <1>6, <2>3 DEF Scan
      <3>2. PICK s, S : Start(t, q(s, S))
        BY <3>1
      <3>3. /\ q(s, S).pc = "scan" /\ q(s, S).self = work[t].self
            /\ q(s, S).me = work[t].me
        BY <1>0, <2>1 DEF Handler
      <3> HIDE DEF q
      <3> QED
        BY <2>1, <3>2, <3>3, StepCarries DEF WalkPc, NpcPc
    <2> QED
      BY <2>2, <2>3
  <1>7. CASE Diff(t)
    <2> DEFINE q(S, o) == [work[t] EXCEPT !.prev = S, !.ops = o]
    <2>1. work[t].pc = "diff" /\ \E S, o : Start(t, q(S, o))
      BY <1>7 DEF Diff
    <2>2. PICK S, o : Start(t, q(S, o))
      BY <2>1
    <2>3. /\ q(S, o).pc = "diff" /\ q(S, o).self = work[t].self
          /\ q(S, o).me = work[t].me
      BY <1>0, <2>1 DEF Handler
    <2> HIDE DEF q
    <2> QED
      BY <2>1, <2>2, <2>3, StepCarries DEF WalkPc, NpcPc
  <1>8. CASE DiffEnd(t)
    <2>1. work[t].pc = "diff" /\ work[t].self = work[t].me /\ work[t].me \in Object
      BY <1>0, <1>8 DEF DiffEnd, Owned, WalkPc
    <2>2. CASE work[t].me \in Player
      BY <1>8, <2>1, <2>2, IdAssumption, FinishCarries DEF DiffEnd
    <2>3. CASE work[t].me \notin Player
      <3>1. work[t].me \in Npc
        BY <2>1, <2>3 DEF Object
      <3> QED
        BY <1>8, <3>1, GoesCarries
    <2> QED
      BY <2>2, <2>3
  <1> QED
    BY <1>1, <1>2, <1>3, <1>4, <1>5, <1>6, <1>7, <1>8 DEF Walk, Withdraw

\* Sending a packet, or a view list's change, carries on.
LEMMA DoCarries ==
    ASSUME TypeOK, Ownership, NEW t \in Thread, Do(t)
    PROVE  Carries(t)
  <1> DEFINE r == [work[t] EXCEPT !.ops = Tail(work[t].ops)]
  <1>0. work[t] \in Handler /\ Owned(work[t])
    BY DEF TypeOK, Ownership
  <1>1. Start(t, r) /\ work[t].ops # <<>>
    BY DEF Do
  <1>2. r.pc = work[t].pc /\ r.self = work[t].self /\ r.me = work[t].me
    BY <1>0 DEF Handler
  <1>3. work[t].pc # "idle"
    BY <1>0, <1>1 DEF Owned, Idle
  <1>4. work[t].pc \in NpcPc => work[t].me \in Npc
    BY <1>0 DEF Owned
  <1> HIDE DEF r
  <1> QED
    BY <1>1, <1>2, <1>3, <1>4, StepCarries

\* The steps of disconnect() and of an attack carry on.
LEMMA DepartCarries ==
    ASSUME TypeOK, Ownership, NEW t \in Thread, Depart(t) \/ Bury(t)
    PROVE  Carries(t)
  <1>0. work[t] \in Handler /\ Owned(work[t])
    BY DEF TypeOK, Ownership
  <1>1. work[t].pc \in PlayerPc /\ work[t].self \notin Npc
    BY <1>0 DEF Depart, LeaveScan, LeaveTell, Vanish, Free, Bury, PlayerPc, Owned,
                WalkPc, NpcPc
  <1> DEFINE g(pc) == [work[t] EXCEPT !.pc = pc]
             q(L, S) == [work[t] EXCEPT !.left = L, !.seen = S]
             w(S, o) == [work[t] EXCEPT !.seen = S, !.ops = o]
  <1>2. CASE Finish(t)
    BY <1>1, <1>2, FinishCarries
  <1>3. CASE \E pc \in PlayerPc : Start(t, g(pc))
    <2>1. PICK pc \in PlayerPc : Start(t, g(pc))
      BY <1>3
    <2>2. g(pc).pc = pc /\ g(pc).self = work[t].self /\ g(pc).me = work[t].me
      BY <1>0 DEF Handler
    <2> HIDE DEF g
    <2> QED
      BY <1>1, <2>1, <2>2, StepCarries DEF PlayerPc, WalkPc, NpcPc
  <1>4. CASE \E L, S : Start(t, q(L, S))
    <2>1. PICK L, S : Start(t, q(L, S))
      BY <1>4
    <2>2. /\ q(L, S).pc = work[t].pc /\ q(L, S).self = work[t].self
          /\ q(L, S).me = work[t].me
      BY <1>0 DEF Handler
    <2> HIDE DEF q
    <2> QED
      BY <1>1, <2>1, <2>2, StepCarries DEF PlayerPc, WalkPc, NpcPc
  <1>5. CASE \E S, o : Start(t, w(S, o))
    <2>1. PICK S, o : Start(t, w(S, o))
      BY <1>5
    <2>2. /\ w(S, o).pc = work[t].pc /\ w(S, o).self = work[t].self
          /\ w(S, o).me = work[t].me
      BY <1>0 DEF Handler
    <2> HIDE DEF w
    <2> QED
      BY <1>1, <2>1, <2>2, StepCarries DEF PlayerPc, WalkPc, NpcPc
  <1>6. LeaveScan(t) => (\E L, S : Start(t, q(L, S))) \/ (\E pc \in PlayerPc : Start(t, g(pc)))
    BY DEF LeaveScan, Goto, PlayerPc
  <1>7. LeaveTell(t) => \E S, o : Start(t, w(S, o))
    BY DEF LeaveTell
  <1>8. Vanish(t) => \E pc \in PlayerPc : Start(t, g(pc))
    BY DEF Vanish, Goto, PlayerPc
  <1>9. Bury(t) => Finish(t) \/ \E S, o : Start(t, w(S, o))
    BY DEF Bury
  <1>10. Free(t) => Finish(t)
    BY DEF Free
  <1> HIDE DEF g, q, w
  <1> QED
    BY <1>2, <1>3, <1>4, <1>5, <1>6, <1>7, <1>8, <1>9, <1>10 DEF Depart

\* The steps of EnterGame carry on.
LEMMA EnterCarries ==
    ASSUME TypeOK, Ownership, EnterStep
    PROVE  Carries(Db)
  <1>0. Db \in Thread /\ work[Db] \in Handler /\ Owned(work[Db])
    BY DEF TypeOK, Ownership, Thread
  <1>1. work[Db].pc \in {"ingame", "enter"} /\ work[Db].self \notin Npc
    BY DEF EnterStep, EnterIngame, EnterLock, EnterMeet, Ownership
  <1> DEFINE g(L) == [work[Db] EXCEPT !.pc = "enter", !.left = L]
             q(s, L, S) == [work[Db] EXCEPT !.to = s, !.left = L, !.seen = S]
             w(S) == [work[Db] EXCEPT !.seen = S]
             v(S, o) == [work[Db] EXCEPT !.seen = S, !.ops = o]
  <1>2. \/ \E L : Start(Db, g(L))
        \/ Finish(Db)
        \/ \E s, L, S : Start(Db, q(s, L, S)) /\ work[Db].pc = "enter"
        \/ \E S : Start(Db, w(S)) /\ work[Db].pc = "enter"
        \/ \E S, o : Start(Db, v(S, o)) /\ work[Db].pc = "enter"
    <2>1. EnterIngame => \E L : Start(Db, g(L))
      BY DEF EnterIngame
    <2>2. ASSUME EnterLock
          PROVE  Finish(Db) \/ \E s, L, S : Start(Db, q(s, L, S)) /\ work[Db].pc = "enter"
      <3>1. CASE work[Db].left = {}
        BY <2>2, <3>1 DEF EnterLock
      <3>2. CASE work[Db].left # {}
        <4>1. PICK s \in work[Db].left : Start(Db, q(s, work[Db].left \ {s}, members[s]))
          BY <2>2, <3>2 DEF EnterLock
        <4>2. work[Db].pc = "enter"
          BY <2>2 DEF EnterLock
        <4> HIDE DEF q
        <4> QED
          BY <4>1, <4>2
      <3> QED
        BY <3>1, <3>2
    <2>3. EnterMeet => (\E S : Start(Db, w(S)) /\ work[Db].pc = "enter")
                       \/ \E S, o : Start(Db, v(S, o)) /\ work[Db].pc = "enter"
      BY DEF EnterMeet
    <2> HIDE DEF g, q, w, v
    <2> QED
      BY <2>1, <2>2, <2>3 DEF EnterStep
  <1>3. \A L, S, s, o :
          /\ g(L).pc = "enter" /\ g(L).self = work[Db].self /\ g(L).me = work[Db].me
          /\ q(s, L, S).pc = work[Db].pc /\ q(s, L, S).self = work[Db].self
          /\ q(s, L, S).me = work[Db].me
          /\ w(S).pc = work[Db].pc /\ w(S).self = work[Db].self /\ w(S).me = work[Db].me
          /\ v(S, o).pc = work[Db].pc /\ v(S, o).self = work[Db].self
          /\ v(S, o).me = work[Db].me
    BY <1>0 DEF Handler
  <1> HIDE DEF g, q, w, v
  <1>4. ASSUME NEW r, Start(Db, r), r.pc = "enter",
               r.self = work[Db].self, r.me = work[Db].me
        PROVE  Carries(Db)
    BY <1>0, <1>1, <1>4, StepCarries DEF WalkPc, NpcPc
  <1>5. Finish(Db) => Carries(Db)
    BY <1>0, <1>1, FinishCarries
  <1> QED
    BY <1>2, <1>3, <1>4, <1>5

\* A player's command starts a handler of his own on an idle thread.
LEMMA CommandCarries ==
    ASSUME TypeOK, Ownership, NEW t \in Thread, NEW p \in Player, NEW x \in Cell,
           Command(t, p) \/ Connect(p) \/ Enter(p, x)
    PROVE  Carries(t) \/ Carries(Db)
  <1>0. t \in Thread /\ Db \in Thread /\ p \in Object /\ p \notin Npc
    BY IdAssumption DEF Thread, Object
  <1>1. /\ None \notin Npc /\ Idle.self = None
    BY NoneAssumption DEF Object, Idle
  <1>2. ASSUME NEW u \in Thread, NEW r, Start(u, r), work[u].pc = "idle",
               r.pc # "idle", r.self = p, r.me \in Object, r.pc \notin NpcPc,
               r.pc \in WalkPc => r.me = p
        PROVE  Carries(u)
    <2>1. work'[u] = r /\ \A i \in Thread \ {u} : work'[i] = work[i]
      BY <1>2 DEF TypeOK
    <2>2. work[u].self = None
      BY <1>1, <1>2 DEF Ownership, Owned
    <2> QED
      BY <1>0, <1>1, <1>2, <2>1, <2>2 DEF Carries, Owned
  <1>3. ASSUME NEW u \in Thread, UNCHANGED work PROVE Carries(u)
    BY <1>3 DEF Carries, Ownership
  <1>4. CASE Move(t, p)
    <2> DEFINE r == [Idle EXCEPT !.pc = "place", !.self = p, !.me = p]
    <2>1. Start(t, r) /\ work[t].pc = "idle"
      BY <1>4 DEF Move, Commands, MayStart
    <2>2. r.pc = "place" /\ r.self = p /\ r.me = p
      BY DEF Idle
    <2> HIDE DEF r
    <2> QED
      BY <1>0, <1>2, <2>1, <2>2 DEF WalkPc, NpcPc
  <1>5. CASE Enter(p, x)
    <2> DEFINE r == [Idle EXCEPT !.pc = "place", !.self = p, !.me = p]
    <2>1. Start(Db, r) /\ work[Db].pc = "idle"
      BY <1>5 DEF Enter, MayStart
    <2>2. r.pc = "place" /\ r.self = p /\ r.me = p
      BY DEF Idle
    <2> HIDE DEF r
    <2> QED
      BY <1>0, <1>2, <2>1, <2>2 DEF WalkPc, NpcPc
  <1>6. CASE Leave(t, p)
    <2> DEFINE r == [Idle EXCEPT !.pc = "leave", !.self = p, !.me = p, !.left = around[p]]
    <2>1. Start(t, r) /\ work[t].pc = "idle"
      BY <1>6 DEF Leave, MayStart
    <2>2. r.pc = "leave" /\ r.self = p /\ r.me = p
      BY DEF Idle
    <2> HIDE DEF r
    <2> QED
      BY <1>0, <1>2, <2>1, <2>2 DEF WalkPc, NpcPc
  <1>7. ASSUME NEW n \in Npc, Kill(t, p, n) PROVE Carries(t)
    <2> DEFINE r == [Idle EXCEPT !.pc = "bury", !.self = p, !.me = n, !.seen = view[n]]
    <2>1. Start(t, r) /\ work[t].pc = "idle"
      BY <1>7 DEF Kill, Commands, MayStart
    <2>2. r.pc = "bury" /\ r.self = p /\ r.me = n /\ n \in Object
      BY DEF Idle, Object
    <2> HIDE DEF r
    <2> QED
      BY <1>0, <1>2, <2>1, <2>2 DEF WalkPc, NpcPc
  <1>8. CASE Teleport(t, p) \/ Connect(p)
    BY <1>0, <1>3, <1>8 DEF Teleport, Connect
  <1> QED
    BY <1>4, <1>5, <1>6, <1>7, <1>8 DEF Command

\* OneToken, spelled out for one NPC.
Token(n) ==
    /\ \A t, u \in Thread : Acting(t, n) /\ Acting(u, n) => t = u
    /\ timer[n] + posted[n] <= 1
    /\ timer[n] + posted[n] = 1 => \A t \in Thread : ~Acting(t, n)
    /\ active[n] <=> (timer[n] + posted[n] = 1 \/ \E t \in Thread : Acting(t, n))

\* An NPC whose turn is not touched keeps its token.
LEMMA OtherToken ==
    ASSUME NEW m \in Npc, Token(m),
           timer'[m] = timer[m], posted'[m] = posted[m], active'[m] = active[m],
           \A u \in Thread : Acting(u, m)' <=> Acting(u, m)
    PROVE  Token(m)'
  BY DEF Token

\* A worker with nothing to do takes one completion and has the NPC's turn.
LEMMA ActTakes ==
    ASSUME TypeOK, Ownership, NEW t \in Worker, NEW n \in Npc, Act(t, n)
    PROVE  /\ work[t].self = None /\ work'[t].self = n
           /\ \A u \in Thread \ {t} : work'[u] = work[u]
           /\ posted[n] > 0 /\ posted' = [posted EXCEPT ![n] = @ - 1]
           /\ active' = active /\ timer' = timer
           /\ Owned(work'[t])
  <1>0. /\ t \in Thread /\ t # Db /\ n \in Object
        /\ None \notin Npc /\ Idle.self = None
    BY DbAssumption, NoneAssumption DEF Thread, Object, Idle
  <1>1. /\ work[t].pc = "idle" /\ posted[n] > 0
        /\ posted' = [posted EXCEPT ![n] = @ - 1]
        /\ active' = active /\ timer' = timer
    BY DEF Act, ActAgro, ActAgroSeek, ActPeace, Take, MayStart
  <1>2. work[t].self = None
    BY <1>0, <1>1 DEF Ownership, Owned
  <1>4. PICK r : /\ Start(t, r) /\ r.pc \in NpcPc \union {"place"}
                 /\ r.self = n /\ r.me = n
    BY <1>0, NpcGoes DEF Goes
  <1>5. work'[t] = r /\ \A u \in Thread \ {t} : work'[u] = work[u]
    BY <1>0, <1>4 DEF TypeOK
  <1>6. Owned(r)
    BY <1>0, <1>4 DEF Owned, NpcPc, WalkPc
  <1> QED
    BY <1>1, <1>2, <1>4, <1>5, <1>6

\* The step that takes a completion turns it into the worker's turn.
LEMMA ActTokens ==
    ASSUME TypeOK, Ownership, OneToken, NEW t \in Worker, NEW n \in Npc, Act(t, n)
    PROVE  Ownership' /\ OneToken'
  <1>0. t \in Thread /\ t # Db /\ None \notin Npc
    BY DbAssumption, NoneAssumption DEF Thread, Object
  <1>1. /\ posted[n] > 0 /\ posted' = [posted EXCEPT ![n] = @ - 1]
        /\ active' = active /\ timer' = timer
    BY ActTakes
  <1>2. work[t].self = None /\ work'[t].self = n /\ Owned(work'[t])
    BY ActTakes
  <1>5. \A u \in Thread \ {t} : work'[u] = work[u]
    BY ActTakes
  <1>6. Ownership'
    <2>2. \A u \in Thread : Owned(work'[u])
      BY <1>2, <1>5 DEF Ownership
    <2>3. work'[Db].self \notin Npc
      BY <1>0, <1>5 DEF Ownership, Thread
    <2> QED
      BY <2>2, <2>3 DEF Ownership, Owned
  <1>7. Token(n)'
    <2>1. timer[n] = 0 /\ posted[n] = 1
      <3>1. timer[n] \in Nat /\ posted[n] \in Nat
        BY DEF TypeOK
      <3>2. timer[n] + posted[n] <= 1 /\ posted[n] > 0
        BY <1>1 DEF OneToken
      <3> QED
        BY <3>1, <3>2
    <2>2. timer'[n] = 0 /\ posted'[n] = 0
      BY <1>1, <2>1 DEF TypeOK
    <2>3. active'[n] /\ \A u \in Thread : ~Acting(u, n)
      BY <1>1, <2>1 DEF OneToken
    <2>4. \A u \in Thread : Acting(u, n)' <=> u = t
      BY <1>2, <1>5, <2>3 DEF Acting
    <2> QED
      BY <1>0, <2>2, <2>3, <2>4 DEF Token
  <1>8. ASSUME NEW m \in Npc, m # n PROVE Token(m)'
    <2>1. Token(m)
      BY DEF OneToken, Token
    <2>2. timer'[m] = timer[m] /\ posted'[m] = posted[m] /\ active'[m] = active[m]
      BY <1>1, <1>8 DEF TypeOK
    <2>3. \A u \in Thread : (work'[u].self = m) <=> (work[u].self = m)
      BY <1>0, <1>2, <1>5, <1>8
    <2> QED
      BY <2>1, <2>2, <2>3, OtherToken DEF Acting
  <1> QED
    BY <1>6, <1>7, <1>8 DEF OneToken, Token

\* The step that ends a turn leaves a timer, or an NPC asleep.
LEMMA EndTokens ==
    ASSUME TypeOK, Ownership, OneToken, NEW t \in Thread, Schedule(t) \/ Sleep(t)
    PROVE  Ownership' /\ OneToken'
  <1>0. None \notin Npc /\ Idle.self = None /\ Idle.pc = "idle"
    BY NoneAssumption DEF Object, Idle
  <1>1. PICK n \in Npc : work[t].me = n /\ work[t].self = n
    BY DEF Schedule, Sleep, Ownership, Owned, NpcPc
  <1>2. work'[t] = Idle /\ \A u \in Thread \ {t} : work'[u] = work[u]
    BY DEF Schedule, Sleep, Finish, TypeOK
  <1>3. Ownership'
    <2>1. Owned(Idle)
      BY <1>0 DEF Owned, NpcPc, WalkPc
    <2>2. \A u \in Thread : Owned(work'[u])
      BY <1>2, <2>1 DEF Ownership
    <2>3. work'[Db].self \notin Npc
      BY <1>0, <1>2 DEF Ownership, Thread
    <2> QED
      BY <2>2, <2>3 DEF Ownership, Owned
  <1>4. Token(n)'
    <2>1. Acting(t, n)
      BY <1>1 DEF Acting
    <2>2. /\ timer[n] = 0 /\ posted[n] = 0 /\ active[n]
          /\ \A u \in Thread : Acting(u, n) => u = t
      <3>1. /\ timer[n] \in Nat /\ posted[n] \in Nat /\ timer[n] + posted[n] <= 1
            /\ timer[n] + posted[n] # 1
        BY <2>1 DEF OneToken, TypeOK
      <3>2. active[n] /\ \A u \in Thread : Acting(u, n) => u = t
        BY <2>1 DEF OneToken
      <3> QED
        BY <3>1, <3>2
    <2>3. \A u \in Thread : ~Acting(u, n)'
      BY <1>0, <1>1, <1>2, <2>2 DEF Acting
    <2>4. CASE Schedule(t)
      <3>1. timer'[n] = 1 /\ posted'[n] = 0 /\ active'[n]
        BY <1>1, <2>2, <2>4 DEF Schedule, TypeOK
      <3> QED
        BY <2>3, <3>1 DEF Token
    <2>5. CASE Sleep(t)
      <3>1. timer'[n] = 0 /\ posted'[n] = 0 /\ ~active'[n]
        BY <1>1, <2>2, <2>5 DEF Sleep, TypeOK
      <3> QED
        BY <2>3, <3>1 DEF Token
    <2> QED
      BY <2>4, <2>5
  <1>5. ASSUME NEW m \in Npc, m # n PROVE Token(m)'
    <2>1. Token(m)
      BY DEF OneToken, Token
    <2>2. timer'[m] = timer[m] /\ posted'[m] = posted[m] /\ active'[m] = active[m]
      BY <1>1, <1>5 DEF Schedule, Sleep, TypeOK
    <2>3. \A u \in Thread : (work'[u].self = m) <=> (work[u].self = m)
      BY <1>0, <1>1, <1>2, <1>5
    <2> QED
      BY <2>1, <2>2, <2>3, OtherToken DEF Acting
  <1> QED
    BY <1>3, <1>4, <1>5 DEF OneToken, Token

\* The timer's event becomes a completion.
LEMMA FireTokens ==
    ASSUME TypeOK, Ownership, OneToken, NEW n \in Npc, Fire(n)
    PROVE  Ownership' /\ OneToken'
  <1>1. work' = work /\ active' = active
    BY DEF Fire
  <1>2. Ownership'
    BY <1>1 DEF Ownership, Owned
  <1>3. \A m \in Npc : timer'[m] + posted'[m] = timer[m] + posted[m]
    BY DEF Fire, TypeOK
  <1> QED
    BY <1>1, <1>2, <1>3 DEF OneToken, Acting

----------------------------------------------------------------------------
(* The invariant.                                                          *)

\* The invariant holds when the server has started.
LEMMA InitInv == Init => IInv
  <1> SUFFICES ASSUME Init PROVE IInv
    OBVIOUS
  <1>0. None \notin Object
    BY NoneAssumption
  <1>1. pos \in [Object -> Cell]
    BY DEF Init
  <1>2. \A o \in Object : SectorOf(pos[o]) \in Sector /\ Around(pos[o]) \in SUBSET Sector
    BY <1>1, SectorType
  <1>3. TypeOK
    <2>1. /\ sector \in [Object -> Sector \union {None}]
          /\ around \in [Object -> SUBSET Sector]
      BY <1>2 DEF Init
    <2>2. members \in [Sector -> SUBSET Object] /\ view \in [Object -> SUBSET Object]
      BY DEF Init, Object
    <2>3. work \in [Thread -> Handler]
      BY StartRecord DEF Init
    <2>4. /\ state \in [Object -> {"FREE", "ACTIVE", "INGAME", "DEAD"}]
          /\ shown \in [Player -> SUBSET Object] /\ joined \subseteq Player /\ agro \subseteq Npc
          /\ active \in [Npc -> BOOLEAN] /\ timer \in [Npc -> Nat] /\ posted \in [Npc -> Nat]
      BY DEF Init
    <2> QED
      BY <1>1, <2>1, <2>2, <2>3, <2>4 DEF TypeOK
  <1>4. \A t \in Thread : work[t] = Idle /\ work[t].pc = "idle" /\ work[t].self = None
    BY DEF Init, Idle
  <1>5. Ownership
    BY <1>0, <1>4 DEF Ownership, Owned, WalkPc, NpcPc, Object, Thread
  <1>6. OneToken
    BY <1>0, <1>4 DEF OneToken, Acting, Init, Object
  <1> QED
    BY <1>3, <1>5, <1>6 DEF IInv

\* A step that carries on, and either leaves the NPCs' turns alone or wakes
\* some of them, keeps every NPC to one turn.
LEMMA CarryInv ==
    ASSUME TypeOK, Ownership, OneToken, NEW t \in Thread, Carries(t),
           UNCHANGED npcVars \/ \E S \in SUBSET Npc : WakeUp(S) /\ timer' = timer
    PROVE  Ownership' /\ OneToken'
  <1>1. Ownership' /\ \A u \in Thread, n \in Npc : Acting(u, n)' <=> Acting(u, n)
    BY CarriesOn
  <1>2. CASE UNCHANGED npcVars
    BY <1>1, <1>2, SameTokens
  <1>3. CASE \E S \in SUBSET Npc : WakeUp(S) /\ timer' = timer
    BY <1>1, <1>3, WokenTokens
  <1> QED
    BY <1>1, <1>2, <1>3

\* One step of the system keeps the invariant.
LEMMA NextInv == IInv /\ [Next]_vars => IInv'
  <1> SUFFICES ASSUME TypeOK, Ownership, OneToken, [Next]_vars
               PROVE  TypeOK' /\ Ownership' /\ OneToken'
    BY DEF IInv
  <1>1. ASSUME NEW t \in Thread, Continue(t)
        PROVE  TypeOK' /\ Ownership' /\ OneToken'
    <2>1. CASE Do(t)
      <3>1. UNCHANGED npcVars
        BY <2>1 DEF Do
      <3> QED
        BY <2>1, <3>1, DoType, DoCarries, CarryInv
    <2>2. CASE Walk(t)
      <3>1. CASE Scan(t)
        <4>1. \/ UNCHANGED npcVars
              \/ \E s : /\ WakeUp(Visible(work[t].me, s) \intersect Npc)
                       /\ timer' = timer
          BY <3>1 DEF Scan, npcVars
        <4>2. \A s : Visible(work[t].me, s) \intersect Npc \in SUBSET Npc
          OBVIOUS
        <4> QED
          BY <2>2, <4>1, <4>2, WalkType, WalkCarries, CarryInv
      <3>2. CASE ~Scan(t)
        <4>1. UNCHANGED npcVars
          BY <2>2, <3>2 DEF Walk, Place, Enroll, Withdraw, Look, Diff, DiffEnd
        <4> QED
          BY <2>2, <4>1, WalkType, WalkCarries, CarryInv
      <3> QED
        BY <3>1, <3>2
    <2>3. CASE Depart(t) \/ Bury(t)
      <3>1. UNCHANGED npcVars
        BY <2>3 DEF Depart, LeaveScan, LeaveTell, Vanish, Free, Bury
      <3> QED
        BY <2>3, <3>1, DepartType, DepartCarries, CarryInv
    <2>4. CASE EndTurn(t)
      <3>1. CASE Looking(t)
        <4>1. UNCHANGED npcVars
          BY <3>1 DEF Looking, Seek, SeekEnd, Decide
        <4> QED
          BY <2>4, <3>1, <4>1, EndTurnType, GoesCarries, CarryInv
      <3>2. CASE Schedule(t) \/ Sleep(t)
        BY <2>4, <3>2, EndTurnType, EndTokens
      <3> QED
        BY <2>4, <3>1, <3>2 DEF EndTurn, Looking
    <2> QED
      BY <1>1, <2>1, <2>2, <2>3, <2>4 DEF Continue
  <1>2. CASE EnterStep
    <2>0. Db \in Thread
      BY DEF Thread
    <2>1. CASE EnterMeet
      <3>1. \/ UNCHANGED npcVars
            \/ \E o : WakeUp({o} \intersect Npc) /\ timer' = timer
        BY <2>1 DEF EnterMeet, npcVars
      <3>2. \A o : {o} \intersect Npc \in SUBSET Npc
        OBVIOUS
      <3> QED
        BY <1>2, <2>0, <3>1, <3>2, EnterType, EnterCarries, CarryInv
    <2>2. CASE EnterIngame \/ EnterLock
      <3>1. UNCHANGED npcVars
        BY <2>2 DEF EnterIngame, EnterLock
      <3> QED
        BY <1>2, <2>0, <3>1, EnterType, EnterCarries, CarryInv
    <2> QED
      BY <1>2, <2>1, <2>2 DEF EnterStep
  <1>3. ASSUME NEW t \in Thread, NEW p \in Player, NEW x \in Cell,
               Command(t, p) \/ Connect(p) \/ Enter(p, x)
        PROVE  TypeOK' /\ Ownership' /\ OneToken'
    <2>1. UNCHANGED npcVars
      BY <1>3 DEF Command, Move, Teleport, Leave, Kill, Connect, Enter
    <2>2. t \in Thread /\ Db \in Thread
      BY DEF Thread
    <2>3. Carries(t) \/ Carries(Db)
      BY <1>3, CommandCarries
    <2>4. TypeOK'
      BY <1>3, CommandType
    <2> QED
      BY <2>1, <2>2, <2>3, <2>4, CarryInv
  <1>4. ASSUME NEW n \in Npc, Fire(n) \/ \E t \in Worker : Act(t, n)
        PROVE  TypeOK' /\ Ownership' /\ OneToken'
    BY <1>4, ActType, ActTokens, FireTokens
  <1>5. CASE UNCHANGED vars
    BY <1>5 DEF vars, placeVars, viewVars, onceVars, npcVars, TypeOK, Ownership, Owned,
                OneToken, Acting
  <1>6. /\ Db \in Thread /\ 0 \in Cell
        /\ \A t \in Worker : t \in Thread
    BY MapAssumption DEF Thread, Cell
  <1>7. CASE Next
    <2>1. CASE \E p \in Player : Connect(p) \/ \E x \in Cell : Enter(p, x)
      BY <1>3, <1>6, <2>1
    <2>2. CASE \E t \in Worker, p \in Player : Command(t, p)
      BY <1>3, <1>6, <2>2
    <2> QED
      BY <1>1, <1>2, <1>4, <1>7, <2>1, <2>2 DEF Next
  <1> QED
    BY <1>5, <1>7

\* The invariant always holds.
LEMMA Invariance == Spec => []IInv
  <1>1. Init => IInv
    BY InitInv
  <1>2. IInv /\ [Next]_vars => IInv'
    BY NextInv
  <1> QED
    BY <1>1, <1>2, PTL DEF Spec

\* Every variable keeps its type, however many players, NPCs and threads there
\* are and however their handlers overlap: in particular no packet is ever
\* sent to an NPC, which has no client (Npc.cpp:207-222).
THEOREM TypeCorrect == Spec => []TypeOK
  <1>1. IInv => TypeOK
    BY DEF IInv
  <1> QED
    BY <1>1, Invariance, PTL

\* An NPC never has two turns at once, nor a turn and a timer, and is active
\* exactly while it has one (Npc.cpp:43-108, 255-280; Timer.cpp:5-62).
THEOREM OneTurnPerNpc == Spec => []OneToken
  <1>1. IInv => OneToken
    BY DEF IInv
  <1> QED
    BY <1>1, Invariance, PTL

----------------------------------------------------------------------------
(* The turns implement NpcTurns.                                           *)

\* A step that carries on wakes those who sleep, or changes no turn.
LEMMA CarryTurns ==
    ASSUME TypeOK, Ownership, OneToken, NEW t \in Thread, Carries(t),
           UNCHANGED npcVars \/ \E S \in SUBSET Npc : WakeUp(S) /\ timer' = timer
    PROVE  [Turns!Next]_<<TurnOf, HandsOf>>
  <1>1. HandsOf' = HandsOf
    <2>1. \A u \in Thread, n \in Npc : Acting(u, n)' <=> Acting(u, n)
      BY CarriesOn
    <2>2. \A n \in Npc : {u \in Thread : Acting(u, n)'} = {u \in Thread : Acting(u, n)}
      BY <2>1
    <2> QED
      BY <2>2 DEF HandsOf
  <1>2. CASE UNCHANGED npcVars
    BY <1>1, <1>2 DEF npcVars, TurnOf
  <1>3. ASSUME NEW S \in SUBSET Npc, WakeUp(S), timer' = timer
        PROVE  Turns!Wake
    <2> DEFINE T == {n \in S : ~active[n]}
    <2>1. T \in SUBSET {n \in Npc : TurnOf[n] = "asleep"}
      BY DEF TurnOf
    <2>2. ASSUME NEW n \in T PROVE TurnOf'[n] = "due"
      <3>0. n \in Npc /\ n \in S /\ ~active[n]
        BY <2>2
      <3>1. timer[n] = 0 /\ posted[n] = 0
        <4>1. timer[n] \in Nat /\ posted[n] \in Nat
          BY <3>0 DEF TypeOK
        <4>2. timer[n] + posted[n] <= 1 /\ timer[n] + posted[n] # 1
          BY <3>0 DEF OneToken
        <4> QED
          BY <4>1, <4>2
      <3>2. active'[n] /\ timer'[n] = 0 /\ posted'[n] = 1
        <4>1. /\ active'[n] <=> (active[n] \/ n \in S)
              /\ posted'[n] = IF n \in S /\ ~active[n] THEN posted[n] + 1 ELSE posted[n]
              /\ timer'[n] = timer[n]
          BY <1>3, <3>0 DEF WakeUp
        <4> QED
          BY <3>0, <3>1, <4>1
      <3> QED
        BY <3>2 DEF TurnOf
    <2>3. ASSUME NEW n \in Npc \ T PROVE TurnOf'[n] = TurnOf[n]
      BY <1>3 DEF WakeUp, TurnOf, TypeOK
    <2>4. TurnOf' = [n \in Npc |-> IF n \in T THEN "due" ELSE TurnOf[n]]
      <3>1. \A n \in Npc : TurnOf'[n] = IF n \in T THEN "due" ELSE TurnOf[n]
        BY <2>2, <2>3
      <3> HIDE DEF T
      <3> QED
        BY <3>1 DEF TurnOf
    <2> QED
      BY <1>1, <2>1, <2>4 DEF Turns!Wake
  <1> QED
    BY <1>2, <1>3 DEF Turns!Next

\* A completion is a turn that is due, and the worker who takes it has no other.
LEMMA ActTurns ==
    ASSUME TypeOK, Ownership, OneToken, NEW t \in Worker, NEW n \in Npc, Act(t, n)
    PROVE  Turns!Take(t, n)
  <1>0. t \in Thread /\ None \notin Npc
    BY NoneAssumption DEF Thread, Object
  <1>1. /\ work[t].self = None /\ work'[t].self = n
        /\ \A u \in Thread \ {t} : work'[u] = work[u]
        /\ posted[n] > 0 /\ posted' = [posted EXCEPT ![n] = @ - 1]
        /\ active' = active /\ timer' = timer
    BY ActTakes
  <1>2. /\ active[n] /\ timer[n] = 0 /\ posted[n] = 1
        /\ \A u \in Thread : ~Acting(u, n)
    <2>1. timer[n] \in Nat /\ posted[n] \in Nat /\ timer[n] + posted[n] <= 1
      BY DEF TypeOK, OneToken
    <2>2. timer[n] = 0 /\ posted[n] = 1
      BY <1>1, <2>1
    <2> QED
      BY <2>2 DEF OneToken
  <1>3. TurnOf[n] = "due" /\ \A m \in Npc : t \notin HandsOf[m]
    BY <1>0, <1>1, <1>2 DEF TurnOf, HandsOf, Acting
  <1>4. TurnOf' = [TurnOf EXCEPT ![n] = "taken"]
    <2>1. TurnOf'[n] = "taken"
      BY <1>1, <1>2 DEF TurnOf, TypeOK
    <2>2. \A m \in Npc \ {n} : TurnOf'[m] = TurnOf[m]
      BY <1>1 DEF TurnOf, TypeOK
    <2> QED
      BY <2>1, <2>2 DEF TurnOf
  <1>5. HandsOf' = [HandsOf EXCEPT ![n] = {t}]
    <2>1. HandsOf'[n] = {t}
      BY <1>0, <1>1, <1>2 DEF HandsOf, Acting
    <2>2. \A m \in Npc \ {n} : HandsOf'[m] = HandsOf[m]
      BY <1>0, <1>1 DEF HandsOf, Acting
    <2> QED
      BY <2>1, <2>2 DEF HandsOf
  <1> QED
    BY <1>3, <1>4, <1>5 DEF Turns!Take

\* The worker who has the turn ends it.
LEMMA EndTurns ==
    ASSUME TypeOK, Ownership, OneToken, NEW t \in Thread, Schedule(t) \/ Sleep(t)
    PROVE  t \in Worker /\ \E n \in Npc : Turns!Put(t, n)
  <1>0. None \notin Npc /\ Idle.self = None
    BY NoneAssumption DEF Object, Idle
  <1>1. PICK n \in Npc : work[t].me = n /\ work[t].self = n
    BY DEF Schedule, Sleep, Ownership, Owned, NpcPc
  <1>2. work'[t] = Idle /\ \A u \in Thread \ {t} : work'[u] = work[u]
    BY DEF Schedule, Sleep, Finish, TypeOK
  <1>3. t \in Worker
    BY <1>1 DEF Ownership, Thread
  <1>4. /\ active[n] /\ timer[n] = 0 /\ posted[n] = 0
        /\ \A u \in Thread : Acting(u, n) <=> u = t
    <2>1. Acting(t, n)
      BY <1>1 DEF Acting
    <2>2. /\ timer[n] \in Nat /\ posted[n] \in Nat
          /\ timer[n] + posted[n] <= 1 /\ timer[n] + posted[n] # 1
      BY <2>1 DEF TypeOK, OneToken
    <2>3. active[n] /\ \A u \in Thread : Acting(u, n) <=> u = t
      BY <2>1 DEF OneToken
    <2> QED
      BY <2>2, <2>3
  <1>5. TurnOf[n] = "taken" /\ HandsOf[n] = {t}
    BY <1>4 DEF TurnOf, HandsOf
  <1>6. HandsOf' = [HandsOf EXCEPT ![n] = {}]
    <2>1. HandsOf'[n] = {}
      BY <1>0, <1>2, <1>4 DEF HandsOf, Acting
    <2>2. \A m \in Npc \ {n} : HandsOf'[m] = HandsOf[m]
      BY <1>0, <1>1, <1>2 DEF HandsOf, Acting
    <2> QED
      BY <2>1, <2>2 DEF HandsOf
  <1>7. \E next \in {"later", "asleep"} : TurnOf' = [TurnOf EXCEPT ![n] = next]
    <2>1. \A m \in Npc \ {n} : TurnOf'[m] = TurnOf[m]
      BY <1>1 DEF Schedule, Sleep, TurnOf, TypeOK
    <2>2. CASE Schedule(t)
      <3>1. active'[n] /\ timer'[n] = 1
        BY <1>1, <1>4, <2>2 DEF Schedule, TypeOK
      <3>2. TurnOf'[n] = "later"
        BY <3>1 DEF TurnOf
      <3>3. TurnOf' = [TurnOf EXCEPT ![n] = "later"]
        BY <2>1, <3>2 DEF TurnOf
      <3> QED
        BY <3>3
    <2>3. CASE Sleep(t)
      <3>1. ~active'[n]
        BY <1>1, <2>3 DEF Sleep, TypeOK
      <3>2. TurnOf'[n] = "asleep"
        BY <3>1 DEF TurnOf
      <3>3. TurnOf' = [TurnOf EXCEPT ![n] = "asleep"]
        BY <2>1, <3>2 DEF TurnOf
      <3> QED
        BY <3>3
    <2> QED
      BY <2>2, <2>3
  <1> QED
    BY <1>3, <1>5, <1>6, <1>7 DEF Turns!Put

\* The event of a timer is the turn that comes later.
LEMMA FireTurns ==
    ASSUME TypeOK, OneToken, NEW n \in Npc, Fire(n)
    PROVE  Turns!Expire(n)
  <1>1. HandsOf' = HandsOf
    BY DEF Fire, HandsOf, Acting
  <1>2. active[n] /\ timer[n] = 1 /\ posted[n] = 0
    <2>1. /\ timer[n] \in Nat /\ posted[n] \in Nat
          /\ timer[n] + posted[n] <= 1 /\ timer[n] > 0
      BY DEF Fire, TypeOK, OneToken
    <2>2. timer[n] = 1 /\ posted[n] = 0
      BY <2>1
    <2> QED
      BY <2>2 DEF OneToken
  <1>3. TurnOf[n] = "later"
    BY <1>2 DEF TurnOf
  <1>4. TurnOf'[n] = "due"
    <2>1. active'[n] /\ timer'[n] = 0 /\ posted'[n] = 1
      BY <1>2 DEF Fire, TypeOK
    <2> QED
      BY <2>1 DEF TurnOf
  <1>5. \A m \in Npc \ {n} : TurnOf'[m] = TurnOf[m]
    BY DEF Fire, TurnOf, TypeOK
  <1>6. TurnOf' = [TurnOf EXCEPT ![n] = "due"]
    BY <1>4, <1>5 DEF TurnOf
  <1> QED
    BY <1>1, <1>3, <1>6 DEF Turns!Expire

\* Every step is a step of NpcTurns or changes nothing there.
LEMMA NextTurns == IInv /\ [Next]_vars => [Turns!Next]_<<TurnOf, HandsOf>>
  <1> SUFFICES ASSUME TypeOK, Ownership, OneToken, [Next]_vars
               PROVE  [Turns!Next]_<<TurnOf, HandsOf>>
    BY DEF IInv
  <1>1. CASE \E t \in Thread : /\ Carries(t)
                               /\ \/ UNCHANGED npcVars
                                  \/ \E S \in SUBSET Npc : WakeUp(S) /\ timer' = timer
    BY <1>1, CarryTurns
  <1>2. CASE \E t \in Thread : Schedule(t) \/ Sleep(t)
    BY <1>2, EndTurns DEF Turns!Next
  <1>3. CASE \E n \in Npc : Fire(n) \/ \E t \in Worker : Act(t, n)
    BY <1>3, ActTurns, FireTurns DEF Turns!Next
  <1>4. CASE UNCHANGED vars
    BY <1>4 DEF vars, npcVars, TurnOf, HandsOf, Acting
  <1>5. ASSUME NEW t \in Thread, Continue(t), ~(Schedule(t) \/ Sleep(t))
        PROVE  /\ Carries(t)
               /\ \/ UNCHANGED npcVars
                  \/ \E S \in SUBSET Npc : WakeUp(S) /\ timer' = timer
    <2>1. Carries(t)
      BY <1>5, DoCarries, WalkCarries, DepartCarries, GoesCarries DEF Continue, EndTurn, Looking
    <2>2. CASE Scan(t)
      <3>1. \/ UNCHANGED npcVars
            \/ \E s : WakeUp(Visible(work[t].me, s) \intersect Npc) /\ timer' = timer
        BY <2>2 DEF Scan, npcVars
      <3>2. \A s : Visible(work[t].me, s) \intersect Npc \in SUBSET Npc
        OBVIOUS
      <3> QED
        BY <2>1, <3>1, <3>2
    <2>3. CASE ~Scan(t)
      <3>1. UNCHANGED npcVars
        BY <1>5, <2>3 DEF Continue, Do, Walk, Place, Enroll, Withdraw, Look, Diff, DiffEnd,
                          Depart, LeaveScan, LeaveTell, Vanish, Free, Bury, EndTurn,
                          Seek, SeekEnd, Decide
      <3> QED
        BY <2>1, <3>1
    <2> QED
      BY <2>2, <2>3
  <1>6. ASSUME EnterStep
        PROVE  /\ Carries(Db)
               /\ \/ UNCHANGED npcVars
                  \/ \E S \in SUBSET Npc : WakeUp(S) /\ timer' = timer
    <2>1. Carries(Db)
      BY <1>6, EnterCarries
    <2>2. \/ UNCHANGED npcVars
          \/ \E o : WakeUp({o} \intersect Npc) /\ timer' = timer
      BY <1>6 DEF EnterStep, EnterIngame, EnterLock, EnterMeet, npcVars
    <2>3. \A o : {o} \intersect Npc \in SUBSET Npc
      OBVIOUS
    <2> QED
      BY <2>1, <2>2, <2>3
  <1>7. ASSUME NEW t \in Thread, NEW p \in Player, NEW x \in Cell,
               Command(t, p) \/ Connect(p) \/ Enter(p, x)
        PROVE  (Carries(t) \/ Carries(Db)) /\ UNCHANGED npcVars
    BY <1>7, CommandCarries DEF Command, Move, Teleport, Leave, Kill, Connect, Enter
  <1>8. /\ Db \in Thread /\ 0 \in Cell
        /\ \A t \in Worker : t \in Thread
    BY MapAssumption DEF Thread, Cell
  <1>9. CASE Next
    <2>1. CASE \E t \in Thread : Continue(t)
      BY <1>1, <1>2, <1>5, <2>1
    <2>2. CASE EnterStep
      BY <1>1, <1>6, <1>8, <2>2
    <2>3. CASE \E p \in Player : Connect(p) \/ \E x \in Cell : Enter(p, x)
      BY <1>1, <1>7, <1>8, <2>3
    <2>4. CASE \E t \in Worker, p \in Player : Command(t, p)
      BY <1>1, <1>7, <1>8, <2>4
    <2> QED
      BY <1>3, <1>9, <2>1, <2>2, <2>3, <2>4 DEF Next
  <1> QED
    BY <1>4, <1>9

\* What the NPCs' handlers, WakeUpNpc and the timer do together implements
\* NpcTurns: a turn is begun only when it is due, by a worker without another,
\* and is ended by that worker only (Npc.cpp:43-108, 255-280; Timer.cpp:5-62).
THEOREM TurnsHaveOneOwner == Spec => TurnsAreOwned
  <1>1. Init => Turns!Init
    <2> SUFFICES ASSUME Init PROVE Turns!Init
      OBVIOUS
    <2>1. None \notin Npc /\ Idle.self = None
      BY NoneAssumption DEF Object, Idle
    <2>2. \A n \in Npc, t \in Thread : ~Acting(t, n) /\ ~active[n]
      BY <2>1 DEF Init, Acting
    <2>3. TurnOf = [n \in Npc |-> "asleep"]
      BY <2>2 DEF TurnOf, Init
    <2>4. HandsOf = [n \in Npc |-> {}]
      <3>1. \A n \in Npc : {t \in Thread : Acting(t, n)} = {}
        BY <2>2
      <3> QED
        BY <3>1 DEF HandsOf
    <2> QED
      BY <2>3, <2>4 DEF Turns!Init
  <1>2. IInv /\ [Next]_vars => [Turns!Next]_<<TurnOf, HandsOf>>
    BY NextTurns
  <1> QED
    BY <1>1, <1>2, Invariance, PTL DEF Spec, TurnsAreOwned, Turns!Spec

----------------------------------------------------------------------------
(* Where the sectors list an object.                                       *)

\* Where the sectors list an object, and where it stands when nobody moves it.
Listed(o) == {s \in Sector : o \in members[s]}
Settled(o) ==
    IF state[o] = "FREE" THEN sector[o] = None /\ Listed(o) = {}
    ELSE /\ sector[o] = SectorOf(pos[o]) /\ Listed(o) = {sector[o]}
         /\ around[o] = Around(pos[o])

\* PutInSector has told the object its new sector, and the old one lists it.
Between(o, r) ==
    /\ sector[o] = SectorOf(pos[o]) /\ around[o] = Around(pos[o])
    /\ r.to = sector[o] /\ r.from \in Sector \ {r.to}

\* What a handler r of object o has done to the lists of the sectors so far.
Along(o, r) ==
    /\ state[o] # "FREE"
    /\ r.pc = "place" => sector[o] \in Sector /\ Listed(o) = {sector[o]}
    /\ r.pc = "enroll" => Between(o, r) /\ Listed(o) = {r.from}
    /\ r.pc = "withdraw" => Between(o, r) /\ Listed(o) = {r.from, r.to}
    /\ r.pc = "free" => sector[o] = None /\ Listed(o) = {}
    /\ r.pc \notin {"place", "enroll", "withdraw", "free"} => Settled(o)

\* An object is moved by one handler, its place is as that one has left it, and
\* the slot of an NPC is never freed.
Placed(o) ==
    /\ o \in Npc => state[o] # "FREE"
    /\ \A t, u \in Thread : work[t].self = o /\ work[u].self = o => t = u
    /\ ~Serving(o) => Settled(o)
    /\ \A t \in Thread : work[t].self = o => Along(o, work[t])

\* A handler is about the object it works for, unless it buries an NPC.
Alike(r) == IF r.pc = "bury" THEN r.self \in Player /\ r.me \in Npc ELSE r.self = r.me

\* Nobody teleports, and the handlers of one player do not overlap.
Calm == CalmSelf /\ ~MayTeleport

PlaceInv == /\ Calm
            /\ \A t \in Thread : Alike(work[t])
            /\ \A o \in Object : Placed(o)

\* The lists of the sectors, and what the handlers go by, are as they were.
Stands(o) ==
    /\ (state'[o] = "FREE") <=> (state[o] = "FREE")
    /\ pos'[o] = pos[o] /\ sector'[o] = sector[o] /\ around'[o] = around[o]
    /\ Listed(o)' = Listed(o)

\* A handler about somebody else does not move the object.
LEMMA OtherPlaced ==
    ASSUME TypeOK, NEW t \in Thread, NEW r, Start(t, r), NEW o \in Object, Placed(o),
           work[t].self # o, r.self # o, Stands(o)
    PROVE  Placed(o)'
  <1>1. work'[t] = r /\ \A u \in Thread \ {t} : work'[u] = work[u]
    BY DEF TypeOK
  <1>2. \A u \in Thread : (work'[u].self = o <=> work[u].self = o)
                          /\ (work[u].self = o => work'[u] = work[u])
    BY <1>1
  <1>3. Settled(o)' <=> Settled(o)
    BY DEF Settled, Stands
  <1>4. \A q : Along(o, q)' <=> Along(o, q)
    BY <1>3 DEF Along, Between, Stands
  <1> QED
    BY <1>2, <1>3, <1>4 DEF Placed, Serving, Stands

\* The object's own handler goes on.
LEMMA OwnPlaced ==
    ASSUME TypeOK, NEW t \in Thread, NEW r, Start(t, r), NEW o \in Object, Placed(o),
           work[t].self = o, r.self = o, Along(o, r)'
    PROVE  Placed(o)'
  <1>1. work'[t] = r /\ \A u \in Thread \ {t} : work'[u] = work[u]
    BY DEF TypeOK
  <1>2. \A u \in Thread : work'[u].self = o => u = t
    BY <1>1 DEF Placed
  <1>3. Serving(o)'
    BY <1>1 DEF Serving
  <1> QED
    BY <1>1, <1>2, <1>3 DEF Placed, Along

\* The object's own handler ends.
LEMMA EndPlaced ==
    ASSUME TypeOK, NEW t \in Thread, NEW r, Start(t, r), NEW o \in Object, Placed(o),
           work[t].self = o, r.self # o, Settled(o)', o \in Npc => state'[o] # "FREE"
    PROVE  Placed(o)'
  <1>1. work'[t] = r /\ \A u \in Thread \ {t} : work'[u] = work[u]
    BY DEF TypeOK
  <1>2. \A u \in Thread : work'[u].self # o
    BY <1>1 DEF Placed
  <1> QED
    BY <1>2 DEF Placed

\* A handler of the object begins, when it has none.
LEMMA BeginPlaced ==
    ASSUME TypeOK, NEW t \in Thread, NEW r, Start(t, r), NEW o \in Object, Placed(o),
           ~Serving(o), r.self = o, Along(o, r)'
    PROVE  Placed(o)'
  <1>1. work'[t] = r /\ \A u \in Thread \ {t} : work'[u] = work[u]
    BY DEF TypeOK
  <1>2. \A u \in Thread : work'[u].self = o => u = t
    BY <1>1 DEF Serving
  <1>3. Serving(o)'
    BY <1>1 DEF Serving
  <1> QED
    BY <1>1, <1>2, <1>3 DEF Placed, Along

\* One handler goes from one record to the next, and each object is as it
\* was, or as the handler that is about it leaves it.
LEMMA PlaceStep ==
    ASSUME TypeOK, PlaceInv, NEW t \in Thread, NEW r, Start(t, r), Alike(r),
           \A o \in Object : work[t].self # o /\ r.self # o => Stands(o),
           \A o \in Object :
             work[t].self = o => IF r.self = o THEN Along(o, r)'
                                 ELSE Settled(o)' /\ (o \in Npc => state'[o] # "FREE"),
           \A o \in Object : work[t].self # o /\ r.self = o => ~Serving(o) /\ Along(o, r)'
    PROVE  PlaceInv'
  <1>1. work'[t] = r /\ \A u \in Thread \ {t} : work'[u] = work[u]
    BY DEF TypeOK
  <1>2. \A u \in Thread : Alike(work[u])'
    BY <1>1 DEF PlaceInv, Alike
  <1>3. ASSUME NEW o \in Object PROVE Placed(o)'
    <2>0. Placed(o)
      BY DEF PlaceInv
    <2>1. CASE work[t].self # o /\ r.self # o
      BY <2>0, <2>1, OtherPlaced
    <2>2. CASE work[t].self = o /\ r.self = o
      BY <2>0, <2>2, OwnPlaced
    <2>3. CASE work[t].self = o /\ r.self # o
      BY <2>0, <2>3, EndPlaced
    <2>4. CASE work[t].self # o /\ r.self = o
      BY <2>0, <2>4, BeginPlaced
    <2> QED
      BY <2>1, <2>2, <2>3, <2>4
  <1> QED
    BY <1>2, <1>3 DEF PlaceInv

MovePc == {"place", "enroll", "withdraw", "free"}

\* A handler outside PutInSector and the end of disconnect() goes from one
\* record to the next, and moves nobody.
LEMMA StillStep ==
    ASSUME TypeOK, Ownership, PlaceInv, NEW t \in Thread, NEW r, Start(t, r), Alike(r),
           \A o \in Object : Stands(o), work[t].pc \notin MovePc, r.pc \notin MovePc,
           \/ r.self = work[t].self \/ r.self = None
           \/ work[t].self = None /\ ~Serving(r.self)
                /\ (r.self \in Object => state[r.self] # "FREE")
    PROVE  PlaceInv'
  <1>1. \A o \in Object : Settled(o)' <=> Settled(o)
    BY DEF Settled, Stands
  <1>2. \A o \in Object : Settled(o) /\ state[o] # "FREE" => Along(o, r)'
    BY <1>1 DEF Along, MovePc, Stands
  <1>3. \A o \in Object : work[t].self = o => Settled(o) /\ state[o] # "FREE"
    BY DEF PlaceInv, Placed, Along, MovePc
  <1>4. \A o \in Object : ~Serving(o) => Settled(o)
    BY DEF PlaceInv, Placed
  <1>5. None \notin Object
    BY NoneAssumption
  <1>6. \A o \in Object : work[t].self # o /\ r.self = o => ~Serving(o) /\ Along(o, r)'
    BY <1>2, <1>4, <1>5
  <1>7. \A o \in Object :
          work[t].self = o => IF r.self = o THEN Along(o, r)'
                              ELSE Settled(o)' /\ (o \in Npc => state'[o] # "FREE")
    BY <1>1, <1>2, <1>3 DEF Stands
  <1> QED
    BY <1>6, <1>7, PlaceStep

\* Only what the handler has to send, or what it has still to look at, changes.
LEMMA SameStep ==
    ASSUME TypeOK, PlaceInv, NEW t \in Thread, NEW r, Start(t, r),
           \A o \in Object : Stands(o), r.pc = work[t].pc, r.self = work[t].self,
           r.me = work[t].me, r.from = work[t].from, r.to = work[t].to
    PROVE  PlaceInv'
  <1>1. \A o \in Object : Settled(o)' <=> Settled(o)
    BY DEF Settled, Stands
  <1>2. \A o \in Object : Along(o, work[t]) => Along(o, r)'
    BY <1>1 DEF Along, Between, Stands
  <1>3. Alike(r)
    BY DEF PlaceInv, Alike
  <1>4. \A o \in Object : work[t].self = o => Along(o, work[t])
    BY DEF PlaceInv, Placed
  <1> QED
    BY <1>2, <1>3, <1>4, PlaceStep

\* Nobody moves, and no slot is issued or freed.
Unmoved == /\ UNCHANGED <<pos, sector, around, members>>
           /\ \A o \in Object : (state'[o] = "FREE") <=> (state[o] = "FREE")

LEMMA AllStand ==
    ASSUME Unmoved
    PROVE  \A o \in Object : Stands(o)
  BY DEF Unmoved, Stands, Listed

\* A packet, or a view list's change, moves nobody.
LEMMA DoPlaces ==
    ASSUME TypeOK, PlaceInv, NEW t \in Thread, Do(t)
    PROVE  PlaceInv'
  <1> DEFINE r == [work[t] EXCEPT !.ops = Tail(work[t].ops)]
  <1>1. Start(t, r) /\ Unmoved
    BY DEF Do, Unmoved, placeVars
  <1>2. /\ r.pc = work[t].pc /\ r.self = work[t].self /\ r.me = work[t].me
        /\ r.from = work[t].from /\ r.to = work[t].to
    BY DEF TypeOK, Handler
  <1> HIDE DEF r
  <1> QED
    BY <1>1, <1>2, AllStand, SameStep

\* Where PutInSector leaves an object that is in its sector already.
LEMMA PlaceEnds ==
    ASSUME TypeOK, Ownership, NEW t \in Thread, work[t].pc \in WalkPc
    PROVE  LET r == AfterPlace(t) IN
             /\ r.pc = IF t = Db THEN "ingame" ELSE "look"
             /\ r.self = work[t].self /\ r.me = work[t].me
             /\ r.left = work[t].left /\ r.seen = work[t].seen /\ Alike(r)
  <1>1. work[t] \in Handler /\ Owned(work[t])
    BY DEF TypeOK, Ownership
  <1>2. LET r == AfterPlace(t) IN
          /\ r.pc = IF t = Db THEN "ingame" ELSE "look"
          /\ r.self = work[t].self /\ r.me = work[t].me
          /\ r.left = work[t].left /\ r.seen = work[t].seen
    BY <1>1 DEF AfterPlace, Handler
  <1> QED
    BY <1>1, <1>2 DEF Owned, Alike

\* The handler whose object PutInSector moves, and that object.
LEMMA Mover ==
    ASSUME TypeOK, Ownership, PlaceInv, NEW t \in Thread,
           work[t].pc \in {"place", "enroll", "withdraw", "vanish", "free"}
    PROVE  /\ work[t].me \in Object /\ work[t].self = work[t].me
           /\ Along(work[t].me, work[t])
           /\ pos[work[t].me] \in Cell
           /\ work[t] \in Handler
  <1>1. work[t] \in Handler /\ Owned(work[t]) /\ Alike(work[t])
    BY DEF TypeOK, Ownership, PlaceInv
  <1>2. work[t].me \in Object /\ work[t].self = work[t].me
    BY <1>1 DEF Owned, Alike
  <1> QED
    BY <1>1, <1>2 DEF PlaceInv, Placed, TypeOK

\* PutInSector compares the new sector with the current one.
LEMMA PlacePlaces ==
    ASSUME TypeOK, Ownership, PlaceInv, NEW t \in Thread, Place(t)
    PROVE  PlaceInv'
  <1>o. PICK o : o = work[t].me
    OBVIOUS
  <1> DEFINE q == [work[t] EXCEPT !.pc = "enroll", !.from = sector[o],
                                  !.to = SectorOf(pos[o])]
  <1>0. work[t].pc = "place" /\ work[t].pc \in WalkPc
    BY DEF Place, WalkPc
  <1>1. /\ o = work[t].me /\ o \in Object /\ work[t].self = o /\ pos[o] \in Cell
        /\ state[o] # "FREE" /\ sector[o] \in Sector /\ Listed(o) = {sector[o]}
        /\ work[t] \in Handler
    BY <1>o, <1>0, Mover DEF Along
  <1>2. /\ sector'[o] = SectorOf(pos[o]) /\ around'[o] = Around(pos[o])
        /\ pos' = pos /\ state' = state /\ members' = members
        /\ \A i \in Object \ {o} : sector'[i] = sector[i] /\ around'[i] = around[i]
    BY <1>1 DEF Place, TypeOK
  <1>3. \A i \in Object \ {o} : Stands(i)
    BY <1>2 DEF Stands, Listed
  <1>4. SectorOf(pos[o]) \in Sector
    BY <1>1, SectorType
  <1>5. CASE sector[o] = SectorOf(pos[o])
    <2>1. Start(t, AfterPlace(t))
      BY <1>1, <1>5 DEF Place
    <2>2. PICK r : r = AfterPlace(t)
      OBVIOUS
    <2>3. /\ r.pc \in {"ingame", "look"} /\ r.self = o /\ Alike(r)
      BY <1>0, <1>1, <2>2, PlaceEnds
    <2>4. Listed(o)' = {sector'[o]}
      BY <1>1, <1>2, <1>5 DEF Listed
    <2>5. Along(o, r)'
      BY <1>1, <1>2, <2>3, <2>4 DEF Along, Settled
    <2> QED
      BY <1>1, <1>3, <2>1, <2>2, <2>3, <2>5, PlaceStep
  <1>6. CASE sector[o] # SectorOf(pos[o])
    <2>1. Start(t, q)
      BY <1>1, <1>6 DEF Place
    <2>2. q.pc = "enroll" /\ q.self = o /\ q.me = o /\ q.from = sector[o] /\ q.to = SectorOf(pos[o])
      BY <1>1 DEF Handler
    <2> HIDE DEF q
    <2>3. PICK r : r = q
      OBVIOUS
    <2>4. Listed(o)' = {r.from}
      BY <1>1, <1>2, <2>2, <2>3 DEF Listed
    <2>5. Between(o, r)'
      BY <1>1, <1>2, <1>4, <1>6, <2>2, <2>3 DEF Between
    <2>6. Along(o, r)'
      BY <1>1, <1>2, <2>2, <2>3, <2>4, <2>5 DEF Along
    <2>7. Alike(r)
      BY <1>1, <2>2, <2>3 DEF Alike
    <2> QED
      BY <1>1, <1>3, <2>1, <2>2, <2>3, <2>6, <2>7, PlaceStep
  <1> QED
    BY <1>5, <1>6

\* It goes into the new sector.
LEMMA EnrollPlaces ==
    ASSUME TypeOK, Ownership, PlaceInv, NEW t \in Thread, Enroll(t)
    PROVE  PlaceInv'
  <1>o. PICK o : o = work[t].me
    OBVIOUS
  <1> DEFINE q == [work[t] EXCEPT !.pc = "withdraw"]
  <1>0. work[t].pc = "enroll"
    BY DEF Enroll
  <1>1. /\ o = work[t].me /\ o \in Object /\ work[t].self = o /\ state[o] # "FREE"
        /\ Between(o, work[t]) /\ Listed(o) = {work[t].from}
        /\ work[t] \in Handler
    BY <1>o, <1>0, Mover DEF Along
  <1>2. /\ work[t].to \in Sector /\ work[t].from \in Sector /\ None \notin Sector
        /\ work[t].from # work[t].to
    <2>1. SectorOf(pos[o]) \in Sector
      BY <1>o, <1>0, Mover, SectorType
    <2> QED
      BY <1>1, <2>1, NoneAssumption DEF Between
  <1>3. /\ members' = [members EXCEPT ![work[t].to] = @ \union {o}]
        /\ pos' = pos /\ state' = state /\ sector' = sector /\ around' = around
        /\ Start(t, q)
    BY <1>1, <1>2 DEF Enroll
  <1>4. /\ \A i \in Object \ {o} : Listed(i)' = Listed(i)
        /\ Listed(o)' = Listed(o) \union {work[t].to}
    BY <1>2, <1>3 DEF Listed, TypeOK
  <1>5. \A i \in Object \ {o} : Stands(i)
    BY <1>3, <1>4 DEF Stands
  <1>6. q.pc = "withdraw" /\ q.self = o /\ q.me = o /\ q.from = work[t].from /\ q.to = work[t].to
    BY <1>1 DEF Handler
  <1> HIDE DEF q
  <1>7. PICK r : r = q
    OBVIOUS
  <1>8. Listed(o)' = {r.from, r.to}
    BY <1>1, <1>4, <1>6, <1>7
  <1>9. Between(o, r)'
    BY <1>1, <1>3, <1>6, <1>7 DEF Between
  <1>10. Along(o, r)'
    BY <1>1, <1>3, <1>6, <1>7, <1>8, <1>9 DEF Along
  <1>11. Alike(r)
    BY <1>6, <1>7 DEF Alike
  <1> QED
    BY <1>1, <1>3, <1>5, <1>6, <1>7, <1>10, <1>11, PlaceStep

\* It leaves the old one.
LEMMA WithdrawPlaces ==
    ASSUME TypeOK, Ownership, PlaceInv, NEW t \in Thread, Withdraw(t)
    PROVE  PlaceInv'
  <1>o. PICK o : o = work[t].me
    OBVIOUS
  <1>0. work[t].pc = "withdraw" /\ work[t].pc \in WalkPc
    BY DEF Withdraw, WalkPc
  <1>1. /\ o = work[t].me /\ o \in Object /\ work[t].self = o /\ state[o] # "FREE"
        /\ Between(o, work[t]) /\ Listed(o) = {work[t].from, work[t].to}
        /\ work[t] \in Handler
    BY <1>o, <1>0, Mover DEF Along
  <1>2. work[t].from \in Sector /\ work[t].from # work[t].to
    BY <1>1 DEF Between
  <1>3. /\ members' = [members EXCEPT ![work[t].from] = @ \ {o}]
        /\ pos' = pos /\ state' = state /\ sector' = sector /\ around' = around
        /\ Start(t, AfterPlace(t))
    BY <1>1 DEF Withdraw
  <1>4. /\ \A i \in Object \ {o} : Listed(i)' = Listed(i)
        /\ Listed(o)' = Listed(o) \ {work[t].from}
    BY <1>2, <1>3 DEF Listed, TypeOK
  <1>5. \A i \in Object \ {o} : Stands(i)
    BY <1>3, <1>4 DEF Stands
  <1>6. PICK r : r = AfterPlace(t)
    OBVIOUS
  <1>7. r.pc \in {"ingame", "look"} /\ r.self = o /\ Alike(r)
    BY <1>0, <1>1, <1>6, PlaceEnds
  <1>8. Listed(o)' = {sector'[o]}
    BY <1>1, <1>2, <1>3, <1>4 DEF Between
  <1>9. Settled(o)'
    BY <1>1, <1>3, <1>8 DEF Settled, Between
  <1>10. Along(o, r)'
    BY <1>1, <1>3, <1>7, <1>9 DEF Along
  <1> QED
    BY <1>1, <1>3, <1>5, <1>6, <1>7, <1>10, PlaceStep

\* disconnect() takes the id out of its sector.
LEMMA VanishPlaces ==
    ASSUME TypeOK, Ownership, PlaceInv, NEW t \in Thread, Vanish(t)
    PROVE  PlaceInv'
  <1>o. PICK o : o = work[t].me
    OBVIOUS
  <1> DEFINE q == [work[t] EXCEPT !.pc = "free"]
  <1>0. work[t].pc = "vanish"
    BY DEF Vanish
  <1>1. /\ o = work[t].me /\ o \in Object /\ work[t].self = o /\ state[o] # "FREE" /\ Settled(o)
        /\ work[t] \in Handler /\ pos[o] \in Cell
    BY <1>o, <1>0, Mover DEF Along
  <1>2. sector[o] \in Sector /\ None \notin Sector /\ Listed(o) = {sector[o]}
    BY <1>1, SectorType, NoneAssumption DEF Settled
  <1>3. /\ members' = [members EXCEPT ![sector[o]] = @ \ {o}]
        /\ sector' = [sector EXCEPT ![o] = None]
        /\ around' = [around EXCEPT ![o] = {}]
        /\ pos' = pos /\ state' = state /\ Start(t, q)
    BY <1>1, <1>2 DEF Vanish, Goto
  <1>4. /\ \A i \in Object \ {o} : Listed(i)' = Listed(i)
        /\ Listed(o)' = Listed(o) \ {sector[o]}
    BY <1>2, <1>3 DEF Listed, TypeOK
  <1>5. /\ \A i \in Object \ {o} : sector'[i] = sector[i] /\ around'[i] = around[i]
        /\ sector'[o] = None
    BY <1>1, <1>3 DEF TypeOK
  <1>6. \A i \in Object \ {o} : Stands(i)
    BY <1>3, <1>4, <1>5 DEF Stands
  <1>7. q.pc = "free" /\ q.self = o /\ q.me = o
    BY <1>1 DEF Handler
  <1> HIDE DEF q
  <1>8. PICK r : r = q
    OBVIOUS
  <1>9. Along(o, r)'
    BY <1>1, <1>2, <1>3, <1>4, <1>5, <1>7, <1>8 DEF Along
  <1>10. Alike(r)
    BY <1>7, <1>8 DEF Alike
  <1> QED
    BY <1>1, <1>3, <1>6, <1>7, <1>8, <1>9, <1>10, PlaceStep

\* The slot is free again.
LEMMA FreePlaces ==
    ASSUME TypeOK, Ownership, PlaceInv, NEW t \in Thread, Free(t)
    PROVE  PlaceInv'
  <1>o. PICK o : o = work[t].me
    OBVIOUS
  <1>0. work[t].pc = "free"
    BY DEF Free
  <1>1. /\ o = work[t].me /\ o \in Object /\ work[t].self = o /\ sector[o] = None /\ Listed(o) = {}
    BY <1>o, <1>0, Mover DEF Along
  <1>n. o \notin Npc
    BY <1>0, <1>1 DEF Ownership, Owned, WalkPc, NpcPc
  <1>2. /\ state'[o] = "FREE" /\ \A i \in Object \ {o} : state'[i] = state[i]
        /\ pos' = pos /\ sector' = sector /\ around' = around /\ members' = members
    BY <1>1 DEF Free, TypeOK
  <1>3. \A i \in Object \ {o} : Stands(i)
    BY <1>2 DEF Stands, Listed
  <1>4. Settled(o)'
    BY <1>1, <1>2 DEF Settled, Listed
  <1>5. Start(t, Idle) /\ Idle.self = None /\ None \notin Object /\ Alike(Idle)
    BY NoneAssumption DEF Free, Finish, Idle, Alike
  <1>6. PICK r : r = Idle
    OBVIOUS
  <1> QED
    BY <1>1, <1>n, <1>3, <1>4, <1>5, <1>6, PlaceStep

\* A handler goes on without moving anybody.
LEMMA GoesOn ==
    ASSUME TypeOK, Ownership, PlaceInv, Unmoved, NEW t \in Thread, NEW r, Start(t, r),
           work[t].pc \notin MovePc, r.pc \notin MovePc,
           r.self = work[t].self, r.me = work[t].me, (r.pc = "bury") <=> (work[t].pc = "bury")
    PROVE  PlaceInv'
  <1>1. Alike(r)
    BY DEF PlaceInv, Alike
  <1> QED
    BY <1>1, AllStand, StillStep

\* A handler ends where it does not leave an object out of place.
LEMMA EndsStill ==
    ASSUME TypeOK, Ownership, PlaceInv, Unmoved, NEW t \in Thread, Finish(t),
           work[t].pc \notin MovePc
    PROVE  PlaceInv'
  <1>1. Start(t, Idle) /\ Idle.self = None /\ Idle.pc \notin MovePc /\ Alike(Idle)
    BY DEF Finish, Idle, MovePc, Alike
  <1>2. PICK r : r = Idle
    OBVIOUS
  <1> QED
    BY <1>1, <1>2, AllStand, StillStep

\* An NPC's handler goes on, and may begin a step of its own.
LEMMA LookingPlaces ==
    ASSUME TypeOK, Ownership, PlaceInv, NEW t \in Thread,
           Looking(t) \/ (DiffEnd(t) /\ work[t].me \in Npc)
    PROVE  PlaceInv'
  <1>1. PICK n \in Npc : /\ n \in Object /\ work[t].self = n /\ work[t].me = n
                         /\ work[t].pc \in NpcPc \union {"diff"}
    BY DEF Ownership, Owned, Looking, Seek, SeekEnd, Decide, DiffEnd, WalkPc, NpcPc, Object
  <1>2. PICK r \in Handler : /\ Start(t, r) /\ r.self = n /\ r.me = n
                             /\ r.pc \in NpcPc \union {"place"}
                             /\ \A o \in Object \ {n} : pos'[o] = pos[o]
                             /\ r.pc # "place" => pos' = pos
    BY <1>1, NpcGoes DEF Goes
  <1>3. UNCHANGED <<state, sector, around, members>>
    BY <1>1, NpcKeeps
  <1>4. Settled(n) /\ state[n] # "FREE"
    BY <1>1 DEF PlaceInv, Placed, Along, NpcPc
  <1>5. SectorOf(pos[n]) \in Sector
    BY <1>1, SectorType DEF TypeOK
  <1>6. Alike(r)
    BY <1>2 DEF Alike, NpcPc
  <1>7. \A o \in Object \ {n} : Stands(o)
    BY <1>2, <1>3 DEF Stands, Listed
  <1>8. Along(n, r)'
    <2>1. CASE r.pc = "place"
      BY <1>3, <1>4, <1>5, <2>1 DEF Along, Settled, Listed
    <2>2. CASE r.pc # "place"
      BY <1>2, <1>3, <1>4, <2>2 DEF Along, Settled, Listed, NpcPc
    <2> QED
      BY <2>1, <2>2
  <1> QED
    BY <1>1, <1>2, <1>6, <1>7, <1>8, PlaceStep

\* The view diff moves nobody.
LEMMA DiffPlaces ==
    ASSUME TypeOK, Ownership, PlaceInv, NEW t \in Thread,
           Look(t) \/ Scan(t) \/ Diff(t) \/ DiffEnd(t)
    PROVE  PlaceInv'
  <1> USE DEF MovePc
  <1>0. work[t] \in Handler
    BY DEF TypeOK
  <1>1. Unmoved
    BY DEF Look, Scan, Diff, DiffEnd, Unmoved, placeVars
  <1>2. CASE Look(t)
    <2> DEFINE q(S, L) == [work[t] EXCEPT !.pc = "scan", !.left = L, !.prev = S]
    <2>1. work[t].pc = "look" /\ \E S, L : Start(t, q(S, L))
      BY <1>2 DEF Look
    <2>2. PICK S, L : Start(t, q(S, L))
      BY <2>1
    <2>3. q(S, L).pc = "scan" /\ q(S, L).self = work[t].self /\ q(S, L).me = work[t].me
      BY <1>0 DEF Handler
    <2> HIDE DEF q
    <2> QED
      BY <1>1, <2>1, <2>2, <2>3, GoesOn
  <1>3. CASE Scan(t) /\ work[t].left = {}
    <2> DEFINE q == [work[t] EXCEPT !.pc = "diff"]
    <2>1. work[t].pc = "scan" /\ Start(t, q)
      BY <1>3 DEF Scan, Goto
    <2>2. q.pc = "diff" /\ q.self = work[t].self /\ q.me = work[t].me
      BY <1>0 DEF Handler
    <2> HIDE DEF q
    <2> QED
      BY <1>1, <2>1, <2>2, GoesOn
  <1>4. CASE Scan(t) /\ work[t].left # {}
    <2> DEFINE q(S, L) == [work[t] EXCEPT !.left = L, !.seen = S]
    <2>1. work[t].pc = "scan" /\ \E S, L : Start(t, q(S, L))
      BY <1>4 DEF Scan
    <2>2. PICK S, L : Start(t, q(S, L))
      BY <2>1
    <2>3. /\ q(S, L).pc = work[t].pc /\ q(S, L).self = work[t].self
          /\ q(S, L).me = work[t].me
      BY <1>0 DEF Handler
    <2> HIDE DEF q
    <2> QED
      BY <1>1, <2>1, <2>2, <2>3, GoesOn
  <1>5. CASE Diff(t)
    <2> DEFINE q(S, m) == [work[t] EXCEPT !.prev = S, !.ops = m]
    <2>1. work[t].pc = "diff" /\ \E S, m : Start(t, q(S, m))
      BY <1>5 DEF Diff
    <2>2. PICK S, m : Start(t, q(S, m))
      BY <2>1
    <2>3. /\ q(S, m).pc = work[t].pc /\ q(S, m).self = work[t].self
          /\ q(S, m).me = work[t].me
      BY <1>0 DEF Handler
    <2> HIDE DEF q
    <2> QED
      BY <1>1, <2>1, <2>2, <2>3, GoesOn
  <1>6. CASE DiffEnd(t)
    <2>1. work[t].pc = "diff"
      BY <1>6 DEF DiffEnd
    <2>2. CASE work[t].me \in Player
      BY <1>1, <1>6, <2>1, <2>2, EndsStill DEF DiffEnd
    <2>3. CASE work[t].me \notin Player
      <3>1. work[t].me \in Npc
        BY <1>6, <2>3 DEF DiffEnd, Ownership, Owned, Object
      <3> QED
        BY <1>6, <3>1, LookingPlaces
    <2> QED
      BY <2>2, <2>3
  <1> QED
    BY <1>2, <1>3, <1>4, <1>5, <1>6

\* The rest of disconnect(), and the end of an attack, move nobody.
LEMMA LeavePlaces ==
    ASSUME TypeOK, Ownership, PlaceInv, NEW t \in Thread,
           LeaveScan(t) \/ LeaveTell(t) \/ Bury(t)
    PROVE  PlaceInv'
  <1> USE DEF MovePc
  <1>0. work[t] \in Handler
    BY DEF TypeOK
  <1>1. Unmoved
    BY DEF LeaveScan, LeaveTell, Bury, Unmoved, placeVars
  <1>p. work[t].pc \in {"leave", "bury"}
    BY DEF LeaveScan, LeaveTell, Bury
  <1> DEFINE q(S, L, m) == [work[t] EXCEPT !.seen = S, !.ops = m]
             v(S, L) == [work[t] EXCEPT !.left = L, !.seen = S]
             g == [work[t] EXCEPT !.pc = "vanish"]
  <1>2. \/ Bury(t) /\ Finish(t)
        \/ \E S, L, m : Start(t, q(S, L, m))
        \/ \E S, L : Start(t, v(S, L))
        \/ work[t].pc = "leave" /\ Start(t, g)
    <2>1. Bury(t) => Finish(t) \/ \E S, L, m : Start(t, q(S, L, m))
      BY DEF Bury
    <2>2. LeaveTell(t) => \E S, L, m : Start(t, q(S, L, m))
      BY DEF LeaveTell
    <2>3. LeaveScan(t) => (\E S, L : Start(t, v(S, L))) \/ (work[t].pc = "leave" /\ Start(t, g))
      BY DEF LeaveScan, Goto
    <2> HIDE DEF q, v, g
    <2> QED
      BY <2>1, <2>2, <2>3
  <1>3. \A S, L, m : /\ q(S, L, m).pc = work[t].pc /\ q(S, L, m).self = work[t].self
                     /\ q(S, L, m).me = work[t].me
    BY <1>0 DEF Handler
  <1>4. \A S, L : /\ v(S, L).pc = work[t].pc /\ v(S, L).self = work[t].self
                  /\ v(S, L).me = work[t].me
    BY <1>0 DEF Handler
  <1>5. g.pc = "vanish" /\ g.self = work[t].self /\ g.me = work[t].me
    BY <1>0 DEF Handler
  <1> HIDE DEF q, v, g
  <1>6. CASE Finish(t)
    BY <1>1, <1>6, <1>p, EndsStill
  <1>7. ASSUME NEW r, Start(t, r), r.pc = work[t].pc, r.self = work[t].self, r.me = work[t].me
        PROVE  PlaceInv'
    BY <1>1, <1>7, <1>p, GoesOn
  <1>8. (\E S, L, m : Start(t, q(S, L, m))) \/ (\E S, L : Start(t, v(S, L))) => PlaceInv'
    BY <1>3, <1>4, <1>7
  <1>9. CASE work[t].pc = "leave" /\ Start(t, g)
    BY <1>1, <1>5, <1>9, GoesOn
  <1> QED
    BY <1>2, <1>6, <1>7, <1>8, <1>9

\* The rest of EnterGame moves nobody.
LEMMA EnterPlaces ==
    ASSUME TypeOK, Ownership, PlaceInv, EnterStep
    PROVE  PlaceInv'
  <1> USE DEF MovePc
  <1>0. Db \in Thread /\ work[Db] \in Handler
    BY DEF TypeOK, Thread
  <1>p. work[Db].pc \in {"ingame", "enter"}
    BY DEF EnterStep, EnterIngame, EnterLock, EnterMeet
  <1>1. Unmoved
    <2>1. CASE EnterIngame
      <3>1. work[Db].me \in Object /\ work[Db].self = work[Db].me
        <4>1. Owned(work[Db]) /\ Alike(work[Db])
          BY <1>0 DEF Ownership, PlaceInv
        <4> QED
          BY <1>p, <4>1 DEF Owned, Alike
      <3>2. state[work[Db].me] # "FREE"
        BY <1>0, <3>1 DEF PlaceInv, Placed, Along
      <3> QED
        BY <2>1, <3>1, <3>2 DEF EnterIngame, Unmoved, TypeOK
    <2>2. CASE EnterLock \/ EnterMeet
      BY <2>2 DEF EnterLock, EnterMeet, Unmoved, placeVars
    <2> QED
      BY <2>1, <2>2 DEF EnterStep
  <1> DEFINE g(L) == [work[Db] EXCEPT !.pc = "enter", !.left = L]
             q(s, L, S) == [work[Db] EXCEPT !.to = s, !.left = L, !.seen = S]
             w(S) == [work[Db] EXCEPT !.seen = S]
             v(S, m) == [work[Db] EXCEPT !.seen = S, !.ops = m]
  <1>2. \/ \E L : Start(Db, g(L))
        \/ Finish(Db)
        \/ \E s, L, S : Start(Db, q(s, L, S))
        \/ \E S : Start(Db, w(S))
        \/ \E S, m : Start(Db, v(S, m))
    <2>1. EnterIngame => \E L : Start(Db, g(L))
      BY DEF EnterIngame
    <2>2. ASSUME EnterLock
          PROVE  Finish(Db) \/ \E s, L, S : Start(Db, q(s, L, S))
      <3>1. CASE work[Db].left = {}
        BY <2>2, <3>1 DEF EnterLock
      <3>2. CASE work[Db].left # {}
        <4>1. PICK s \in work[Db].left : Start(Db, q(s, work[Db].left \ {s}, members[s]))
          BY <2>2, <3>2 DEF EnterLock
        <4> HIDE DEF q
        <4> QED
          BY <4>1
      <3> QED
        BY <3>1, <3>2
    <2>3. EnterMeet => (\E S : Start(Db, w(S))) \/ \E S, m : Start(Db, v(S, m))
      BY DEF EnterMeet
    <2> HIDE DEF g, q, w, v
    <2> QED
      BY <2>1, <2>2, <2>3 DEF EnterStep
  <1>3. \A L, S, s, m :
          /\ g(L).pc = "enter" /\ g(L).self = work[Db].self /\ g(L).me = work[Db].me
          /\ q(s, L, S).pc = work[Db].pc /\ q(s, L, S).self = work[Db].self
          /\ q(s, L, S).me = work[Db].me
          /\ w(S).pc = work[Db].pc /\ w(S).self = work[Db].self /\ w(S).me = work[Db].me
          /\ v(S, m).pc = work[Db].pc /\ v(S, m).self = work[Db].self
          /\ v(S, m).me = work[Db].me
    BY <1>0 DEF Handler
  <1> HIDE DEF g, q, w, v
  <1>4. ASSUME NEW r, Start(Db, r), r.pc \in {"ingame", "enter"},
               r.self = work[Db].self, r.me = work[Db].me
        PROVE  PlaceInv'
    BY <1>0, <1>1, <1>4, <1>p, GoesOn
  <1>5. CASE Finish(Db)
    BY <1>0, <1>1, <1>5, <1>p, EndsStill
  <1> QED
    BY <1>2, <1>3, <1>4, <1>5, <1>p

\* The end of an NPC's turn moves nobody, but for the step of a chase.
LEMMA EndTurnPlaces ==
    ASSUME TypeOK, Ownership, PlaceInv, NEW t \in Thread, EndTurn(t)
    PROVE  PlaceInv'
  <1>1. CASE Looking(t)
    BY <1>1, LookingPlaces
  <1>2. CASE Schedule(t) \/ Sleep(t)
    <2>1. Unmoved
      BY <1>2 DEF Schedule, Sleep, Unmoved, placeVars
    <2>2. work[t].pc \notin MovePc
      BY <1>2 DEF Schedule, Sleep, MovePc
    <2> QED
      BY <1>2, <2>1, <2>2, EndsStill DEF Schedule, Sleep
  <1> QED
    BY <1>1, <1>2 DEF EndTurn, Looking

\* An object's handler begins on an idle thread, and the object has moved at
\* most to another cell.
LEMMA BeginStep ==
    ASSUME TypeOK, Ownership, PlaceInv, NEW t \in Thread, NEW r, Start(t, r),
           NEW o \in Object, r.self = o, Alike(r), r.pc \notin {"enroll", "withdraw", "free"},
           work[t].pc = "idle", ~Serving(o), state[o] # "FREE",
           UNCHANGED <<sector, around, members>>,
           \A i \in Object : (state'[i] = "FREE") <=> (state[i] = "FREE"),
           \A i \in Object \ {o} : pos'[i] = pos[i],
           r.pc = "place" \/ pos'[o] = pos[o]
    PROVE  PlaceInv'
  <1>1. work[t].self = None /\ None \notin Object
    BY NoneAssumption DEF Ownership, Owned, Idle
  <1>2. \A i \in Object \ {o} : Stands(i)
    BY DEF Stands, Listed
  <1>3. Settled(o)
    BY DEF PlaceInv, Placed
  <1>4. pos[o] \in Cell
    BY DEF TypeOK
  <1>5. SectorOf(pos[o]) \in Sector
    BY <1>4, SectorType
  <1>6. Along(o, r)'
    <2>1. CASE r.pc = "place"
      BY <1>3, <1>5, <2>1 DEF Along, Settled, Listed
    <2>2. CASE r.pc # "place"
      BY <1>3, <2>2 DEF Along, Settled, Listed
    <2> QED
      BY <2>1, <2>2
  <1> QED
    BY <1>1, <1>2, <1>6, PlaceStep

\* A command of a player whose handlers do not overlap.
LEMMA CommandPlaces ==
    ASSUME TypeOK, Ownership, PlaceInv, NEW t \in Worker, NEW p \in Player, Command(t, p)
    PROVE  PlaceInv'
  <1>c. CalmSelf /\ ~MayTeleport
    BY DEF PlaceInv, Calm
  <1>0. t \in Thread /\ p \in Object
    BY DEF Thread, Object
  <1>1. CASE Move(t, p)
    <2> DEFINE q == [Idle EXCEPT !.pc = "place", !.self = p, !.me = p]
    <2>1. Start(t, q) /\ work[t].pc = "idle" /\ ~Serving(p) /\ state[p] # "FREE"
      BY <1>c, <1>1 DEF Move, Commands, MayStart
    <2>2. q.pc = "place" /\ q.self = p /\ Alike(q)
      BY DEF Idle, Alike
    <2>3. /\ UNCHANGED <<sector, around, members, state>>
          /\ \A i \in Object \ {p} : pos'[i] = pos[i]
      BY <1>1 DEF Move, TypeOK
    <2> HIDE DEF q
    <2> QED
      BY <1>0, <2>1, <2>2, <2>3, BeginStep
  <1>2. CASE Leave(t, p)
    <2> DEFINE q == [Idle EXCEPT !.pc = "leave", !.self = p, !.me = p, !.left = around[p]]
    <2>1. Start(t, q) /\ work[t].pc = "idle" /\ ~Serving(p) /\ state[p] # "FREE"
      BY <1>c, <1>2 DEF Leave, MayStart
    <2>2. q.pc = "leave" /\ q.self = p /\ Alike(q)
      BY DEF Idle, Alike
    <2>3. UNCHANGED <<sector, around, members, state, pos>>
      BY <1>2 DEF Leave, placeVars
    <2> HIDE DEF q
    <2> QED
      BY <1>0, <2>1, <2>2, <2>3, BeginStep
  <1>3. ASSUME NEW n \in Npc, Kill(t, p, n) PROVE PlaceInv'
    <2> DEFINE q == [Idle EXCEPT !.pc = "bury", !.self = p, !.me = n, !.seen = view[n]]
    <2>1. Start(t, q) /\ work[t].pc = "idle" /\ ~Serving(p) /\ state[p] # "FREE"
      BY <1>c, <1>3 DEF Kill, Commands, MayStart
    <2>2. q.pc = "bury" /\ q.self = p /\ Alike(q)
      BY DEF Idle, Alike
    <2>3. /\ UNCHANGED <<sector, around, members, pos>>
          /\ \A i \in Object : (state'[i] = "FREE") <=> (state[i] = "FREE")
      BY <1>3 DEF Kill, TypeOK
    <2> HIDE DEF q
    <2> QED
      BY <1>0, <2>1, <2>2, <2>3, BeginStep
  <1> QED
    BY <1>c, <1>1, <1>2, <1>3 DEF Command, Teleport

\* DBLogin begins while the player has no other handler.
LEMMA EnteringPlaces ==
    ASSUME TypeOK, Ownership, PlaceInv, NEW p \in Player, NEW x \in Cell, Enter(p, x)
    PROVE  PlaceInv'
  <1> DEFINE q == [Idle EXCEPT !.pc = "place", !.self = p, !.me = p]
  <1>0. Db \in Thread /\ p \in Object
    BY DEF Thread, Object
  <1>1. Start(Db, q) /\ work[Db].pc = "idle" /\ ~Serving(p) /\ state[p] # "FREE"
    BY DEF Enter, MayStart, PlaceInv, Calm
  <1>2. q.pc = "place" /\ q.self = p /\ Alike(q)
    BY DEF Idle, Alike
  <1>3. /\ UNCHANGED <<sector, around, members, state>>
        /\ \A i \in Object \ {p} : pos'[i] = pos[i]
    BY DEF Enter, TypeOK
  <1> HIDE DEF q
  <1> QED
    BY <1>0, <1>1, <1>2, <1>3, BeginStep

\* The origin is a cell of the first sector.
LEMMA OriginType == 0 \in Cell /\ SectorOf(0) = 0 /\ 0 \in Sector
  BY MapAssumption DEF Cell, SectorOf, Sector

\* A slot that is issued stands at the origin, and in its sector alone.
LEMMA ConnectPlaces ==
    ASSUME TypeOK, PlaceInv, NEW p \in Player, Connect(p)
    PROVE  PlaceInv'
  <1>0. p \in Object /\ None \notin Sector /\ 0 \in Sector /\ None # 0
    BY NoneAssumption, OriginType DEF Object
  <1>1. sector[p] = None /\ Listed(p) = {} /\ ~Serving(p)
    BY <1>0 DEF Connect, PlaceInv, Placed, Settled
  <1>2. members' = [s \in Sector |-> CASE s = 0 -> members[s] \union {p}
                                      [] s = sector[p] -> members[s] \ {p}
                                      [] OTHER -> members[s]]
    BY <1>0, <1>1 DEF Connect
  <1>3. \A s \in Sector : members'[s] = IF s = 0 THEN members[s] \union {p} ELSE members[s]
    <2> SUFFICES ASSUME NEW s \in Sector
                 PROVE  members'[s] = IF s = 0 THEN members[s] \union {p} ELSE members[s]
      OBVIOUS
    <2>1. s # sector[p]
      BY <1>0, <1>1
    <2>2. CASE s = 0
      BY <1>2, <2>1, <2>2
    <2>3. CASE s # 0
      BY <1>2, <2>1, <2>3
    <2> QED
      BY <2>2, <2>3
  <1>4. Listed(p)' = {0} /\ \A i \in Object \ {p} : Listed(i)' = Listed(i)
    BY <1>0, <1>1, <1>3 DEF Listed
  <1>5. /\ state'[p] = "ACTIVE" /\ pos'[p] = 0 /\ sector'[p] = 0 /\ around'[p] = Around(0)
        /\ \A i \in Object \ {p} : /\ state'[i] = state[i] /\ pos'[i] = pos[i]
                                   /\ sector'[i] = sector[i] /\ around'[i] = around[i]
        /\ work' = work
    BY <1>0 DEF Connect, TypeOK
  <1>6. Settled(p)'
    BY <1>4, <1>5, OriginType DEF Settled
  <1>7. \A i \in Object \ {p} : Stands(i)
    BY <1>4, <1>5 DEF Stands
  <1>8. \A i \in Object \ {p} : Settled(i)' <=> Settled(i)
    BY <1>7 DEF Settled, Stands
  <1>9. \A i \in Object \ {p} : \A q : Along(i, q)' <=> Along(i, q)
    BY <1>7, <1>8 DEF Along, Between, Stands
  <1>10. \A i \in Object \ {p} : Placed(i)'
    BY <1>5, <1>8, <1>9 DEF PlaceInv, Placed, Serving
  <1>11. Placed(p)'
    BY <1>0, <1>1, <1>5, <1>6 DEF Placed, Serving
  <1>12. \A t \in Thread : Alike(work'[t])
    BY <1>5 DEF PlaceInv
  <1> QED
    BY <1>10, <1>11, <1>12 DEF PlaceInv, Alike

\* A worker takes an NPC's turn, which nobody else has.
LEMMA ActPlaces ==
    ASSUME TypeOK, Ownership, OneToken, PlaceInv,
           NEW t \in Worker, NEW n \in Npc, Act(t, n)
    PROVE  PlaceInv'
  <1>0. t \in Thread /\ n \in Object
    BY DEF Thread, Object
  <1>1. /\ work[t].pc = "idle" /\ posted[n] > 0
        /\ UNCHANGED <<state, sector, around, members>>
    BY <1>0, NpcKeeps DEF Act, ActAgro, ActAgroSeek, ActPeace, Take, MayStart
  <1>2. ~Serving(n)
    <2>1. timer[n] + posted[n] = 1
      <3>1. timer[n] \in Nat /\ posted[n] \in Nat
        BY DEF TypeOK
      <3>2. timer[n] + posted[n] <= 1
        BY DEF OneToken
      <3> QED
        BY <1>1, <3>1, <3>2
    <2> QED
      BY <2>1 DEF OneToken, Acting, Serving
  <1>3. state[n] # "FREE"
    BY <1>0 DEF PlaceInv, Placed
  <1>4. PICK r \in Handler : /\ Start(t, r) /\ r.self = n /\ r.me = n
                             /\ r.pc \in NpcPc \union {"place"}
                             /\ \A o \in Object \ {n} : pos'[o] = pos[o]
                             /\ r.pc # "place" => pos' = pos
    BY <1>0, NpcGoes DEF Goes
  <1>5. Alike(r) /\ r.pc \notin {"enroll", "withdraw", "free"}
    BY <1>4 DEF Alike, NpcPc
  <1> QED
    BY <1>0, <1>1, <1>2, <1>3, <1>4, <1>5, BeginStep

----------------------------------------------------------------------------
\* The lists hold the NPCs, and nobody else, when the server has started.
LEMMA InitPlaces == Calm /\ Init => PlaceInv
  <1> SUFFICES ASSUME Calm, Init PROVE PlaceInv
    OBVIOUS
  <1>1. /\ pos \in [Object -> Cell] /\ None \notin Object
        /\ \A n \in Npc : n \in Object
    BY NoneAssumption DEF Init, Object
  <1>2. \A o \in Object : SectorOf(pos[o]) \in Sector
    BY <1>1, SectorType
  <1>3. \A t \in Thread : work[t] = Idle /\ work[t].self = None /\ Alike(work[t])
    BY DEF Init, Idle, Alike
  <1>4. \A o \in Object : o \notin Npc => Listed(o) = {}
    BY DEF Init, Listed
  <1>5. \A o \in Npc : Listed(o) = {SectorOf(pos[o])}
    BY <1>1, <1>2 DEF Init, Listed
  <1>6. \A o \in Object : Settled(o)
    BY <1>1, <1>4, <1>5 DEF Settled, Init
  <1>7. \A o \in Npc : state[o] # "FREE"
    BY <1>1 DEF Init
  <1> QED
    BY <1>1, <1>3, <1>6, <1>7 DEF PlaceInv, Placed

\* One step of a world whose players' handlers do not overlap, and where
\* nobody teleports, keeps everybody placed.
LEMMA NextPlaces == IInv /\ PlaceInv /\ [Next]_vars => PlaceInv'
  <1> SUFFICES ASSUME TypeOK, Ownership, OneToken, PlaceInv, [Next]_vars
               PROVE  PlaceInv'
    BY DEF IInv
  <1>1. ASSUME NEW t \in Thread, Continue(t) PROVE PlaceInv'
    <2>1. CASE Walk(t)
      BY <2>1, PlacePlaces, EnrollPlaces, WithdrawPlaces, DiffPlaces DEF Walk
    <2>2. CASE Depart(t) \/ Bury(t)
      BY <2>2, LeavePlaces, VanishPlaces, FreePlaces DEF Depart
    <2> QED
      BY <1>1, <2>1, <2>2, DoPlaces, EndTurnPlaces DEF Continue
  <1>2. CASE EnterStep
    BY <1>2, EnterPlaces
  <1>3. ASSUME NEW p \in Player, Connect(p) \/ \E x \in Cell : Enter(p, x) PROVE PlaceInv'
    BY <1>3, ConnectPlaces, EnteringPlaces
  <1>4. ASSUME NEW t \in Worker, NEW p \in Player, Command(t, p) PROVE PlaceInv'
    BY <1>4, CommandPlaces
  <1>5. ASSUME NEW t \in Worker, NEW n \in Npc, Act(t, n) PROVE PlaceInv'
    BY <1>5, ActPlaces
  <1>6. CASE UNCHANGED <<placeVars, work>>
    BY <1>6 DEF placeVars, PlaceInv, Placed, Alike, Along, Between, Settled, Listed, Serving
  <1>7. ASSUME NEW n \in Npc, Fire(n) PROVE PlaceInv'
    BY <1>6, <1>7 DEF Fire
  <1>8. CASE UNCHANGED vars
    BY <1>6, <1>8 DEF vars
  <1> QED
    BY <1>1, <1>2, <1>3, <1>4, <1>5, <1>7, <1>8 DEF Next

\* Everybody is always placed.
LEMMA PlaceInvariance == Calm /\ Spec => []PlaceInv
  <1>1. Calm /\ Init => PlaceInv
    BY InitPlaces
  <1>2. IInv /\ PlaceInv /\ [Next]_vars => PlaceInv'
    BY NextPlaces
  <1> QED
    BY <1>1, <1>2, Invariance, PTL DEF Spec

----------------------------------------------------------------------------
(* The geometry of the sectors.                                            *)

\* Multiplication by a positive number is monotonic.
LEMMA Larger ==
    ASSUME NEW a \in Nat, NEW b \in Nat, NEW k \in Nat, a < b
    PROVE  k * a + k <= k * b
  <1>1. PICK d \in Nat : b = a + 1 + d
    <2>1. b - a - 1 \in Nat /\ b = a + 1 + (b - a - 1)
      OBVIOUS
    <2> QED
      BY <2>1
  <1>2. k * d \in Nat
    OBVIOUS
  <1>3. k * b = k * a + k + k * d
    BY <1>1
  <1>4. k * a \in Nat
    OBVIOUS
  <1> QED
    BY <1>2, <1>3, <1>4

\* The sector of a cell, by its bounds.
LEMMA SectorBounds ==
    ASSUME NEW x \in Nat
    PROVE  /\ SectorOf(x) \in Nat
           /\ SecRow * SectorOf(x) <= x /\ x < SecRow * SectorOf(x) + SecRow
  BY MapAssumption DEF SectorOf

\* Sectors are in the order of their cells.
LEMMA SectorsOrdered ==
    ASSUME NEW x \in Nat, NEW y \in Nat, x <= y
    PROVE  SectorOf(x) <= SectorOf(y)
  <1> SUFFICES ASSUME SectorOf(y) < SectorOf(x) PROVE FALSE
    BY SectorBounds
  <1>1. SecRow \in Nat
    BY MapAssumption
  <1>2. PICK a \in Nat : a = SectorOf(x)
    BY SectorBounds
  <1>3. PICK b \in Nat : b = SectorOf(y)
    BY SectorBounds
  <1>4. SecRow * b + SecRow <= SecRow * a
    BY <1>1, <1>2, <1>3, Larger
  <1>5. SecRow * a <= x /\ y < SecRow * b + SecRow
    BY <1>2, <1>3, SectorBounds
  <1>6. SecRow * a \in Nat /\ SecRow * b \in Nat
    BY <1>1
  <1> QED
    BY <1>1, <1>4, <1>5, <1>6

\* What is no further than a sector's row is in the next sector at most.
LEMMA NextSector ==
    ASSUME NEW x \in Nat, NEW y \in Nat, y <= x + SecRow
    PROVE  SectorOf(y) <= SectorOf(x) + 1
  <1> SUFFICES ASSUME SectorOf(x) + 1 < SectorOf(y) PROVE FALSE
    BY SectorBounds
  <1>1. SecRow \in Nat
    BY MapAssumption
  <1>2. PICK a \in Nat : a = SectorOf(x)
    BY SectorBounds
  <1>3. PICK b \in Nat : b = SectorOf(y)
    BY SectorBounds
  <1>4. SecRow * (a + 1) + SecRow <= SecRow * b
    BY <1>1, <1>2, <1>3, Larger
  <1>5. SecRow * b <= y /\ x < SecRow * a + SecRow
    BY <1>2, <1>3, SectorBounds
  <1>6. SecRow * (a + 1) = SecRow * a + SecRow
    BY <1>1
  <1>7. SecRow * a \in Nat /\ SecRow * b \in Nat
    BY <1>1
  <1> QED
    BY <1>1, <1>4, <1>5, <1>6, <1>7

\* Whoever can be seen is in one of the sectors that are searched, as long as a
\* sector is as wide as the sight (Constants.h:23-25).
LEMMA SeenIsAround ==
    ASSUME NEW x \in Cell, NEW y \in Cell, Distance(x, y) <= Sight, Sight <= SecRow
    PROVE  SectorOf(y) \in Around(x)
  <1>1. /\ x \in Nat /\ y \in Nat /\ Sight \in Nat /\ SecRow \in Nat
        /\ x + Sight \in Nat /\ SectorOf(y) \in Sector
    BY MapAssumption, SectorType DEF Cell
  <1>2. SectorOf(x) \in Nat /\ SectorOf(y) \in Nat /\ SectorOf(x + Sight) \in Nat
    BY <1>1, SectorBounds
  <1>3. CASE x <= y
    <2>1. y <= x + Sight /\ x + Sight <= x + SecRow
      BY <1>1, <1>3 DEF Distance
    <2>2. SectorOf(x) <= SectorOf(y) /\ SectorOf(y) <= SectorOf(x + Sight)
      BY <1>1, <1>3, <2>1, SectorsOrdered
    <2>3. SectorOf(x + Sight) <= SectorOf(x) + 1
      BY <1>1, <2>1, NextSector
    <2>4. SectorOf(y) = SectorOf(x) \/ SectorOf(y) = SectorOf(x + Sight)
      BY <1>2, <2>2, <2>3
    <2> QED
      BY <1>1, <2>4 DEF Around
  <1>4. CASE y < x /\ x < Sight
    <2>1. SectorOf(x) <= 1 + 0 /\ SectorOf(y) <= SectorOf(x)
      <3>1. SectorOf(0) = 0
        BY MapAssumption DEF SectorOf
      <3>2. SectorOf(x) <= SectorOf(0) + 1
        BY <1>1, <1>4, NextSector
      <3> QED
        BY <1>1, <1>4, <3>1, <3>2, SectorsOrdered
    <2>2. SectorOf(y) = 0 \/ SectorOf(y) = SectorOf(x)
      BY <1>2, <2>1
    <2> QED
      BY <1>1, <1>4, <2>2 DEF Around
  <1>5. CASE y < x /\ Sight <= x
    <2>0. PICK z \in Nat : z = x - Sight
      BY <1>1, <1>5
    <2>1. z <= y /\ x <= z + SecRow
      BY <1>1, <1>5, <2>0 DEF Distance
    <2>2. SectorOf(z) <= SectorOf(y) /\ SectorOf(y) <= SectorOf(x)
      BY <1>1, <1>5, <2>1, SectorsOrdered
    <2>3. SectorOf(x) <= SectorOf(z) + 1
      BY <1>1, <2>1, NextSector
    <2>4. SectorOf(y) = SectorOf(x) \/ SectorOf(y) = SectorOf(z)
      BY <1>2, <2>2, <2>3, SectorBounds
    <2>5. ~(x < Sight)
      BY <1>1, <1>5
    <2> QED
      BY <1>1, <2>0, <2>4, <2>5 DEF Around
  <1> QED
    BY <1>1, <1>3, <1>4, <1>5

----------------------------------------------------------------------------
(* Who wakes the NPCs that a player sees.                                  *)

\* The Lua states can be made, and a sector is as wide as the sight.
CalmNight == ~LuaMayFail /\ Sight <= SecRow

\* A handler r of player p has still to look where NPC n is.
Looks(r, p, n) ==
    /\ r.self = p
    /\ \/ r.pc \in {"place", "enroll", "withdraw", "look"}
       \/ r.pc \in {"scan", "enter"} /\ SectorOf(pos[n]) \in r.left
       \/ r.pc = "enter" /\ n \in r.seen

Watches(p, n) == state[n] = "INGAME" /\ state[p] = "INGAME" /\ CanSee(n, p)

Awake(p, n) ==
    Watches(p, n) /\ p \notin overlooked[n] => active[n] \/ \E t \in Thread : Looks(work[t], p, n)

\* A handler that looks for players has found, or has still to pass by, every
\* one who sees the NPC and has not moved since it began.
Spots(r, p) == /\ r.pc # "sleep"
               /\ SectorOf(pos[p]) \in r.left \/ (r.pc = "seek" /\ p \in r.seen)
Seeks(t) ==
    work[t].pc \in SearchPc =>
      \A p \in Player \ overlooked[work[t].me] :
        p \notin Moving /\ (Watches(p, work[t].me) => Spots(work[t], p))

\* A player who is being placed by EnterGame is not in the game yet.
EnterPc == {"place", "enroll", "withdraw", "ingame"}
Entering == work[Db].pc \in EnterPc => state[work[Db].me] # "INGAME"

AwakeInv == /\ CalmNight
            /\ overlooked \in [Npc -> SUBSET Player]
            /\ \A p \in Player, n \in Npc : Awake(p, n)
            /\ \A t \in Thread : Seeks(t)
            /\ Entering

\* The step ends well, and the history is kept.
Follows == IInv' /\ Overlook

\* What a step does for an NPC that a player sees and has not been missed by.
Roused(p, n) == Watches(p, n)' /\ p \notin overlooked[n] =>
                  active'[n] \/ \E u \in Thread : Looks(work[u], p, n)'

\* Who is overlooked after a step.
LEMMA Overlooks ==
    ASSUME overlooked \in [Npc -> SUBSET Player], Overlook
    PROVE  /\ overlooked' \in [Npc -> SUBSET Player]
           /\ \A n \in Npc, p \in Player : p \notin overlooked'[n] =>
                /\ Searching(n)' => p \notin Moving' /\ (Searching(n) => p \notin overlooked[n])
                /\ ~Searching(n)' => p \notin overlooked[n] \/ p \in Beginning'
  <1>1. ASSUME NEW n \in Npc
        PROVE  overlooked'[n] = IF ~Searching(n)' THEN overlooked[n] \ Beginning'
                                ELSE Moving' \union (IF Searching(n) THEN overlooked[n] ELSE {})
    BY DEF Overlook
  <1>2. Moving' \subseteq Player
    BY DEF Moving
  <1>3. overlooked' \in [Npc -> SUBSET Player]
    <2>1. DOMAIN overlooked' = Npc /\ overlooked' = [n \in Npc |-> overlooked'[n]]
      BY DEF Overlook
    <2>2. \A n \in Npc : overlooked'[n] \subseteq Player
      BY <1>1, <1>2
    <2> QED
      BY <2>1, <2>2
  <1> QED
    BY <1>1, <1>3

\* An NPC that looks for players has its turn, and so is active.
LEMMA SearcherActive ==
    ASSUME Ownership', OneToken', NEW n \in Npc, Searching(n)'
    PROVE  active'[n]
  <1>1. PICK t \in Thread : work'[t].me = n /\ work'[t].pc \in SearchPc
    BY DEF Searching
  <1>2. Acting(t, n)'
    BY <1>1 DEF Ownership, Owned, SearchPc, NpcPc, Acting
  <1> QED
    BY <1>2 DEF OneToken

\* A search that is not advanced stays as good as it was, when nobody who has
\* not moved sees the NPC anew.
LEMMA SeeksOn ==
    ASSUME overlooked \in [Npc -> SUBSET Player], Overlook,
           NEW u \in Thread, NEW n \in Npc, Seeks(u), work[u].me = n,
           work'[u].pc = work[u].pc, work'[u].me = n,
           work'[u].left = work[u].left, work'[u].seen = work[u].seen,
           \A p \in Player : p \notin Moving' /\ Watches(p, n)' =>
             Watches(p, n) /\ pos'[p] = pos[p]
    PROVE  Seeks(u)'
  <1> SUFFICES ASSUME work'[u].pc \in SearchPc, NEW p \in Player, p \notin overlooked'[n]
               PROVE  p \notin Moving' /\ (Watches(p, n)' => Spots(work[u], p)')
    BY DEF Seeks
  <1>1. Searching(n) /\ Searching(n)'
    BY DEF Searching
  <1>2. p \notin Moving' /\ p \notin overlooked[n]
    BY <1>1, Overlooks
  <1>3. Watches(p, n) => Spots(work[u], p)
    BY <1>2 DEF Seeks
  <1> QED
    BY <1>2, <1>3 DEF Spots

\* One step, by what it does to the ones who see and are seen.
LEMMA AwakeStep ==
    ASSUME TypeOK, Ownership, AwakeInv, Follows, NEW t \in Thread, NEW r, Start(t, r),
           \A p \in Player, n \in Npc : Roused(p, n),
           \A n \in Npc : /\ state'[n] = "INGAME" => state[n] = "INGAME"
                          /\ r.self # n => pos'[n] = pos[n],
           \A p \in Player : r.me = p \/ (state'[p] = "INGAME" =>
                                            state[p] = "INGAME" /\ pos'[p] = pos[p]),
           r.pc \in SearchPc =>
             \/ Seeks(t)'
             \/ /\ r.pc = work[t].pc /\ r.me = work[t].me /\ pos' = pos
                /\ r.left = work[t].left /\ r.seen = work[t].seen,
           Entering'
    PROVE  AwakeInv'
  <1>0. /\ overlooked \in [Npc -> SUBSET Player] /\ Overlook /\ Ownership' /\ OneToken'
        /\ CalmNight'
    BY DEF AwakeInv, Follows, IInv, CalmNight
  <1>1. work'[t] = r /\ \A u \in Thread \ {t} : work'[u] = work[u]
    BY DEF TypeOK
  <1>2. ASSUME NEW p \in Player, NEW n \in Npc PROVE Awake(p, n)'
    <2> SUFFICES ASSUME Watches(p, n)', p \notin overlooked'[n], ~active'[n]
                 PROVE  (\E u \in Thread : Looks(work[u], p, n))'
      BY DEF Awake
    <2>1. ~Searching(n)'
      BY <1>0, SearcherActive
    <2>2. p \notin overlooked[n] \/ p \in Beginning'
      BY <1>0, <2>1, Overlooks
    <2>3. CASE p \notin overlooked[n]
      BY <2>3 DEF Roused
    <2>4. CASE p \in Beginning'
      <3>1. PICK u \in Thread : work'[u].me = p /\ work'[u].pc = "place"
        BY <2>4 DEF Beginning
      <3>2. work'[u].self = p
        BY <1>0, <3>1 DEF Ownership, Owned, WalkPc
      <3>3. Looks(work[u], p, n)'
        BY <3>1, <3>2 DEF Looks
      <3> QED
        BY <3>3
    <2> QED
      BY <2>2, <2>3, <2>4
  <1>3. ASSUME NEW u \in Thread PROVE Seeks(u)'
    <2> SUFFICES ASSUME work'[u].pc \in SearchPc, ~(u = t /\ Seeks(t)') PROVE Seeks(u)'
      BY DEF Seeks
    <2>1. PICK n \in Npc : n = work'[u].me /\ n = work'[u].self /\ n \in Object
      BY <1>0 DEF Ownership, Owned, SearchPc, NpcPc, Object
    <2>2. /\ work'[u].pc = work[u].pc /\ work[u].me = n
          /\ work'[u].left = work[u].left /\ work'[u].seen = work[u].seen
          /\ pos'[n] = pos[n]
      <3>1. CASE u = t
        BY <1>1, <2>1, <3>1
      <3>2. CASE u # t
        <4>1. r.self # n
          BY <1>0, <1>1, <2>1, <3>2 DEF OneToken, Acting
        <4> QED
          BY <1>1, <2>1, <3>2, <4>1
      <3> QED
        BY <3>1, <3>2
    <2>3. ASSUME NEW p \in Player, p \notin Moving', Watches(p, n)'
          PROVE  Watches(p, n) /\ pos'[p] = pos[p]
      <3>1. r.me # p
        BY <1>1, <2>3 DEF Moving
      <3>2. state[p] = "INGAME" /\ pos'[p] = pos[p]
        BY <2>3, <3>1 DEF Watches
      <3>3. state[n] = "INGAME"
        BY <2>3 DEF Watches
      <3> QED
        BY <2>2, <2>3, <3>2, <3>3 DEF Watches, CanSee
    <2>4. Seeks(u)
      BY DEF AwakeInv
    <2> QED
      BY <1>0, <2>1, <2>2, <2>3, <2>4, SeeksOn
  <1>4. overlooked' \in [Npc -> SUBSET Player]
    BY <1>0, Overlooks
  <1> QED
    BY <1>0, <1>2, <1>3, <1>4 DEF AwakeInv

\* A step that lets nobody see more than before, wakes whom its handler was to
\* wake, and lets nobody fall asleep.
LEMMA FadeStep ==
    ASSUME TypeOK, Ownership, AwakeInv, Follows, NEW t \in Thread, NEW r, Start(t, r), pos' = pos,
           \A o \in Object : state'[o] = "INGAME" => state[o] = "INGAME",
           \/ r.pc \notin SearchPc
           \/ /\ r.pc = work[t].pc /\ r.me = work[t].me
              /\ r.left = work[t].left /\ r.seen = work[t].seen,
           t = Db /\ r.pc \in EnterPc => work[Db].pc \in EnterPc /\ r.me = work[Db].me,
           \A n \in Npc : active[n] => active'[n],
           \A p \in Player, n \in Npc :
             Looks(work[t], p, n) /\ Watches(p, n) => active'[n] \/ Looks(r, p, n)
    PROVE  AwakeInv'
  <1>1. work'[t] = r /\ \A u \in Thread \ {t} : work'[u] = work[u]
    BY DEF TypeOK
  <1>0. /\ Db \in Thread /\ \A n \in Npc : n \in Object
        /\ \A p \in Player : p \in Object
    BY DEF Thread, Object
  <1>3. \A q, p, n : Looks(q, p, n)' <=> Looks(q, p, n)
    BY DEF Looks
  <1>4. ASSUME NEW p \in Player, NEW n \in Npc PROVE Roused(p, n)
    <2> SUFFICES ASSUME Watches(p, n)', p \notin overlooked[n], ~active'[n]
                 PROVE  \E u \in Thread : Looks(work[u], p, n)'
      BY DEF Roused
    <2>1. Watches(p, n) /\ ~active[n]
      BY <1>0 DEF Watches, CanSee
    <2>2. PICK u \in Thread : Looks(work[u], p, n)
      BY <2>1 DEF AwakeInv, Awake
    <2>3. PICK q : q = work'[u]
      OBVIOUS
    <2>4. Looks(q, p, n)
      BY <1>1, <2>1, <2>2, <2>3
    <2>5. Looks(q, p, n)'
      BY <1>3, <2>4
    <2>6. Looks(work[u], p, n)'
      BY <2>3, <2>5
    <2> QED
      BY <2>6
  <1>6. Entering'
    <2> SUFFICES ASSUME work'[Db].pc \in EnterPc PROVE state'[work'[Db].me] # "INGAME"
      BY DEF Entering
    <2>1. work[Db].pc \in EnterPc /\ work'[Db].me = work[Db].me
      BY <1>0, <1>1
    <2>2. work[Db].me \in Object
      BY <1>0, <2>1 DEF Ownership, Owned, EnterPc
    <2> QED
      BY <2>1, <2>2 DEF AwakeInv, Entering
  <1> QED
    BY <1>0, <1>4, <1>6, AwakeStep

\* An NPC that sleeps is where the sectors say.
LEMMA SleeperPlaced ==
    ASSUME TypeOK, OneToken, PlaceInv, NEW n \in Npc, ~active[n]
    PROVE  Settled(n) /\ state[n] # "FREE" /\ ~Serving(n) /\ n \in Object
  <1>1. n \in Object /\ \A t \in Thread : ~Acting(t, n)
    BY DEF OneToken, Object
  <1>2. ~Serving(n)
    BY <1>1 DEF Acting, Serving
  <1> QED
    BY <1>1, <1>2 DEF PlaceInv, Placed

\* A player who sees a sleeping NPC has its sector around him.
LEMMA SleeperAround ==
    ASSUME TypeOK, CalmNight, NEW n \in Object, NEW o \in Object, CanSee(n, o),
           around[o] = Around(pos[o])
    PROVE  SectorOf(pos[n]) \in around[o]
  <1>1. pos[n] \in Cell /\ pos[o] \in Cell /\ Sight <= SecRow
    BY DEF TypeOK, CalmNight
  <1>2. PICK x \in Cell, y \in Cell : x = pos[o] /\ y = pos[n]
    BY <1>1
  <1>3. Distance(y, x) <= Sight
    BY <1>2 DEF CanSee
  <1>4. Distance(x, y) = Distance(y, x)
    BY MapAssumption DEF Distance, Cell
  <1>5. SectorOf(y) \in Around(x)
    BY <1>1, <1>3, <1>4, SeenIsAround
  <1> QED
    BY <1>2, <1>5

\* A packet, or a view list's change, wakes nobody.
LEMMA DoAwake ==
    ASSUME TypeOK, Ownership, AwakeInv, Follows, NEW t \in Thread, Do(t)
    PROVE  AwakeInv'
  <1> DEFINE r == [work[t] EXCEPT !.ops = Tail(work[t].ops)]
  <1>1. Start(t, r) /\ pos' = pos /\ state' = state /\ active' = active
    BY DEF Do, placeVars, npcVars
  <1>2. /\ r.pc = work[t].pc /\ r.self = work[t].self /\ r.me = work[t].me
        /\ r.left = work[t].left /\ r.seen = work[t].seen
    BY DEF TypeOK, Handler
  <1> HIDE DEF r
  <1>3. \A p, n : Looks(work[t], p, n) => Looks(r, p, n)
    BY <1>2 DEF Looks
  <1> QED
    BY <1>1, <1>2, <1>3, FadeStep

\* PutInSector leaves its player with everything still to look at.
LEMMA PlaceAwake ==
    ASSUME TypeOK, Ownership, PlaceInv, AwakeInv, Follows, NEW t \in Thread,
           Place(t) \/ Enroll(t) \/ Withdraw(t)
    PROVE  AwakeInv'
  <1>0. /\ work[t].pc \in {"place", "enroll", "withdraw"} /\ work[t].pc \in WalkPc
        /\ work[t] \in Handler /\ work[t].self = work[t].me
    <2>1. work[t].pc \in {"place", "enroll", "withdraw"}
      BY DEF Place, Enroll, Withdraw
    <2> QED
      BY <2>1, Mover DEF WalkPc
  <1>1. pos' = pos /\ state' = state /\ active' = active
    BY DEF Place, Enroll, Withdraw, npcVars
  <1>2. \E r : /\ Start(t, r) /\ r.self = work[t].self /\ r.me = work[t].me
               /\ \/ r.pc = (IF t = Db THEN "ingame" ELSE "look")
                  \/ r.pc \in {"enroll", "withdraw"}
    <2>1. CASE Start(t, AfterPlace(t))
      <3>1. PICK r : r = AfterPlace(t)
        OBVIOUS
      <3> QED
        BY <1>0, <2>1, <3>1, PlaceEnds
    <2>2. CASE ~Start(t, AfterPlace(t))
      <3> DEFINE q == [work[t] EXCEPT !.pc = "enroll", !.from = sector[work[t].me],
                                      !.to = SectorOf(pos[work[t].me])]
                 v == [work[t] EXCEPT !.pc = "withdraw"]
      <3>1. Start(t, q) \/ Start(t, v)
        BY <2>2 DEF Place, Enroll, Withdraw
      <3>2. /\ q.pc = "enroll" /\ q.self = work[t].self /\ q.me = work[t].me
            /\ v.pc = "withdraw" /\ v.self = work[t].self /\ v.me = work[t].me
        BY <1>0 DEF Handler
      <3> HIDE DEF q, v
      <3> QED
        BY <3>1, <3>2
    <2> QED
      BY <2>1, <2>2
  <1>3. PICK r : /\ Start(t, r) /\ r.self = work[t].self /\ r.me = work[t].me
                 /\ \/ r.pc = (IF t = Db THEN "ingame" ELSE "look")
                    \/ r.pc \in {"enroll", "withdraw"}
    BY <1>2
  <1>4. ASSUME NEW p \in Player, NEW n \in Npc, Looks(work[t], p, n), Watches(p, n)
        PROVE  Looks(r, p, n)
    <2>1. r.self = p /\ work[t].me = p
      BY <1>0, <1>3, <1>4 DEF Looks
    <2>2. t # Db
      BY <1>0, <1>4, <2>1 DEF AwakeInv, Entering, EnterPc, Watches
    <2> QED
      BY <1>3, <2>1, <2>2 DEF Looks
  <1>5. r.pc \notin SearchPc /\ (t = Db => work[t].pc \in EnterPc)
    BY <1>0, <1>3 DEF EnterPc, SearchPc
  <1> QED
    BY <1>1, <1>3, <1>4, <1>5, FadeStep

\* A player looks in every sector around him.
LEMMA LookAwake ==
    ASSUME TypeOK, Ownership, PlaceInv, AwakeInv, Follows, NEW t \in Thread, Look(t)
    PROVE  AwakeInv'
  <1> DEFINE q(S) == [work[t] EXCEPT !.pc = "scan", !.left = around[work[t].me], !.prev = S]
  <1>1. work[t].pc = "look" /\ pos' = pos /\ state' = state /\ active' = active
    BY DEF Look, placeVars, npcVars
  <1>2. PICK S : Start(t, q(S))
    BY DEF Look
  <1>3. /\ q(S).pc = "scan" /\ q(S).self = work[t].self /\ q(S).me = work[t].me
        /\ q(S).left = around[work[t].me]
    BY DEF TypeOK, Handler
  <1> HIDE DEF q
  <1>4. ASSUME NEW p \in Player, NEW n \in Npc, Looks(work[t], p, n), Watches(p, n)
        PROVE  Looks(q(S), p, n)
    <2>1. work[t].self = p /\ work[t].me = p /\ p \in Object /\ n \in Object
      BY <1>1, <1>4 DEF Looks, PlaceInv, Alike, Object
    <2>2. Settled(p) /\ state[p] # "FREE"
      BY <1>1, <2>1 DEF PlaceInv, Placed, Along
    <2>3. around[p] = Around(pos[p])
      BY <2>2 DEF Settled
    <2>4. SectorOf(pos[n]) \in around[p]
      BY <1>4, <2>1, <2>3, SleeperAround DEF Watches, AwakeInv
    <2> QED
      BY <1>3, <2>1, <2>4 DEF Looks
  <1>5. q(S).pc \notin SearchPc /\ q(S).pc \notin EnterPc
    BY <1>3 DEF EnterPc, SearchPc
  <1> QED
    BY <1>1, <1>2, <1>3, <1>4, <1>5, FadeStep

\* Sight is mutual.
LEMMA SightIsMutual ==
    ASSUME TypeOK, NEW a \in Object, NEW b \in Object
    PROVE  CanSee(a, b) <=> CanSee(b, a)
  BY MapAssumption DEF TypeOK, CanSee, Distance, Cell

\* The sector that is searched has its sleeping NPCs woken.
LEMMA ScanAwake ==
    ASSUME TypeOK, Ownership, OneToken, PlaceInv, AwakeInv, Follows, NEW t \in Thread, Scan(t)
    PROVE  AwakeInv'
  <1>0. /\ work[t].pc = "scan" /\ work[t] \in Handler /\ work[t].self = work[t].me
        /\ pos' = pos /\ state' = state
    BY DEF Scan, placeVars, TypeOK, Ownership, Owned, WalkPc
  <1>1. CASE work[t].left = {}
    <2> DEFINE q == [work[t] EXCEPT !.pc = "diff"]
    <2>1. Start(t, q) /\ active' = active
      BY <1>1 DEF Scan, Goto
    <2>2. q.pc = "diff" /\ q.self = work[t].self /\ q.me = work[t].me
      BY <1>0 DEF Handler
    <2>3. \A p, n : ~Looks(work[t], p, n)
      BY <1>0, <1>1 DEF Looks
    <2> HIDE DEF q
    <2> QED
      BY <1>0, <2>1, <2>2, <2>3, FadeStep DEF EnterPc, SearchPc
  <1>2. CASE work[t].left # {}
    <2> DEFINE q(s, S) == [work[t] EXCEPT !.left = work[t].left \ {s}, !.seen = S]
    <2>m. PICK me : me = work[t].me
      OBVIOUS
    <2>1. PICK s, S :
            /\ s \in work[t].left
            /\ Start(t, q(s, S))
            /\ IF me \in Npc THEN active' = active ELSE WakeUp(Visible(me, s) \intersect Npc)
      BY <1>2, <2>m DEF Scan
    <2>2. /\ q(s, S).pc = "scan" /\ q(s, S).self = work[t].self /\ q(s, S).me = work[t].me
          /\ q(s, S).left = work[t].left \ {s}
      BY <1>0 DEF Handler
    <2> HIDE DEF q
    <2>3. \A n \in Npc : active[n] => active'[n]
      BY <2>1 DEF WakeUp
    <2>4. ASSUME NEW p \in Player, NEW n \in Npc, Looks(work[t], p, n), Watches(p, n), ~active[n],
                 SectorOf(pos[n]) = s
          PROVE  active'[n]
      <3>1. me = p /\ p \in Object /\ n \in Object /\ p \notin Npc
        BY <1>0, <2>m, <2>4, IdAssumption DEF Looks, Object
      <3>2. Listed(n) = {s}
        BY <2>4, SleeperPlaced DEF Settled
      <3>3. n \in members[s]
        BY <3>2 DEF Listed
      <3>4. CanSee(p, n) /\ n # p /\ state[n] = "INGAME"
        BY <2>4, <3>1, SightIsMutual DEF Watches
      <3>5. n \in Visible(me, s) \intersect Npc
        BY <3>1, <3>3, <3>4 DEF Visible
      <3> QED
        BY <2>1, <3>1, <3>5 DEF WakeUp
    <2>5. ASSUME NEW p \in Player, NEW n \in Npc, Looks(work[t], p, n), Watches(p, n)
          PROVE  active'[n] \/ Looks(q(s, S), p, n)
      <3>1. work[t].self = p /\ SectorOf(pos[n]) \in work[t].left
        BY <1>0, <2>5 DEF Looks
      <3>2. CASE SectorOf(pos[n]) = s
        BY <2>3, <2>4, <2>5, <3>2
      <3>3. CASE SectorOf(pos[n]) # s
        BY <2>2, <3>1, <3>3 DEF Looks
      <3> QED
        BY <3>2, <3>3
    <2> QED
      BY <1>0, <2>1, <2>2, <2>3, <2>5, FadeStep DEF EnterPc, SearchPc
  <1> QED
    BY <1>1, <1>2

\* A handler that has nothing left to look at goes on, or ends.
LEMMA RestStep ==
    ASSUME TypeOK, Ownership, AwakeInv, Follows, NEW t \in Thread, NEW r, Start(t, r), pos' = pos,
           \A o \in Object : state'[o] = "INGAME" => state[o] = "INGAME",
           active' = active,
           work[t].pc \notin {"place", "enroll", "withdraw", "look", "scan", "enter"},
           r.pc \notin SearchPc, r.pc \notin EnterPc
    PROVE  AwakeInv'
  <1>1. \A p, n : ~Looks(work[t], p, n)
    BY DEF Looks
  <1> QED
    BY <1>1, FadeStep

\* The diff of the views wakes nobody, and so it ends for a player.
LEMMA DiffAwake ==
    ASSUME TypeOK, Ownership, AwakeInv, Follows, NEW t \in Thread,
           Diff(t) \/ (DiffEnd(t) /\ work[t].me \in Player)
    PROVE  AwakeInv'
  <1>0. /\ work[t] \in Handler /\ work[t].pc = "diff"
        /\ pos' = pos /\ state' = state /\ active' = active
    BY DEF Diff, DiffEnd, placeVars, npcVars, TypeOK
  <1> DEFINE q(S, m) == [work[t] EXCEPT !.prev = S, !.ops = m]
  <1>1. (\E S, m : Start(t, q(S, m))) \/ Start(t, Idle)
    BY DEF Diff, DiffEnd, Finish
  <1>2. \A S, m : q(S, m).pc = "diff"
    BY <1>0 DEF Handler
  <1>3. Idle.pc = "idle"
    BY DEF Idle
  <1> HIDE DEF q
  <1>4. ASSUME NEW r, Start(t, r), r.pc \in {"diff", "idle"} PROVE AwakeInv'
    BY <1>0, <1>4, RestStep DEF EnterPc, SearchPc
  <1> QED
    BY <1>1, <1>2, <1>3, <1>4

\* Nor do disconnect() and the end of an attack.
LEMMA LeaveAwake ==
    ASSUME TypeOK, Ownership, AwakeInv, Follows, NEW t \in Thread, Depart(t) \/ Bury(t)
    PROVE  AwakeInv'
  <1>0. /\ work[t] \in Handler /\ work[t].pc \in {"leave", "bury", "vanish", "free"}
        /\ pos' = pos /\ active' = active
    BY DEF Depart, Bury, LeaveScan, LeaveTell, Vanish, Free, placeVars, npcVars, TypeOK
  <1>s. \A o \in Object : state'[o] = "INGAME" => state[o] = "INGAME"
    <2>1. CASE Free(t)
      BY <2>1 DEF Free, TypeOK
    <2>2. CASE ~Free(t)
      BY <2>2 DEF Depart, Bury, LeaveScan, LeaveTell, Vanish, placeVars
    <2> QED
      BY <2>1, <2>2
  <1> DEFINE q(S, m) == [work[t] EXCEPT !.seen = S, !.ops = m]
             v(S, L) == [work[t] EXCEPT !.left = L, !.seen = S]
             g(pc) == [work[t] EXCEPT !.pc = pc]
  <1>2. \/ Start(t, Idle)
        \/ \E S, m : Start(t, q(S, m))
        \/ \E S, L : Start(t, v(S, L))
        \/ \E pc \in {"vanish", "free"} : Start(t, g(pc))
    <2>1. Bury(t) => Start(t, Idle) \/ \E S, m : Start(t, q(S, m))
      BY DEF Bury, Finish
    <2>2. LeaveTell(t) => \E S, m : Start(t, q(S, m))
      BY DEF LeaveTell
    <2>3. LeaveScan(t) => \/ \E S, L : Start(t, v(S, L))
                          \/ \E pc \in {"vanish", "free"} : Start(t, g(pc))
      BY DEF LeaveScan, Goto
    <2>4. Vanish(t) => \E pc \in {"vanish", "free"} : Start(t, g(pc))
      BY DEF Vanish, Goto
    <2>5. Free(t) => Start(t, Idle)
      BY DEF Free, Finish
    <2> HIDE DEF q, v, g
    <2> QED
      BY <2>1, <2>2, <2>3, <2>4, <2>5 DEF Depart
  <1>3. \A S, m, L, pc : /\ q(S, m).pc = work[t].pc /\ q(S, m).self = work[t].self
                         /\ v(S, L).pc = work[t].pc /\ v(S, L).self = work[t].self
                         /\ g(pc).pc = pc /\ g(pc).self = work[t].self
    BY <1>0 DEF Handler
  <1>4. Idle.pc = "idle" /\ Idle.self = None
    BY DEF Idle
  <1> HIDE DEF q, v, g
  <1>5. ASSUME NEW r, Start(t, r), r.pc \in {"leave", "bury", "vanish", "free", "idle"}
        PROVE  AwakeInv'
    BY <1>0, <1>s, <1>5, RestStep DEF EnterPc, SearchPc
  <1> QED
    BY <1>0, <1>2, <1>3, <1>4, <1>5

\* The sector that EnterGame locks, and the ids it visits.
LEMMA EnterLockAwake ==
    ASSUME TypeOK, Ownership, OneToken, PlaceInv, AwakeInv, Follows, EnterLock
    PROVE  AwakeInv'
  <1>0. /\ Db \in Thread /\ work[Db] \in Handler /\ work[Db].pc = "enter" /\ work[Db].seen = {}
        /\ pos' = pos /\ state' = state /\ active' = active
    BY DEF EnterLock, placeVars, npcVars, TypeOK, Thread
  <1>1. CASE work[Db].left = {}
    <2>1. Start(Db, Idle) /\ Idle.pc = "idle" /\ Idle.self = None
      BY <1>1 DEF EnterLock, Finish, Idle
    <2>2. \A p, n : ~Looks(work[Db], p, n)
      BY <1>0, <1>1 DEF Looks
    <2>3. PICK r : r = Idle
      OBVIOUS
    <2> QED
      BY <1>0, <2>1, <2>2, <2>3, FadeStep DEF EnterPc, SearchPc
  <1>2. CASE work[Db].left # {}
    <2> DEFINE q(s) == [work[Db] EXCEPT !.to = s, !.left = work[Db].left \ {s}, !.seen = members[s]]
    <2>1. PICK s \in work[Db].left : Start(Db, q(s))
      BY <1>2 DEF EnterLock
    <2>2. /\ q(s).pc = "enter" /\ q(s).self = work[Db].self /\ q(s).me = work[Db].me
          /\ q(s).left = work[Db].left \ {s} /\ q(s).seen = members[s]
      BY <1>0 DEF Handler
    <2> HIDE DEF q
    <2>3. ASSUME NEW p \in Player, NEW n \in Npc, Looks(work[Db], p, n)
          PROVE  active[n] \/ Looks(q(s), p, n)
      <3> SUFFICES ASSUME ~active[n] PROVE Looks(q(s), p, n)
        OBVIOUS
      <3>1. work[Db].self = p /\ SectorOf(pos[n]) \in work[Db].left
        BY <1>0, <2>3 DEF Looks
      <3>2. CASE SectorOf(pos[n]) = s
        <4>1. Listed(n) = {s}
          BY <3>2, SleeperPlaced DEF Settled
        <4>2. n \in members[s]
          BY <4>1 DEF Listed
        <4> QED
          BY <2>2, <3>1, <4>2 DEF Looks
      <3>3. CASE SectorOf(pos[n]) # s
        BY <2>2, <3>1, <3>3 DEF Looks
      <3> QED
        BY <3>2, <3>3
    <2> QED
      BY <1>0, <2>1, <2>2, <2>3, FadeStep DEF EnterPc, SearchPc
  <1> QED
    BY <1>1, <1>2

LEMMA EnterMeetAwake ==
    ASSUME TypeOK, Ownership, OneToken, PlaceInv, AwakeInv, Follows, EnterMeet
    PROVE  AwakeInv'
  <1>0. /\ Db \in Thread /\ work[Db] \in Handler /\ work[Db].pc = "enter"
        /\ pos' = pos /\ state' = state
    BY DEF EnterMeet, placeVars, TypeOK, Thread
  <1>m. PICK me : me = work[Db].me /\ me = work[Db].self
    BY <1>0 DEF PlaceInv, Alike
  <1> DEFINE q(o) == [work[Db] EXCEPT !.seen = work[Db].seen \ {o}]
             v(o, m) == [work[Db] EXCEPT !.seen = work[Db].seen \ {o}, !.ops = m]
  <1>1. \E o \in work[Db].seen :
          /\ Start(Db, q(o)) \/ \E m : Start(Db, v(o, m))
          /\ IF o # me /\ state[o] = "INGAME" /\ CanSee(me, o) THEN WakeUp({o} \intersect Npc)
             ELSE active' = active
    BY <1>m DEF EnterMeet
  <1>2. \A o, m : /\ q(o).pc = "enter" /\ q(o).self = work[Db].self /\ q(o).me = work[Db].me
                  /\ q(o).left = work[Db].left /\ q(o).seen = work[Db].seen \ {o}
                  /\ v(o, m).pc = "enter" /\ v(o, m).self = work[Db].self /\ v(o, m).me = work[Db].me
                  /\ v(o, m).left = work[Db].left /\ v(o, m).seen = work[Db].seen \ {o}
    BY <1>0 DEF Handler
  <1> HIDE DEF q, v
  <1>o. PICK o, m :
        /\ o \in work[Db].seen
        /\ Start(Db, q(o)) \/ Start(Db, v(o, m))
        /\ IF o # me /\ state[o] = "INGAME" /\ CanSee(me, o) THEN WakeUp({o} \intersect Npc)
           ELSE active' = active
    BY <1>1
  <1>r. \E r : /\ Start(Db, r) /\ r.pc = "enter" /\ r.self = work[Db].self
               /\ r.me = work[Db].me /\ r.left = work[Db].left /\ r.seen = work[Db].seen \ {o}
    BY <1>o, <1>2
  <1>3. PICK r :
          /\ Start(Db, r) /\ r.pc = "enter" /\ r.self = work[Db].self /\ r.me = work[Db].me
          /\ r.left = work[Db].left /\ r.seen = work[Db].seen \ {o}
          /\ IF o # me /\ state[o] = "INGAME" /\ CanSee(me, o) THEN WakeUp({o} \intersect Npc)
             ELSE active' = active
    BY <1>o, <1>r
  <1>4. \A n \in Npc : active[n] => active'[n]
    BY <1>3 DEF WakeUp
  <1>5. ASSUME NEW p \in Player, NEW n \in Npc, Looks(work[Db], p, n), Watches(p, n)
        PROVE  active'[n] \/ Looks(r, p, n)
    <2>1. CASE o = n /\ me = p
      <3>1. p \in Object /\ n \in Object /\ n # p
        BY IdAssumption DEF Object
      <3>2. CanSee(p, n) /\ state[n] = "INGAME"
        BY <1>5, <3>1, SightIsMutual DEF Watches
      <3> QED
        BY <1>3, <2>1, <3>1, <3>2 DEF WakeUp
    <2>2. CASE ~(o = n /\ me = p)
      BY <1>0, <1>m, <1>3, <1>5, <2>2 DEF Looks
    <2> QED
      BY <2>1, <2>2
  <1> QED
    BY <1>0, <1>3, <1>4, <1>5, FadeStep DEF EnterPc, SearchPc

\* Whoever enters the game has still to look where the sleeping NPCs are.
LEMMA IngameAwake ==
    ASSUME TypeOK, Ownership, OneToken, PlaceInv, AwakeInv, Follows, EnterIngame
    PROVE  AwakeInv'
  <1> DEFINE q(S) == [work[Db] EXCEPT !.pc = "enter", !.left = S]
  <1>0. /\ Db \in Thread /\ work[Db] \in Handler /\ work[Db].pc = "ingame"
        /\ pos' = pos /\ active' = active
    BY DEF EnterIngame, npcVars, TypeOK, Thread
  <1>1. PICK p \in Player : p = work[Db].me /\ p = work[Db].self /\ p \in Object
    <2>1. Owned(work[Db]) /\ Alike(work[Db])
      BY <1>0 DEF Ownership, PlaceInv
    <2> QED
      BY <1>0, <2>1 DEF Owned, Alike, Object, WalkPc, NpcPc
  <1>2. PICK r : Start(Db, r) /\ r.pc = "enter" /\ r.self = p /\ r.left = around[p]
    <2>1. Start(Db, q(around[p]))
      BY <1>1 DEF EnterIngame
    <2>2. q(around[p]).pc = "enter" /\ q(around[p]).self = p /\ q(around[p]).left = around[p]
      BY <1>0, <1>1 DEF Handler
    <2> HIDE DEF q
    <2> QED
      BY <2>1, <2>2
  <1>3. work'[Db] = r /\ \A u \in Thread \ {Db} : work'[u] = work[u]
    BY <1>0, <1>2 DEF TypeOK
  <1>4. \A o \in Object \ {p} : state'[o] = state[o]
    BY <1>1 DEF EnterIngame, TypeOK
  <1>5. \A n \in Npc : n \in Object /\ n # p
    BY <1>1, IdAssumption DEF Object
  <1>6. around[p] = Around(pos[p])
    <2>1. Along(p, work[Db]) /\ work[Db].pc \notin MovePc
      BY <1>0, <1>1 DEF PlaceInv, Placed, MovePc
    <2> QED
      BY <2>1 DEF Along, Settled, MovePc
  <1>7. ASSUME NEW n \in Npc PROVE Roused(p, n)
    <2> SUFFICES ASSUME Watches(p, n)' PROVE \E t \in Thread : Looks(work[t], p, n)'
      BY DEF Roused
    <2>1. CanSee(p, n)
      BY <1>0, <1>1, <1>5, SightIsMutual DEF Watches, CanSee
    <2>2. CanSee(n, p) /\ CalmNight
      BY <1>1, <1>5, <2>1, SightIsMutual DEF AwakeInv
    <2>3. SectorOf(pos[n]) \in around[p]
      BY <1>1, <1>5, <1>6, <2>2, SleeperAround
    <2>4. Looks(r, p, n)'
      BY <1>0, <1>2, <2>3 DEF Looks
    <2> QED
      BY <1>0, <1>3, <2>4
  <1>8. ASSUME NEW o \in Player, NEW n \in Npc, o # p PROVE Roused(o, n)
    <2> SUFFICES ASSUME Watches(o, n)', o \notin overlooked[n], ~active[n]
                 PROVE  \E t \in Thread : Looks(work[t], o, n)'
      BY <1>0 DEF Roused
    <2>1. Watches(o, n)
      BY <1>0, <1>4, <1>5, <1>8 DEF Watches, CanSee, Object
    <2>2. PICK u \in Thread : Looks(work[u], o, n)
      BY <2>1 DEF AwakeInv, Awake
    <2>3. u # Db
      BY <1>1, <1>8, <2>2 DEF Looks
    <2>4. Looks(work[u], o, n)'
      BY <1>0, <1>3, <2>2, <2>3 DEF Looks
    <2> QED
      BY <2>4
  <1>9. r.me = p /\ r.pc \notin SearchPc
    <2>1. q(around[p]).me = p
      BY <1>0, <1>1 DEF Handler
    <2>2. Start(Db, q(around[p]))
      BY <1>1 DEF EnterIngame
    <2>3. work'[Db].me = p
      BY <1>0, <2>1, <2>2 DEF TypeOK
    <2> QED
      BY <1>2, <1>3, <2>3 DEF SearchPc
  <1>10. Entering'
    BY <1>2, <1>3 DEF Entering, EnterPc
  <1>11. \A n \in Npc : state'[n] = state[n] /\ pos'[n] = pos[n]
    BY <1>0, <1>4, <1>5
  <1>12. \A o \in Player \ {p} : state'[o] = state[o] /\ pos'[o] = pos[o]
    BY <1>0, <1>4 DEF Object
  <1>13. \A o \in Player, n \in Npc : Roused(o, n)
    BY <1>7, <1>8
  <1> HIDE DEF q
  <1> QED
    BY <1>0, <1>2, <1>9, <1>10, <1>11, <1>12, <1>13, AwakeStep

\* A player who sees an NPC, and has not moved, is listed where he is looked for.
LEMMA SeenIsListed ==
    ASSUME TypeOK, PlaceInv, NEW n \in Npc, NEW p \in Player, Watches(p, n), p \notin Moving
    PROVE  p \in members[SectorOf(pos[p])]
  <1>1. p \in Object /\ state[p] = "INGAME"
    BY DEF Object, Watches
  <1>2. \A t \in Thread : work[t].self = p => work[t].pc = "bury"
    BY DEF PlaceInv, Alike, Moving
  <1>3. Settled(p)
    BY <1>1, <1>2 DEF PlaceInv, Placed, Serving, Along
  <1>4. Listed(p) = {SectorOf(pos[p])}
    BY <1>1, <1>3 DEF Settled
  <1> QED
    BY <1>4 DEF Listed

\* An NPC that looks for players has them around it.
LEMMA SearcherPlaced ==
    ASSUME TypeOK, Ownership, PlaceInv, NEW t \in Thread, work[t].pc \in SearchPc \union {"diff"}
    PROVE  /\ work[t].self = work[t].me /\ work[t].me \in Object
           /\ around[work[t].me] = Around(pos[work[t].me])
  <1>1. work[t].self = work[t].me /\ work[t].me \in Object
    BY DEF Ownership, Owned, SearchPc, NpcPc, WalkPc
  <1>2. Along(work[t].me, work[t])
    BY <1>1 DEF PlaceInv, Placed
  <1> QED
    BY <1>1, <1>2 DEF Along, Settled, SearchPc

\* A search that begins has every sector still to pass by.
LEMMA SearchBegins ==
    ASSUME TypeOK, AwakeInv, Follows, NEW t \in Thread, NEW n \in Npc,
           NEW pc \in {"seek", "decide"}, Search(t, n, pc),
           pos' = pos, state' = state, around[n] = Around(pos[n])
    PROVE  Seeks(t)'
  <1> DEFINE j == [[Idle EXCEPT !.left = around[n]] EXCEPT !.pc = pc, !.self = n, !.me = n]
  <1>1. j.pc = pc /\ j.me = n /\ j.left = around[n]
    BY DEF Idle
  <1>2. work'[t] = j
    BY DEF Search, Turn, TypeOK
  <1> HIDE DEF j
  <1>3. Searching(n)' /\ overlooked \in [Npc -> SUBSET Player] /\ Overlook
    BY <1>1, <1>2 DEF Searching, SearchPc, AwakeInv, Follows
  <1> SUFFICES ASSUME NEW p \in Player, p \notin overlooked'[n]
               PROVE  p \notin Moving' /\ (Watches(p, n)' => Spots(work[t], p)')
    BY <1>1, <1>2 DEF Seeks
  <1>4. p \notin Moving'
    BY <1>3, Overlooks
  <1>5. ASSUME Watches(p, n)' PROVE Spots(work[t], p)'
    <2>1. n \in Object /\ p \in Object /\ CalmNight
      BY DEF Object, AwakeInv
    <2>2. CanSee(p, n)
      BY <1>5, <2>1, SightIsMutual DEF Watches, CanSee
    <2>3. SectorOf(pos[p]) \in around[n]
      BY <2>1, <2>2, SleeperAround
    <2> QED
      BY <1>1, <1>2, <2>3 DEF Spots
  <1> QED
    BY <1>4, <1>5

\* A search that passes by one sector, or finds nobody in the last one.
LEMMA SearchPasses ==
    ASSUME TypeOK, Ownership, PlaceInv, AwakeInv, Follows, NEW t \in Thread, NEW n \in Npc,
           work[t].pc \in {"seek", "decide"}, work[t].me = n, pos' = pos, state' = state,
           NEW s \in Sector, work'[t].me = n,
           \A p \in Player : Watches(p, n) /\ p \in members[s] /\ SectorOf(pos[p]) = s =>
             work'[t].pc = "seek" /\ p \in work'[t].seen,
           \/ /\ work'[t].pc = work[t].pc /\ work'[t].left = work[t].left \ {s}
              /\ work[t].seen \subseteq work'[t].seen
           \/ work[t].left = {s} /\ (work[t].pc = "seek" => work[t].seen = {})
    PROVE  Seeks(t)'
  <1> SUFFICES ASSUME work'[t].pc \in SearchPc, NEW p \in Player, p \notin overlooked'[n]
               PROVE  p \notin Moving' /\ (Watches(p, n)' => Spots(work[t], p)')
    BY DEF Seeks
  <1>1. /\ Searching(n)' /\ Searching(n)
        /\ overlooked \in [Npc -> SUBSET Player] /\ Overlook
    BY DEF Searching, SearchPc, AwakeInv, Follows
  <1>2. p \notin Moving' /\ p \notin overlooked[n]
    BY <1>1, Overlooks
  <1>3. p \notin Moving /\ (Watches(p, n) => Spots(work[t], p))
    BY <1>2 DEF AwakeInv, Seeks, SearchPc
  <1>4. ASSUME Watches(p, n)' PROVE Spots(work[t], p)'
    <2>1. Watches(p, n)
      BY <1>4 DEF Watches, CanSee
    <2>2. SectorOf(pos[p]) \in work[t].left \/ (work[t].pc = "seek" /\ p \in work[t].seen)
      BY <1>3, <2>1 DEF Spots
    <2>3. CASE SectorOf(pos[p]) = s
      <3>1. work'[t].pc = "seek" /\ p \in work'[t].seen
        BY <1>3, <2>1, <2>3, SeenIsListed
      <3> QED
        BY <3>1 DEF Spots
    <2>4. CASE SectorOf(pos[p]) # s
      <3>1. /\ work'[t].pc = work[t].pc /\ work'[t].left = work[t].left \ {s}
            /\ work[t].seen \subseteq work'[t].seen
        BY <2>2, <2>4
      <3> QED
        BY <2>2, <2>4, <3>1 DEF Spots
    <2> QED
      BY <2>3, <2>4
  <1> QED
    BY <1>2, <1>4

\* An NPC's turn goes on, and what it searches for is not lost.
LEMMA NpcStep ==
    ASSUME TypeOK, Ownership, AwakeInv, Follows, NEW t \in Thread, t # Db, NEW n \in Npc,
           NEW r, Start(t, r), r.self = n, work[t].self \notin Player,
           state' = state, active' = active, active[n],
           \A o \in Object \ {n} : pos'[o] = pos[o],
           r.pc \in SearchPc => Seeks(t)'
    PROVE  AwakeInv'
  <1>0. /\ Db \in Thread /\ \A p \in Player : p \in Object /\ p # n
        /\ \A m \in Npc : m \in Object
    BY IdAssumption DEF Thread, Object
  <1>1. work'[t] = r /\ \A u \in Thread \ {t} : work'[u] = work[u]
    BY DEF TypeOK
  <1>2. ASSUME NEW p \in Player, NEW m \in Npc PROVE Roused(p, m)
    <2> SUFFICES ASSUME Watches(p, m)', p \notin overlooked[m], ~active[m]
                 PROVE  \E u \in Thread : Looks(work[u], p, m)'
      BY DEF Roused
    <2>1. m # n /\ pos'[m] = pos[m] /\ pos'[p] = pos[p]
      BY <1>0
    <2>2. Watches(p, m)
      BY <2>1 DEF Watches, CanSee
    <2>3. PICK u \in Thread : Looks(work[u], p, m)
      BY <2>2 DEF AwakeInv, Awake
    <2>4. u # t
      BY <2>3 DEF Looks
    <2>5. Looks(work[u], p, m)'
      BY <1>1, <2>1, <2>3, <2>4 DEF Looks
    <2> QED
      BY <2>5
  <1>3. Entering'
    BY <1>0, <1>1 DEF AwakeInv, Entering
  <1>4. /\ \A m \in Npc : r.self # m => pos'[m] = pos[m]
        /\ \A p \in Player : pos'[p] = pos[p]
    BY <1>0
  <1> QED
    BY <1>2, <1>3, <1>4, AwakeStep

\* A chase ends the search.
LEMMA ChaseEnds ==
    ASSUME TypeOK, NEW t \in Thread, NEW n, NEW p, Chase(t, n, p)
    PROVE  work'[t].pc \notin SearchPc
  <1> DEFINE i == [Idle EXCEPT !.pc = "schedule", !.self = n, !.me = n]
             j == [[Idle EXCEPT !.prev = view[n]] EXCEPT !.pc = "place", !.self = n, !.me = n]
  <1>1. i.pc = "schedule" /\ j.pc = "place"
    BY DEF Idle
  <1>2. Start(t, i) \/ Start(t, j)
    BY DEF Chase, Step, Turn
  <1> HIDE DEF i, j
  <1>3. work'[t] = i \/ work'[t] = j
    BY <1>2 DEF TypeOK
  <1> QED
    BY <1>1, <1>3 DEF SearchPc

\* The search for players advances by one sector, or ends.
LEMMA LookingAwake ==
    ASSUME TypeOK, Ownership, OneToken, PlaceInv, AwakeInv, Follows, NEW t \in Thread,
           Looking(t) \/ (DiffEnd(t) /\ work[t].me \in Npc)
    PROVE  AwakeInv'
  <1>0. work[t] \in Handler /\ work[t].pc \in {"seek", "decide", "diff"}
    BY DEF TypeOK, Looking, Seek, SeekEnd, Decide, DiffEnd
  <1>1. PICK n \in Npc : n \in Object /\ work[t].self = n /\ work[t].me = n
    <2>1. Owned(work[t]) /\ work[t].pc \in WalkPc \union NpcPc
      BY <1>0 DEF Ownership, NpcPc, WalkPc
    <2>2. CASE work[t].pc = "diff"
      BY <2>1, <2>2 DEF Owned, Object, Looking, Seek, SeekEnd, Decide
    <2>3. CASE work[t].pc # "diff"
      BY <1>0, <2>1, <2>3 DEF Owned, Object, NpcPc
    <2> QED
      BY <2>2, <2>3
  <1>2. around[n] = Around(pos[n]) /\ t # Db /\ work[t].self \notin Player /\ active[n]
    <2>1. around[n] = Around(pos[n])
      BY <1>0, <1>1, SearcherPlaced DEF SearchPc
    <2>2. active[n]
      BY <1>1 DEF OneToken, Acting
    <2> QED
      BY <1>1, <2>1, <2>2, IdAssumption DEF Ownership
  <1>3. PICK r \in Handler : /\ Start(t, r) /\ r.self = n /\ r.me = n
                             /\ \A o \in Object \ {n} : pos'[o] = pos[o]
    BY <1>1, NpcGoes DEF Goes
  <1>4. state' = state /\ active' = active
    BY <1>1, NpcKeeps
  <1>5. work'[t] = r
    BY <1>3 DEF TypeOK
  <1>6. CASE Seek(t)
    <2> DEFINE found(s) == work[t].seen \union Prey(n, s)
               q(s) == [work[t] EXCEPT !.left = work[t].left \ {s}, !.seen = found(s)]
    <2>1. PICK s \in work[t].left :
            IF work[t].left = {s} /\ found(s) = {} THEN Turn(t, n, "sleep", Idle)
            ELSE Start(t, q(s))
      BY <1>1, <1>6 DEF Seek
    <2>2. s \in Sector /\ work[t].pc = "seek" /\ pos' = pos
      BY <1>0, <1>6 DEF Seek, Handler, placeVars
    <2>3. \A p \in Player : Watches(p, n) /\ p \in members[s] => p \in Prey(n, s)
      BY DEF Watches, Prey, ValidTarget
    <2>5. CASE ~(work[t].left = {s} /\ found(s) = {})
      <3>1. Start(t, q(s))
        BY <2>1, <2>5
      <3>2. /\ q(s).pc = "seek" /\ q(s).left = work[t].left \ {s} /\ q(s).seen = found(s)
        BY <1>0, <2>2 DEF Handler
      <3> HIDE DEF q
      <3>3. work'[t] = q(s)
        BY <3>1 DEF TypeOK
      <3>4. Seeks(t)'
        BY <1>1, <1>3, <1>4, <1>5, <2>2, <2>3, <3>2, <3>3, SearchPasses
      <3> QED
        BY <1>1, <1>2, <1>3, <1>4, <3>4, NpcStep
    <2>6. found(s) = {} => work[t].seen = {} /\ Prey(n, s) = {}
      OBVIOUS
    <2> HIDE DEF found
    <2>7. ASSUME work[t].left = {s}, found(s) = {} PROVE Seeks(t)'
      BY <1>1, <1>3, <1>4, <1>5, <2>2, <2>3, <2>6, <2>7, SearchPasses
    <2> QED
      BY <1>1, <1>2, <1>3, <1>4, <2>5, <2>7, NpcStep
  <1>7. CASE SeekEnd(t)
    <2>1. r.pc \notin SearchPc
      BY <1>1, <1>5, <1>7, ChaseEnds DEF SeekEnd, AwakeInv, CalmNight
    <2> QED
      BY <1>1, <1>2, <1>3, <1>4, <2>1, NpcStep
  <1>8. CASE Decide(t)
    <2> DEFINE q(s) == [work[t] EXCEPT !.left = work[t].left \ {s}]
    <2>1. PICK s \in work[t].left :
            \/ Turn(t, n, "schedule", Idle)
            \/ /\ ~PlayerExists(n, s)
               /\ IF work[t].left = {s} THEN Turn(t, n, "sleep", Idle) ELSE Start(t, q(s))
      BY <1>1, <1>8 DEF Decide
    <2>2. s \in Sector /\ work[t].pc = "decide" /\ pos' = pos
      BY <1>0, <1>8 DEF Decide, Handler, placeVars
    <2>3. CASE Turn(t, n, "schedule", Idle)
      <3>1. r.pc \notin SearchPc
        BY <1>5, <2>3 DEF Turn, TypeOK, Idle, SearchPc
      <3> QED
        BY <1>1, <1>2, <1>3, <1>4, <3>1, NpcStep
    <2>4. CASE ~Turn(t, n, "schedule", Idle)
      <3>1. /\ q(s).pc = "decide" /\ q(s).left = work[t].left \ {s} /\ q(s).seen = work[t].seen
        BY <1>0, <2>2 DEF Handler
      <3>2. \A p \in Player : ~(Watches(p, n) /\ p \in members[s])
        BY <2>1, <2>4 DEF Watches, PlayerExists
      <3>3. ASSUME work[t].left # {s} PROVE work'[t] = q(s)
        BY <2>1, <2>4, <3>3 DEF TypeOK
      <3> HIDE DEF q
      <3>4. Seeks(t)'
        BY <1>1, <1>3, <1>4, <1>5, <2>2, <3>1, <3>2, <3>3, SearchPasses
      <3> QED
        BY <1>1, <1>2, <1>3, <1>4, <3>4, NpcStep
    <2> QED
      BY <2>3, <2>4
  <1>9. CASE DiffEnd(t)
    <2>1. pos' = pos /\ (Turn(t, n, "schedule", Idle) \/ Search(t, n, "decide"))
      BY <1>1, <1>9, IdAssumption DEF DiffEnd, placeVars
    <2>2. CASE Turn(t, n, "schedule", Idle)
      <3>1. r.pc \notin SearchPc
        BY <1>5, <2>2 DEF Turn, TypeOK, Idle, SearchPc
      <3> QED
        BY <1>1, <1>2, <1>3, <1>4, <3>1, NpcStep
    <2>3. CASE Search(t, n, "decide")
      <3>1. Seeks(t)'
        BY <1>2, <1>4, <2>1, <2>3, SearchBegins
      <3> QED
        BY <1>1, <1>2, <1>3, <1>4, <3>1, NpcStep
    <2> QED
      BY <2>1, <2>2, <2>3
  <1> QED
    BY <1>6, <1>7, <1>8, <1>9 DEF Looking

\* An NPC has its next turn, or falls asleep seen by nobody it has not missed.
LEMMA EndAwake ==
    ASSUME TypeOK, Ownership, AwakeInv, Follows, NEW t \in Thread, Schedule(t) \/ Sleep(t)
    PROVE  AwakeInv'
  <1>0. /\ pos' = pos /\ state' = state /\ Start(t, Idle)
        /\ work[t].pc \in {"schedule", "sleep"}
    BY DEF Schedule, Sleep, Finish, placeVars
  <1>1. Idle.pc = "idle" /\ Idle.self = None
    BY DEF Idle
  <1>2. PICK r : r = Idle
    OBVIOUS
  <1>3. CASE Schedule(t)
    <2>1. active' = active
      BY <1>3 DEF Schedule
    <2>2. r.pc \notin SearchPc /\ r.pc \notin EnterPc /\ Start(t, r)
      BY <1>0, <1>1, <1>2 DEF SearchPc, EnterPc
    <2> QED
      BY <1>0, <2>1, <2>2, RestStep
  <1>4. CASE Sleep(t)
    <2>1. PICK n \in Npc : n = work[t].me
      BY <1>4 DEF Sleep, Ownership, Owned, NpcPc
    <2>2. \A p \in Player : p \notin overlooked[n] => ~Watches(p, n)
      BY <1>4, <2>1 DEF Sleep, AwakeInv, Seeks, SearchPc, Spots
    <2>3. \A m \in Npc \ {n} : active'[m] = active[m]
      BY <1>4, <2>1 DEF Sleep, TypeOK
    <2>4. work'[t] = r /\ \A u \in Thread \ {t} : work'[u] = work[u]
      BY <1>0, <1>2 DEF TypeOK
    <2>5. \A p \in Player : \A m : Watches(p, m)' <=> Watches(p, m)
      BY <1>0 DEF Watches, CanSee
    <2>8. ASSUME NEW p \in Player, NEW m \in Npc PROVE Roused(p, m)
      <3> SUFFICES ASSUME Watches(p, m)', p \notin overlooked[m], ~active'[m]
                   PROVE  \E u \in Thread : Looks(work[u], p, m)'
        BY DEF Roused
      <3>1. Watches(p, m) /\ m # n /\ ~active[m]
        BY <2>2, <2>3, <2>5
      <3>2. PICK u \in Thread : Looks(work[u], p, m)
        BY <3>1 DEF AwakeInv, Awake
      <3>3. u # t
        BY <1>0, <3>2 DEF Looks
      <3>4. Looks(work[u], p, m)'
        BY <1>0, <2>4, <3>2, <3>3 DEF Looks
      <3> QED
        BY <3>4
    <2>9. r.pc \notin SearchPc
      BY <1>1, <1>2 DEF SearchPc
    <2>10. Entering'
      <3>1. work'[Db].pc \in EnterPc => work'[Db] = work[Db]
        BY <1>1, <1>2, <2>4 DEF EnterPc, Thread
      <3> QED
        BY <1>0, <3>1 DEF AwakeInv, Entering
    <2> QED
      BY <1>0, <1>2, <2>8, <2>9, <2>10, AwakeStep
  <1> QED
    BY <1>3, <1>4

\* Where a player goes he will look.
LEMMA MoveAwake ==
    ASSUME TypeOK, Ownership, PlaceInv, AwakeInv, Follows, NEW p \in Player, NEW t \in Thread,
           \/ t \in Worker /\ Move(t, p)
           \/ t = Db /\ \E x \in Cell : Enter(p, x)
    PROVE  AwakeInv'
  <1> DEFINE q == [Idle EXCEPT !.pc = "place", !.self = p, !.me = p]
  <1>0. /\ p \in Object /\ Db \in Thread /\ Db \notin Worker
        /\ \A n \in Npc : n \in Object /\ n # p
    BY IdAssumption, DbAssumption DEF Object, Thread
  <1>1. /\ state' = state /\ active' = active /\ Start(t, q) /\ work[t].pc = "idle"
        /\ t = Db => state[p] # "INGAME"
    BY <1>0 DEF Move, Commands, Enter, MayStart, npcVars
  <1>2. \A o \in Object \ {p} : pos'[o] = pos[o]
    BY <1>0 DEF Move, Enter, TypeOK
  <1>3. q.pc = "place" /\ q.self = p /\ q.me = p
    BY DEF Idle
  <1> HIDE DEF q
  <1>4. PICK r : r = q
    OBVIOUS
  <1>5. work'[t] = r /\ \A u \in Thread \ {t} : work'[u] = work[u]
    BY <1>1, <1>4 DEF TypeOK
  <1>6. ASSUME NEW n \in Npc PROVE Roused(p, n)
    <2>1. CASE t = Db
      BY <1>1, <2>1 DEF Roused, Watches
    <2>2. CASE t # Db
      <3>1. Looks(r, p, n)'
        BY <1>3, <1>4 DEF Looks
      <3>2. Looks(work[t], p, n)'
        BY <1>5, <3>1
      <3> QED
        BY <3>2 DEF Roused
    <2> QED
      BY <2>1, <2>2
  <1>7. ASSUME NEW o \in Player, NEW n \in Npc, o # p PROVE Roused(o, n)
    <2> SUFFICES ASSUME Watches(o, n)', o \notin overlooked[n], ~active[n]
                 PROVE  \E u \in Thread : Looks(work[u], o, n)'
      BY <1>1 DEF Roused
    <2>1. Watches(o, n)
      BY <1>0, <1>1, <1>2, <1>7 DEF Watches, CanSee, Object
    <2>2. PICK u \in Thread : Looks(work[u], o, n)
      BY <2>1 DEF AwakeInv, Awake
    <2>3. u # t
      BY <1>1, <2>2 DEF Looks
    <2>4. pos'[n] = pos[n]
      BY <1>0, <1>2
    <2>5. Looks(work[u], o, n)'
      BY <1>5, <2>2, <2>3, <2>4 DEF Looks
    <2> QED
      BY <2>5
  <1>8. /\ r.pc \notin SearchPc /\ r.me = p
        /\ \A n \in Npc : state'[n] = state[n] /\ pos'[n] = pos[n]
        /\ \A o \in Player \ {p} : state'[o] = state[o] /\ pos'[o] = pos[o]
        /\ \A o \in Player, n \in Npc : Roused(o, n)
    BY <1>0, <1>1, <1>2, <1>3, <1>4, <1>6, <1>7 DEF SearchPc, Object
  <1>9. Entering'
    <2>1. CASE t = Db
      BY <1>1, <1>3, <1>4, <1>5, <2>1 DEF Entering
    <2>2. CASE t # Db
      BY <1>0, <1>1, <1>5, <2>2 DEF Entering, AwakeInv
    <2> QED
      BY <2>1, <2>2
  <1> QED
    BY <1>1, <1>4, <1>8, <1>9, AwakeStep

\* A player who leaves, and one who attacks, has been seen by the awake.
LEMMA AttackAwake ==
    ASSUME TypeOK, Ownership, PlaceInv, AwakeInv, Follows, NEW p \in Player, NEW t \in Worker,
           Leave(t, p) \/ \E n \in Npc : Kill(t, p, n)
    PROVE  AwakeInv'
  <1> DEFINE q(L) == [Idle EXCEPT !.pc = "leave", !.self = p, !.me = p, !.left = L]
             v(n, S) == [Idle EXCEPT !.pc = "bury", !.self = p, !.me = n, !.seen = S]
  <1>0. t \in Thread
    BY DEF Thread
  <1>1. /\ pos' = pos /\ active' = active /\ work[t].pc = "idle"
        /\ \A o \in Object : state'[o] = "INGAME" => state[o] = "INGAME"
        /\ (\E L : Start(t, q(L))) \/ (\E n, S : Start(t, v(n, S)))
    <2>1. CASE Leave(t, p)
      BY <1>0, <2>1 DEF Leave, MayStart, placeVars, npcVars
    <2>2. CASE \E n \in Npc : Kill(t, p, n)
      <3>1. PICK n \in Npc : Kill(t, p, n)
        BY <2>2
      <3>2. Start(t, v(n, view[n]))
        BY <3>1 DEF Kill
      <3>3. /\ pos' = pos /\ active' = active /\ work[t].pc = "idle"
                /\ \A o \in Object : state'[o] = "INGAME" => state[o] = "INGAME"
        BY <1>0, <3>1 DEF Kill, Commands, MayStart, npcVars, TypeOK
      <3> HIDE DEF v
      <3> QED
        BY <3>2, <3>3
    <2> QED
      BY <2>1, <2>2
  <1>2. \A L, n, S : q(L).pc = "leave" /\ v(n, S).pc = "bury"
    BY DEF Idle
  <1> HIDE DEF q, v
  <1>3. ASSUME NEW r, Start(t, r), r.pc \in {"leave", "bury"} PROVE AwakeInv'
    BY <1>0, <1>1, <1>3, RestStep DEF EnterPc, SearchPc
  <1> QED
    BY <1>1, <1>2, <1>3

\* A slot that is issued is not in the game yet.
LEMMA ConnectAwake ==
    ASSUME TypeOK, Ownership, PlaceInv, AwakeInv, Follows, NEW p \in Player, Connect(p)
    PROVE  AwakeInv'
  <1>0. /\ p \in Object /\ Db \in Thread /\ \A n \in Npc : n \in Object /\ n # p
    BY IdAssumption DEF Object, Thread
  <1>1. /\ state'[p] = "ACTIVE" /\ work' = work /\ active' = active
        /\ \A o \in Object \ {p} : state'[o] = state[o] /\ pos'[o] = pos[o]
    BY <1>0 DEF Connect, npcVars, TypeOK
  <1>2. \A o \in Player, n \in Npc : Watches(o, n)' => Watches(o, n)
    <2> SUFFICES ASSUME NEW o \in Player, NEW n \in Npc, Watches(o, n)' PROVE Watches(o, n)
      OBVIOUS
    <2>1. o # p /\ o \in Object
      BY <1>1 DEF Watches, Object
    <2> QED
      BY <1>0, <1>1, <2>1 DEF Watches, CanSee
  <1>3. ASSUME NEW o \in Player, NEW n \in Npc PROVE Roused(o, n)
    <2>1. pos'[n] = pos[n]
      BY <1>0, <1>1
    <2>2. \A u : Looks(work[u], o, n)' <=> Looks(work[u], o, n)
      BY <1>1, <2>1 DEF Looks
    <2> QED
      BY <1>1, <1>2, <2>2 DEF AwakeInv, Awake, Roused
  <1>4. Start(Db, work[Db]) /\ work[Db].pc \notin SearchPc
    BY <1>0, <1>1 DEF TypeOK, Ownership, Owned, SearchPc, NpcPc
  <1>5. Entering'
    <2> SUFFICES ASSUME work[Db].pc \in EnterPc PROVE state'[work[Db].me] # "INGAME"
      BY <1>1 DEF Entering
    <2>1. work[Db].me \in Object /\ state[work[Db].me] # "INGAME"
      BY <1>0 DEF Ownership, Owned, EnterPc, AwakeInv, Entering
    <2> QED
      BY <1>1, <2>1
  <1>6. /\ \A n \in Npc : state'[n] = state[n] /\ pos'[n] = pos[n]
        /\ \A o \in Player : state'[o] = "INGAME" => state[o] = "INGAME" /\ pos'[o] = pos[o]
    BY <1>0, <1>1 DEF Object
  <1>7. PICK r : r = work[Db]
    OBVIOUS
  <1> QED
    BY <1>0, <1>3, <1>4, <1>5, <1>6, <1>7, AwakeStep

\* The timer's event changes nobody's view.
LEMMA FireAwake ==
    ASSUME TypeOK, Ownership, AwakeInv, Follows, NEW n \in Npc, Fire(n)
    PROVE  AwakeInv'
  <1>1. Db \in Thread /\ pos' = pos /\ state' = state /\ active' = active /\ work' = work
    BY DEF Thread, Fire, placeVars
  <1>2. Start(Db, work[Db])
    BY <1>1 DEF TypeOK
  <1>3. PICK r : r = work[Db]
    OBVIOUS
  <1> QED
    BY <1>1, <1>2, <1>3, FadeStep

\* An NPC that begins its turn is awake, and has its sectors still to pass by.
LEMMA ActAwake ==
    ASSUME TypeOK, Ownership, OneToken, PlaceInv, AwakeInv, Follows,
           NEW t \in Worker, NEW n \in Npc, Act(t, n)
    PROVE  AwakeInv'
  <1>0. t \in Thread /\ n \in Object /\ t # Db
    BY DbAssumption DEF Thread, Object
  <1>1. state' = state /\ active' = active /\ posted[n] > 0 /\ work[t].self \notin Player
    <2>1. work[t].self = None /\ posted[n] > 0
      BY ActTakes
    <2> QED
      BY <1>0, <2>1, NpcKeeps, NoneAssumption DEF Object
  <1>2. active[n] /\ \A u \in Thread : ~Acting(u, n)
    <2>1. timer[n] + posted[n] = 1
      <3>1. timer[n] \in Nat /\ posted[n] \in Nat
        BY DEF TypeOK
      <3>2. timer[n] + posted[n] <= 1
        BY DEF OneToken
      <3> QED
        BY <1>1, <3>1, <3>2
    <2> QED
      BY <2>1 DEF OneToken
  <1>3. around[n] = Around(pos[n])
    <2>1. Placed(n) /\ ~Serving(n)
      BY <1>0, <1>2 DEF PlaceInv, Serving, Acting
    <2> QED
      BY <2>1 DEF Placed, Settled
  <1>4. PICK r \in Handler : /\ Start(t, r) /\ r.self = n
                             /\ \A o \in Object \ {n} : pos'[o] = pos[o]
    BY <1>0, NpcGoes DEF Goes
  <1>5. work'[t] = r
    BY <1>0, <1>4 DEF TypeOK
  <1>6. r.pc \in SearchPc => Seeks(t)'
    <2>1. CASE ActAgro(t, n)
      BY <1>0, <1>5, <2>1, ChaseEnds DEF ActAgro, AwakeInv, CalmNight
    <2>2. CASE ActAgroSeek(t, n)
      BY <1>0, <1>1, <1>3, <2>2, SearchBegins DEF ActAgroSeek, placeVars
    <2>3. CASE ActPeace(t, n)
      <3>1. \/ \E x : Step(t, n, x)
            \/ Search(t, n, "decide") /\ pos' = pos
        BY <2>3 DEF ActPeace
      <3>2. ASSUME NEW x, Step(t, n, x) PROVE r.pc \notin SearchPc
        BY <1>0, <1>5, <3>2 DEF Step, Turn, TypeOK, Idle, SearchPc
      <3> QED
        BY <1>0, <1>1, <1>3, <3>1, <3>2, SearchBegins
    <2> QED
      BY <2>1, <2>2, <2>3 DEF Act
  <1> QED
    BY <1>0, <1>1, <1>2, <1>4, <1>6, NpcStep

----------------------------------------------------------------------------
\* No player is in the game when the server has started.
LEMMA InitAwake == CalmNight /\ WatchInit => AwakeInv
  <1> SUFFICES ASSUME CalmNight, WatchInit PROVE AwakeInv
    OBVIOUS
  <1>1. \A t \in Thread : work[t].pc = "idle"
    BY DEF WatchInit, Init, Idle
  <1>2. \A p \in Player : p \in Object /\ state[p] = "FREE"
    BY IdAssumption DEF WatchInit, Init, Object
  <1>3. Db \in Thread /\ overlooked \in [Npc -> SUBSET Player]
    BY DEF Thread, WatchInit
  <1> QED
    BY <1>1, <1>2, <1>3
       DEF AwakeInv, Awake, Watches, Seeks, SearchPc, Entering, EnterPc

\* One step of such a world keeps the NPCs that are seen awake.
LEMMA NextAwake == IInv /\ IInv' /\ PlaceInv /\ AwakeInv /\ WatchNext => AwakeInv'
  <1> SUFFICES ASSUME TypeOK, Ownership, OneToken, PlaceInv, AwakeInv, Follows, Next
               PROVE  AwakeInv'
    BY DEF IInv, WatchNext, Follows
  <1>1. ASSUME NEW t \in Thread, Continue(t) PROVE AwakeInv'
    <2>1. CASE DiffEnd(t)
      <3>1. work[t].me \in Npc \union Player
        BY <2>1 DEF DiffEnd, Ownership, Owned, Object
      <3> QED
        BY <2>1, <3>1, DiffAwake, LookingAwake
    <2>2. CASE Walk(t)
      BY <2>1, <2>2, PlaceAwake, LookAwake, ScanAwake, DiffAwake DEF Walk
    <2>3. CASE EndTurn(t)
      BY <2>3, LookingAwake, EndAwake DEF EndTurn, Looking
    <2> QED
      BY <1>1, <2>2, <2>3, DoAwake, LeaveAwake DEF Continue
  <1>2. CASE EnterStep
    BY <1>2, IngameAwake, EnterLockAwake, EnterMeetAwake DEF EnterStep
  <1>3. ASSUME NEW p \in Player, Connect(p) \/ \E x \in Cell : Enter(p, x) PROVE AwakeInv'
    <2>1. Db \in Thread
      BY DEF Thread
    <2> QED
      BY <1>3, <2>1, ConnectAwake, MoveAwake
  <1>4. ASSUME NEW t \in Worker, NEW p \in Player, Command(t, p) PROVE AwakeInv'
    <2>1. t \in Thread /\ ~Teleport(t, p)
      BY DEF Thread, Teleport, PlaceInv, Calm
    <2> QED
      BY <1>4, <2>1, MoveAwake, AttackAwake DEF Command
  <1>5. ASSUME NEW t \in Worker, NEW n \in Npc, Act(t, n) PROVE AwakeInv'
    BY <1>5, ActAwake
  <1>6. ASSUME NEW n \in Npc, Fire(n) PROVE AwakeInv'
    BY <1>6, FireAwake
  <1> QED
    BY <1>1, <1>2, <1>3, <1>4, <1>5, <1>6 DEF Next

\* Whoever is seen is always awake, or about to be woken, or was overlooked.
LEMMA AwakeInvariance == Calm /\ CalmNight /\ WatchSpec => []AwakeInv
  <1>1. CalmNight /\ WatchInit => AwakeInv
    BY InitAwake
  <1>2. IInv /\ IInv' /\ PlaceInv /\ AwakeInv /\ [WatchNext]_<<vars, overlooked>> => AwakeInv'
    <2>1. CASE WatchNext
      BY <2>1, NextAwake
    <2>2. CASE UNCHANGED <<vars, overlooked>>
      BY <2>2 DEF vars, placeVars, npcVars, AwakeInv, CalmNight, Awake, Watches, CanSee, Looks,
                  Seeks, Spots, Moving, Entering
    <2> QED
      BY <2>1, <2>2
  <1>3. WatchSpec => Spec
    <2>1. WatchInit => Init
      BY DEF WatchInit
    <2>2. [WatchNext]_<<vars, overlooked>> => [Next]_vars
      BY DEF WatchNext
    <2> QED
      BY <2>1, <2>2, PTL DEF WatchSpec, Spec
  <1> QED
    BY <1>1, <1>2, <1>3, Invariance, PlaceInvariance, PTL DEF WatchSpec

\* When nothing is under way, every living NPC that a player in the game can see
\* is awake, on every map and with any number of players and NPCs acting at
\* once, whatever they do while the NPC looks for players sector by sector and
\* goes to sleep; the players who were moving meanwhile are excepted, until they
\* move again (Player.cpp:430; Npc.cpp:61, 103, 214-256, 288-311).
THEOREM WatchedNpcsAreAwake == Calm /\ CalmNight /\ WatchSpec => []AwakeWhenWatched
  <1>1. AwakeInv => AwakeWhenWatched
    <2> SUFFICES ASSUME AwakeInv, Quiet, NEW n \in Npc, NEW p \in Player, Watches(p, n),
                        p \notin overlooked[n]
                 PROVE  active[n]
      BY DEF AwakeWhenWatched, Watches
    <2> QED
      BY DEF AwakeInv, Awake, Quiet, Looks
  <1> QED
    BY <1>1, AwakeInvariance, PTL

============================================================================
