----------------------------- MODULE LootProofs -----------------------------
(* Theorems about Loot, for any number of workers, players, NPCs and slots. *)
EXTENDS Loot, SnowflakeProofs, FiniteSetTheorems

----------------------------------------------------------------------------
(* Numbers and sums.                                                        *)

(* A non-empty set of numbers has a least one.                              *)
Less == {q \in Nat \X Nat : q[1] < q[2]}
LEMMA LeastNumber ==
    ASSUME NEW T, T \subseteq Nat, T # {}
    PROVE  \E x \in T : \A y \in T : x <= y
<1>1. Less = OpToRel(<, Nat)
  BY DEF Less, OpToRel
<1>2. IsWellFoundedOn(Less, Nat)
  BY <1>1, NatLessThanWellFounded
<1>3. PICK x \in T : \A y \in T : <<y, x>> \notin Less
  BY <1>2, WFMin
<1>4. ASSUME NEW y \in T PROVE x <= y
  <2>1. x \in Nat /\ y \in Nat
    OBVIOUS
  <2>2. <<y, x>> \notin Less
    BY <1>3
  <2>3. ~(y < x)
    BY <2>1, <2>2 DEF Less
  <2>4. QED BY <2>1, <2>3
<1>5. QED BY <1>4

(* The sum of g over s, as the number of the units in it.                   *)
Units(g, s) == {q \in s \X Nat : q[2] < g[q[1]]}
Weight(g, s) == Cardinality(Units(g, s))

LEMMA UnitsOfOne ==
    ASSUME NEW S, NEW g \in [S -> Nat], NEW x \in S
    PROVE  /\ Units(g, {x}) = {x} \X (0 .. (g[x] - 1))
           /\ IsFiniteSet(Units(g, {x})) /\ Weight(g, {x}) = g[x]
<1>1. g[x] \in Nat
  OBVIOUS
<1>2. Units(g, {x}) = {x} \X (0 .. (g[x] - 1))
  BY <1>1 DEF Units
<1>3. IsFiniteSet(0 .. (g[x] - 1)) /\ Cardinality(0 .. (g[x] - 1)) = g[x]
  BY <1>1, FS_Interval
<1>4. IsFiniteSet({x}) /\ Cardinality({x}) = 1
  BY FS_Singleton
<1> DEFINE I == 0 .. (g[x] - 1)
<1>5. IsFiniteSet(I) /\ Cardinality(I) = g[x]
  BY <1>3
<1> HIDE DEF I
<1>6. IsFiniteSet({x} \X I) /\ Cardinality({x} \X I) = 1 * g[x]
  BY <1>4, <1>5, FS_Product
<1>7. Units(g, {x}) = {x} \X I
  BY <1>2 DEF I
<1>8. 1 * g[x] = g[x]
  BY <1>1
<1>9. IsFiniteSet(Units(g, {x})) /\ Weight(g, {x}) = g[x]
  BY <1>6, <1>7, <1>8 DEF Weight
<1>10. QED BY <1>2, <1>9

LEMMA UnitsFinite ==
    ASSUME NEW S, IsFiniteSet(S), NEW g \in [S -> Nat]
    PROVE  IsFiniteSet(Units(g, S))
<1> DEFINE T == {Units(g, {x}) : x \in S}
           f == [x \in S |-> Units(g, {x})]
<1>1. f \in Surjection(S, T)
  BY DEF Surjection
<1>2. \A U \in T : IsFiniteSet(U)
  <2>1. ASSUME NEW x \in S PROVE IsFiniteSet(Units(g, {x}))
    BY UnitsOfOne
  <2>2. QED BY <2>1
<1>3. Units(g, S) = UNION T
  BY DEF Units
<1> HIDE DEF T, f
<1>4. IsFiniteSet(T)
  BY <1>1, FS_Surjection
<1>5. QED BY <1>2, <1>3, <1>4, FS_UNION

LEMMA WeightAdds ==
    ASSUME NEW S, IsFiniteSet(S), NEW g \in [S -> Nat], NEW s \in SUBSET S, NEW x \in s
    PROVE  /\ Weight(g, s) = g[x] + Weight(g, s \ {x})
           /\ Weight(g, s \ {x}) \in Nat
<1> DEFINE A == Units(g, s \ {x})
           B == Units(g, {x})
<1>1. IsFiniteSet(B) /\ Cardinality(B) = g[x] /\ g[x] \in Nat
  BY UnitsOfOne DEF Weight
<1>2. IsFiniteSet(Units(g, S)) /\ A \in SUBSET Units(g, S)
  BY UnitsFinite DEF Units
<1>3. A \union B = Units(g, s) /\ A \intersect B = {}
  BY DEF Units
<1> HIDE DEF A, B
<1>4. IsFiniteSet(A) /\ Cardinality(A) \in Nat
  BY <1>2, FS_Subset, FS_CardinalityType
<1>5. Cardinality(A \union B) = Cardinality(A) + Cardinality(B) - Cardinality({})
  BY <1>1, <1>3, <1>4, FS_Union
<1>6. Cardinality(Units(g, s)) = Cardinality(A) + g[x] - 0
  BY <1>1, <1>3, <1>5, FS_EmptySet
<1>7. QED BY <1>1, <1>4, <1>6 DEF Weight, A

LEMMA WeightOfNone == ASSUME NEW g PROVE Weight(g, {}) = 0
<1>1. Units(g, {}) = {}
  BY DEF Units
<1>2. QED BY <1>1, FS_EmptySet DEF Weight

LEMMA SameWeight ==
    ASSUME NEW s, NEW f, NEW g, \A x \in s : f[x] = g[x]
    PROVE  Weight(f, s) = Weight(g, s)
<1>1. Units(f, s) = Units(g, s)
  BY DEF Units
<1>2. QED BY <1>1 DEF Weight

Pick(s) == CHOOSE x \in s : TRUE
Sums(f, g, S) == f = [s \in SUBSET S |-> IF s = {} THEN 0 ELSE g[Pick(s)] + f[s \ {Pick(s)}]]

(* The recursion of MapThenSumSet has a solution, and only this one.        *)
LEMMA WeightSums ==
    ASSUME NEW S, IsFiniteSet(S), NEW g \in [S -> Nat]
    PROVE  Sums([s \in SUBSET S |-> Weight(g, s)], g, S)
<1> DEFINE f == [s \in SUBSET S |-> Weight(g, s)]
<1>1. ASSUME NEW s \in SUBSET S
      PROVE  f[s] = IF s = {} THEN 0 ELSE g[Pick(s)] + f[s \ {Pick(s)}]
  <2>1. CASE s = {}
    BY <2>1, WeightOfNone
  <2>2. CASE s # {}
    <3>1. Pick(s) \in s
      BY <2>2 DEF Pick
    <3>2. Weight(g, s) = g[Pick(s)] + Weight(g, s \ {Pick(s)})
      BY <3>1, WeightAdds
    <3>3. f[s \ {Pick(s)}] = Weight(g, s \ {Pick(s)})
      OBVIOUS
    <3>4. QED BY <2>2, <3>2, <3>3
  <2>3. QED BY <2>1, <2>2
<1>2. f = [s \in SUBSET S |-> f[s]]
  OBVIOUS
<1> HIDE DEF f
<1>3. f = [s \in SUBSET S |-> IF s = {} THEN 0 ELSE g[Pick(s)] + f[s \ {Pick(s)}]]
  BY <1>1, <1>2
<1>4. QED BY <1>3 DEF Sums, f

LEMMA SumsIsWeight ==
    ASSUME NEW S, IsFiniteSet(S), NEW g \in [S -> Nat], NEW f, Sums(f, g, S)
    PROVE  \A s \in SUBSET S : f[s] = Weight(g, s)
<1> DEFINE Bad == {s \in SUBSET S : f[s] # Weight(g, s)}
           T == {n \in Nat : \E s \in Bad : Cardinality(s) = n}
<1>1. ASSUME NEW s \in Bad PROVE FALSE
  <2>1. ASSUME NEW r \in SUBSET S PROVE Cardinality(r) \in Nat /\ IsFiniteSet(r)
    BY FS_Subset, FS_CardinalityType
  <2>2. T \subseteq Nat /\ T # {}
    <3>1. Cardinality(s) \in T
      BY <2>1
    <3>2. QED BY <3>1
  <2>3. PICK n \in T : \A m \in T : n <= m
    <3> HIDE DEF T
    <3>1. QED BY <2>2, LeastNumber
  <2>4. PICK r \in Bad : Cardinality(r) = n
    OBVIOUS
  <2>5. f[r] = IF r = {} THEN 0 ELSE g[Pick(r)] + f[r \ {Pick(r)}]
    BY DEF Sums
  <2>6. r # {}
    BY <2>4, <2>5, WeightOfNone
  <2>7. Pick(r) \in r
    BY <2>6 DEF Pick
  <2> DEFINE q == r \ {Pick(r)}
  <2>8. q \in SUBSET S /\ Cardinality(q) = n - 1 /\ Cardinality(q) \in Nat
    BY <2>1, <2>4, <2>7, FS_RemoveElement
  <2>9. q \notin Bad
    BY <2>3, <2>8
  <2>10. Weight(g, r) = g[Pick(r)] + Weight(g, q)
    BY <2>7, WeightAdds
  <2>11. QED BY <2>4, <2>5, <2>6, <2>8, <2>9, <2>10
<1>2. QED BY <1>1

----------------------------------------------------------------------------
(* Experience.                                                              *)

(* What a level costs: it doubles from one to the next.                     *)
LEMMA PowerType == ASSUME NEW n \in Nat PROVE 2^n \in Nat \ {0}
<1> DEFINE S == 1 .. n
<1>1. IsFiniteSet(S) /\ Cardinality(S) = n
  BY FS_Interval
<1> HIDE DEF S
<1>2. IsFiniteSet(SUBSET S) /\ Cardinality(SUBSET S) = 2^n
  BY <1>1, FS_SUBSET
<1>3. 2^n \in Nat
  BY <1>2, FS_CardinalityType
<1>4. Cardinality(SUBSET S) # 0
  BY <1>2, FS_EmptySet
<1>5. QED BY <1>2, <1>3, <1>4

LEMMA PowerStep == ASSUME NEW n \in Nat PROVE 2^(n + 1) = 2 * 2^n
<1> DEFINE S == 1 .. n
           x == n + 1
           A == SUBSET S
           B == {X \union {x} : X \in A}
           f == [X \in A |-> X \union {x}]
<1>1. IsFiniteSet(S) /\ Cardinality(S) = n /\ x \notin S /\ x \in Nat
  BY FS_Interval
<1> HIDE DEF S, x
<1>2. IsFiniteSet(A) /\ Cardinality(A) = 2^n
  BY <1>1, FS_SUBSET
<1>3. IsFiniteSet(S \union {x}) /\ Cardinality(S \union {x}) = n + 1
  BY <1>1, FS_AddElement
<1>4. Cardinality(SUBSET (S \union {x})) = 2^(n + 1)
  BY <1>3, FS_SUBSET
<1>5. SUBSET (S \union {x}) = A \union B
  <2>1. ASSUME NEW Y \in SUBSET (S \union {x}) PROVE Y \in A \union B
    <3>1. CASE x \in Y
      <4>1. Y \ {x} \in A /\ Y = (Y \ {x}) \union {x}
        BY <3>1
      <4>2. QED BY <4>1
    <3>2. CASE x \notin Y
      BY <3>2
    <3>3. QED BY <3>1, <3>2
  <2>2. ASSUME NEW Y \in A \union B PROVE Y \in SUBSET (S \union {x})
    OBVIOUS
  <2>3. QED BY <2>1, <2>2
<1>6. A \intersect B = {}
  BY <1>1
<1>7. f \in Bijection(A, B)
  <2>1. f \in [A -> B]
    OBVIOUS
  <2>2. ASSUME NEW X \in A, NEW Y \in A, f[X] = f[Y] PROVE X = Y
    <3>1. X \union {x} = Y \union {x} /\ x \notin X /\ x \notin Y
      BY <2>2, <1>1
    <3>2. QED BY <3>1
  <2>3. ASSUME NEW Y \in B PROVE \E X \in A : f[X] = Y
    OBVIOUS
  <2> HIDE DEF f, A, B
  <2>4. QED BY <2>1, <2>2, <2>3 DEF Bijection, Injection, Surjection, IsInjective
<1>8. ExistsBijection(A, B)
  BY <1>7 DEF ExistsBijection
<1> HIDE DEF A, B, f
<1>9. IsFiniteSet(B) /\ Cardinality(B) = 2^n
  BY <1>2, <1>8, FS_Bijection
<1>10. Cardinality(A \union B) = 2^n + 2^n - Cardinality({})
  BY <1>2, <1>6, <1>9, FS_Union
<1>11. 2^(n + 1) = 2^n + 2^n - 0
  BY <1>4, <1>5, <1>10, FS_EmptySet
<1>12. 2^n \in Nat
  BY PowerType
<1>13. QED BY <1>11, <1>12

LEMMA RequiredDoubles ==
    ASSUME NEW l \in Nat \ {0} PROVE Required(l + 1) = 2 * Required(l)
<1>1. 2^l = 2 * 2^(l - 1) /\ 2^(l - 1) \in Nat
  <2>1. PICK n \in Nat : l = n + 1
    <3>1. l - 1 \in Nat /\ l = (l - 1) + 1
      OBVIOUS
    <3>2. QED BY <3>1
  <2>2. l - 1 = n
    BY <2>1
  <2>3. QED BY <2>1, <2>2, PowerStep, PowerType
<1>2. (l + 1) - 1 = l
  OBVIOUS
<1>3. QED BY <1>1, <1>2 DEF Required

LEMMA RequiredType == ASSUME NEW l \in Nat \ {0} PROVE Required(l) \in Nat /\ Required(l) >= 100
<1>1. 2^(l - 1) \in Nat \ {0}
  BY PowerType
<1>2. QED BY <1>1 DEF Required

LEMMA RewardType == ASSUME NEW n \in Npc PROVE Reward(n) \in Nat /\ Reward(n) <= 200
<1>1. PICK k \in 1 .. 10 : NpcLevel[n] = k
  BY LevelAssumption
<1>2. k * k <= 100 /\ k * k \in Nat
  <2>1. k = 1 \/ k = 2 \/ k = 3 \/ k = 4 \/ k = 5 \/ k = 6 \/ k = 7 \/ k = 8 \/ k = 9 \/ k = 10
    BY <1>1
  <2>2. QED BY <2>1
<1>3. QED BY <1>1, <1>2 DEF Reward, Square

LEMMA EarnType ==
    ASSUME NEW p \in Player, NEW e \in Nat, Earn(p, e),
           exp \in [Player -> Nat], level \in [Player -> Nat \ {0}]
    PROVE  exp' \in [Player -> Nat] /\ level' \in [Player -> Nat \ {0}]
<1>1. exp[p] \in Nat /\ level[p] \in Nat \ {0} /\ Required(level[p]) \in Nat
  BY RequiredType
<1> DEFINE R == Required(level[p])
           up == exp[p] + e >= R
           x == IF up THEN exp[p] + e - R ELSE exp[p] + e
           l == IF up THEN level[p] + 1 ELSE level[p]
<1>2. x \in Nat /\ l \in Nat \ {0}
  BY <1>1
<1>3. exp' = [exp EXCEPT ![p] = x] /\ level' = [level EXCEPT ![p] = l]
  BY DEF Earn
<1> HIDE DEF x, l
<1>4. QED BY <1>2, <1>3

(* Every item has a number.                                                 *)
LEMMA ItemsAreNat == IdInv => Items \subseteq Nat
<1> SUFFICES ASSUME IdInv, NEW i \in Items PROVE i \in Nat
  OBVIOUS
<1>1. CASE i \in issued
  BY <1>1 DEF IdInv, Below
<1>2. ASSUME NEW p \in Player, i \in Carried[p] PROVE i \in Nat
  BY <1>2, CarriedAssumption, SeqAssumption
<1>3. CASE i \in UNION {Carried[p] : p \in Player}
  <2>1. PICK p \in Player : i \in Carried[p]
    BY <1>3
  <2>2. QED BY <1>2, <2>1
<1>4. QED BY <1>1, <1>3 DEF Items

----------------------------------------------------------------------------
(* What a handler knows, and the types.                                     *)

TakerPc == {"gain", "restore", "unlist", "unplace"}
SlotPc  == {"take"} \union MapPc \union PickupPc

\* A handler has a slot, a player, a cell and an NPC exactly where it needs one.
Fits(r) ==
    /\ r \in Handler
    /\ r.pc \in SlotPc => r.slot \in MapSlot
    /\ r.pc \notin SlotPc => r.slot = None
    /\ r.pc # "idle" => r.player \in Player
    /\ r.pc \in {"aim", "strike"} => r.cell \in Cell
    /\ r.pc = "strike" => r.npc \in Npc
    /\ r.pc # "strike" => r.npc = None
    /\ r.pc = "take" => r.item \in Nat
AllFit == \A w \in Worker : Fits(work[w])

\* A slot that somebody may read has an identity.
Marked(s) ==
    \/ slot[s] = "INGAME"
    \/ \E p \in Player : s \in listed[p]
    \/ \E w \in Worker : work[w].slot = s /\ work[w].pc \in SlotPc \ {"number", "take"}
Named == \A s \in MapSlot : Marked(s) => uid[s] \in Nat

TypeInv == TypeOK /\ AllFit /\ IdInv /\ Named

(* A handler starts its next step; nobody else notices.                     *)
LEMMA Restarted ==
    ASSUME NEW w \in Worker, NEW r, TypeOK, AllFit, Start(w, r), Fits(r)
    PROVE  /\ work' \in [Worker -> Handler]
           /\ AllFit'
           /\ work'[w] = r
           /\ \A v \in Worker : v # w => work'[v] = work[v]
<1>1. work \in [Worker -> Handler] /\ work' = [work EXCEPT ![w] = r] /\ r \in Handler
  BY DEF TypeOK, Start, Fits
<1>2. work'[w] = r /\ \A v \in Worker : v # w => work'[v] = work[v]
  BY <1>1
<1>3. AllFit'
  <2>1. ASSUME NEW v \in Worker PROVE Fits(work'[v])
    BY <1>2 DEF AllFit
  <2>2. QED BY <2>1 DEF AllFit
<1>4. QED BY <1>1, <1>2, <1>3

LEMMA IdleFits == Fits(Idle)
BY DEF Fits, Idle, Handler, SlotPc, MapPc, PickupPc, FightPc

(* From one step of a drop or of a pick-up to the next.                     *)
LEMMA GotoFits ==
    ASSUME NEW r, Fits(r), r.pc \in SlotPc, NEW pc \in SlotPc \ {"take"}
    PROVE  Fits([r EXCEPT !.pc = pc])
<1> DEFINE q == [r EXCEPT !.pc = pc]
<1>1. r \in Handler /\ pc \in MapPc \union PickupPc
  BY DEF Fits, SlotPc
<1>2. q \in Handler
  BY <1>1 DEF Handler
<1>3. q.pc = pc /\ q.slot = r.slot /\ q.player = r.player /\ q.npc = r.npc
  BY <1>1 DEF Handler
<1>4. r.slot \in MapSlot /\ r.player \in Player /\ r.npc = None
  BY DEF Fits, SlotPc, MapPc, PickupPc
<1>5. pc \notin {"idle", "aim", "strike", "take"}
  BY <1>1 DEF MapPc, PickupPc
<1> HIDE DEF q
<1>6. Fits(q)
  BY <1>2, <1>3, <1>4, <1>5 DEF Fits
<1>7. QED BY <1>6 DEF q

(* From one step of an attack to the next: what is left of the record.      *)
LEMMA FightFits ==
    ASSUME NEW r, Fits(r), r.pc \in FightPc,
           NEW q \in Handler, q.player = r.player, q.slot = r.slot,
           q.pc \in FightPc,
           q.pc \in {"aim", "strike"} => q.cell \in Cell,
           q.pc = "strike" => q.npc \in Npc,
           q.pc # "strike" => q.npc = None
    PROVE  Fits(q)
<1>1. r.slot = None /\ r.player \in Player
  BY DEF Fits, SlotPc, FightPc, MapPc, PickupPc
<1>2. q.pc \notin SlotPc /\ q.pc # "idle" /\ q.pc # "take"
  BY DEF SlotPc, FightPc, MapPc, PickupPc
<1>3. QED BY <1>1, <1>2 DEF Fits

(* A slot stays named when every reader it gains had read it before, or     *)
(* finds a new name in it.                                                  *)
LEMMA NamedStep ==
    ASSUME NEW w \in Worker, Named,
           \A v \in Worker : v # w => work'[v] = work[v],
           \A s \in MapSlot : uid'[s] = uid[s] \/ uid'[s] \in Nat,
           \A s \in MapSlot :
             \/ slot'[s] = "INGAME"
             \/ \E p \in Player : s \in listed'[p]
             \/ work'[w].slot = s /\ work'[w].pc \in SlotPc \ {"number", "take"}
             => Marked(s) \/ uid'[s] \in Nat
    PROVE  Named'
<1>1. ASSUME NEW s \in MapSlot, Marked(s)'
      PROVE  uid'[s] \in Nat
  <2>1. \/ slot'[s] = "INGAME"
        \/ \E p \in Player : s \in listed'[p]
        \/ \E v \in Worker : work'[v].slot = s /\ work'[v].pc \in SlotPc \ {"number", "take"}
    BY <1>1 DEF Marked
  <2>2. Marked(s) \/ uid'[s] \in Nat
    <3>1. ASSUME NEW v \in Worker, work'[v].slot = s, work'[v].pc \in SlotPc \ {"number", "take"}
          PROVE  Marked(s) \/ uid'[s] \in Nat
      <4>1. CASE v = w
        BY <3>1, <4>1
      <4>2. CASE v # w
        BY <3>1, <4>2 DEF Marked
      <4>3. QED BY <4>1, <4>2
    <3>2. QED BY <2>1, <3>1
  <2>3. QED BY <2>2 DEF Named
<1>2. QED BY <1>1 DEF Named

(* A step that only hands a handler to its next step.                       *)
LEMMA TypesWork ==
    ASSUME NEW w \in Worker, NEW r, TypeInv, Start(w, r), Fits(r),
           r.pc \in SlotPc \ {"number", "take"} => Marked(r.slot),
           UNCHANGED <<fightVars, at, bag, mapVars>>
    PROVE  TypeOK' /\ AllFit' /\ Named'
<1>1. /\ work' \in [Worker -> Handler] /\ AllFit' /\ work'[w] = r
      /\ \A v \in Worker : v # w => work'[v] = work[v]
  BY Restarted DEF TypeInv
<1>2. TypeOK'
  BY <1>1 DEF TypeInv, TypeOK, fightVars, mapVars
<1>3. Named'
  <2>1. slot' = slot /\ listed' = listed /\ uid' = uid
    BY DEF mapVars
  <2>2. ASSUME NEW s \in MapSlot,
               \/ slot'[s] = "INGAME"
               \/ \E p \in Player : s \in listed'[p]
               \/ work'[w].slot = s /\ work'[w].pc \in SlotPc \ {"number", "take"}
        PROVE  Marked(s)
    BY <1>1, <2>1, <2>2 DEF Marked
  <2>3. Named
    BY DEF TypeInv
  <2>4. QED BY <1>1, <2>1, <2>2, <2>3, NamedStep
<1>4. QED BY <1>1, <1>2, <1>3

(* CS_ATTACK, from the command to the last coordinate.                      *)
LEMMA TypesAttack ==
    ASSUME NEW w \in Worker, NEW p \in Player, TypeInv, Attack(w, p)
    PROVE  TypeOK' /\ AllFit' /\ Named'
<1>1. PICK C \in {{c} : c \in Cell} \union {Cell}, k \in {2, 3} :
        Start(w, [Idle EXCEPT !.pc = "coord", !.player = p, !.coords = C,
                              !.damage = k * level[p]])
  BY DEF Attack
<1> DEFINE r == [Idle EXCEPT !.pc = "coord", !.player = p, !.coords = C,
                             !.damage = k * level[p]]
<1>2. k * level[p] \in Nat
  BY DEF TypeInv, TypeOK
<1>3. Fits(r)
  BY <1>2 DEF Fits, Idle, Handler, SlotPc, MapPc, PickupPc, FightPc
<1>4. r.pc = "coord"
  BY DEF Idle
<1>5. UNCHANGED <<fightVars, at, bag, mapVars>> /\ Start(w, r)
  BY <1>1 DEF Attack
<1> HIDE DEF r
<1>6. QED BY <1>3, <1>4, <1>5, TypesWork DEF SlotPc, MapPc, PickupPc

LEMMA TypesAimAt ==
    ASSUME NEW w \in Worker, TypeInv, AimAt(w)
    PROVE  TypeOK' /\ AllFit' /\ Named'
<1>1. PICK c \in work[w].coords :
        Start(w, [work[w] EXCEPT !.pc = "aim", !.cell = c, !.seen = {}, !.coords = @ \ {c}])
  BY DEF AimAt
<1> DEFINE r == [work[w] EXCEPT !.pc = "aim", !.cell = c, !.seen = {}, !.coords = @ \ {c}]
<1>2. Fits(work[w]) /\ work[w] \in Handler /\ work[w].pc = "coord" /\ c \in Cell
  BY DEF TypeInv, AllFit, AimAt, Fits, Handler
<1>3. r \in Handler
  BY <1>2 DEF Handler, FightPc
<1>4. /\ r.pc = "aim" /\ r.cell = c /\ r.player = work[w].player /\ r.slot = work[w].slot
      /\ r.npc = work[w].npc
  BY <1>2 DEF Handler
<1>5. work[w].npc = None
  BY <1>2 DEF Fits
<1>6. UNCHANGED <<fightVars, at, bag, mapVars>> /\ Start(w, r)
  BY <1>1 DEF AimAt
<1> HIDE DEF r
<1>7. Fits(r)
  BY <1>2, <1>3, <1>4, <1>5, FightFits DEF FightPc
<1>8. QED BY <1>4, <1>6, <1>7, TypesWork DEF SlotPc, MapPc, PickupPc

LEMMA TypesAim ==
    ASSUME NEW w \in Worker, TypeInv, Aim(w)
    PROVE  TypeOK' /\ AllFit' /\ Named'
<1>1. PICK n \in Npc :
        Start(w, [work[w] EXCEPT !.pc = "strike", !.npc = n, !.seen = @ \union {n}])
  BY DEF Aim
<1> DEFINE r == [work[w] EXCEPT !.pc = "strike", !.npc = n, !.seen = @ \union {n}]
<1>2. Fits(work[w]) /\ work[w] \in Handler /\ work[w].pc = "aim" /\ work[w].cell \in Cell
  BY DEF TypeInv, AllFit, Aim, Fits
<1>3. r \in Handler
  BY <1>2 DEF Handler, FightPc
<1>4. /\ r.pc = "strike" /\ r.npc = n /\ r.cell = work[w].cell
      /\ r.player = work[w].player /\ r.slot = work[w].slot
  BY <1>2 DEF Handler
<1>5. UNCHANGED <<fightVars, at, bag, mapVars>> /\ Start(w, r)
  BY <1>1 DEF Aim
<1> HIDE DEF r
<1>6. Fits(r)
  BY <1>2, <1>3, <1>4, FightFits DEF FightPc
<1>7. QED BY <1>4, <1>5, <1>6, TypesWork DEF SlotPc, MapPc, PickupPc

(* Between two coordinates an attack has no cell.                           *)
LEMMA CellLeft ==
    ASSUME NEW h \in Handler, NEW pc \in FightPc
    PROVE  [h EXCEPT !.pc = pc, !.cell = None, !.seen = {}] \in Handler
BY DEF Handler, FightPc

(* What AimNext leaves of the handler: it is done, or at a next coordinate. *)
LEMMA NextFits ==
    ASSUME NEW w \in Worker, TypeInv, AimNext(w), work[w].pc \in {"aim", "drop"}
    PROVE  \E r : Start(w, r) /\ Fits(r) /\ r.pc \in {"idle", "coord"}
<1>1. CASE work[w].coords = {}
  BY <1>1, IdleFits DEF AimNext, Finish, Idle
<1>2. CASE work[w].coords # {}
  <2> DEFINE r == [work[w] EXCEPT !.pc = "coord", !.cell = None, !.seen = {}]
  <2>1. Fits(work[w]) /\ work[w] \in Handler /\ work[w].npc = None
    BY DEF TypeInv, AllFit, Fits
  <2>2. r \in Handler
    BY <2>1, CellLeft DEF FightPc
  <2>3. /\ r.pc = "coord" /\ r.npc = None
        /\ r.player = work[w].player /\ r.slot = work[w].slot
    BY <2>1 DEF Handler
  <2>4. Start(w, r)
    BY <1>2 DEF AimNext
  <2> HIDE DEF r
  <2>5. Fits(r)
    BY <2>1, <2>2, <2>3, FightFits DEF FightPc
  <2>6. QED BY <2>3, <2>4, <2>5
<1>3. QED BY <1>1, <1>2

LEMMA TypesUnlock ==
    ASSUME NEW w \in Worker, TypeInv, Unlock(w)
    PROVE  TypeOK' /\ AllFit' /\ Named'
<1>1. UNCHANGED <<fightVars, at, bag, mapVars>> /\ work[w].pc = "aim"
  BY DEF Unlock
<1>2. CASE AimNext(w)
  <2>1. PICK r : Start(w, r) /\ Fits(r) /\ r.pc \in {"idle", "coord"}
    BY <1>1, <1>2, NextFits
  <2>2. QED BY <1>1, <2>1, TypesWork DEF SlotPc, MapPc, PickupPc
<1>3. CASE Start(w, [work[w] EXCEPT !.pc = "drop", !.cell = None, !.seen = {}])
  <2> DEFINE r == [work[w] EXCEPT !.pc = "drop", !.cell = None, !.seen = {}]
  <2>1. Fits(work[w]) /\ work[w] \in Handler /\ work[w].npc = None
    BY <1>1 DEF TypeInv, AllFit, Fits
  <2>2. r \in Handler
    BY <2>1, CellLeft DEF FightPc
  <2>3. /\ r.pc = "drop" /\ r.npc = None
        /\ r.player = work[w].player /\ r.slot = work[w].slot
    BY <2>1 DEF Handler
  <2>4. Start(w, r)
    BY <1>3
  <2> HIDE DEF r
  <2>5. Fits(r)
    BY <1>1, <2>1, <2>2, <2>3, FightFits DEF FightPc
  <2>6. QED BY <1>1, <2>3, <2>4, <2>5, TypesWork DEF SlotPc, MapPc, PickupPc
<1>4. QED BY <1>2, <1>3 DEF Unlock

(* Every action of an attack but the blow itself.                           *)
LEMMA TypesNone ==
    ASSUME NEW w \in Worker, TypeInv, NoneLeft(w)
    PROVE  TypeOK' /\ AllFit' /\ Named'
<1>1. work[w].pc = "drop" /\ AimNext(w) /\ UNCHANGED <<fightVars, at, bag, mapVars>>
  BY DEF NoneLeft
<1>2. PICK r : Start(w, r) /\ Fits(r) /\ r.pc \in {"idle", "coord"}
  BY <1>1, NextFits
<1>3. QED BY <1>1, <1>2, TypesWork DEF SlotPc, MapPc, PickupPc

LEMMA TypesNpcDrops ==
    ASSUME NEW w \in Worker, TypeInv, NpcDrops(w)
    PROVE  TypeOK' /\ AllFit' /\ Named'
<1>1. /\ work[w].pc = "drop" /\ UNCHANGED <<fightVars, at, bag, mapVars>>
      /\ Fits(work[w]) /\ work[w] \in Handler /\ work[w].npc = None
      /\ work[w].player \in Player /\ work[w].slot = None
  BY DEF NpcDrops, TypeInv, AllFit, Fits, SlotPc, MapPc, PickupPc
<1>2. ASSUME NEW n \in work[w].dead, NEW s \in MapSlot,
             Start(w, [work[w] EXCEPT !.pc = "number", !.slot = s, !.dead = @ \ {n}])
      PROVE  TypeOK' /\ AllFit' /\ Named'
  <2> DEFINE r == [work[w] EXCEPT !.pc = "number", !.slot = s, !.dead = @ \ {n}]
  <2>1. r \in Handler
    BY <1>1 DEF Handler, MapPc
  <2>2. r.pc = "number" /\ r.slot = s /\ r.player = work[w].player /\ r.npc = work[w].npc
    BY <1>1 DEF Handler
  <2>3. Start(w, r)
    BY <1>2
  <2> HIDE DEF r
  <2>4. Fits(r)
    BY <1>1, <2>1, <2>2 DEF Fits, SlotPc, MapPc
  <2>5. QED BY <1>1, <2>2, <2>3, <2>4, TypesWork
<1>3. ASSUME NEW n \in work[w].dead, Start(w, [work[w] EXCEPT !.dead = @ \ {n}])
      PROVE  TypeOK' /\ AllFit' /\ Named'
  <2> DEFINE r == [work[w] EXCEPT !.dead = @ \ {n}]
  <2>1. r \in Handler
    BY <1>1 DEF Handler
  <2>2. /\ r.pc = "drop" /\ r.npc = work[w].npc
        /\ r.player = work[w].player /\ r.slot = work[w].slot
    BY <1>1 DEF Handler
  <2>3. Start(w, r)
    BY <1>3
  <2> HIDE DEF r
  <2>4. Fits(r)
    BY <1>1, <2>1, <2>2, FightFits DEF FightPc
  <2>5. QED BY <1>1, <2>2, <2>3, <2>4, TypesWork DEF SlotPc, MapPc, PickupPc
<1>4. QED BY <1>2, <1>3 DEF NpcDrops

LEMMA TypesDrop ==
    ASSUME NEW w \in Worker, NEW p \in Player, TypeInv, Drop(w, p)
    PROVE  TypeOK' /\ AllFit' /\ Named'
<1>1. PICK s \in MapSlot, i \in Items :
        Start(w, [Idle EXCEPT !.pc = "take", !.player = p, !.slot = s, !.item = i])
  BY DEF Drop
<1> DEFINE r == [Idle EXCEPT !.pc = "take", !.player = p, !.slot = s, !.item = i]
<1>2. i \in Nat
  BY ItemsAreNat DEF TypeInv
<1>3. Fits(r)
  BY <1>2 DEF Fits, Idle, Handler, SlotPc, MapPc, PickupPc, FightPc
<1>4. r.pc = "take"
  BY DEF Idle
<1>5. UNCHANGED <<fightVars, at, bag, mapVars>> /\ Start(w, r)
  BY <1>1 DEF Drop
<1> HIDE DEF r
<1>6. QED BY <1>3, <1>4, <1>5, TypesWork

LEMMA TypesPickup ==
    ASSUME NEW w \in Worker, NEW p \in Player, TypeInv, Pickup(w, p)
    PROVE  TypeOK' /\ AllFit' /\ Named'
<1>1. PICK s \in listed[p] :
        Start(w, [Idle EXCEPT !.pc = "claim", !.player = p, !.slot = s])
  BY DEF Pickup
<1> DEFINE r == [Idle EXCEPT !.pc = "claim", !.player = p, !.slot = s]
<1>2. s \in MapSlot
  BY DEF TypeInv, TypeOK
<1>3. Fits(r)
  BY <1>2 DEF Fits, Idle, Handler, SlotPc, MapPc, PickupPc, FightPc
<1>4. r.pc = "claim" /\ r.slot = s
  BY DEF Idle
<1>5. UNCHANGED <<fightVars, at, bag, mapVars>> /\ Start(w, r)
  BY <1>1 DEF Pickup
<1>6. Marked(s)
  BY DEF Marked
<1> HIDE DEF r
<1>7. QED BY <1>3, <1>4, <1>5, <1>6, TypesWork

(* The blow.                                                                *)
LEMMA TypesStrike ==
    ASSUME NEW w \in Worker, TypeInv, Strike(w)
    PROVE  TypeOK' /\ AllFit' /\ Named'
<1> DEFINE n == work[w].npc
           d == work[w].damage
           p == work[w].player
<1>1. /\ work[w].pc = "strike" /\ Fits(work[w]) /\ work[w] \in Handler
      /\ n \in Npc /\ d \in Nat /\ p \in Player /\ work[w].cell \in Cell
  BY DEF Strike, TypeInv, AllFit, Fits, Handler
<1>2. hp' \in [Npc -> Nat]
  <2>1. hp \in [Npc -> Nat] /\ Wound(n, d)
    BY DEF Strike, TypeInv, TypeOK
  <2>2. (IF hp[n] <= d THEN 0 ELSE hp[n] - d) \in Nat
    BY <1>1, <2>1
  <2>3. hp' = [hp EXCEPT ![n] = IF hp[n] <= d THEN 0 ELSE hp[n] - d]
    BY <2>1 DEF Wound
  <2> HIDE DEF n, d
  <2>4. QED BY <1>1, <2>1, <2>2, <2>3
<1>3. state' \in [Npc -> {"INGAME", "DEAD"}]
  BY <1>1 DEF Strike, TypeInv, TypeOK
<1>4. exp' \in [Player -> Nat] /\ level' \in [Player -> Nat \ {0}]
  <2>1. exp \in [Player -> Nat] /\ level \in [Player -> Nat \ {0}]
    BY DEF TypeInv, TypeOK
  <2>2. CASE Earn(p, Reward(n))
    <3>1. Reward(n) \in Nat
      BY <1>1, RewardType
    <3>2. QED BY <1>1, <2>1, <2>2, <3>1, EarnType
  <2>3. CASE UNCHANGED <<state, exp, level>>
    BY <2>1, <2>3
  <2>4. QED BY <2>2, <2>3 DEF Strike
<1>5. PICK D : /\ D \in SUBSET Npc
               /\ Start(w, [work[w] EXCEPT !.pc = "aim", !.npc = None, !.dead = D])
  <2>1. CASE Start(w, [work[w] EXCEPT !.pc = "aim", !.npc = None, !.dead = @ \union {n}])
    BY <1>1, <2>1 DEF Handler
  <2>2. CASE Start(w, [work[w] EXCEPT !.pc = "aim", !.npc = None])
    <3>1. work[w].dead \in SUBSET Npc
      BY <1>1 DEF Handler
    <3>2. [work[w] EXCEPT !.pc = "aim", !.npc = None]
            = [work[w] EXCEPT !.pc = "aim", !.npc = None, !.dead = work[w].dead]
      BY <1>1 DEF Handler
    <3>3. QED BY <2>2, <3>1, <3>2
  <2>3. QED BY <2>1, <2>2 DEF Strike
<1> DEFINE r == [work[w] EXCEPT !.pc = "aim", !.npc = None, !.dead = D]
<1>6. /\ r.pc = "aim" /\ r.npc = None /\ r.cell = work[w].cell
      /\ r.player = work[w].player /\ r.slot = work[w].slot
  BY <1>1 DEF Handler
<1>7. r \in Handler
  BY <1>1, <1>5 DEF Handler, FightPc
<1>8. Start(w, r)
  BY <1>5
<1>9. UNCHANGED <<at, bag, mapVars>>
  BY DEF Strike
<1> HIDE DEF r
<1>10. Fits(r)
  BY <1>1, <1>6, <1>7, FightFits DEF FightPc
<1>11. /\ work' \in [Worker -> Handler] /\ AllFit' /\ work'[w] = r
       /\ \A v \in Worker : v # w => work'[v] = work[v]
  BY <1>8, <1>10, Restarted DEF TypeInv
<1>12. TypeOK'
  BY <1>2, <1>3, <1>4, <1>9, <1>11 DEF TypeInv, TypeOK, mapVars
<1>13. Named'
  BY <1>6, <1>9, <1>11 DEF TypeInv, Named, Marked, mapVars, SlotPc, MapPc, PickupPc
<1>14. QED BY <1>11, <1>12, <1>13

(* The item's way onto the map: Number and Take write the slot.             *)
LEMMA TypesWrite ==
    ASSUME NEW w \in Worker, TypeInv, work[w].pc \in {"number", "take"},
           NEW i \in Nat, Write(w, i), bag' \in [Player -> SUBSET Nat],
           UNCHANGED <<fightVars, at, slot, placed, listed>>
    PROVE  TypeOK' /\ AllFit' /\ Named'
<1> DEFINE s == work[w].slot
           r == [work[w] EXCEPT !.pc = "publish"]
<1>1. Fits(work[w]) /\ work[w] \in Handler /\ s \in MapSlot
  BY DEF TypeInv, AllFit, Fits, SlotPc, MapPc
<1>2. Fits(r)
  BY <1>1, GotoFits DEF SlotPc, MapPc
<1>3. r.slot = s
  BY <1>1 DEF Handler
<1>4. Start(w, r) /\ uid' = [uid EXCEPT ![s] = i]
  BY DEF Write, Goto
<1> HIDE DEF r
<1>5. /\ work' \in [Worker -> Handler] /\ AllFit' /\ work'[w] = r
      /\ \A v \in Worker : v # w => work'[v] = work[v]
  BY <1>2, <1>4, Restarted DEF TypeInv
<1>6. TypeOK'
  BY <1>1, <1>4, <1>5 DEF TypeInv, TypeOK, fightVars
<1>7. uid'[s] = i /\ \A t \in MapSlot : t # s => uid'[t] = uid[t]
  BY <1>1, <1>4 DEF TypeInv, TypeOK
<1>8. Named'
  <2>1. ASSUME NEW t \in MapSlot,
               \/ slot'[t] = "INGAME"
               \/ \E p \in Player : t \in listed'[p]
               \/ work'[w].slot = t /\ work'[w].pc \in SlotPc \ {"number", "take"}
        PROVE  Marked(t) \/ uid'[t] \in Nat
    BY <1>3, <1>5, <1>7, <2>1 DEF Marked
  <2>2. \A t \in MapSlot : uid'[t] = uid[t] \/ uid'[t] \in Nat
    BY <1>7
  <2>3. QED BY <1>5, <2>1, <2>2, NamedStep DEF TypeInv
<1>9. QED BY <1>5, <1>6, <1>8

LEMMA TypesNumber ==
    ASSUME NEW w \in Worker, TypeInv, Number(w), NewId \in Nat
    PROVE  TypeOK' /\ AllFit' /\ Named'
<1>1. bag' = bag /\ bag \in [Player -> SUBSET Nat]
  BY DEF Number, TypeInv, TypeOK
<1>2. QED BY <1>1, TypesWrite DEF Number

LEMMA TypesTake ==
    ASSUME NEW w \in Worker, TypeInv, Take(w)
    PROVE  TypeOK' /\ AllFit' /\ Named'
<1>1. /\ bag \in [Player -> SUBSET Nat] /\ work[w].pc = "take"
      /\ work[w].item \in Nat /\ work[w].player \in Player
  BY DEF Take, TypeInv, TypeOK, AllFit, Fits
<1>2. CASE work[w].item \in bag[work[w].player]
  <2>1. bag' \in [Player -> SUBSET Nat]
    BY <1>1, <1>2 DEF Take
  <2>2. Write(w, work[w].item)
    BY <1>2 DEF Take
  <2>3. QED BY <1>1, <2>1, <2>2, TypesWrite DEF Take
<1>3. CASE work[w].item \notin bag[work[w].player]
  <2>1. Start(w, Idle) /\ UNCHANGED <<fightVars, at, bag, mapVars>>
    BY <1>3 DEF Take, Finish, mapVars
  <2>2. QED BY <2>1, IdleFits, TypesWork DEF Idle, SlotPc, MapPc, PickupPc
<1>4. QED BY <1>2, <1>3

(* The other steps with a slot in hand change what is said of that slot,    *)
(* which is named already.                                                  *)
LEMMA TypesSlot ==
    ASSUME NEW w \in Worker, NEW r, TypeInv, Start(w, r), Fits(r),
           r.slot = work[w].slot \/ r.pc \notin SlotPc,
           work[w].pc \in SlotPc \ {"number", "take"},
           bag' \in [Player -> SUBSET Nat],
           slot' \in [MapSlot -> {"FREE", "INGAME"}],
           placed' \subseteq MapSlot,
           listed' \in [Player -> SUBSET MapSlot],
           \A s \in MapSlot \ {work[w].slot} :
             slot'[s] = slot[s] /\ \A p \in Player : s \in listed'[p] => s \in listed[p],
           UNCHANGED <<fightVars, at, uid>>
    PROVE  TypeOK' /\ AllFit' /\ Named'
<1>1. /\ work' \in [Worker -> Handler] /\ AllFit' /\ work'[w] = r
      /\ \A v \in Worker : v # w => work'[v] = work[v]
  BY Restarted DEF TypeInv
<1>2. TypeOK'
  BY <1>1 DEF TypeInv, TypeOK, fightVars
<1>3. ASSUME NEW t \in MapSlot,
             \/ slot'[t] = "INGAME"
             \/ \E p \in Player : t \in listed'[p]
             \/ work'[w].slot = t /\ work'[w].pc \in SlotPc \ {"number", "take"}
      PROVE  Marked(t)
  <2>1. CASE t = work[w].slot
    BY <2>1 DEF Marked
  <2>2. CASE t # work[w].slot
    BY <1>1, <1>3, <2>2 DEF Marked
  <2>3. QED BY <2>1, <2>2
<1>4. Named'
  BY <1>1, <1>3, NamedStep DEF TypeInv
<1>5. QED BY <1>1, <1>2, <1>4

LEMMA TypesPublish ==
    ASSUME NEW w \in Worker, TypeInv, Publish(w)
    PROVE  TypeOK' /\ AllFit' /\ Named'
<1> DEFINE r == [work[w] EXCEPT !.pc = "announce"]
<1>1. /\ Fits(work[w]) /\ work[w] \in Handler /\ work[w].slot \in MapSlot
      /\ work[w].pc = "publish"
  BY DEF Publish, TypeInv, AllFit, Fits, SlotPc, MapPc
<1>2. Fits(r) /\ r.slot = work[w].slot
  BY <1>1, GotoFits DEF SlotPc, MapPc, Handler
<1>3. Start(w, r)
  BY DEF Publish, Goto
<1> HIDE DEF r
<1>4. QED BY <1>1, <1>2, <1>3, TypesSlot DEF Publish, SlotPc, MapPc, TypeInv, TypeOK

\* A killer's handler that goes on to the next of the dead.
LEMMA DropsNext ==
    ASSUME NEW r \in Handler
    PROVE  [r EXCEPT !.pc = "drop", !.slot = None] \in Handler
<1> DEFINE q == [r EXCEPT !.slot = None]
<1>1. q \in Handler
  BY SMTT(60) DEF Handler
<1>2. [r EXCEPT !.pc = "drop", !.slot = None] = [q EXCEPT !.pc = "drop"]
  BY DEF Handler
<1>3. "drop" \in FightPc
  BY DEF FightPc
<1> HIDE DEF q
<1>4. [q EXCEPT !.pc = "drop"] \in Handler
  BY <1>1, <1>3, SMTT(60) DEF Handler
<1>5. QED BY <1>2, <1>4

LEMMA TypesAnnounce ==
    ASSUME NEW w \in Worker, TypeInv, Announce(w)
    PROVE  TypeOK' /\ AllFit' /\ Named'
<1>1. /\ Fits(work[w]) /\ work[w] \in Handler /\ work[w].slot \in MapSlot
      /\ work[w].pc = "announce" /\ work[w].player \in Player /\ work[w].npc = None
  BY DEF Announce, TypeInv, AllFit, Fits, SlotPc, MapPc
<1>2. PICK r : Start(w, r) /\ Fits(r) /\ r.pc \notin SlotPc
  <2>1. CASE Finish(w)
    BY <2>1, IdleFits DEF Finish, Idle, SlotPc, MapPc, PickupPc
  <2>2. CASE Start(w, [work[w] EXCEPT !.pc = "drop", !.slot = None])
    <3> DEFINE q == [work[w] EXCEPT !.pc = "drop", !.slot = None]
    <3>1. q \in Handler
      BY <1>1, DropsNext
    <3>2. q.pc = "drop" /\ q.slot = None /\ q.player = work[w].player /\ q.npc = work[w].npc
      BY <1>1 DEF Handler
    <3>3. Start(w, q)
      BY <2>2
    <3> HIDE DEF q
    <3>4. Fits(q) /\ q.pc \notin SlotPc
      BY <1>1, <3>1, <3>2 DEF Fits, SlotPc, MapPc, PickupPc
    <3>5. QED BY <3>3, <3>4
  <2>3. QED BY <2>1, <2>2 DEF Announce
<1>3. listed' \in [Player -> SUBSET MapSlot]
      /\ \A s \in MapSlot \ {work[w].slot} : \A p \in Player : s \in listed'[p] => s \in listed[p]
  BY <1>1 DEF Announce, TypeInv, TypeOK
<1>4. QED BY <1>1, <1>2, <1>3, TypesSlot DEF Announce, SlotPc, MapPc, TypeInv, TypeOK

LEMMA TypesClaim ==
    ASSUME NEW w \in Worker, TypeInv, Claim(w)
    PROVE  TypeOK' /\ AllFit' /\ Named'
<1>1. /\ Fits(work[w]) /\ work[w] \in Handler /\ work[w].slot \in MapSlot
      /\ work[w].pc = "claim"
  BY DEF Claim, TypeInv, AllFit, Fits, SlotPc, PickupPc
<1>2. PICK r : Start(w, r) /\ Fits(r) /\ (r.slot = work[w].slot \/ r.pc \notin SlotPc)
  <2>1. CASE Finish(w)
    BY <2>1, IdleFits DEF Finish, Idle, SlotPc, MapPc, PickupPc
  <2>2. CASE Goto(w, "gain")
    <3>1. Fits([work[w] EXCEPT !.pc = "gain"])
      BY <1>1, GotoFits DEF SlotPc, PickupPc
    <3>2. [work[w] EXCEPT !.pc = "gain"].slot = work[w].slot
      BY <1>1 DEF Handler
    <3>3. QED BY <2>2, <3>1, <3>2 DEF Goto
  <2>3. QED BY <2>1, <2>2 DEF Claim
<1>3. slot' \in [MapSlot -> {"FREE", "INGAME"}]
      /\ \A s \in MapSlot \ {work[w].slot} : slot'[s] = slot[s]
  BY <1>1 DEF Claim, TypeInv, TypeOK
<1>4. QED BY <1>1, <1>2, <1>3, TypesSlot DEF Claim, SlotPc, PickupPc, TypeInv, TypeOK

LEMMA TypesGain ==
    ASSUME NEW w \in Worker, TypeInv, Gain(w)
    PROVE  TypeOK' /\ AllFit' /\ Named'
<1>1. /\ Fits(work[w]) /\ work[w] \in Handler /\ work[w].slot \in MapSlot
      /\ work[w].pc = "gain" /\ work[w].player \in Player
  BY DEF Gain, TypeInv, AllFit, Fits, SlotPc, PickupPc
<1>2. PICK pc \in {"unlist", "restore"} : Goto(w, pc)
  BY DEF Gain
<1> DEFINE r == [work[w] EXCEPT !.pc = pc]
<1>3. Fits(r) /\ r.slot = work[w].slot
  BY <1>1, GotoFits DEF SlotPc, PickupPc, Handler
<1>4. uid[work[w].slot] \in Nat
  BY <1>1 DEF TypeInv, Named, Marked, SlotPc, PickupPc
<1>5. bag' \in [Player -> SUBSET Nat]
  BY <1>1, <1>4 DEF Gain, TypeInv, TypeOK
<1>6. Start(w, r)
  BY <1>2 DEF Goto
<1> HIDE DEF r
<1>7. QED BY <1>1, <1>3, <1>5, <1>6, TypesSlot DEF Gain, mapVars, SlotPc, PickupPc, TypeInv, TypeOK

LEMMA TypesRestore ==
    ASSUME NEW w \in Worker, TypeInv, Restore(w)
    PROVE  TypeOK' /\ AllFit' /\ Named'
<1>1. work[w].slot \in MapSlot /\ work[w].pc = "restore"
  BY DEF Restore, TypeInv, AllFit, Fits, SlotPc, PickupPc
<1>2. Start(w, Idle) /\ Idle.pc \notin SlotPc
  BY DEF Restore, Finish, Idle, SlotPc, MapPc, PickupPc
<1>3. slot' \in [MapSlot -> {"FREE", "INGAME"}]
      /\ \A s \in MapSlot \ {work[w].slot} : slot'[s] = slot[s]
  BY <1>1 DEF Restore, TypeInv, TypeOK
<1>4. QED BY <1>1, <1>2, <1>3, IdleFits, TypesSlot DEF Restore, SlotPc, PickupPc, TypeInv, TypeOK

LEMMA TypesUnlist ==
    ASSUME NEW w \in Worker, TypeInv, Unlist(w)
    PROVE  TypeOK' /\ AllFit' /\ Named'
<1> DEFINE r == [work[w] EXCEPT !.pc = "unplace"]
<1>1. /\ Fits(work[w]) /\ work[w] \in Handler /\ work[w].slot \in MapSlot
      /\ work[w].pc = "unlist"
  BY DEF Unlist, TypeInv, AllFit, Fits, SlotPc, PickupPc
<1>2. Fits(r) /\ r.slot = work[w].slot
  BY <1>1, GotoFits DEF SlotPc, PickupPc, Handler
<1>3. Start(w, r)
  BY DEF Unlist, Goto
<1>4. listed' \in [Player -> SUBSET MapSlot]
      /\ \A s \in MapSlot : \A p \in Player : s \in listed'[p] => s \in listed[p]
  BY DEF Unlist, SendRemoveObjectPacket, TypeInv, TypeOK
<1> HIDE DEF r
<1>5. QED BY <1>1, <1>2, <1>3, <1>4, TypesSlot DEF Unlist, SlotPc, PickupPc, TypeInv, TypeOK

LEMMA TypesUnplace ==
    ASSUME NEW w \in Worker, TypeInv, Unplace(w)
    PROVE  TypeOK' /\ AllFit' /\ Named'
<1>1. work[w].slot \in MapSlot /\ work[w].pc = "unplace"
  BY DEF Unplace, TypeInv, AllFit, Fits, SlotPc, PickupPc
<1>2. Start(w, Idle) /\ Idle.pc \notin SlotPc
  BY DEF Unplace, Finish, Idle, SlotPc, MapPc, PickupPc
<1>3. QED BY <1>1, <1>2, IdleFits, TypesSlot DEF Unplace, SlotPc, PickupPc, TypeInv, TypeOK

(* Every step of the map is a step of the generator, or leaves it alone.    *)
LEMMA IdsMove == ASSUME [Next]_vars PROVE [NextIds]_idVars
<1>1. ASSUME NEW w \in Worker, Number(w) PROVE NextIds
  BY <1>1 DEF Number, NextIds
<1>2. ASSUME NEW w \in Worker, NumberWaits(w) PROVE NextIds
  BY <1>2 DEF NumberWaits, NextIds
<1>3. ASSUME NEW w \in Worker, AttackStep(w) PROVE UNCHANGED idVars
  BY <1>3 DEF AttackStep, AimAt, Aim, Strike, Unlock
<1>4. ASSUME NEW w \in Worker, DropStep(w) PROVE [NextIds]_idVars
  BY <1>1, <1>2, <1>4 DEF DropStep, NpcDrops, NoneLeft, Take, Publish, Announce
<1>5. ASSUME NEW w \in Worker, PickupStep(w) PROVE UNCHANGED idVars
  BY <1>5 DEF PickupStep, Claim, Gain, Restore, Unlist, Unplace
<1>6. ASSUME NEW w \in Worker, NEW p \in Player, Attack(w, p) \/ Drop(w, p) \/ Pickup(w, p)
      PROVE  UNCHANGED idVars
  BY <1>6 DEF Attack, Drop, Pickup
<1>7. ASSUME NEW n \in Npc, NpcMoves(n) PROVE UNCHANGED idVars
  BY <1>7 DEF NpcMoves
<1>8. CASE ClockTicks
  BY <1>8 DEF ClockTicks, NextIds
<1>9. CASE UNCHANGED vars
  BY <1>9 DEF vars
<1>10. QED BY <1>3, <1>4, <1>5, <1>6, <1>7, <1>8, <1>9 DEF Next

LEMMA TypesInit == Init => TypeInv
<1> SUFFICES ASSUME Init PROVE TypeInv
  OBVIOUS
<1>1. IdInv
  BY IdInvInit DEF Init
<1>2. bag \in [Player -> SUBSET Nat]
  <2>1. \A p \in Player : Carried[p] \subseteq Nat
    BY <1>1, ItemsAreNat DEF Items
  <2>2. QED BY <2>1, CarriedAssumption DEF Init
<1>3. work \in [Worker -> Handler] /\ AllFit
  <2>1. Idle \in Handler
    BY IdleFits DEF Fits
  <2>2. work = [w \in Worker |-> Idle]
    BY DEF Init
  <2>3. QED BY <2>1, <2>2, IdleFits DEF AllFit
<1>4. TypeOK
  <2>1. hp \in [Npc -> Nat]
    BY HpAssumption DEF Init
  <2>2. exp \in [Player -> Nat] /\ level \in [Player -> Nat \ {0}]
    BY StartAssumption DEF Init
  <2>3. listed \in [Player -> SUBSET MapSlot] /\ placed \subseteq MapSlot
    BY DEF Init
  <2>4. /\ slot \in [MapSlot -> {"FREE", "INGAME"}] /\ uid \in [MapSlot -> Nat \union {None}]
        /\ state \in [Npc -> {"INGAME", "DEAD"}] /\ at \in [Npc -> Cell]
    BY DEF Init
  <2>5. QED BY <1>2, <1>3, <2>1, <2>2, <2>3, <2>4 DEF TypeOK
<1>5. Named
  BY DEF Init, Named, Marked, Idle, SlotPc, MapPc, PickupPc
<1>6. QED BY <1>1, <1>3, <1>4, <1>5 DEF TypeInv

LEMMA TypesStep == TypeInv /\ [Next]_vars => TypeInv'
<1> SUFFICES ASSUME TypeInv, [Next]_vars PROVE TypeInv'
  OBVIOUS
<1>1. IdInv'
  BY IdsMove, IdStep DEF TypeInv
<1>2. ASSUME NEW w \in Worker, AttackStep(w) PROVE TypeOK' /\ AllFit' /\ Named'
  BY <1>2, TypesAimAt, TypesAim, TypesStrike, TypesUnlock DEF AttackStep
<1>3. ASSUME NEW w \in Worker, DropStep(w) PROVE TypeOK' /\ AllFit' /\ Named'
  <2>1. CASE Number(w)
    <3>1. NewId \in Nat
      BY <2>1, <1>1, ItemsAreNat DEF Number, Generate, GenerateFirst, GenerateNext,
         GenerateLater, HandOut, IdInv, Below
    <3>2. QED BY <2>1, <3>1, TypesNumber
  <2>2. CASE NumberWaits(w)
    <3>1. TypeOK' /\ AllFit' /\ Named'
      BY <2>2 DEF NumberWaits, TypeInv, TypeOK, AllFit, Named, Marked, fightVars, mapVars
    <3>2. QED BY <3>1
  <2>3. QED
    BY <1>3, <2>1, <2>2, TypesNpcDrops, TypesNone, TypesTake, TypesPublish, TypesAnnounce
    DEF DropStep
<1>4. ASSUME NEW w \in Worker, PickupStep(w) PROVE TypeOK' /\ AllFit' /\ Named'
  BY <1>4, TypesClaim, TypesGain, TypesRestore, TypesUnlist, TypesUnplace DEF PickupStep
<1>5. ASSUME NEW w \in Worker, NEW p \in Player, Attack(w, p) \/ Drop(w, p) \/ Pickup(w, p)
      PROVE  TypeOK' /\ AllFit' /\ Named'
  BY <1>5, TypesAttack, TypesDrop, TypesPickup
<1>6. ASSUME NEW n \in Npc, NpcMoves(n) PROVE TypeOK' /\ AllFit' /\ Named'
  BY <1>6 DEF NpcMoves, TypeInv, TypeOK, AllFit, Named, Marked, fightVars, mapVars
<1>7. CASE ClockTicks
  BY <1>1, <1>7 DEF ClockTicks, TypeInv, TypeOK, AllFit, Named, Marked, fightVars, mapVars
<1>8. CASE UNCHANGED vars
  BY <1>1, <1>8 DEF vars, TypeInv, TypeOK, AllFit, Named, Marked, fightVars, mapVars
<1>9. QED
  <2>1. CASE \/ \E w \in Worker : AttackStep(w) \/ DropStep(w) \/ PickupStep(w)
             \/ \E w \in Worker, p \in Player : Attack(w, p) \/ Drop(w, p) \/ Pickup(w, p)
             \/ \E n \in Npc : NpcMoves(n)
    BY <1>1, <1>2, <1>3, <1>4, <1>5, <1>6, <2>1 DEF TypeInv
  <2>2. QED BY <1>7, <1>8, <2>1 DEF Next

(* Every variable has its type, whatever overtakes what: hit points and     *)
(* experience never go below zero (Player.cpp:834-877).                     *)
THEOREM TypeCorrect == Spec => []TypeOK
<1>1. Spec => []TypeInv
  BY TypesInit, TypesStep, PTL DEF Spec
<1>2. TypeInv => TypeOK
  BY DEF TypeInv
<1>3. QED BY <1>1, <1>2, PTL

(* The numbers of the items on the map are unique too: what the generator   *)
(* promises holds inside the server (SnowflakeID.h:8, Npc.cpp:364-368).     *)
THEOREM ItemsAreNumbered == Spec => IdsAreUnique
<1>1. Init => Unique!Init
  BY DEF Init, InitIds, Unique!Init
<1>2. TypeInv /\ [Next]_vars => [Unique!Issue]_<<issued, calls>>
  BY IdsMove, IdStep DEF TypeInv
<1>3. QED
  BY TypesInit, TypesStep, <1>1, <1>2, PTL DEF Spec, IdsAreUnique, Unique!Spec

----------------------------------------------------------------------------
(* What a kill is worth.                                                    *)

(* Only a blow changes hit points, states and experience.                   *)
LEMMA FightsMove ==
    ASSUME [Next]_vars
    PROVE  UNCHANGED fightVars \/ \E w \in Worker : Strike(w)
<1>1. ASSUME NEW w \in Worker, AimAt(w) \/ Aim(w) \/ Unlock(w) PROVE UNCHANGED fightVars
  BY <1>1 DEF AimAt, Aim, Unlock
<1>2. ASSUME NEW w \in Worker, DropStep(w) PROVE UNCHANGED fightVars
  BY <1>2 DEF DropStep, NpcDrops, NoneLeft, Number, NumberWaits, Take, Publish, Announce
<1>3. ASSUME NEW w \in Worker, PickupStep(w) PROVE UNCHANGED fightVars
  BY <1>3 DEF PickupStep, Claim, Gain, Restore, Unlist, Unplace
<1>4. ASSUME NEW w \in Worker, NEW p \in Player, Attack(w, p) \/ Drop(w, p) \/ Pickup(w, p)
      PROVE  UNCHANGED fightVars
  BY <1>4 DEF Attack, Drop, Pickup
<1>5. ASSUME NEW n \in Npc, NpcMoves(n) PROVE UNCHANGED fightVars
  BY <1>5 DEF NpcMoves
<1>6. CASE ClockTicks
  BY <1>6 DEF ClockTicks
<1>7. CASE UNCHANGED vars
  BY <1>7 DEF vars
<1>8. QED BY <1>1, <1>2, <1>3, <1>4, <1>5, <1>6, <1>7 DEF Next, AttackStep

(* A blow that kills, and one that does not.                                *)
LEMMA StrikeCases ==
    ASSUME NEW w \in Worker, TypeInv, Strike(w)
    PROVE  /\ work[w].npc \in Npc /\ work[w].player \in Player
           /\ \/ UNCHANGED <<state, exp, level>>
              \/ /\ state' = [state EXCEPT ![work[w].npc] = "DEAD"]
                 /\ Earn(work[w].player, Reward(work[w].npc))
<1>1. Fits(work[w]) /\ work[w].pc = "strike"
  BY DEF Strike, TypeInv, AllFit
<1>2. QED BY <1>1 DEF Fits, Strike

LEMMA EarnBelow ==
    ASSUME NEW p \in Player, NEW e \in Nat, e <= 200, Earn(p, e), TypeInv, ExpBelow
    PROVE  ExpBelow'
<1> DEFINE R == Required(level[p])
           x == exp[p]
<1>1. exp \in [Player -> Nat] /\ level \in [Player -> Nat \ {0}]
  BY DEF TypeInv, TypeOK
<1>2. R \in Nat /\ R >= 100 /\ x \in Nat /\ x < R /\ Required(level[p] + 1) = 2 * R
  BY <1>1, RequiredType, RequiredDoubles DEF ExpBelow
<1> HIDE DEF R, x
<1>3. exp'[p] < Required(level'[p])
  <2>1. CASE x + e >= R
    <3>1. exp'[p] = x + e - R /\ level'[p] = level[p] + 1
      BY <1>1, <2>1 DEF Earn, R, x
    <3>2. x + e - R < 2 * R
      BY <1>2
    <3>3. QED BY <1>2, <3>1, <3>2
  <2>2. CASE ~(x + e >= R)
    <3>1. exp'[p] = x + e /\ level'[p] = level[p]
      BY <1>1, <2>2 DEF Earn, R, x
    <3>2. x + e < R
      BY <1>2, <2>2
    <3>3. QED BY <3>1, <3>2 DEF R
  <2>3. QED BY <2>1, <2>2
<1>4. ASSUME NEW q \in Player, q # p PROVE exp'[q] < Required(level'[q])
  BY <1>1, <1>4 DEF Earn, ExpBelow
<1>5. QED BY <1>3, <1>4 DEF ExpBelow

LEMMA BelowStep == TypeInv /\ ExpBelow /\ [Next]_vars => ExpBelow'
<1> SUFFICES ASSUME TypeInv, ExpBelow, [Next]_vars PROVE ExpBelow'
  OBVIOUS
<1>1. CASE UNCHANGED <<exp, level>>
  BY <1>1 DEF ExpBelow
<1>2. ASSUME NEW w \in Worker, Strike(w) PROVE ExpBelow'
  <2>1. CASE Earn(work[w].player, Reward(work[w].npc))
    BY <1>2, <2>1, StrikeCases, RewardType, EarnBelow
  <2>2. QED BY <1>1, <1>2, <2>1, StrikeCases
<1>3. QED BY <1>1, <1>2, FightsMove DEF fightVars

(* No level is left unpaid: a kill gives at most one, and yet what is left  *)
(* of the experience is below the price of the next (Player.cpp:863-874).   *)
THEOREM LevelsArePaid == Spec => []ExpBelow
<1>1. Init => ExpBelow
  BY StartAssumption DEF Init, ExpBelow
<1>2. QED
  BY TypesInit, TypesStep, BelowStep, <1>1, PTL DEF Spec

(* Attackers exclude each other by the locks of their sectors, and an NPC   *)
(* under a blow is alive and stays where it is until the blow falls.        *)
Attacks(w) == work[w].pc \in {"aim", "strike"}
Locks == \A v, w \in Worker : Attacks(v) /\ Attacks(w) /\ work[v].cell = work[w].cell => v = w
Aimed == \A w \in Worker : work[w].pc = "strike" =>
           state[work[w].npc] = "INGAME" /\ at[work[w].npc] = work[w].cell
LockInv == TypeInv /\ CalmMoves /\ Locks /\ Aimed

(* A step that ends in no attack, and one that the cell's lock covers.      *)
LEMMA LockKept ==
    ASSUME NEW w \in Worker, LockInv,
           \A v \in Worker : v # w => work'[v] = work[v],
           Attacks(w)' => Attacks(w) /\ work'[w].cell = work[w].cell,
           work'[w].pc # "strike",
           UNCHANGED <<state, at>>
    PROVE  Locks' /\ Aimed'
<1>1. Locks'
  BY DEF LockInv, Locks, Attacks
<1>2. Aimed'
  BY DEF LockInv, Aimed
<1>3. QED BY <1>1, <1>2

(* Where a step leads.                                                      *)
LEMMA LeadsTo ==
    ASSUME NEW w \in Worker, TypeInv, NEW r, Start(w, r)
    PROVE  work'[w] = r /\ \A v \in Worker : v # w => work'[v] = work[v]
BY DEF TypeInv, TypeOK, Start

LEMMA GoesTo ==
    ASSUME NEW w \in Worker, TypeInv, NEW pc, Goto(w, pc)
    PROVE  /\ work'[w].pc = pc /\ work'[w].slot = work[w].slot
           /\ \A v \in Worker : v # w => work'[v] = work[v]
<1>1. work[w] \in Handler
  BY DEF TypeInv, TypeOK
<1>2. QED BY <1>1, LeadsTo DEF Goto, Handler

LEMMA LocksElsewhere ==
    ASSUME NEW w \in Worker, LockInv,
           DropStep(w) \/ PickupStep(w) \/ Unlock(w)
             \/ \E p \in Player : Attack(w, p) \/ Drop(w, p) \/ Pickup(w, p)
    PROVE  Locks' /\ Aimed'
<1>1. work[w] \in Handler /\ work \in [Worker -> Handler] /\ TypeInv
  BY DEF LockInv, TypeInv, TypeOK
<1>2. UNCHANGED <<state, at>>
  BY DEF fightVars, DropStep, PickupStep, Unlock, Attack, Drop, Pickup, NpcDrops, NoneLeft,
     Number, NumberWaits, Take, Publish, Announce, Claim, Gain, Restore, Unlist, Unplace
<1>3. ASSUME NEW r, Start(w, r), r.pc \notin {"aim", "strike"}
      PROVE  Locks' /\ Aimed'
  BY <1>1, <1>2, <1>3, LeadsTo, LockKept DEF Attacks
<1>4. Idle.pc = "idle"
  BY DEF Idle
<1>5. ASSUME Finish(w) PROVE Locks' /\ Aimed'
  BY <1>3, <1>4, <1>5 DEF Finish
<1>6. ASSUME NEW pc, Goto(w, pc), pc \notin {"aim", "strike"} PROVE Locks' /\ Aimed'
  <2>1. [work[w] EXCEPT !.pc = pc].pc = pc
    BY <1>1 DEF Handler
  <2>2. QED BY <1>3, <1>6, <2>1 DEF Goto
<1>7. ASSUME AimNext(w) PROVE Locks' /\ Aimed'
  <2>1. [work[w] EXCEPT !.pc = "coord", !.cell = None, !.seen = {}].pc = "coord"
    BY <1>1 DEF Handler
  <2>2. QED BY <1>3, <1>5, <1>7, <2>1 DEF AimNext
<1>8. CASE Unlock(w)
  <2>1. [work[w] EXCEPT !.pc = "drop", !.cell = None, !.seen = {}].pc = "drop"
    BY <1>1 DEF Handler
  <2>2. QED BY <1>3, <1>7, <1>8, <2>1 DEF Unlock
<1>9. CASE PickupStep(w)
  BY <1>5, <1>6, <1>9 DEF PickupStep, Claim, Gain, Restore, Unlist, Unplace
<1>10. CASE DropStep(w)
  <2>1. CASE NpcDrops(w)
    <3>1. ASSUME NEW s, NEW D
          PROVE  /\ [work[w] EXCEPT !.pc = "number", !.slot = s, !.dead = D].pc = "number"
                 /\ [work[w] EXCEPT !.dead = D].pc = work[w].pc
      BY <1>1 DEF Handler
    <3>2. work[w].pc = "drop"
      BY <2>1 DEF NpcDrops
    <3>3. QED BY <1>3, <2>1, <3>1, <3>2 DEF NpcDrops
  <2>2. CASE NoneLeft(w)
    BY <1>7, <2>2 DEF NoneLeft
  <2>3. CASE Number(w) \/ Publish(w) \/ Take(w)
    BY <1>5, <1>6, <2>3 DEF Number, Publish, Take, Write
  <2>4. CASE NumberWaits(w)
    BY <1>2, <2>4 DEF NumberWaits, LockInv, Locks, Attacks, Aimed
  <2>5. CASE Announce(w)
    <3>1. [work[w] EXCEPT !.pc = "drop", !.slot = None].pc = "drop"
      BY <1>1 DEF Handler
    <3>2. QED BY <1>3, <1>5, <2>5, <3>1 DEF Announce
  <2>6. QED BY <1>10, <2>1, <2>2, <2>3, <2>4, <2>5 DEF DropStep
<1>11. ASSUME NEW p \in Player, Attack(w, p) \/ Drop(w, p) \/ Pickup(w, p)
       PROVE  Locks' /\ Aimed'
  <2>1. ASSUME NEW C, NEW d, NEW s
        PROVE  /\ [Idle EXCEPT !.pc = "coord", !.player = p, !.coords = C, !.damage = d].pc = "coord"
               /\ [Idle EXCEPT !.pc = "claim", !.player = p, !.slot = s].pc = "claim"
    BY DEF Idle
  <2>2. CASE Attack(w, p)
    BY <1>3, <2>1, <2>2 DEF Attack
  <2>3. CASE Drop(w, p)
    <3>1. PICK s \in MapSlot, i \in Items :
            Start(w, [Idle EXCEPT !.pc = "take", !.player = p, !.slot = s, !.item = i])
      BY <2>3 DEF Drop
    <3>2. [Idle EXCEPT !.pc = "take", !.player = p, !.slot = s, !.item = i].pc = "take"
      BY DEF Idle
    <3>3. QED BY <1>3, <3>1, <3>2
  <2>4. CASE Pickup(w, p)
    BY <1>3, <2>1, <2>4 DEF Pickup
  <2>5. QED BY <1>11, <2>2, <2>3, <2>4
<1>12. QED BY <1>8, <1>9, <1>10, <1>11

LEMMA LocksAimAt == ASSUME NEW w \in Worker, LockInv, AimAt(w) PROVE Locks' /\ Aimed'
<1>1. work[w] \in Handler /\ TypeInv /\ UNCHANGED <<state, at>> /\ work \in [Worker -> Handler]
  BY DEF LockInv, TypeInv, TypeOK, AimAt, fightVars
<1>2. PICK c \in work[w].coords :
        /\ ~Locked(c)
        /\ Start(w, [work[w] EXCEPT !.pc = "aim", !.cell = c, !.seen = {}, !.coords = @ \ {c}])
  BY DEF AimAt
<1> DEFINE r == [work[w] EXCEPT !.pc = "aim", !.cell = c, !.seen = {}, !.coords = @ \ {c}]
<1>3. r.pc = "aim" /\ r.cell = c
  BY <1>1 DEF Handler
<1>4. work'[w] = r /\ \A v \in Worker : v # w => work'[v] = work[v]
  BY <1>1, <1>2, LeadsTo
<1> HIDE DEF r
<1>5. \A v \in Worker : v # w /\ Attacks(v) => work[v].cell # c
  BY <1>2 DEF Locked, Attacks
<1>6. Locks'
  BY <1>3, <1>4, <1>5 DEF LockInv, Locks, Attacks
<1>7. Aimed'
  BY <1>1, <1>3, <1>4 DEF LockInv, Aimed
<1>8. QED BY <1>6, <1>7

LEMMA LocksAim == ASSUME NEW w \in Worker, LockInv, Aim(w) PROVE Locks' /\ Aimed'
<1>1. /\ work[w] \in Handler /\ TypeInv /\ UNCHANGED <<state, at>> /\ work[w].pc = "aim"
      /\ work \in [Worker -> Handler]
  BY DEF LockInv, TypeInv, TypeOK, Aim, fightVars
<1>2. PICK n \in Npc :
        /\ Target(w, n)
        /\ Start(w, [work[w] EXCEPT !.pc = "strike", !.npc = n, !.seen = @ \union {n}])
  BY DEF Aim
<1> DEFINE r == [work[w] EXCEPT !.pc = "strike", !.npc = n, !.seen = @ \union {n}]
<1>3. r.pc = "strike" /\ r.cell = work[w].cell /\ r.npc = n
  BY <1>1 DEF Handler
<1>4. work'[w] = r /\ \A v \in Worker : v # w => work'[v] = work[v]
  BY <1>1, <1>2, LeadsTo
<1> HIDE DEF r
<1>5. Locks'
  BY <1>1, <1>3, <1>4 DEF LockInv, Locks, Attacks
<1>6. Aimed'
  BY <1>1, <1>2, <1>3, <1>4 DEF LockInv, Aimed, Target
<1>7. QED BY <1>5, <1>6

(* The one who strikes is alone in the NPC's sector, so nobody else is      *)
(* about to strike at what dies.                                            *)
LEMMA LocksStrike == ASSUME NEW w \in Worker, LockInv, Strike(w) PROVE Locks' /\ Aimed'
<1> DEFINE n == work[w].npc
<1>1. /\ work[w] \in Handler /\ TypeInv /\ at' = at /\ work[w].pc = "strike"
      /\ work \in [Worker -> Handler] /\ state \in [Npc -> {"INGAME", "DEAD"}]
  BY DEF LockInv, TypeInv, TypeOK, Strike
<1>2. /\ work'[w].pc = "aim" /\ work'[w].cell = work[w].cell
      /\ \A v \in Worker : v # w => work'[v] = work[v]
  <2>1. ASSUME NEW r, Start(w, r), r.pc = "aim", r.cell = work[w].cell
        PROVE  /\ work'[w].pc = "aim" /\ work'[w].cell = work[w].cell
               /\ \A v \in Worker : v # w => work'[v] = work[v]
    BY <1>1, <2>1, LeadsTo
  <2>2. ASSUME NEW D
        PROVE  /\ [work[w] EXCEPT !.pc = "aim", !.npc = None, !.dead = D].pc = "aim"
               /\ [work[w] EXCEPT !.pc = "aim", !.npc = None, !.dead = D].cell = work[w].cell
               /\ [work[w] EXCEPT !.pc = "aim", !.npc = None].pc = "aim"
               /\ [work[w] EXCEPT !.pc = "aim", !.npc = None].cell = work[w].cell
    BY <1>1 DEF Handler
  <2>3. QED BY <2>1, <2>2 DEF Strike
<1>3. Locks'
  BY <1>1, <1>2 DEF LockInv, Locks, Attacks
<1>4. ASSUME NEW v \in Worker, work'[v].pc = "strike"
      PROVE  state'[work'[v].npc] = "INGAME" /\ at'[work'[v].npc] = work'[v].cell
  <2>1. v # w /\ work'[v] = work[v]
    BY <1>2, <1>4
  <2>2. /\ state[work[v].npc] = "INGAME" /\ at[work[v].npc] = work[v].cell
        /\ at[n] = work[w].cell
    BY <1>1, <1>4, <2>1 DEF LockInv, Aimed
  <2>3. work[v].cell # work[w].cell
    BY <1>1, <1>4, <2>1 DEF LockInv, Locks, Attacks
  <2>4. work[v].npc # n
    BY <2>2, <2>3
  <2>5. Fits(work[v])
    BY DEF LockInv, TypeInv, AllFit
  <2>6. work[v].npc \in Npc
    BY <1>4, <2>1, <2>5 DEF Fits
  <2>7. state'[work[v].npc] = state[work[v].npc]
    BY <1>1, <2>4, <2>6, StrikeCases
  <2>8. QED BY <1>1, <2>1, <2>2, <2>7
<1>5. QED BY <1>3, <1>4 DEF Aimed

LEMMA LocksMoves == ASSUME NEW n \in Npc, LockInv, NpcMoves(n) PROVE Locks' /\ Aimed'
<1>1. work' = work /\ state' = state /\ at \in [Npc -> Cell]
  BY DEF LockInv, TypeInv, TypeOK, NpcMoves, fightVars
<1>2. \A w \in Worker : work[w].npc # n
  BY DEF LockInv, NpcMoves
<1>3. \A m \in Npc : m # n => at'[m] = at[m]
  BY <1>1 DEF NpcMoves
<1>4. \A w \in Worker : work[w].pc = "strike" => work[w].npc \in Npc
  BY DEF LockInv, TypeInv, AllFit, Fits
<1>5. Aimed'
  BY <1>1, <1>2, <1>3, <1>4 DEF LockInv, Aimed
<1>6. Locks'
  BY <1>1 DEF LockInv, Locks, Attacks
<1>7. QED BY <1>5, <1>6

LEMMA LockStep == LockInv /\ [Next]_vars => LockInv'
<1> SUFFICES ASSUME LockInv, [Next]_vars PROVE LockInv'
  OBVIOUS
<1>1. TypeInv' /\ CalmMoves
  BY TypesStep DEF LockInv
<1>2. ASSUME NEW w \in Worker, AttackStep(w) PROVE Locks' /\ Aimed'
  BY <1>2, LocksAimAt, LocksAim, LocksStrike, LocksElsewhere DEF AttackStep
<1>3. ASSUME NEW w \in Worker, DropStep(w) \/ PickupStep(w) PROVE Locks' /\ Aimed'
  BY <1>3, LocksElsewhere
<1>4. ASSUME NEW w \in Worker, NEW p \in Player, Attack(w, p) \/ Drop(w, p) \/ Pickup(w, p)
      PROVE  Locks' /\ Aimed'
  BY <1>4, LocksElsewhere
<1>5. CASE UNCHANGED <<work, state, at>>
  <2>1. Locks'
    BY <1>5 DEF LockInv, Locks, Attacks
  <2>2. Aimed'
    BY <1>5 DEF LockInv, Aimed
  <2>3. QED BY <1>1, <2>1, <2>2 DEF LockInv
<1>6. UNCHANGED vars \/ ClockTicks => UNCHANGED <<work, state, at>>
  BY DEF vars, ClockTicks, fightVars
<1>7. CASE \/ \E w \in Worker : AttackStep(w) \/ DropStep(w) \/ PickupStep(w)
           \/ \E w \in Worker, p \in Player : Attack(w, p) \/ Drop(w, p) \/ Pickup(w, p)
           \/ \E n \in Npc : NpcMoves(n)
  <2>1. Locks' /\ Aimed'
    BY <1>2, <1>3, <1>4, <1>7, LocksMoves
  <2>2. QED BY <1>1, <2>1 DEF LockInv
<1>8. QED BY <1>5, <1>6, <1>7 DEF Next

(* The experience there is, as a sum that a blow adds to.                   *)
Totals == [p \in Player |-> Total(p)]
Rewards == [n \in Npc |-> Reward(n)]
Dead == {n \in Npc : state[n] = "DEAD"}

LEMMA TotalType == TypeInv => Totals \in [Player -> Nat]
<1> SUFFICES ASSUME TypeInv, NEW p \in Player PROVE Total(p) \in Nat
  BY DEF Totals
<1>1. exp[p] \in Nat /\ level[p] - 1 \in Nat
  BY DEF TypeInv, TypeOK
<1>2. 2^(level[p] - 1) \in Nat \ {0}
  BY <1>1, PowerType
<1> DEFINE k == 2^(level[p] - 1)
<1>3. k \in Nat \ {0}
  BY <1>2
<1> HIDE DEF k
<1>4. exp[p] + 100 * (k - 1) \in Nat
  BY <1>1, <1>3
<1>5. QED BY <1>4 DEF Total, k

LEMMA SumOfTotals == TypeInv => MapThenSumSet(Total, Player) = Weight(Totals, Player)
<1> SUFFICES ASSUME TypeInv PROVE MapThenSumSet(Total, Player) = Weight(Totals, Player)
  OBVIOUS
<1> DEFINE Eq(f) == f = [s \in SUBSET Player |->
                          IF s = {} THEN 0
                          ELSE Total(CHOOSE x \in s : TRUE) + f[s \ {CHOOSE x \in s : TRUE}]]
           iter == CHOOSE f : Eq(f)
<1>1. MapThenSumSet(Total, Player) = iter[Player]
  BY DEF MapThenSumSet, MapThenFoldSet
<1>2. Totals \in [Player -> Nat]
  BY TotalType
<1>3. ASSUME NEW f PROVE Sums(f, Totals, Player) <=> Eq(f)
  <2>1. \A s \in SUBSET Player : s # {} => Totals[Pick(s)] = Total(CHOOSE x \in s : TRUE)
    BY DEF Pick, Totals
  <2>2. QED BY <2>1 DEF Sums, Pick
<1>4. \E f : Eq(f)
  <2>1. PICK f : Sums(f, Totals, Player)
    BY <1>2, ArrayAssumption, WeightSums
  <2> HIDE DEF Eq
  <2>2. Eq(f)
    BY <1>3, <2>1
  <2>3. QED BY <2>2
<1> HIDE DEF Eq
<1>5. Eq(iter)
  BY <1>4
<1> HIDE DEF iter
<1>6. Sums(iter, Totals, Player)
  BY <1>5, <1>3
<1>7. QED BY <1>1, <1>2, <1>6, SumsIsWeight, ArrayAssumption

LEMMA SumOfRewards == MapThenSumSet(Reward, Dead) = Weight(Rewards, Dead)
<1> DEFINE g == [n \in Dead |-> Reward(n)]
           Eq(f) == f = [s \in SUBSET Dead |->
                          IF s = {} THEN 0
                          ELSE Reward(CHOOSE x \in s : TRUE) + f[s \ {CHOOSE x \in s : TRUE}]]
           iter == CHOOSE f : Eq(f)
<1>1. MapThenSumSet(Reward, Dead) = iter[Dead]
  BY DEF MapThenSumSet, MapThenFoldSet
<1>2. g \in [Dead -> Nat] /\ IsFiniteSet(Dead)
  BY RewardType, ArrayAssumption, FS_Subset DEF Dead
<1>3. ASSUME NEW f PROVE Sums(f, g, Dead) <=> Eq(f)
  <2>1. \A s \in SUBSET Dead : s # {} => g[Pick(s)] = Reward(CHOOSE x \in s : TRUE)
    BY DEF Pick
  <2>2. QED BY <2>1 DEF Sums, Pick
<1>4. \E f : Eq(f)
  BY <1>2, <1>3, WeightSums
<1> HIDE DEF Eq
<1>5. Eq(iter)
  BY <1>4
<1> HIDE DEF iter, g
<1>6. Sums(iter, g, Dead)
  BY <1>5, <1>3
<1>7. Weight(g, Dead) = Weight(Rewards, Dead)
  <2>1. \A n \in Dead : g[n] = Rewards[n]
    BY DEF g, Rewards, Dead
  <2>2. QED BY <2>1, SameWeight
<1>8. QED BY <1>1, <1>2, <1>6, <1>7, SumsIsWeight

(* A kill adds to both sides what the NPC was worth.                        *)
LEMMA EarnAdds ==
    ASSUME NEW p \in Player, NEW e \in Nat, Earn(p, e), TypeInv
    PROVE  Totals' = [Totals EXCEPT ![p] = @ + e]
<1> DEFINE k == 2^(level[p] - 1)
           x == exp[p]
           l == level[p]
<1>1. exp \in [Player -> Nat] /\ level \in [Player -> Nat \ {0}]
  BY DEF TypeInv, TypeOK
<1>2. x \in Nat /\ l \in Nat \ {0} /\ k \in Nat /\ 2^l = 2 * k /\ Required(l) = 100 * k
  <2>1. l - 1 \in Nat
    BY <1>1
  <2>2. PICK n \in Nat : n = l - 1
    BY <2>1
  <2>3. n + 1 = l
    BY <1>1, <2>2
  <2>4. 2^(n + 1) = 2 * 2^n /\ 2^n \in Nat
    BY PowerStep, PowerType
  <2>5. QED BY <1>1, <2>2, <2>3, <2>4 DEF Required
<1>3. (l + 1) - 1 = l
  BY <1>2
<1>4. Total(p)' = Total(p) + e
  <2>1. Total(p) = x + 100 * (k - 1)
    BY DEF Total
  <2>2. CASE x + e >= Required(l)
    <3>1. exp'[p] = x + e - Required(l) /\ level'[p] = l + 1
      BY <1>1, <2>2 DEF Earn
    <3>2. Total(p)' = (x + e - Required(l)) + 100 * (2^l - 1)
      BY <3>1, <1>3 DEF Total
    <3> HIDE DEF x, l, k
    <3>3. (x + e - 100 * k) + 100 * (2 * k - 1) = (x + 100 * (k - 1)) + e
      BY <1>2
    <3>4. QED BY <1>2, <2>1, <3>2, <3>3
  <2>3. CASE ~(x + e >= Required(l))
    <3>1. exp'[p] = x + e /\ level'[p] = l
      BY <1>1, <2>3 DEF Earn
    <3>2. Total(p)' = (x + e) + 100 * (k - 1)
      BY <3>1 DEF Total
    <3> HIDE DEF x, l, k
    <3>3. (x + e) + 100 * (k - 1) = (x + 100 * (k - 1)) + e
      BY <1>2
    <3>4. QED BY <2>1, <3>2, <3>3
  <2>4. QED BY <2>2, <2>3
<1>5. ASSUME NEW q \in Player, q # p PROVE Total(q)' = Total(q)
  BY <1>1, <1>5 DEF Earn, Total
<1>6. Totals' = [q \in Player |-> Total(q)']
  BY DEF Totals
<1> HIDE DEF x, l, k
<1>7. QED BY <1>4, <1>5, <1>6 DEF Totals

LEMMA WeightOfAll ==
    ASSUME NEW S, IsFiniteSet(S), NEW g \in [S -> Nat], NEW x \in S
    PROVE  /\ Weight(g, S) = g[x] + Weight(g, S \ {x})
           /\ Weight(g, S \ {x}) \in Nat
<1>1. S \in SUBSET S
  OBVIOUS
<1>2. QED BY <1>1, WeightAdds

LEMMA WeightChanged ==
    ASSUME NEW S, IsFiniteSet(S), NEW g \in [S -> Nat], NEW x \in S, NEW e \in Nat,
           NEW f, f = [g EXCEPT ![x] = @ + e]
    PROVE  Weight(f, S) = Weight(g, S) + e
<1>1. f \in [S -> Nat] /\ f[x] = g[x] + e /\ g[x] \in Nat
  OBVIOUS
<1>2. /\ Weight(g, S) = g[x] + Weight(g, S \ {x}) /\ Weight(g, S \ {x}) \in Nat
      /\ Weight(f, S) = f[x] + Weight(f, S \ {x})
  <2>1. Weight(g, S) = g[x] + Weight(g, S \ {x}) /\ Weight(g, S \ {x}) \in Nat
    BY WeightOfAll
  <2>2. Weight(f, S) = f[x] + Weight(f, S \ {x})
    BY <1>1, WeightOfAll, Zenon
  <2>3. QED BY <2>1, <2>2
<1>3. Weight(f, S \ {x}) = Weight(g, S \ {x})
  <2>1. \A y \in S \ {x} : f[y] = g[y]
    OBVIOUS
  <2>2. QED BY <2>1, SameWeight
<1>4. QED BY <1>1, <1>2, <1>3

(* The players have earned what the dead were worth.                        *)
Balance == Weight(Totals, Player) = StartExp * Cardinality(Player) + Weight(Rewards, Dead)

LEMMA BalanceStep == LockInv /\ Balance /\ [Next]_vars => Balance'
<1> SUFFICES ASSUME LockInv, Balance, [Next]_vars PROVE Balance'
  OBVIOUS
<1>1. TypeInv /\ Rewards \in [Npc -> Nat] /\ Dead \subseteq Npc
  BY RewardType DEF LockInv, Rewards, Dead
<1>2. CASE UNCHANGED <<state, exp, level>>
  <2>1. Totals' = Totals /\ Dead' = Dead
    BY <1>2 DEF Totals, Total, Dead
  <2>2. QED BY <2>1 DEF Balance, Weight, Units, Rewards
<1>3. ASSUME NEW w \in Worker, Strike(w), state' = [state EXCEPT ![work[w].npc] = "DEAD"],
             Earn(work[w].player, Reward(work[w].npc))
      PROVE  Balance'
  <2> DEFINE n == work[w].npc
             p == work[w].player
             e == Reward(n)
  <2>1. n \in Npc /\ p \in Player /\ e \in Nat
    BY <1>1, <1>3, StrikeCases, RewardType
  <2>2. state[n] = "INGAME"
    BY <1>3 DEF LockInv, Aimed, Strike
  <2>3. n \notin Dead /\ Dead' = Dead \union {n}
    BY <1>1, <1>3, <2>1, <2>2 DEF Dead, TypeInv, TypeOK
  <2>4. Weight(Rewards, Dead \union {n}) = Rewards[n] + Weight(Rewards, (Dead \union {n}) \ {n})
    BY <1>1, <2>1, ArrayAssumption, WeightAdds
  <2>5. (Dead \union {n}) \ {n} = Dead /\ Rewards[n] = e
    BY <2>1, <2>3 DEF Rewards
  <2>6. Totals' = [Totals EXCEPT ![p] = @ + e] /\ Totals \in [Player -> Nat]
    BY <1>1, <1>3, <2>1, EarnAdds, TotalType
  <2> HIDE DEF p, e, n
  <2>7. Weight(Totals', Player) = Weight(Totals, Player) + e
    BY <2>1, <2>6, ArrayAssumption, WeightChanged
  <2>8. Weight(Rewards, Dead) \in Nat /\ StartExp * Cardinality(Player) \in Nat
    <3>1. Weight(Rewards, (Dead \union {n}) \ {n}) \in Nat
      BY <1>1, <2>1, ArrayAssumption, WeightAdds
    <3>2. Cardinality(Player) \in Nat
      BY ArrayAssumption, FS_CardinalityType
    <3>3. Weight(Rewards, Dead) \in Nat
      BY <2>5, <3>1
    <3>4. StartExp * Cardinality(Player) \in Nat
      BY <3>2, StartAssumption
    <3>5. QED BY <3>3, <3>4
  <2>9. Weight(Totals', Player) = StartExp * Cardinality(Player) + Weight(Rewards, Dead')
    <3> DEFINE a == Weight(Rewards, Dead)
               b == StartExp * Cardinality(Player)
    <3>1. Weight(Rewards, Dead') = e + a
      BY <2>3, <2>4, <2>5
    <3>2. Weight(Totals', Player) = (b + a) + e
      BY <2>7 DEF Balance
    <3>3. a \in Nat /\ b \in Nat
      BY <2>8
    <3> HIDE DEF a, b
    <3>4. (b + a) + e = b + (e + a)
      BY <2>1, <3>3
    <3>5. Weight(Totals', Player) = b + Weight(Rewards, Dead')
      BY <3>1, <3>2, <3>4
    <3>6. QED BY <3>5 DEF b
  <2>10. QED BY <2>9 DEF Balance, Weight, Units, Rewards
<1>4. QED BY <1>1, <1>2, <1>3, FightsMove, StrikeCases DEF fightVars

LEMMA BalanceInit == Init /\ CalmMoves => LockInv /\ Balance
<1> SUFFICES ASSUME Init, CalmMoves PROVE LockInv /\ Balance
  OBVIOUS
<1>1. LockInv
  BY TypesInit DEF LockInv, Init, Locks, Aimed, Attacks, Idle
<1>2. Dead = {} /\ Totals = [p \in Player |-> StartExp]
  <2>1. Dead = {}
    BY DEF Init, Dead
  <2>2. 2^0 = 1
    OBVIOUS
  <2>3. ASSUME NEW p \in Player PROVE Total(p) = StartExp
    BY <2>2, StartAssumption DEF Init, Total
  <2>4. QED BY <2>1, <2>3 DEF Totals
<1>3. Units(Totals, Player) = Player \X (0 .. (StartExp - 1))
  BY <1>2, StartAssumption DEF Units
<1> DEFINE I == 0 .. (StartExp - 1)
<1>4. IsFiniteSet(I) /\ Cardinality(I) = StartExp
  <2>1. 0 \in Int /\ StartExp - 1 \in Int
    BY StartAssumption
  <2>2. IsFiniteSet(I)
    BY <2>1, FS_Interval
  <2>3. Cardinality(I) = IF 0 > StartExp - 1 THEN 0 ELSE (StartExp - 1) - 0 + 1
    BY <2>1, FS_Interval
  <2>4. (IF 0 > StartExp - 1 THEN 0 ELSE (StartExp - 1) - 0 + 1) = StartExp
    BY StartAssumption
  <2>5. QED BY <2>2, <2>3, <2>4
<1> HIDE DEF I
<1>5. Cardinality(Player \X I) = Cardinality(Player) * StartExp
  BY <1>4, ArrayAssumption, FS_Product
<1>6. Weight(Totals, Player) = Cardinality(Player) * StartExp
  BY <1>3, <1>5 DEF I, Weight
<1>7. Cardinality(Player) \in Nat /\ StartExp \in Nat
  BY ArrayAssumption, FS_CardinalityType, StartAssumption
<1>8. Weight(Rewards, Dead) = 0
  BY <1>2, WeightOfNone
<1>9. Cardinality(Player) * StartExp = StartExp * Cardinality(Player) + 0
  BY <1>7
<1>10. QED BY <1>1, <1>6, <1>8, <1>9 DEF Balance

(* Nobody is paid twice for one NPC, and nobody goes without, as long as an *)
(* NPC under a blow stays in its sector (Player.cpp:834-877): the locks of  *)
(* the sectors make it die once.                                            *)
THEOREM DeathsArePaid == CalmMoves /\ Spec => []ExpForDeaths
<1>1. LockInv /\ Balance => ExpForDeaths
  BY SumOfTotals, SumOfRewards DEF LockInv, Balance, ExpForDeaths, Dead
<1>2. LockInv /\ Balance /\ [Next]_vars => (LockInv /\ Balance)'
  BY LockStep, BalanceStep
<1>3. QED
  BY BalanceInit, <1>1, <1>2, PTL DEF Spec

----------------------------------------------------------------------------
(* The slots of the map, and who has one in hand.                           *)

Bare(s)  == slot[s] = "FREE"   /\ s \notin placed /\ \A p \in Player : s \notin listed[p]
Half(s)  == slot[s] = "INGAME" /\ s \in placed    /\ \A p \in Player : s \notin listed[p]
OnMap(s) == slot[s] = "INGAME" /\ s \in placed    /\ \A p \in Player : s \in listed[p]
Taken(s) == slot[s] = "FREE"   /\ s \in placed    /\ \A p \in Player : s \in listed[p]
Away(s)  == slot[s] = "FREE"   /\ s \in placed    /\ \A p \in Player : s \notin listed[p]

\* Nobody else has the slot in hand; or only those who are about to claim it.
Alone(w, s)  == \A v \in Worker : work[v].slot = s => v = w
Claimed(w, s) == \A v \in Worker : work[v].slot = s => v = w \/ work[v].pc = "claim"

\* How far the handler is that fills the slot or empties it.
Works(w, s) ==
    \/ work[w].pc \in {"number", "take", "publish"} /\ Bare(s) /\ Alone(w, s)
    \/ work[w].pc = "announce" /\ Half(s) /\ Alone(w, s)
    \/ work[w].pc \in {"gain", "restore", "unlist"} /\ Taken(s) /\ Claimed(w, s)
    \/ work[w].pc = "unplace" /\ Away(s) /\ Claimed(w, s)

\* Nobody fills or empties it.
Rests(s) ==
    /\ Bare(s) \/ OnMap(s)
    /\ \A v \in Worker : work[v].slot = s => work[v].pc = "claim"

Phase(s) == Rests(s) \/ \E w \in Worker : work[w].slot = s /\ Works(w, s)
MapInv == \A s \in MapSlot : Phase(s)

\* A step of w that leaves alone every slot but s.
Elsewhere(w, s) ==
    /\ \A v \in Worker : v # w => work'[v] = work[v]
    /\ work[w].slot \in {s, None} /\ work'[w].slot \in {s, None}
    /\ \A t \in MapSlot \ {s} :
         /\ slot'[t] = slot[t] /\ uid'[t] = uid[t]
         /\ t \in placed' <=> t \in placed
         /\ \A p \in Player : t \in listed'[p] <=> t \in listed[p]

LEMMA NoneIsNoSlot == None \notin MapSlot
BY NoneAssumption, SlotAssumption DEF MapSlot

LEMMA PhaseElsewhere ==
    ASSUME NEW w \in Worker, NEW s, Elsewhere(w, s), NEW t \in MapSlot, t # s, Phase(t)
    PROVE  Phase(t)'
<1>1. /\ slot'[t] = slot[t]
      /\ t \in placed' <=> t \in placed
      /\ \A p \in Player : t \in listed'[p] <=> t \in listed[p]
  BY DEF Elsewhere
<1>2. /\ Bare(t)' <=> Bare(t)
      /\ Half(t)' <=> Half(t)
      /\ OnMap(t)' <=> OnMap(t)
      /\ Taken(t)' <=> Taken(t)
      /\ Away(t)' <=> Away(t)
  BY <1>1 DEF Bare, Half, OnMap, Taken, Away
<1>3. \A v \in Worker : work'[v].slot = t => work'[v] = work[v]
  BY NoneIsNoSlot DEF Elsewhere
<1>4. \A v \in Worker : work[v].slot = t => work'[v] = work[v]
  BY NoneIsNoSlot DEF Elsewhere
<1>5. CASE Rests(t)
  BY <1>2, <1>3, <1>5 DEF Rests, Phase
<1>6. ASSUME NEW v \in Worker, work[v].slot = t, Works(v, t) PROVE Phase(t)'
  <2>1. work'[v] = work[v] /\ work'[v].slot = t
    BY <1>4, <1>6
  <2>2. Alone(v, t) => Alone(v, t)'
    BY <1>3 DEF Alone
  <2>3. Claimed(v, t) => Claimed(v, t)'
    BY <1>3 DEF Claimed
  <2>4. Works(v, t)'
    BY <1>2, <1>6, <2>1, <2>2, <2>3 DEF Works
  <2>5. QED BY <2>1, <2>4 DEF Phase
<1>7. QED BY <1>5, <1>6 DEF Phase

LEMMA MapStep ==
    ASSUME NEW w \in Worker, NEW s, Elsewhere(w, s), MapInv, s \in MapSlot => Phase(s)'
    PROVE  MapInv'
<1>1. ASSUME NEW t \in MapSlot PROVE Phase(t)'
  BY PhaseElsewhere DEF MapInv
<1>2. QED BY <1>1 DEF MapInv

(* Whoever does more than claim a slot has it for himself.                  *)
LEMMA WorksHere ==
    ASSUME NEW w \in Worker, MapInv, work[w].slot \in MapSlot, work[w].pc # "claim"
    PROVE  Works(w, work[w].slot)
<1> DEFINE s == work[w].slot
<1>1. Phase(s)
  BY DEF MapInv
<1>2. ~Rests(s)
  BY DEF Rests
<1>3. PICK v \in Worker : work[v].slot = s /\ Works(v, s)
  BY <1>1, <1>2 DEF Phase
<1>4. v = w
  BY <1>3 DEF Works, Alone, Claimed
<1>5. QED BY <1>3, <1>4

(* A slot that is claimed is on the map, or somebody else was faster.       *)
LEMMA ClaimsHere ==
    ASSUME NEW w \in Worker, MapInv, work[w].slot \in MapSlot, work[w].pc = "claim",
           slot[work[w].slot] = "INGAME"
    PROVE  OnMap(work[w].slot) /\ \A v \in Worker : work[v].slot = work[w].slot => work[v].pc = "claim"
<1> DEFINE s == work[w].slot
<1>1. Phase(s)
  BY DEF MapInv
<1>2. ~\E v \in Worker : work[v].slot = s /\ Works(v, s)
  BY DEF Works, Alone, Half, Bare, Taken, Away
<1>3. Rests(s)
  BY <1>1, <1>2 DEF Phase
<1>4. QED BY <1>3 DEF Rests, Bare

(* What the handlers have in hand does not change: the map stays as it is.  *)
LEMMA StartElsewhere ==
    ASSUME NEW w \in Worker, NEW r, NEW s, TypeInv, Start(w, r),
           work[w].slot \in {s, None}, r.slot \in {s, None},
           \A t \in MapSlot \ {s} :
             /\ slot'[t] = slot[t] /\ uid'[t] = uid[t]
             /\ t \in placed' <=> t \in placed
             /\ \A p \in Player : t \in listed'[p] <=> t \in listed[p]
    PROVE  /\ Elsewhere(w, s) /\ work'[w] = r
           /\ \A v \in Worker : v # w => work'[v] = work[v]
<1>1. work'[w] = r /\ \A v \in Worker : v # w => work'[v] = work[v]
  BY DEF Start, TypeInv, TypeOK
<1>2. QED BY <1>1 DEF Elsewhere

(* Whoever has the slot keeps it, and whether an item lies in it is his     *)
(* affair.                                                                  *)
LEMMA HeldStill ==
    ASSUME NEW w \in Worker, NEW s, Elsewhere(w, s)
    PROVE  (Alone(w, s) => Alone(w, s)') /\ (Claimed(w, s) => Claimed(w, s)')
BY DEF Elsewhere, Alone, Claimed

LEMMA LyingHere ==
    ASSUME NEW w \in Worker, NEW s, Claimed(w, s)
    PROVE  Lying(s) <=> \/ slot[s] = "INGAME"
                        \/ work[w].slot = s /\ work[w].pc \in {"publish", "gain", "restore"}
BY DEF Lying, Claimed

LEMMA LyingThen ==
    ASSUME NEW w \in Worker, NEW s, Claimed(w, s), Elsewhere(w, s)
    PROVE  Lying(s)' <=> \/ slot'[s] = "INGAME"
                         \/ work'[w].slot = s /\ work'[w].pc \in {"publish", "gain", "restore"}
BY DEF Lying, Claimed, Elsewhere

LEMMA LyingElsewhere ==
    ASSUME NEW w \in Worker, NEW s, Elsewhere(w, s), NEW t \in MapSlot, t # s
    PROVE  (Lying(t)' <=> Lying(t)) /\ uid'[t] = uid[t]
<1>1. \A v \in Worker : work'[v].slot = t \/ work[v].slot = t => work'[v] = work[v]
  BY NoneIsNoSlot DEF Elsewhere
<1>2. QED BY <1>1 DEF Lying, Elsewhere

----------------------------------------------------------------------------
(* The items.                                                               *)

Lies(s, i) == uid[s] = i /\ Lying(s)

\* In one bag and in no slot; in one slot and in no bag.
InBag(i) ==
    /\ \E p \in Player : \A q \in Player : i \in bag[q] <=> q = p
    /\ \A s \in MapSlot : ~Lies(s, i)
OnFloor(i) ==
    /\ \E s \in MapSlot : \A t \in MapSlot : Lies(t, i) <=> t = s
    /\ \A p \in Player : i \notin bag[p]

ItemInv ==
    /\ \A i \in Items : InBag(i) \/ OnFloor(i)
    /\ \A p \in Player : bag[p] \subseteq Items
    /\ \A s \in MapSlot : Lying(s) => uid[s] \in Items

(* A step that moves no item.                                               *)
LEMMA ItemsStay ==
    ASSUME NEW w \in Worker, NEW s, Elsewhere(w, s), ItemInv, bag' = bag, Items' = Items,
           s \in MapSlot => (Lying(s)' <=> Lying(s)) /\ (Lying(s) => uid'[s] = uid[s])
    PROVE  ItemInv'
<1>1. ASSUME NEW t \in MapSlot PROVE (Lying(t)' <=> Lying(t)) /\ (Lying(t) => uid'[t] = uid[t])
  BY LyingElsewhere
<1>2. ASSUME NEW i \in Items PROVE InBag(i)' \/ OnFloor(i)'
  <2>1. \A t \in MapSlot : Lies(t, i)' <=> Lies(t, i)
    BY <1>1 DEF Lies
  <2>2. InBag(i) \/ OnFloor(i)
    BY DEF ItemInv
  <2>3. QED BY <2>1, <2>2 DEF InBag, OnFloor
<1>3. \A p \in Player : bag'[p] \subseteq Items
  BY DEF ItemInv
<1>4. \A t \in MapSlot : Lying(t)' => uid'[t] \in Items
  BY <1>1 DEF ItemInv
<1>5. QED BY <1>2, <1>3, <1>4 DEF ItemInv

(* An item that lies nowhere is laid in a slot: a new one, or one out of a  *)
(* bag.                                                                     *)
LEMMA ItemLaid ==
    ASSUME NEW w \in Worker, NEW s \in MapSlot, NEW i, Elsewhere(w, s), ItemInv,
           ~Lying(s), Lying(s)', uid'[s] = i, Items' = Items \union {i},
           \A p \in Player : bag'[p] = bag[p] \ {i},
           \A t \in MapSlot : ~Lies(t, i)
    PROVE  ItemInv'
<1>1. ASSUME NEW t \in MapSlot, t # s PROVE (Lying(t)' <=> Lying(t)) /\ uid'[t] = uid[t]
  BY <1>1, LyingElsewhere
<1>2. OnFloor(i)'
  <2>1. \A t \in MapSlot : Lies(t, i)' <=> t = s
    BY <1>1 DEF Lies
  <2>2. QED BY <2>1 DEF OnFloor
<1>3. ASSUME NEW j \in Items, j # i PROVE InBag(j)' \/ OnFloor(j)'
  <2>1. \A t \in MapSlot : Lies(t, j)' <=> Lies(t, j)
    BY <1>1, <1>3 DEF Lies
  <2>2. \A p \in Player : j \in bag'[p] <=> j \in bag[p]
    BY <1>3
  <2>3. InBag(j) \/ OnFloor(j)
    BY DEF ItemInv
  <2>4. QED BY <2>1, <2>2, <2>3 DEF InBag, OnFloor
<1>4. \A p \in Player : bag'[p] \subseteq Items'
  BY DEF ItemInv
<1>5. ASSUME NEW t \in MapSlot, Lying(t)' PROVE uid'[t] \in Items'
  BY <1>1, <1>5 DEF ItemInv
<1>6. \A j \in Items' : InBag(j)' \/ OnFloor(j)'
  BY <1>2, <1>3
<1>7. QED BY <1>4, <1>5, <1>6 DEF ItemInv

(* The item of a slot goes into a bag.                                      *)
LEMMA ItemGot ==
    ASSUME NEW w \in Worker, NEW s \in MapSlot, NEW p \in Player, Elsewhere(w, s), ItemInv,
           Lying(s), ~Lying(s)', uid'[s] = uid[s], Items' = Items,
           \A q \in Player : bag'[q] = IF q = p THEN bag[q] \union {uid[s]} ELSE bag[q]
    PROVE  ItemInv'
<1> DEFINE i == uid[s]
<1>1. ASSUME NEW t \in MapSlot, t # s PROVE (Lying(t)' <=> Lying(t)) /\ uid'[t] = uid[t]
  BY <1>1, LyingElsewhere
<1>2. i \in Items /\ Lies(s, i)
  BY DEF ItemInv, Lies
<1>3. OnFloor(i)
  BY <1>2 DEF ItemInv, InBag
<1>4. InBag(i)'
  <2>1. \A t \in MapSlot : ~Lies(t, i)'
    BY <1>1, <1>2, <1>3 DEF Lies, OnFloor
  <2>2. \A q \in Player : i \in bag'[q] <=> q = p
    BY <1>3 DEF OnFloor
  <2>3. QED BY <2>1, <2>2 DEF InBag
<1>5. ASSUME NEW j \in Items, j # i PROVE InBag(j)' \/ OnFloor(j)'
  <2>1. \A t \in MapSlot : Lies(t, j)' <=> Lies(t, j)
    BY <1>1, <1>5 DEF Lies
  <2>2. \A q \in Player : j \in bag'[q] <=> j \in bag[q]
    BY <1>5
  <2>3. InBag(j) \/ OnFloor(j)
    BY DEF ItemInv
  <2>4. QED BY <2>1, <2>2, <2>3 DEF InBag, OnFloor
<1>6. \A q \in Player : bag'[q] \subseteq Items
  BY <1>2 DEF ItemInv
<1>7. ASSUME NEW t \in MapSlot, Lying(t)' PROVE uid'[t] \in Items
  BY <1>1, <1>7 DEF ItemInv
<1>8. QED BY <1>4, <1>5, <1>6, <1>7 DEF ItemInv

LayInv == TypeInv /\ CalmSlots /\ clock \in Nat \ {0} /\ MapInv /\ ItemInv

(* A step of a handler that has no slot in hand.                            *)
LEMMA LayNone ==
    ASSUME NEW w \in Worker, NEW r, LayInv, Start(w, r), work[w].slot = None, r.slot = None,
           UNCHANGED <<bag, issued, mapVars>>
    PROVE  MapInv' /\ ItemInv'
<1>1. Elsewhere(w, None)
  BY StartElsewhere DEF LayInv, mapVars
<1>2. Items' = Items
  BY DEF Items
<1>3. MapInv'
  BY <1>1, NoneIsNoSlot, MapStep DEF LayInv
<1>4. ItemInv'
  BY <1>1, <1>2, NoneIsNoSlot, ItemsStay DEF LayInv
<1>5. QED BY <1>3, <1>4

(* A handler takes a free slot in hand: nobody has it, and nothing is in it.*)
LEMMA LayTakes ==
    ASSUME NEW w \in Worker, NEW r, NEW s \in MapSlot, LayInv, Start(w, r), IsNewMapItemId(s),
           work[w].slot = None, r.slot = s, r.pc \in {"number", "take"},
           UNCHANGED <<bag, issued, mapVars>>
    PROVE  MapInv' /\ ItemInv'
<1>1. Elsewhere(w, s) /\ work'[w] = r
  BY StartElsewhere DEF LayInv, mapVars
<1>2. slot[s] = "FREE" /\ \A v \in Worker : work[v].slot # s
  BY DEF IsNewMapItemId, FreeSlot, InHand, LayInv
<1>3. Bare(s)
  <2>1. Rests(s)
    BY <1>2 DEF LayInv, MapInv, Phase
  <2>2. QED BY <1>2, <2>1 DEF Rests, OnMap
<1>4. Alone(w, s) /\ Alone(w, s)' /\ Claimed(w, s)
  BY <1>1, <1>2, HeldStill DEF Alone, Claimed
<1>5. Phase(s)'
  <2>1. Bare(s)'
    BY <1>3 DEF Bare, mapVars
  <2>2. Works(w, s)'
    BY <1>1, <1>4, <2>1 DEF Works
  <2>3. QED BY <1>1, <2>2 DEF Phase
<1>6. Lying(s)' <=> Lying(s)
  <2>1. ~Lying(s)
    BY <1>2 DEF Lying
  <2>2. ~Lying(s)'
    BY <1>1, <1>2, <1>4, LyingThen DEF mapVars
  <2>3. QED BY <2>1, <2>2
<1>7. Items' = Items /\ uid' = uid
  BY DEF Items, mapVars
<1>8. MapInv'
  BY <1>1, <1>5, MapStep DEF LayInv
<1>9. ItemInv'
  BY <1>1, <1>6, <1>7, ItemsStay DEF LayInv
<1>10. QED BY <1>8, <1>9

(* The handlers that have a slot in hand.                                   *)
LEMMA SlotHeld ==
    ASSUME NEW w \in Worker, TypeInv, work[w].pc \in SlotPc
    PROVE  work[w].slot \in MapSlot /\ work[w] \in Handler /\ work[w].player \in Player
BY DEF TypeInv, AllFit, Fits, SlotPc, MapPc, PickupPc

LEMMA SlotNone ==
    ASSUME NEW w \in Worker, TypeInv, work[w].pc \in {"idle"} \union FightPc
    PROVE  work[w].slot = None /\ work[w] \in Handler
BY DEF TypeInv, AllFit, Fits, FightPc, SlotPc, MapPc, PickupPc

LEMMA GotoElsewhere ==
    ASSUME NEW w \in Worker, NEW pc, TypeInv, work[w].pc \in SlotPc, Goto(w, pc),
           \A t \in MapSlot \ {work[w].slot} :
             /\ slot'[t] = slot[t] /\ uid'[t] = uid[t]
             /\ t \in placed' <=> t \in placed
             /\ \A p \in Player : t \in listed'[p] <=> t \in listed[p]
    PROVE  /\ Elsewhere(w, work[w].slot)
           /\ work'[w].pc = pc /\ work'[w].slot = work[w].slot
<1> DEFINE r == [work[w] EXCEPT !.pc = pc]
<1>1. work[w] \in Handler
  BY SlotHeld
<1>2. r.slot = work[w].slot /\ r.pc = pc
  BY <1>1 DEF Handler
<1>3. Start(w, r)
  BY DEF Goto
<1> HIDE DEF r
<1>4. QED BY <1>2, <1>3, StartElsewhere

LEMMA FinishElsewhere ==
    ASSUME NEW w \in Worker, TypeInv, Finish(w),
           \A t \in MapSlot \ {work[w].slot} :
             /\ slot'[t] = slot[t] /\ uid'[t] = uid[t]
             /\ t \in placed' <=> t \in placed
             /\ \A p \in Player : t \in listed'[p] <=> t \in listed[p]
    PROVE  Elsewhere(w, work[w].slot) /\ work'[w].slot = None
<1>1. Idle.slot = None
  BY DEF Idle
<1>2. QED BY <1>1, StartElsewhere DEF Finish

(* An item into the slot in hand.                                           *)
LEMMA LayWrite ==
    ASSUME NEW w \in Worker, NEW i, LayInv, work[w].pc \in {"number", "take"}, Write(w, i),
           UNCHANGED <<slot, placed, listed>>,
           Items' = Items \union {i},
           \A p \in Player : bag'[p] = bag[p] \ {i},
           \A t \in MapSlot : ~Lies(t, i)
    PROVE  MapInv' /\ ItemInv'
<1> PICK s : s = work[w].slot
  OBVIOUS
<1>1. s \in MapSlot /\ TypeInv
  BY SlotHeld DEF LayInv, SlotPc, MapPc
<1>2. uid' = [uid EXCEPT ![s] = i] /\ uid \in [MapSlot -> Nat \union {None}]
  BY <1>1 DEF Write, TypeInv, TypeOK
<1>3. uid'[s] = i /\ \A t \in MapSlot \ {s} : uid'[t] = uid[t]
  BY <1>1, <1>2
<1>4. Elsewhere(w, s) /\ work'[w].pc = "publish" /\ work'[w].slot = s
  BY <1>1, <1>3, GotoElsewhere DEF Write, SlotPc, MapPc
<1>5. Bare(s) /\ Alone(w, s)
  <2>1. Works(w, s)
    BY <1>1, WorksHere DEF LayInv
  <2>2. QED BY <2>1 DEF Works
<1>6. Alone(w, s)' /\ Claimed(w, s)
  BY <1>4, <1>5, HeldStill DEF Alone, Claimed
<1>7. Phase(s)'
  <2>1. Bare(s)'
    BY <1>5 DEF Bare
  <2>2. Works(w, s)'
    BY <1>4, <1>6, <2>1 DEF Works
  <2>3. QED BY <1>4, <2>2 DEF Phase
<1>8. ~Lying(s)
  <2>1. slot[s] = "FREE"
    BY <1>5 DEF Bare
  <2>2. QED BY <1>6, <2>1, LyingHere
<1>9. Lying(s)'
  BY <1>4, <1>6, LyingThen
<1>10. MapInv'
  BY <1>4, <1>7, MapStep DEF LayInv
<1>11. ItemInv'
  BY <1>1, <1>3, <1>4, <1>8, <1>9, ItemLaid DEF LayInv
<1>12. QED BY <1>10, <1>11

(* The generator is past the numbers of the items of the start, and every   *)
(* number it hands out is new.                                              *)
LEMMA NumberIsFresh ==
    ASSUME NEW w \in Worker, LayInv, Number(w)
    PROVE  NewId \notin Items /\ Items' = Items \union {NewId}
<1>1. IdInv /\ clock \in Nat \ {0}
  BY DEF LayInv, TypeInv
<1>2. NewId \notin issued /\ issued' = issued \union {NewId}
  BY <1>1, FirstStep, NextStep, LaterStep
  DEF Number, Generate, GenerateFirst, GenerateNext, GenerateLater, HandOut
<1>3. ASSUME NEW q \in Nat PROVE Id(clock, q) >= SeqSize
  <2>1. PICK k \in Nat : clock = k + 1
    <3>1. clock - 1 \in Nat /\ clock = (clock - 1) + 1
      BY <1>1
    <3>2. QED BY <3>1
  <2>2. (k + 1) * SeqSize = k * SeqSize + SeqSize /\ k * SeqSize \in Nat /\ SeqSize \in Nat
    BY SeqAssumption
  <2>3. QED BY <2>1, <2>2 DEF Id
<1>4. NewId >= SeqSize
  <2>1. sequence + 1 \in Nat /\ 0 \in Nat
    BY <1>1 DEF IdInv
  <2>2. QED BY <1>3, <2>1 DEF NewId
<1>5. ASSUME NEW p \in Player PROVE NewId \notin Carried[p]
  BY <1>4, CarriedAssumption, SeqAssumption
<1>6. NewId \notin UNION {Carried[p] : p \in Player}
  BY <1>5
<1>7. QED BY <1>2, <1>6 DEF Items

LEMMA LayNumber == ASSUME NEW w \in Worker, LayInv, Number(w) PROVE MapInv' /\ ItemInv'
<1> PICK i : i = NewId
  OBVIOUS
<1>1. i \notin Items /\ Items' = Items \union {i}
  BY NumberIsFresh
<1>2. ItemInv
  BY DEF LayInv
<1>3. \A p \in Player : bag'[p] = bag[p] \ {i}
  BY <1>1, <1>2 DEF ItemInv, Number
<1>4. \A t \in MapSlot : ~Lies(t, i)
  BY <1>1, <1>2 DEF ItemInv, Lies
<1>5. work[w].pc = "number" /\ Write(w, i) /\ UNCHANGED <<slot, placed, listed>>
  BY DEF Number
<1>6. QED BY <1>1, <1>3, <1>4, <1>5, LayWrite

LEMMA LayTake == ASSUME NEW w \in Worker, LayInv, Take(w) PROVE MapInv' /\ ItemInv'
<1> PICK s, p, i : s = work[w].slot /\ p = work[w].player /\ i = work[w].item
  OBVIOUS
<1>1. TypeInv /\ work[w].pc = "take" /\ s \in MapSlot /\ p \in Player
  BY SlotHeld DEF LayInv, Take, SlotPc
<1>2. Items' = Items
  BY DEF Take, Items, idVars
<1>3. CASE i \in bag[p]
  <2>1. /\ bag' = [bag EXCEPT ![p] = @ \ {i}] /\ Write(w, i)
        /\ UNCHANGED <<slot, placed, listed>>
    BY <1>3 DEF Take
  <2>2. i \in Items /\ InBag(i)
    BY <1>1, <1>3 DEF LayInv, ItemInv, OnFloor
  <2>3. ASSUME NEW q \in Player PROVE bag'[q] = bag[q] \ {i}
    <3>1. bag \in [Player -> SUBSET Nat]
      BY <1>1 DEF TypeInv, TypeOK
    <3>2. q # p => i \notin bag[q]
      BY <1>1, <1>3, <2>2 DEF InBag
    <3>3. QED BY <1>1, <2>1, <3>1, <3>2
  <2>4. Items' = Items \union {i} /\ \A t \in MapSlot : ~Lies(t, i)
    BY <1>2, <2>2 DEF InBag
  <2>5. QED BY <1>1, <2>1, <2>3, <2>4, LayWrite
<1>4. CASE i \notin bag[p]
  <2>1. Finish(w) /\ UNCHANGED <<bag, slot, uid, placed, listed>>
    BY <1>4 DEF Take
  <2>2. Elsewhere(w, s) /\ work'[w].slot = None
    BY <1>1, <2>1, FinishElsewhere
  <2>3. Bare(s) /\ Alone(w, s)
    <3>1. Works(w, s)
      BY <1>1, WorksHere DEF LayInv
    <3>2. QED BY <1>1, <3>1 DEF Works
  <2>4. Claimed(w, s) /\ Alone(w, s)'
    BY <2>2, <2>3, HeldStill DEF Alone, Claimed
  <2>5. Phase(s)'
    <3>1. Bare(s)'
      BY <2>1, <2>3 DEF Bare
    <3>2. \A v \in Worker : work'[v].slot # s
      BY <1>1, <2>2, <2>4, NoneIsNoSlot DEF Alone
    <3>3. QED BY <3>1, <3>2 DEF Phase, Rests
  <2>6. ~Lying(s) /\ ~Lying(s)'
    <3>1. slot[s] = "FREE" /\ slot'[s] = "FREE"
      BY <2>1, <2>3 DEF Bare
    <3>2. ~Lying(s)
      BY <1>1, <2>4, <3>1, LyingHere
    <3>3. ~Lying(s)'
      BY <1>1, <2>2, <2>4, <3>1, LyingThen, NoneIsNoSlot
    <3>4. QED BY <3>2, <3>3
  <2>7. MapInv'
    BY <2>2, <2>5, MapStep DEF LayInv
  <2>8. ItemInv'
    BY <1>2, <2>1, <2>2, <2>6, ItemsStay DEF LayInv
  <2>9. QED BY <2>7, <2>8
<1>5. QED BY <1>3, <1>4

(* The other steps with a slot in hand: the item stays where it is, unless  *)
(* it goes into a bag.                                                      *)
LEMMA LayHeld ==
    ASSUME NEW w \in Worker, NEW s \in MapSlot, LayInv, Elsewhere(w, s), Phase(s)',
           Lying(s)' <=> Lying(s), UNCHANGED <<bag, issued, uid>>
    PROVE  MapInv' /\ ItemInv'
<1>1. Items' = Items
  BY DEF Items
<1>2. MapInv'
  BY MapStep DEF LayInv
<1>3. ItemInv'
  BY <1>1, ItemsStay DEF LayInv
<1>4. QED BY <1>2, <1>3

LEMMA LayPublish == ASSUME NEW w \in Worker, LayInv, Publish(w) PROVE MapInv' /\ ItemInv'
<1> PICK s : s = work[w].slot
  OBVIOUS
<1>1. TypeInv /\ work[w].pc = "publish" /\ s \in MapSlot
  BY SlotHeld DEF LayInv, Publish, SlotPc, MapPc
<1>2. slot'[s] = "INGAME" /\ s \in placed' /\ \A t \in MapSlot \ {s} :
        slot'[t] = slot[t] /\ (t \in placed' <=> t \in placed)
  BY <1>1 DEF Publish, TypeInv, TypeOK
<1>3. Goto(w, "announce") /\ UNCHANGED <<bag, issued, uid, listed>>
  BY DEF Publish, idVars
<1>4. Elsewhere(w, s) /\ work'[w].pc = "announce" /\ work'[w].slot = s
  BY <1>1, <1>2, <1>3, GotoElsewhere DEF SlotPc, MapPc
<1>5. Bare(s) /\ Alone(w, s)
  <2>1. Works(w, s)
    BY <1>1, WorksHere DEF LayInv
  <2>2. QED BY <1>1, <2>1 DEF Works
<1>6. Alone(w, s)' /\ Claimed(w, s)
  BY <1>4, <1>5, HeldStill DEF Alone, Claimed
<1>7. Phase(s)'
  <2>1. Half(s)'
    BY <1>2, <1>3, <1>5 DEF Half, Bare
  <2>2. Works(w, s)'
    BY <1>4, <1>6, <2>1 DEF Works
  <2>3. QED BY <1>4, <2>2 DEF Phase
<1>8. Lying(s) /\ Lying(s)'
  <2>1. Lying(s)
    BY <1>1, <1>6, LyingHere
  <2>2. Lying(s)'
    BY <1>2, <1>4, <1>6, LyingThen
  <2>3. QED BY <2>1, <2>2
<1>9. QED BY <1>1, <1>3, <1>4, <1>7, <1>8, LayHeld

LEMMA LayAnnounce == ASSUME NEW w \in Worker, LayInv, Announce(w) PROVE MapInv' /\ ItemInv'
<1> PICK s : s = work[w].slot
  OBVIOUS
<1>1. TypeInv /\ work[w].pc = "announce" /\ s \in MapSlot
  BY SlotHeld DEF LayInv, Announce, SlotPc, MapPc
<1>2. /\ \A p \in Player : s \in listed'[p]
      /\ \A t \in MapSlot \ {s} : \A p \in Player : t \in listed'[p] <=> t \in listed[p]
  BY <1>1 DEF Announce
<1>3. UNCHANGED <<bag, issued, uid, slot, placed>>
  BY DEF Announce, idVars
<1>4. PICK r : Start(w, r) /\ r.slot = None
  <2>1. CASE Finish(w)
    BY <2>1 DEF Finish, Idle
  <2>2. CASE Start(w, [work[w] EXCEPT !.pc = "drop", !.slot = None])
    <3>1. [work[w] EXCEPT !.pc = "drop", !.slot = None].slot = None
      BY <1>1, SlotHeld DEF SlotPc, MapPc, Handler
    <3>2. QED BY <2>2, <3>1
  <2>3. QED BY <2>1, <2>2 DEF Announce
<1>5. Elsewhere(w, s) /\ work'[w].slot = None
  BY <1>1, <1>2, <1>3, <1>4, StartElsewhere
<1>6. Half(s) /\ Alone(w, s)
  <2>1. Works(w, s)
    BY <1>1, WorksHere DEF LayInv
  <2>2. QED BY <1>1, <2>1 DEF Works
<1>7. Alone(w, s)' /\ Claimed(w, s)
  BY <1>5, <1>6, HeldStill DEF Alone, Claimed
<1>8. Phase(s)'
  <2>1. OnMap(s)'
    BY <1>2, <1>3, <1>6 DEF Half, OnMap
  <2>2. \A v \in Worker : work'[v].slot # s
    BY <1>1, <1>5, <1>7, NoneIsNoSlot DEF Alone
  <2>3. QED BY <2>1, <2>2 DEF Phase, Rests
<1>9. Lying(s)' /\ Lying(s)
  BY <1>3, <1>6 DEF Lying, Half
<1>10. QED BY <1>1, <1>3, <1>5, <1>8, <1>9, LayHeld

LEMMA LayClaim == ASSUME NEW w \in Worker, LayInv, Claim(w) PROVE MapInv' /\ ItemInv'
<1> PICK s : s = work[w].slot
  OBVIOUS
<1>1. TypeInv /\ work[w].pc = "claim" /\ s \in MapSlot
  BY SlotHeld DEF LayInv, Claim, SlotPc, PickupPc
<1>2. UNCHANGED <<bag, issued, uid, listed, placed>>
  BY DEF Claim, idVars
<1>3. CASE slot[s] = "INGAME"
  <2>1. OnMap(s) /\ \A v \in Worker : work[v].slot = s => work[v].pc = "claim"
    BY <1>1, <1>3, ClaimsHere DEF LayInv
  <2>2. slot'[s] = "FREE" /\ \A t \in MapSlot \ {s} : slot'[t] = slot[t]
    BY <1>1, <1>3 DEF Claim, TypeInv, TypeOK
  <2>3. Goto(w, "gain")
    BY <1>3 DEF Claim
  <2>4. Elsewhere(w, s) /\ work'[w].pc = "gain" /\ work'[w].slot = s
    BY <1>1, <1>2, <2>2, <2>3, GotoElsewhere DEF SlotPc, PickupPc
  <2>5. Claimed(w, s) /\ Claimed(w, s)'
    BY <2>1, <2>4, HeldStill DEF Claimed
  <2>6. Phase(s)'
    <3>1. Taken(s)'
      BY <1>2, <2>1, <2>2 DEF OnMap, Taken
    <3>2. Works(w, s)'
      BY <2>4, <2>5, <3>1 DEF Works
    <3>3. QED BY <2>4, <3>2 DEF Phase
  <2>7. Lying(s) /\ Lying(s)'
    <3>1. Lying(s)
      BY <1>3 DEF Lying
    <3>2. Lying(s)'
      BY <2>4, <2>5, LyingThen
    <3>3. QED BY <3>1, <3>2
  <2>8. QED BY <1>1, <1>2, <2>4, <2>6, <2>7, LayHeld
<1>4. CASE slot[s] # "INGAME"
  <2>1. Finish(w) /\ slot' = slot
    BY <1>4 DEF Claim
  <2>2. Elsewhere(w, s) /\ work'[w].slot = None
    BY <1>1, <1>2, <2>1, FinishElsewhere
  <2>3. ASSUME NEW v \in Worker, v # w
        PROVE  work'[v] = work[v]
    BY <2>2, <2>3 DEF Elsewhere
  <2>4. \A v \in Worker : work'[v].slot = s => v # w /\ work'[v] = work[v]
    BY <1>1, <2>2, <2>3, NoneIsNoSlot
  <2>5. \A v \in Worker : work[v].slot = s => v = w \/ work'[v] = work[v]
    BY <2>3
  <2>6. Phase(s)'
    <3>1. Phase(s)
      BY <1>1 DEF LayInv, MapInv
    <3>2. CASE Rests(s)
      <4>1. Bare(s)' \/ OnMap(s)'
        BY <1>2, <2>1, <3>2 DEF Rests, Bare, OnMap
      <4>2. QED BY <2>4, <3>2, <4>1 DEF Rests, Phase
    <3>3. ASSUME NEW v \in Worker, work[v].slot = s, Works(v, s) PROVE Phase(s)'
      <4>1. v # w
        BY <1>1, <3>3 DEF Works
      <4>2. work'[v] = work[v] /\ Claimed(v, s) /\ ~Alone(v, s)
        BY <1>1, <2>3, <3>3, <4>1 DEF Works, Alone, Claimed
      <4>3. Claimed(v, s)'
        BY <2>4, <4>2 DEF Claimed
      <4>4. Works(v, s)'
        BY <1>2, <2>1, <3>3, <4>2, <4>3 DEF Works, Taken, Away
      <4>5. QED BY <3>3, <4>2, <4>4 DEF Phase
    <3>4. QED BY <3>1, <3>2, <3>3 DEF Phase
  <2>7. Lying(s)' <=> Lying(s)
    BY <1>1, <2>1, <2>4, <2>5 DEF Lying
  <2>8. QED BY <1>1, <1>2, <2>2, <2>6, <2>7, LayHeld
<1>5. QED BY <1>3, <1>4

LEMMA LayGain == ASSUME NEW w \in Worker, LayInv, Gain(w) PROVE MapInv' /\ ItemInv'
<1> PICK s, p : s = work[w].slot /\ p = work[w].player
  OBVIOUS
<1>1. TypeInv /\ work[w].pc = "gain" /\ s \in MapSlot /\ p \in Player
  BY SlotHeld DEF LayInv, Gain, SlotPc, PickupPc
<1>2. UNCHANGED <<issued, uid, listed, placed, slot>>
  BY DEF Gain, idVars, mapVars
<1>3. Taken(s) /\ Claimed(w, s)
  <2>1. Works(w, s)
    BY <1>1, WorksHere DEF LayInv
  <2>2. QED BY <1>1, <2>1 DEF Works
<1>4. PICK pc \in {"unlist", "restore"} : Goto(w, pc) /\ (pc = "restore" => bag' = bag)
        /\ (pc = "unlist" => bag' = [bag EXCEPT ![p] = @ \union {uid[s]}])
  BY <1>1 DEF Gain
<1>5. Elsewhere(w, s) /\ work'[w].pc = pc /\ work'[w].slot = s
  BY <1>1, <1>2, <1>4, GotoElsewhere DEF SlotPc, PickupPc
<1>6. Claimed(w, s)'
  BY <1>3, <1>5, HeldStill
<1>7. Phase(s)'
  <2>1. Taken(s)'
    BY <1>2, <1>3 DEF Taken
  <2>2. Works(w, s)'
    BY <1>5, <1>6, <2>1 DEF Works
  <2>3. QED BY <1>5, <2>2 DEF Phase
<1>8. Lying(s) /\ (Lying(s)' <=> pc = "restore")
  <2>1. slot[s] = "FREE" /\ slot'[s] = "FREE"
    BY <1>2, <1>3 DEF Taken
  <2>2. Lying(s)
    BY <1>1, <1>3, LyingHere
  <2>3. Lying(s)' <=> pc = "restore"
    BY <1>3, <1>5, <2>1, LyingThen
  <2>4. QED BY <2>2, <2>3
<1>9. CASE pc = "restore"
  BY <1>1, <1>2, <1>4, <1>5, <1>7, <1>8, <1>9, LayHeld
<1>10. CASE pc = "unlist"
  <2>1. \A q \in Player : bag'[q] = IF q = p THEN bag[q] \union {uid[s]} ELSE bag[q]
    BY <1>1, <1>4, <1>10 DEF TypeInv, TypeOK
  <2>2. Items' = Items /\ uid'[s] = uid[s] /\ ~Lying(s)'
    BY <1>2, <1>8, <1>10 DEF Items
  <2>3. ItemInv'
    BY <1>1, <1>5, <1>8, <2>1, <2>2, ItemGot DEF LayInv
  <2>4. MapInv'
    BY <1>5, <1>7, MapStep DEF LayInv
  <2>5. QED BY <2>3, <2>4
<1>11. QED BY <1>9, <1>10

LEMMA LayRestore == ASSUME NEW w \in Worker, LayInv, Restore(w) PROVE MapInv' /\ ItemInv'
<1> PICK s : s = work[w].slot
  OBVIOUS
<1>1. TypeInv /\ work[w].pc = "restore" /\ s \in MapSlot
  BY SlotHeld DEF LayInv, Restore, SlotPc, PickupPc
<1>2. Finish(w) /\ UNCHANGED <<bag, issued, uid, listed, placed>>
  BY DEF Restore, idVars
<1>3. slot'[s] = "INGAME" /\ \A t \in MapSlot \ {s} : slot'[t] = slot[t]
  BY <1>1 DEF Restore, TypeInv, TypeOK
<1>4. Elsewhere(w, s) /\ work'[w].slot = None
  BY <1>1, <1>2, <1>3, FinishElsewhere
<1>5. Taken(s) /\ Claimed(w, s)
  <2>1. Works(w, s)
    BY <1>1, WorksHere DEF LayInv
  <2>2. QED BY <1>1, <2>1 DEF Works
<1>6. Claimed(w, s)'
  BY <1>4, <1>5, HeldStill
<1>7. Phase(s)'
  <2>1. OnMap(s)'
    BY <1>2, <1>3, <1>5 DEF Taken, OnMap
  <2>2. \A v \in Worker : work'[v].slot = s => work'[v].pc = "claim"
    BY <1>1, <1>4, <1>6, NoneIsNoSlot DEF Claimed
  <2>3. QED BY <2>1, <2>2 DEF Phase, Rests
<1>8. Lying(s) /\ Lying(s)'
  <2>1. Lying(s)
    BY <1>1, <1>5, LyingHere
  <2>2. Lying(s)'
    BY <1>3 DEF Lying
  <2>3. QED BY <2>1, <2>2
<1>9. QED BY <1>1, <1>2, <1>4, <1>7, <1>8, LayHeld

LEMMA LayUnlist == ASSUME NEW w \in Worker, LayInv, Unlist(w) PROVE MapInv' /\ ItemInv'
<1> PICK s : s = work[w].slot
  OBVIOUS
<1>1. TypeInv /\ work[w].pc = "unlist" /\ s \in MapSlot
  BY SlotHeld DEF LayInv, Unlist, SlotPc, PickupPc
<1>2. Goto(w, "unplace") /\ UNCHANGED <<bag, issued, uid, slot, placed>>
  BY DEF Unlist, idVars
<1>3. /\ \A p \in Player : s \notin listed'[p]
      /\ \A t \in MapSlot \ {s} : \A p \in Player : t \in listed'[p] <=> t \in listed[p]
  BY <1>1 DEF Unlist, SendRemoveObjectPacket
<1>4. Elsewhere(w, s) /\ work'[w].pc = "unplace" /\ work'[w].slot = s
  BY <1>1, <1>2, <1>3, GotoElsewhere DEF SlotPc, PickupPc
<1>5. Taken(s) /\ Claimed(w, s)
  <2>1. Works(w, s)
    BY <1>1, WorksHere DEF LayInv
  <2>2. QED BY <1>1, <2>1 DEF Works
<1>6. Claimed(w, s)'
  BY <1>4, <1>5, HeldStill
<1>7. Phase(s)'
  <2>1. Away(s)'
    BY <1>2, <1>3, <1>5 DEF Taken, Away
  <2>2. Works(w, s)'
    BY <1>4, <1>6, <2>1 DEF Works
  <2>3. QED BY <1>4, <2>2 DEF Phase
<1>8. ~Lying(s) /\ ~Lying(s)'
  <2>1. slot[s] = "FREE" /\ slot'[s] = "FREE"
    BY <1>2, <1>5 DEF Taken
  <2>2. ~Lying(s)
    BY <1>1, <1>5, <2>1, LyingHere
  <2>3. ~Lying(s)'
    BY <1>4, <1>5, <2>1, LyingThen
  <2>4. QED BY <2>2, <2>3
<1>9. QED BY <1>1, <1>2, <1>4, <1>7, <1>8, LayHeld

LEMMA LayUnplace == ASSUME NEW w \in Worker, LayInv, Unplace(w) PROVE MapInv' /\ ItemInv'
<1> PICK s : s = work[w].slot
  OBVIOUS
<1>1. TypeInv /\ work[w].pc = "unplace" /\ s \in MapSlot
  BY SlotHeld DEF LayInv, Unplace, SlotPc, PickupPc
<1>2. Finish(w) /\ UNCHANGED <<bag, issued, uid, slot, listed>>
  BY DEF Unplace, idVars
<1>3. s \notin placed' /\ \A t \in MapSlot \ {s} : t \in placed' <=> t \in placed
  BY <1>1 DEF Unplace
<1>4. Elsewhere(w, s) /\ work'[w].slot = None
  BY <1>1, <1>2, <1>3, FinishElsewhere
<1>5. Away(s) /\ Claimed(w, s)
  <2>1. Works(w, s)
    BY <1>1, WorksHere DEF LayInv
  <2>2. QED BY <1>1, <2>1 DEF Works
<1>6. Claimed(w, s)'
  BY <1>4, <1>5, HeldStill
<1>7. Phase(s)'
  <2>1. Bare(s)'
    BY <1>2, <1>3, <1>5 DEF Away, Bare
  <2>2. \A v \in Worker : work'[v].slot = s => work'[v].pc = "claim"
    BY <1>1, <1>4, <1>6, NoneIsNoSlot DEF Claimed
  <2>3. QED BY <2>1, <2>2 DEF Phase, Rests
<1>8. ~Lying(s) /\ ~Lying(s)'
  <2>1. slot[s] = "FREE" /\ slot'[s] = "FREE"
    BY <1>2, <1>5 DEF Away
  <2>2. ~Lying(s)
    BY <1>1, <1>5, <2>1, LyingHere
  <2>3. ~Lying(s)'
    BY <1>1, <1>4, <1>5, <2>1, LyingThen, NoneIsNoSlot
  <2>4. QED BY <2>2, <2>3
<1>9. QED BY <1>1, <1>2, <1>4, <1>7, <1>8, LayHeld

(* CS_ITEM_PICKUP names a slot of the view list: it is not one that is      *)
(* being filled.                                                            *)
LEMMA LayPickup ==
    ASSUME NEW w \in Worker, NEW p \in Player, LayInv, Pickup(w, p)
    PROVE  MapInv' /\ ItemInv'
<1>1. PICK s \in listed[p] :
        Start(w, [Idle EXCEPT !.pc = "claim", !.player = p, !.slot = s])
  BY DEF Pickup
<1>2. TypeInv /\ s \in MapSlot /\ work[w].slot = None
  BY SlotNone DEF LayInv, Pickup, MayServe, TypeInv, TypeOK
<1>3. UNCHANGED <<bag, issued, slot, uid, placed, listed>>
  BY DEF Pickup, idVars, mapVars
<1> DEFINE r == [Idle EXCEPT !.pc = "claim", !.player = p, !.slot = s]
<1>4. r.slot = s /\ r.pc = "claim" /\ Start(w, r)
  BY <1>1 DEF Idle
<1> HIDE DEF r
<1>5. Elsewhere(w, s) /\ work'[w] = r /\ \A v \in Worker : v # w => work'[v] = work[v]
  BY <1>2, <1>3, <1>4, StartElsewhere
<1>6. work[w].slot # s
  BY <1>2, NoneIsNoSlot
<1>7. Phase(s)'
  <2>1. Phase(s)
    BY <1>2 DEF LayInv, MapInv
  <2>2. CASE Rests(s)
    <3>1. Bare(s)' \/ OnMap(s)'
      BY <1>3, <2>2 DEF Rests, Bare, OnMap
    <3>2. \A v \in Worker : work'[v].slot = s => work'[v].pc = "claim"
      BY <1>4, <1>5, <2>2 DEF Rests
    <3>3. QED BY <3>1, <3>2 DEF Phase, Rests
  <2>3. ASSUME NEW v \in Worker, work[v].slot = s, Works(v, s) PROVE Phase(s)'
    <3>1. v # w /\ work'[v] = work[v]
      BY <1>5, <1>6, <2>3
    <3>2. Taken(s) /\ Claimed(v, s) /\ work[v].pc \in {"gain", "restore", "unlist"}
      BY <2>3 DEF Works, Bare, Half, Away
    <3>3. Claimed(v, s)'
      BY <1>4, <1>5, <3>2 DEF Claimed
    <3>4. Taken(s)'
      BY <1>3, <3>2 DEF Taken
    <3>5. Works(v, s)'
      BY <3>1, <3>2, <3>3, <3>4 DEF Works
    <3>6. QED BY <2>3, <3>1, <3>5 DEF Phase
  <2>4. QED BY <2>1, <2>2, <2>3 DEF Phase
<1>8. Lying(s)' <=> Lying(s)
  BY <1>3, <1>4, <1>5, <1>6 DEF Lying
<1>9. QED BY <1>2, <1>3, <1>5, <1>7, <1>8, LayHeld

LEMMA LayDrop ==
    ASSUME NEW w \in Worker, NEW p \in Player, LayInv, Drop(w, p)
    PROVE  MapInv' /\ ItemInv'
<1>1. PICK s \in MapSlot, i \in Items :
        /\ IsNewMapItemId(s)
        /\ Start(w, [Idle EXCEPT !.pc = "take", !.player = p, !.slot = s, !.item = i])
  BY DEF Drop
<1> DEFINE r == [Idle EXCEPT !.pc = "take", !.player = p, !.slot = s, !.item = i]
<1>2. work[w].slot = None
  BY SlotNone DEF LayInv, Drop, MayServe
<1>3. UNCHANGED <<bag, issued, mapVars>>
  BY DEF Drop, idVars
<1>4. r.slot = s /\ r.pc = "take" /\ Start(w, r)
  BY <1>1 DEF Idle
<1> HIDE DEF r
<1>5. QED BY <1>1, <1>2, <1>3, <1>4, LayTakes

LEMMA LayNpcDrops == ASSUME NEW w \in Worker, LayInv, NpcDrops(w) PROVE MapInv' /\ ItemInv'
<1>1. work[w].slot = None /\ work[w] \in Handler
  BY SlotNone DEF LayInv, NpcDrops, FightPc
<1>2. UNCHANGED <<bag, issued, mapVars>>
  BY DEF NpcDrops, idVars
<1>3. ASSUME NEW n \in work[w].dead, NEW s \in MapSlot, IsNewMapItemId(s),
             Start(w, [work[w] EXCEPT !.pc = "number", !.slot = s, !.dead = @ \ {n}])
      PROVE  MapInv' /\ ItemInv'
  <2> DEFINE r == [work[w] EXCEPT !.pc = "number", !.slot = s, !.dead = @ \ {n}]
  <2>1. r.pc = "number" /\ r.slot = s /\ Start(w, r)
    BY <1>1, <1>3 DEF Handler
  <2> HIDE DEF r
  <2>2. QED BY <1>1, <1>2, <1>3, <2>1, LayTakes
<1>4. ASSUME NEW n \in work[w].dead, Start(w, [work[w] EXCEPT !.dead = @ \ {n}])
      PROVE  MapInv' /\ ItemInv'
  <2> DEFINE r == [work[w] EXCEPT !.dead = @ \ {n}]
  <2>1. r.slot = None /\ Start(w, r)
    BY <1>1, <1>4 DEF Handler
  <2> HIDE DEF r
  <2>2. QED BY <1>1, <1>2, <2>1, LayNone
<1>5. QED BY <1>3, <1>4 DEF NpcDrops

(* The steps of a fight leave the map alone.                                *)
LEMMA LayFights ==
    ASSUME NEW w \in Worker, LayInv, AttackStep(w) \/ NoneLeft(w)
    PROVE  MapInv' /\ ItemInv'
<1>1. work[w].slot = None /\ work[w] \in Handler /\ TypeInv
  BY SlotNone DEF LayInv, AttackStep, NoneLeft, AimAt, Aim, Strike, Unlock, FightPc
<1>2. UNCHANGED <<bag, issued, mapVars>>
  BY DEF AttackStep, NoneLeft, AimAt, Aim, Strike, Unlock, idVars
<1>3. CASE AimAt(w)
  <2>1. PICK c : Start(w, [work[w] EXCEPT !.pc = "aim", !.cell = c, !.seen = {},
                                          !.coords = @ \ {c}])
    BY <1>3 DEF AimAt
  <2>2. [work[w] EXCEPT !.pc = "aim", !.cell = c, !.seen = {}, !.coords = @ \ {c}].slot = None
    BY <1>1 DEF Handler
  <2>3. QED BY <1>1, <1>2, <2>1, <2>2, LayNone
<1>4. CASE Aim(w)
  <2>1. PICK n : Start(w, [work[w] EXCEPT !.pc = "strike", !.npc = n, !.seen = @ \union {n}])
    BY <1>4 DEF Aim
  <2>2. [work[w] EXCEPT !.pc = "strike", !.npc = n, !.seen = @ \union {n}].slot = None
    BY <1>1 DEF Handler
  <2>3. QED BY <1>1, <1>2, <2>1, <2>2, LayNone
<1>5. CASE Strike(w)
  <2>1. PICK n : \/ Start(w, [work[w] EXCEPT !.pc = "aim", !.npc = None, !.dead = @ \union {n}])
                 \/ Start(w, [work[w] EXCEPT !.pc = "aim", !.npc = None])
    BY <1>5 DEF Strike
  <2>2. /\ [work[w] EXCEPT !.pc = "aim", !.npc = None, !.dead = @ \union {n}].slot = None
        /\ [work[w] EXCEPT !.pc = "aim", !.npc = None].slot = None
    BY <1>1 DEF Handler
  <2>3. QED BY <1>1, <1>2, <2>1, <2>2, LayNone
<1>6. CASE Unlock(w) \/ NoneLeft(w)
  <2>1. \/ AimNext(w)
        \/ Start(w, [work[w] EXCEPT !.pc = "drop", !.cell = None, !.seen = {}])
    BY <1>6 DEF Unlock, NoneLeft
  <2>2. CASE AimNext(w)
    <3>1. Idle.slot = None
      BY DEF Idle
    <3>2. [work[w] EXCEPT !.pc = "coord", !.cell = None, !.seen = {}].slot = None
      BY <1>1 DEF Handler
    <3>3. QED BY <1>1, <1>2, <2>2, <3>1, <3>2, LayNone DEF AimNext, Finish
  <2>3. CASE Start(w, [work[w] EXCEPT !.pc = "drop", !.cell = None, !.seen = {}])
    <3>1. [work[w] EXCEPT !.pc = "drop", !.cell = None, !.seen = {}].slot = None
      BY <1>1 DEF Handler
    <3>2. QED BY <1>1, <1>2, <2>3, <3>1, LayNone
  <2>4. QED BY <2>1, <2>2, <2>3
<1>7. QED BY <1>3, <1>4, <1>5, <1>6 DEF AttackStep

LEMMA LayAttack ==
    ASSUME NEW w \in Worker, NEW p \in Player, LayInv, Attack(w, p)
    PROVE  MapInv' /\ ItemInv'
<1>1. work[w].slot = None
  BY SlotNone DEF LayInv, Attack, MayServe
<1>2. UNCHANGED <<bag, issued, mapVars>>
  BY DEF Attack, idVars
<1>3. PICK C, d : Start(w, [Idle EXCEPT !.pc = "coord", !.player = p, !.coords = C, !.damage = d])
  BY DEF Attack
<1>4. [Idle EXCEPT !.pc = "coord", !.player = p, !.coords = C, !.damage = d].slot = None
  BY DEF Idle
<1>5. QED BY <1>1, <1>2, <1>3, <1>4, LayNone

LEMMA LayStep == LayInv /\ [Next]_vars => LayInv'
<1> SUFFICES ASSUME LayInv, [Next]_vars PROVE LayInv'
  OBVIOUS
<1>1. TypeInv'
  BY TypesStep DEF LayInv
<1>2. clock' \in Nat \ {0}
  <2>1. clock' = clock \/ clock' = clock + 1
    BY IdsMove DEF NextIds, Tick, Generate, GenerateFirst, GenerateNext, GenerateLater,
                   GenerateWait, idVars
  <2>2. QED BY <2>1 DEF LayInv
<1>3. CASE UNCHANGED <<bag, issued, mapVars, work>>
  <2>1. MapInv'
    BY <1>3 DEF mapVars, LayInv, MapInv, Phase, Rests, Works, Alone, Claimed,
                Bare, Half, OnMap, Taken, Away
  <2>2. ItemInv'
    BY <1>3 DEF mapVars, LayInv, ItemInv, InBag, OnFloor, Lies, Lying, Items
  <2>3. QED BY <1>1, <1>2, <2>1, <2>2 DEF LayInv
<1>4. CASE UNCHANGED vars \/ ClockTicks \/ \E n \in Npc : NpcMoves(n)
  <2>1. UNCHANGED <<bag, issued, mapVars, work>>
    BY <1>4 DEF vars, ClockTicks, Tick, NpcMoves, idVars
  <2>2. QED BY <1>3, <2>1
<1>5. ASSUME NEW w \in Worker, AttackStep(w) \/ DropStep(w) \/ PickupStep(w)
      PROVE  (MapInv' /\ ItemInv') \/ UNCHANGED <<bag, issued, mapVars, work>>
  <2>1. CASE NumberWaits(w)
    BY <2>1 DEF NumberWaits, GenerateWait
  <2>2. CASE AttackStep(w) \/ NoneLeft(w)
    BY <2>2, LayFights
  <2>3. CASE NpcDrops(w) \/ Number(w) \/ Take(w) \/ Publish(w) \/ Announce(w)
    BY <2>3, LayNpcDrops, LayNumber, LayTake, LayPublish, LayAnnounce
  <2>4. CASE PickupStep(w)
    BY <2>4, LayClaim, LayGain, LayRestore, LayUnlist, LayUnplace DEF PickupStep
  <2>5. QED BY <1>5, <2>1, <2>2, <2>3, <2>4 DEF DropStep
<1>6. ASSUME NEW w \in Worker, NEW p \in Player, Attack(w, p) \/ Drop(w, p) \/ Pickup(w, p)
      PROVE  MapInv' /\ ItemInv'
  BY <1>6, LayAttack, LayDrop, LayPickup
<1>7. CASE \/ \E w \in Worker : AttackStep(w) \/ DropStep(w) \/ PickupStep(w)
           \/ \E w \in Worker, p \in Player : Attack(w, p) \/ Drop(w, p) \/ Pickup(w, p)
  <2>1. (MapInv' /\ ItemInv') \/ UNCHANGED <<bag, issued, mapVars, work>>
    BY <1>5, <1>6, <1>7
  <2>2. QED BY <1>1, <1>2, <1>3, <2>1 DEF LayInv
<1>8. QED BY <1>4, <1>7 DEF Next

LEMMA LayInit == Init /\ CalmSlots => LayInv
<1> SUFFICES ASSUME Init, CalmSlots PROVE LayInv
  OBVIOUS
<1>1. TypeInv /\ clock \in Nat \ {0}
  BY TypesInit DEF Init, InitIds
<1>2. \A v \in Worker : work[v].slot = None /\ work[v].pc = "idle"
  BY DEF Init, Idle
<1>3. ASSUME NEW s \in MapSlot PROVE Phase(s) /\ ~Lying(s)
  <2>1. Bare(s)
    BY DEF Init, Bare
  <2>2. ~Lying(s)
    BY <1>2, <2>1 DEF Lying, Bare
  <2>3. QED BY <1>2, <2>1, <2>2, NoneIsNoSlot DEF Phase, Rests
<1>4. ItemInv
  <2>1. bag = Carried /\ issued = {}
    BY DEF Init, InitIds
  <2>2. ASSUME NEW i \in Items PROVE InBag(i)
    <3>1. PICK p \in Player : i \in Carried[p]
      BY <2>1 DEF Items
    <3>2. \A q \in Player : i \in bag[q] <=> q = p
      BY <2>1, <3>1, CarriedAssumption
    <3>3. QED BY <1>3, <3>2 DEF InBag, Lies
  <2>3. \A p \in Player : bag[p] \subseteq Items
    BY <2>1 DEF Items
  <2>4. QED BY <1>3, <2>2, <2>3 DEF ItemInv
<1>5. QED BY <1>1, <1>3, <1>4 DEF LayInv, MapInv

(* Whoever drops and whoever picks up at the same time, and however often   *)
(* the map and the bags are full: no item is lost, and none is in two       *)
(* places (Player.cpp:968-1093, Npc.cpp:348-387), provided that a drop      *)
(* takes no slot that another handler still works on.                       *)
THEOREM ItemsAreKept == CalmSlots /\ Spec => []ItemInOnePlace
<1>1. LayInv => ItemInOnePlace
  <2> SUFFICES ASSUME LayInv, NEW i \in Items PROVE Cardinality(Places(i)) = 1
    BY DEF ItemInOnePlace
  <2>1. \E x : Places(i) = {x}
    <3>1. CASE InBag(i)
      <4>1. PICK p \in Player : \A q \in Player : i \in bag[q] <=> q = p
        BY <3>1 DEF InBag
      <4>2. {s \in MapSlot : uid[s] = i /\ Lying(s)} = {}
        BY <3>1 DEF InBag, Lies
      <4>3. {q \in Player : i \in bag[q]} = {p}
        BY <4>1
      <4>4. QED BY <4>2, <4>3 DEF Places
    <3>2. CASE OnFloor(i)
      <4>1. PICK s \in MapSlot : \A t \in MapSlot : Lies(t, i) <=> t = s
        BY <3>2 DEF OnFloor
      <4>2. {t \in MapSlot : uid[t] = i /\ Lying(t)} = {s}
        BY <4>1 DEF Lies
      <4>3. {q \in Player : i \in bag[q]} = {}
        BY <3>2 DEF OnFloor
      <4>4. QED BY <4>2, <4>3 DEF Places
    <3>3. QED BY <3>1, <3>2 DEF LayInv, ItemInv
  <2>2. QED BY <2>1, FS_Singleton
<1>2. QED
  BY LayInit, LayStep, <1>1, PTL DEF Spec

(* Under the same proviso the state of a slot, the sectors and the view     *)
(* lists agree on what lies on the map (Player.cpp:989-1010, 1056-1080).    *)
THEOREM MapIsKept == CalmSlots /\ Spec => []MapAgrees
<1>1. LayInv => MapAgrees
  <2> SUFFICES ASSUME LayInv, NEW s \in MapSlot, ~InHand(s)
               PROVE  /\ slot[s] = "INGAME" <=> s \in placed
                      /\ \A p \in Player : slot[s] = "INGAME" <=> s \in listed[p]
    BY DEF MapAgrees
  <2>1. Rests(s)
    BY DEF LayInv, MapInv, Phase, InHand
  <2>2. QED BY <2>1 DEF Rests, Bare, OnMap
<1>2. QED
  BY LayInit, LayStep, <1>1, PTL DEF Spec
============================================================================
