-------------------------- MODULE InventoryProofs --------------------------
(***************************************************************************)
(* Theorems about Inventory, for any set of items, any grid and any number *)
(* of packets on their way.                                                *)
(*                                                                         *)
(* That the grid is sound needs only that the commands on their way which  *)
(* move or drop an item name one, and a place to move it to, that a sort   *)
(* names each item once (Sent), wherever it sends it, and that nothing     *)
(* else than items comes into the grid (Shapes).                           *)
(*                                                                         *)
(* That the layout is valid and that what is shown is kept need that the   *)
(* server will follow all that is on its way (KeptInv).                    *)
(***************************************************************************)
EXTENDS Inventory, TLAPS, FiniteSetTheorems, SequenceTheorems, NaturalsInduction,
        WellFoundedInduction

Shapes ==
    /\ DOMAIN items = Item
    /\ grid \in [Cell -> Item \union {None}]
    /\ ground \subseteq Item

WellMeant(c) ==
    /\ c.op \in {"move", "drop"} => c.uid \in Item
    /\ c.op = "move" => c.at # None
    /\ c.op = "sort" => \E to : c.slots = Slots(to)
Sent == \E S : toServer \in Seq(S) /\ \A c \in S : WellMeant(c)

IInv == Shapes /\ Sent /\ GridSound

----------------------------------------------------------------------------
(* The grid.                                                               *)

\* An item that is placed has the cells of its place and no others.
LEMMA PlaceSound ==
    ASSUME Shapes, GridSound, NEW i \in Item, NEW p, p # None, PlaceItem(i, p)
    PROVE  DOMAIN items' = Item /\ grid' \in [Cell -> Item \union {None}] /\ GridSound'
  <1>1. items'[i] = p /\ \A j \in Item \ {i} : items'[j] = items[j]
    BY DEF PlaceItem, Shapes
  <1>2. DOMAIN items' = Item /\ grid' \in [Cell -> Item \union {None}]
    BY DEF PlaceItem, Shapes
  <1>3. ASSUME NEW c \in Cell, grid'[c] # None
        PROVE  items'[grid'[c]] # None /\ c \in Cells(grid'[c], items'[grid'[c]])
    <2>1. CASE c \in Cells(i, p)
      BY <1>1, <2>1 DEF PlaceItem
    <2>2. CASE c \notin Cells(i, p)
      <3>1. grid'[c] = grid[c]
        BY <1>3, <2>2 DEF PlaceItem
      <3>2. items[grid[c]] # None /\ c \in Cells(grid[c], items[grid[c]])
        BY <1>3, <3>1 DEF GridSound
      <3>3. grid[c] # i
        BY <1>3, <2>2, <3>1, <3>2 DEF PlaceItem
      <3>4. grid[c] \in Item
        BY <1>3, <3>1 DEF Shapes
      <3> QED
        BY <1>1, <3>1, <3>2, <3>3, <3>4
    <2> QED
      BY <2>1, <2>2
  <1> QED
    BY <1>2, <1>3 DEF GridSound

\* An item that is removed leaves none of its cells behind.
LEMMA RemoveSound ==
    ASSUME Shapes, GridSound, NEW i \in Item, items[i] # None, RemoveItem(i)
    PROVE  DOMAIN items' = Item /\ grid' \in [Cell -> Item \union {None}] /\ GridSound'
  <1>1. \A j \in Item \ {i} : items'[j] = items[j]
    BY DEF RemoveItem, Shapes
  <1>2. DOMAIN items' = Item /\ grid' \in [Cell -> Item \union {None}]
    BY DEF RemoveItem, Shapes
  <1>3. ASSUME NEW c \in Cell, grid'[c] # None
        PROVE  items'[grid'[c]] # None /\ c \in Cells(grid'[c], items'[grid'[c]])
    <2>1. grid'[c] = grid[c] /\ ~(c \in Cells(i, items[i]) /\ grid[c] = i)
      BY <1>3 DEF RemoveItem
    <2>2. items[grid[c]] # None /\ c \in Cells(grid[c], items[grid[c]])
      BY <1>3, <2>1 DEF GridSound
    <2>3. grid[c] \in Item \ {i}
      BY <1>3, <2>1, <2>2 DEF Shapes
    <2> QED
      BY <1>1, <2>1, <2>2, <2>3
  <1> QED
    BY <1>2, <1>3 DEF GridSound

\* A sort whose list names each item once: of the items it places to, it keeps S.
Fit(S, to) ==
    /\ \A i \in S : Cells(i, to[i]) \subseteq Cell
    /\ \A i, j \in S : i # j => Cells(i, to[i]) \intersect Cells(j, to[j]) = {}

SortsTo(to) ==
    LET sent == {i \in Item : to[i] # None /\ items[i] # None} IN
    \E S \in SUBSET sent :
      /\ Fit(S, to)
      /\ \A i \in sent \ S : ~Fit(S \union {i}, to)
      /\ items' = [i \in Item |-> IF i \in S THEN to[i] ELSE items[i]]
      /\ grid' = [c \in Cell |-> IF \E i \in S : c \in Cells(i, to[i])
                                 THEN CHOOSE i \in S : c \in Cells(i, to[i]) ELSE None]

LEMMA SortOnce ==
    ASSUME NEW to, ApplySortResult(Slots(to)) PROVE SortsTo(to)
  <1> DEFINE Slot(i) == [uid |-> i, at |-> to[i]]
             given == {i \in Item : to[i] # None /\ items[i] # None}
             sent == {s \in Slots(to) : items[s.uid] # None}
  <1>1. \A s : s \in sent <=> \E i \in given : s = Slot(i)
    BY DEF Slots
  <1>2. /\ \A i : Slot(i).uid = i /\ SlotCells(Slot(i)) = Cells(i, to[i]) /\ Slot(i).at = to[i]
        /\ \A i, j : Slot(i) = Slot(j) => i = j
    <2>1. \A i : Slot(i).uid = i /\ Slot(i).at = to[i]
      OBVIOUS
    <2>2. \A i : SlotCells(Slot(i)) = Cells(i, to[i])
      BY <2>1 DEF SlotCells
    <2>3. \A i, j : Slot(i) = Slot(j) => i = j
      BY <2>1
    <2> QED
      BY <2>1, <2>2, <2>3
  <1> HIDE DEF Slot
  <1>3. PICK S \in SUBSET sent : \E L \in SUBSET S :
          /\ Keeps(S)
          /\ \A s \in sent \ S : ~Keeps(S \union {s})
          /\ LastOf(L, S)
          /\ items' = [i \in Item |-> IF \E l \in L : l.uid = i
                                      THEN (CHOOSE l \in L : l.uid = i).at ELSE items[i]]
          /\ grid' = [c \in Cell |-> IF \E s \in S : c \in SlotCells(s)
                                     THEN (CHOOSE s \in S : c \in SlotCells(s)).uid ELSE None]
    BY DEF ApplySortResult
  <1>4. PICK L \in SUBSET S :
          /\ Keeps(S)
          /\ \A s \in sent \ S : ~Keeps(S \union {s})
          /\ LastOf(L, S)
          /\ items' = [i \in Item |-> IF \E l \in L : l.uid = i
                                      THEN (CHOOSE l \in L : l.uid = i).at ELSE items[i]]
          /\ grid' = [c \in Cell |-> IF \E s \in S : c \in SlotCells(s)
                                     THEN (CHOOSE s \in S : c \in SlotCells(s)).uid ELSE None]
    BY <1>3
  <1> DEFINE I == {i \in given : Slot(i) \in S}
  <1>5. \A s : s \in S <=> \E i \in I : s = Slot(i)
    BY <1>1
  <1>6. L = S
    <2>1. ASSUME NEW s \in S PROVE s \in L
      <3>1. PICK l \in L : l.uid = s.uid
        BY <1>4 DEF LastOf
      <3>2. PICK i \in I, j \in I : s = Slot(i) /\ l = Slot(j)
        BY <1>5
      <3>3. i = j
        BY <1>2, <3>1, <3>2
      <3> QED
        BY <3>1, <3>2, <3>3
    <2> QED
      BY <2>1
  <1>7. ASSUME NEW J \in SUBSET given PROVE Keeps({Slot(i) : i \in J}) <=> Fit(J, to)
    <2> DEFINE T == {Slot(i) : i \in J}
    <2>1. (\A s \in T : SlotCells(s) \subseteq Cell) <=> \A i \in J : Cells(i, to[i]) \subseteq Cell
      BY <1>2
    <2>2. ASSUME \A s, t \in T : s # t => SlotCells(s) \intersect SlotCells(t) = {},
                 NEW i \in J, NEW j \in J, i # j
          PROVE  Cells(i, to[i]) \intersect Cells(j, to[j]) = {}
      <3>1. Slot(i) \in T /\ Slot(j) \in T /\ Slot(i) # Slot(j)
        BY <1>2, <2>2
      <3>2. SlotCells(Slot(i)) \intersect SlotCells(Slot(j)) = {}
        BY <2>2, <3>1
      <3> QED
        BY <1>2, <3>2
    <2>3. ASSUME \A i, j \in J : i # j => Cells(i, to[i]) \intersect Cells(j, to[j]) = {},
                 NEW s \in T, NEW t \in T, s # t
          PROVE  SlotCells(s) \intersect SlotCells(t) = {}
      <3>1. PICK i \in J, j \in J : s = Slot(i) /\ t = Slot(j)
        OBVIOUS
      <3>2. Cells(i, to[i]) \intersect Cells(j, to[j]) = {}
        BY <2>3, <3>1
      <3> QED
        BY <1>2, <3>1, <3>2
    <2> QED
      BY <2>1, <2>2, <2>3 DEF Keeps, Fit
  <1>8. S = {Slot(i) : i \in I}
    BY <1>5
  <1>9. Fit(I, to)
    BY <1>4, <1>7, <1>8
  <1>10. ASSUME NEW i \in given \ I PROVE ~Fit(I \union {i}, to)
    <2>1. Slot(i) \in sent \ S
      BY <1>1
    <2>2. S \union {Slot(i)} = {Slot(j) : j \in I \union {i}}
      BY <1>8
    <2>3. ~Keeps({Slot(j) : j \in I \union {i}})
      BY <1>4, <2>1, <2>2
    <2>4. I \union {i} \in SUBSET given
      OBVIOUS
    <2> QED
      BY <1>7, <2>3, <2>4
  <1>11. items' = [i \in Item |-> IF i \in I THEN to[i] ELSE items[i]]
    <2>1. ASSUME NEW i \in Item PROVE (\E l \in S : l.uid = i) <=> i \in I
      BY <1>2, <1>5
    <2>2. ASSUME NEW i \in I PROVE (CHOOSE l \in S : l.uid = i).at = to[i]
      <3>1. \A l \in S : l.uid = i => l = Slot(i)
        BY <1>2, <1>5
      <3>2. Slot(i) \in S /\ Slot(i).uid = i
        BY <1>2
      <3>3. (CHOOSE l \in S : l.uid = i) = Slot(i)
        BY <3>1, <3>2
      <3> QED
        BY <1>2, <3>3
    <2> QED
      BY <1>4, <1>6, <2>1, <2>2
  <1>12. grid' = [c \in Cell |-> IF \E i \in I : c \in Cells(i, to[i])
                                THEN CHOOSE i \in I : c \in Cells(i, to[i]) ELSE None]
    <2>1. ASSUME NEW c \in Cell
          PROVE  (\E s \in S : c \in SlotCells(s)) <=> \E i \in I : c \in Cells(i, to[i])
      BY <1>2, <1>5
    <2>2. ASSUME NEW c \in Cell, NEW i \in I, c \in Cells(i, to[i])
          PROVE  (CHOOSE s \in S : c \in SlotCells(s)).uid = CHOOSE j \in I : c \in Cells(j, to[j])
      <3>1. \A j \in I : c \in Cells(j, to[j]) => j = i
        BY <1>9, <2>2 DEF Fit
      <3>2. (CHOOSE j \in I : c \in Cells(j, to[j])) = i
        BY <2>2, <3>1
      <3>3. \A s \in S : c \in SlotCells(s) => s.uid = i
        BY <1>2, <1>5, <3>1
      <3>4. Slot(i) \in S /\ c \in SlotCells(Slot(i))
        BY <1>2, <2>2
      <3> QED
        BY <3>2, <3>3, <3>4
    <2> QED
      BY <1>4, <2>1, <2>2
  <1> QED
    BY <1>9, <1>10, <1>11, <1>12 DEF SortsTo

\* A sort leaves on the grid what it has placed, whatever it was sent.
LEMMA SortSound ==
    ASSUME Shapes, NEW to, SortsTo(to)
    PROVE  DOMAIN items' = Item /\ grid' \in [Cell -> Item \union {None}] /\ GridSound'
  <1>1. PICK S \in SUBSET {i \in Item : to[i] # None /\ items[i] # None} :
             /\ items' = [i \in Item |-> IF i \in S THEN to[i] ELSE items[i]]
             /\ grid' = [c \in Cell |-> IF \E i \in S : c \in Cells(i, to[i])
                                        THEN CHOOSE i \in S : c \in Cells(i, to[i]) ELSE None]
    BY DEF SortsTo
  <1>2. ASSUME NEW c \in Cell
        PROVE  \/ grid'[c] = None
               \/ grid'[c] \in S /\ c \in Cells(grid'[c], to[grid'[c]])
    <2>1. CASE \E i \in S : c \in Cells(i, to[i])
      <3>1. grid'[c] = CHOOSE i \in S : c \in Cells(i, to[i])
        BY <1>1, <2>1
      <3> QED
        BY <2>1, <3>1
    <2>2. CASE ~\E i \in S : c \in Cells(i, to[i])
      BY <1>1, <2>2
    <2> QED
      BY <2>1, <2>2
  <1>3. \A i \in S : i \in Item /\ items'[i] = to[i] /\ to[i] # None
    BY <1>1
  <1>4. DOMAIN items' = Item
    BY <1>1
  <1>5. grid' \in [Cell -> Item \union {None}]
    BY <1>1, <1>2, <1>3
  <1> QED
    BY <1>2, <1>3, <1>4, <1>5 DEF GridSound

\* The place that a search finds has all of its cells among the free ones.
LEMMA FitIsFree ==
    ASSUME NEW i, NEW free \in SUBSET Cell, NEW p \in FirstFit(i, free)
    PROVE  p \in Place /\ p # None /\ Cells(i, p) \subseteq free
  <1>1. PICK c \in free : p = At(c[1], c[2], FALSE)
    BY DEF FirstFit, Fits
  <1>2. c[1] \in 0 .. Cols - 1 /\ c[2] \in 0 .. Rows - 1
    BY DEF Cell
  <1>3. p \in Place
    BY <1>1, <1>2 DEF At, Place
  <1>4. Cells(i, p) \subseteq free
    BY DEF FirstFit, Fits
  <1> QED
    BY <1>3, <1>4, NoneAssumption

----------------------------------------------------------------------------
(* The commands.                                                           *)

\* What is changed is sent as moves of items to where they are shown.
LEMMA ChangesWellMeant ==
    ASSUME NEW cmds \in Changes
    PROVE  \E T : cmds \in Seq(T) /\ \A c \in T : WellMeant(c)
  <1> DEFINE D == dirty \intersect Shown
             T == {MoveCmd(i, shown[i]) : i \in D}
  <1>1. PICK s \in Ascending(D) : cmds = [k \in DOMAIN s |-> MoveCmd(s[k], shown[s[k]])]
    BY DEF Changes
  <1>2. s \in [1 .. Cardinality(D) -> D]
    BY <1>1 DEF Ascending
  <1>3. Cardinality(D) \in Nat
    <2>1. D \subseteq Item
      BY DEF Shown
    <2> QED
      BY <2>1, ItemAssumption, FS_Subset, FS_CardinalityType
  <1>4. \A c \in T : WellMeant(c)
    BY DEF WellMeant, MoveCmd, Shown
  <1>5. cmds \in [1 .. Cardinality(D) -> T]
    BY <1>1, <1>2
  <1>6. cmds \in Seq(T)
    BY <1>3, <1>5, SeqDef
  <1> QED
    BY <1>4, <1>6

\* Well meant commands may be sent.
LEMMA SendSent ==
    ASSUME Sent, NEW cmds, NEW T, cmds \in Seq(T), \A c \in T : WellMeant(c), Send(cmds)
    PROVE  Sent'
  <1>1. PICK S : toServer \in Seq(S) /\ \A c \in S : WellMeant(c)
    BY DEF Sent
  <1>2. toServer \in Seq(S \union T) /\ cmds \in Seq(S \union T)
    BY <1>1, SeqMonotonic
  <1>3. toServer' \in Seq(S \union T)
    BY <1>2, ConcatProperties DEF Send
  <1> QED
    BY <1>1, <1>3 DEF Sent

\* The command that is read is well meant, and so are those left.
LEMMA ReceiveSent ==
    ASSUME Sent, NEW op, Receive(op)
    PROVE  Sent' /\ WellMeant(Head(toServer))
  <1>1. PICK S : toServer \in Seq(S) /\ \A c \in S : WellMeant(c)
    BY DEF Sent
  <1>2. Head(toServer) \in S /\ toServer' \in Seq(S)
    BY <1>1, HeadTailProperties DEF Receive
  <1> QED
    BY <1>1, <1>2 DEF Sent

----------------------------------------------------------------------------
(* The invariant.                                                          *)

\* The invariant holds at the start.
LEMMA InitInv == Init => IInv
  <1> SUFFICES ASSUME Init PROVE IInv
    OBVIOUS
  <1>1. Shapes /\ GridSound
    BY DEF Init, Shapes, GridSound, Nowhere
  <1>2. toServer \in Seq({})
    BY DEF Init
  <1> QED
    BY <1>1, <1>2 DEF IInv, Sent

\* A command that the server handles keeps the grid sound.
LEMMA ServerInv ==
    ASSUME IInv, Server
    PROVE  IInv'
  <1> USE DEF IInv, serverVars
  <1>1. CASE MoveItem
    <2>1. Sent' /\ WellMeant(Head(toServer)) /\ Head(toServer).op = "move"
      BY <1>1, ReceiveSent DEF MoveItem, Receive
    <2>2. ground' = ground
      BY <1>1 DEF MoveItem
    <2>3. CASE UNCHANGED <<items, grid>>
      BY <2>1, <2>2, <2>3 DEF Shapes, GridSound
    <2>4. CASE PlaceItem(Head(toServer).uid, Head(toServer).at)
      <3>1. Head(toServer).uid \in Item /\ Head(toServer).at # None
        BY <2>1 DEF WellMeant
      <3> QED
        BY <2>1, <2>2, <2>4, <3>1, PlaceSound DEF Shapes
    <2> QED
      BY <1>1, <2>3, <2>4 DEF MoveItem
  <1>2. CASE SortItems
    <2>1. Sent' /\ WellMeant(Head(toServer)) /\ Head(toServer).op = "sort"
      BY <1>2, ReceiveSent DEF SortItems, Receive
    <2>2. PICK to : Head(toServer).slots = Slots(to)
      BY <2>1 DEF WellMeant
    <2>3. SortsTo(to)
      BY <1>2, <2>2, SortOnce DEF SortItems
    <2> QED
      BY <1>2, <2>1, <2>3, SortSound DEF SortItems, Shapes
  <1>3. CASE DropItem
    <2>1. Sent' /\ Head(toServer).uid \in Item
      BY <1>3, ReceiveSent DEF DropItem, Receive, WellMeant
    <2>2. CASE UNCHANGED serverVars
      BY <2>1, <2>2 DEF Shapes, GridSound
    <2>3. CASE /\ items[Head(toServer).uid] # None /\ RemoveItem(Head(toServer).uid)
               /\ ground' = ground \union {Head(toServer).uid}
      BY <2>1, <2>3, RemoveSound DEF Shapes
    <2> QED
      BY <1>3, <2>2, <2>3 DEF DropItem
  <1>4. CASE PickUp
    <2>1. PICK i \in ground : \E p \in FirstFit(i, {c \in Cell : grid[c] = None}) :
                 PlaceItem(i, p) /\ ground' = ground \ {i}
      BY <1>4 DEF PickUp
    <2>2. PICK p \in FirstFit(i, {c \in Cell : grid[c] = None}) :
                 PlaceItem(i, p) /\ ground' = ground \ {i}
      BY <2>1
    <2>3. p # None
      BY FitIsFree
    <2>4. Sent'
      BY <1>4, ReceiveSent DEF PickUp
    <2> QED
      BY <2>2, <2>3, <2>4, PlaceSound DEF Shapes
  <1>5. CASE DropRefused \/ PickUpNothing
    BY <1>5, ReceiveSent DEF DropRefused, PickUpNothing, Shapes, GridSound
  <1> QED
    BY <1>1, <1>2, <1>3, <1>4, <1>5 DEF Server

\* What the client does leaves the grid alone and sends well meant commands.
LEMMA ClientInv ==
    ASSUME IInv, Client
    PROVE  IInv'
  <1> USE DEF IInv, serverVars
  <1>1. UNCHANGED serverVars
    BY DEF Client, Mouse, Grab, Turn, TurnHeld, PutDown, PutBack, ThrowOut, Toggle,
           UpdateSync, AskPickUp, AskSort, AddItem
  <1>2. Sent'
    <2>1. CASE toServer' = toServer
      BY <2>1 DEF Sent
    <2>2. CASE \E cmds \in Changes : Send(cmds)
      BY <2>2, ChangesWellMeant, SendSent
    <2>3. CASE AskPickUp
      <3>1. PICK cmds \in Changes : Send(Append(cmds, PickUpCmd))
        BY <2>3 DEF AskPickUp
      <3>2. PICK T : cmds \in Seq(T) /\ \A c \in T : WellMeant(c)
        BY ChangesWellMeant
      <3>3. cmds \in Seq(T \union {PickUpCmd})
        BY <3>2, SeqMonotonic
      <3>4. Append(cmds, PickUpCmd) \in Seq(T \union {PickUpCmd})
        BY <3>3, AppendProperties
      <3>5. \A c \in T \union {PickUpCmd} : WellMeant(c)
        BY <3>2 DEF WellMeant, PickUpCmd
      <3> QED
        BY <3>1, <3>4, <3>5, SendSent
    <2>4. ASSUME NEW c, WellMeant(c), Send(<<c>>)
          PROVE  Sent'
      <3> DEFINE T == {c}
                 cmds == <<c>>
      <3>1. cmds \in Seq(T) /\ \A d \in T : WellMeant(d)
        BY <2>4
      <3>2. Send(cmds)
        BY <2>4
      <3> HIDE DEF T, cmds
      <3> QED
        BY <3>1, <3>2, SendSent
    <2>5. CASE ThrowOut
      <3>1. held.uid \in Item /\ Send(<<DropCmd(held.uid)>>)
        BY <2>5 DEF ThrowOut, Shown
      <3>2. WellMeant(DropCmd(held.uid))
        BY <3>1 DEF WellMeant, DropCmd
      <3> QED
        BY <2>4, <3>1, <3>2
    <2>6. CASE AskSort
      <3>1. PICK s \in Orders : Send(<<SortCmd(Sorted(s).at)>>)
        BY <2>6 DEF AskSort
      <3>2. WellMeant(SortCmd(Sorted(s).at))
        BY DEF SortCmd, WellMeant
      <3> QED
        BY <2>4, <3>1, <3>2
    <2> QED
      BY <2>1, <2>2, <2>3, <2>5, <2>6
      DEF Client, Mouse, Grab, Turn, TurnHeld, PutDown, PutBack, Toggle, UpdateSync, AddItem
  <1> QED
    BY <1>1, <1>2 DEF Shapes, GridSound

\* Every step keeps it.
LEMMA NextInv ==
    ASSUME IInv, [Next]_vars
    PROVE  IInv'
  <1>1. CASE UNCHANGED vars
    BY <1>1 DEF vars, serverVars, IInv, Shapes, Sent, GridSound
  <1> QED
    BY <1>1, ServerInv, ClientInv DEF Next

\* A cell of the grid that names an item is one of that item's cells, however
\* the player moves, turns, throws out and sorts, also when a sort forgets items
\* or squeezes them, provided that it names none twice, as this client does
\* (Inventory.cpp:90-233).
THEOREM GridIsSound == Spec => []GridSound
  <1>1. IInv => GridSound
    BY DEF IInv
  <1>2. IInv /\ [Next]_vars => IInv'
    BY NextInv
  <1> QED
    BY <1>1, <1>2, InitInv, PTL DEF Spec
\* A closed inventory has nothing unsent: closing it sends what has changed and
\* nothing is changed in a closed one (InventoryUI.cpp:63-70, 275-282).
THEOREM NothingIsLeft == Spec => []ClosedIsSent
  <1>1. Init => ClosedIsSent
    BY DEF Init, ClosedIsSent
  <1>2. ClosedIsSent /\ [Next]_vars => ClosedIsSent'
    <2> SUFFICES ASSUME ClosedIsSent, [Next]_vars PROVE ClosedIsSent'
      OBVIOUS
    <2> USE DEF ClosedIsSent
    <2>1. CASE UNCHANGED vars
      BY <2>1 DEF vars, clientVars
    <2>2. CASE Server
      BY <2>2 DEF Server, MoveItem, SortItems, DropItem, DropRefused, PickUp, PickUpNothing,
                  Receive, clientVars
    <2>3. CASE Mouse
      <3>1. ASSUME NEW i \in Item, Turn(i) PROVE ClosedIsSent'
        BY <3>1 DEF Turn
      <3>2. CASE PutDown
        BY <3>2 DEF PutDown, LetGo
      <3> QED
        BY <2>3, <3>1, <3>2 DEF Mouse, Grab, TurnHeld, PutBack, ThrowOut, LetGo
    <2>4. CASE Toggle
      BY <2>4 DEF Toggle
    <2>5. CASE UpdateSync \/ AskPickUp \/ AskSort \/ AddItem
      BY <2>5 DEF UpdateSync, AskPickUp, AskSort, AddItem
    <2> QED
      BY <2>1, <2>2, <2>3, <2>4, <2>5 DEF Next, Client
  <1> QED
    BY <1>1, <1>2, PTL DEF Spec
----------------------------------------------------------------------------
(* The client's values.                                                    *)

Held == [uid : Item, rot : BOOLEAN]
Placing == [Item -> Place \union {None}]
Types ==
    /\ shown \in Placing
    /\ held \in Held \union {None}
    /\ toClient \in Seq([uid : Item, at : Place])
    /\ calm \in BOOLEAN

\* Something that lies on the grid lies at a place of it.
LEMMA OnGridIsPlace ==
    ASSUME NEW i, NEW x \in Nat, NEW y \in Nat, NEW r \in BOOLEAN,
           Cells(i, At(x, y, r)) \subseteq Cell
    PROVE  At(x, y, r) \in Place
  <1> DEFINE p == At(x, y, r)
  <1>1. p.x = x /\ p.y = y /\ p.rot = r
    BY DEF At
  <1>2. Width(i, r) \in {1, 2} /\ Height(i, r) \in {1, 2}
    BY DEF Width, Height
  <1>3. <<x, y>> \in Cells(i, p)
    BY <1>1, <1>2 DEF Cells
  <1>4. <<x, y>> \in Cell
    BY <1>3
  <1> QED
    BY <1>4 DEF At, Place, Cell

----------------------------------------------------------------------------
(* The sort on the client.                                                 *)

\* A non-empty set of numbers has a least one.
Less == {q \in Nat \X Nat : q[1] < q[2]}
LEMMA LeastNumber ==
    ASSUME NEW T, T \subseteq Nat, T # {}
    PROVE  \E x \in T : \A y \in T : x <= y
<1>1. Less = OpToRel(<, Nat)
  BY DEF Less, OpToRel
<1>2. IsWellFoundedOn(Less, Nat)
  BY <1>1, NatLessThanWellFounded
<1>3. PICK x \in T : \A y \in T : <<y, x>> \notin Less
  BY <1>2, WFMin
<1>4. ASSUME NEW y \in T PROVE x <= y
  <2>1. x \in Nat /\ y \in Nat
    OBVIOUS
  <2>2. <<y, x>> \notin Less
    BY <1>3
  <2>3. ~(y < x)
    BY <2>1, <2>2 DEF Less
  <2>4. QED BY <2>1, <2>3
<1>5. QED BY <1>4

Start == [at |-> Nowhere, put |-> {}]

\* One item is sorted in.
Placed(before, i) ==
    LET fit == FirstFit(i, Cell \ Taken(before.at, before.put)) IN
    IF fit = {}
    THEN [before EXCEPT !.at[i] = [shown[i] EXCEPT !.rot = FALSE]]
    ELSE [at |-> [before.at EXCEPT ![i] = CHOOSE p \in fit : TRUE],
          put |-> before.put \union {i}]

\* f tells, for each number up to n, what the first so many items of s make.
Sorts(f, s, n) ==
    f = [k \in 0 .. n |-> IF k = 0 THEN Start ELSE Placed(f[k - 1], s[k])]

LEMMA SortsExist ==
    ASSUME NEW s, NEW n \in Nat
    PROVE  \E f : Sorts(f, s, n)
  <1> DEFINE Bad == {m \in Nat : ~\E f : Sorts(f, s, m)}
  <1> SUFFICES ASSUME Bad # {} PROVE FALSE
    OBVIOUS
  <1>1. PICK m \in Bad : \A k \in Bad : m <= k
    BY LeastNumber
  <1>2. m \in Nat /\ ~\E f : Sorts(f, s, m)
    BY <1>1
  <1>3. m # 0
    <2> DEFINE f == [k \in 0 .. 0 |-> Start]
    <2>1. Sorts(f, s, 0)
      BY DEF Sorts
    <2> QED
      BY <1>2, <2>1
  <1>4. PICK f : Sorts(f, s, m - 1)
    BY <1>1, <1>2, <1>3
  <1> DEFINE g == [k \in 0 .. m |-> IF k = m THEN Placed(f[m - 1], s[m]) ELSE f[k]]
  <1>5. ASSUME NEW k \in 0 .. m
        PROVE  g[k] = IF k = 0 THEN Start ELSE Placed(g[k - 1], s[k])
    <2>1. CASE k = m
      BY <2>1, <1>2, <1>3
    <2>2. CASE k # m
      <3>1. k \in 0 .. m - 1
        BY <2>2, <1>2
      <3>2. f[k] = IF k = 0 THEN Start ELSE Placed(f[k - 1], s[k])
        BY <3>1, <1>4 DEF Sorts
      <3>3. k # 0 => k - 1 \in 0 .. m /\ k - 1 # m
        BY <3>1, <1>2
      <3> QED
        BY <3>1, <3>2, <3>3, <2>2
    <2> QED
      BY <2>1, <2>2
  <1>6. Sorts(g, s, m)
    BY <1>5 DEF Sorts
  <1> QED
    BY <1>2, <1>6

LEMMA SortedIs ==
    ASSUME NEW s, Len(s) \in Nat
    PROVE  \E f : Sorts(f, s, Len(s)) /\ Sorted(s) = f[Len(s)]
  <1> DEFINE f == CHOOSE f : Sorts(f, s, Len(s))
  <1>1. Sorts(f, s, Len(s))
    BY SortsExist
  <1>2. Sorted(s) = f[Len(s)]
    BY DEF Sorted, Sorts, Placed, Start
  <1> QED
    BY <1>1, <1>2
\* What a sort has made so far: what is put lies on the grid, apart from each
\* other, and is some of the first n items; nothing is placed that is not shown.
SoFar(r, s, n) ==
    /\ r \in [at : Placing, put : SUBSET Item]
    /\ \A i \in Item : r.at[i] # None => i \in Shown
    /\ \A i \in r.put : /\ \E k \in 1 .. n : i = s[k]
                        /\ r.at[i] # None /\ Cells(i, r.at[i]) \subseteq Cell
    /\ Fit(r.put, r.at)

\* Turning an item that is shown leaves it a place.
LEMMA TurnedIsPlace ==
    ASSUME NEW p \in Place, NEW r \in BOOLEAN
    PROVE  [p EXCEPT !.rot = r] \in Place
  BY DEF Place

\* One more item keeps what the sort has made.
LEMMA PlacedSoFar ==
    ASSUME Types, NEW s \in Orders, NEW k \in 1 .. Len(s), NEW r, SoFar(r, s, k - 1)
    PROVE  SoFar(Placed(r, s[k]), s, k)
  <1> DEFINE i == s[k]
             fit == FirstFit(i, Cell \ Taken(r.at, r.put))
  <1>0. PICK q : q = Placed(r, s[k])
    OBVIOUS
  <1> SUFFICES SoFar(q, s, k)
    BY <1>0
  <1>1. /\ Len(s) \in Nat /\ \A l \in 1 .. Len(s) : s[l] \in Shown
        /\ \A l \in 1 .. Len(s) : l < k => s[l] # i
    <2>1. s \in [1 .. Cardinality(Shown) -> Shown]
      BY DEF Orders
    <2>2. Cardinality(Shown) \in Nat
      <3>1. Shown \subseteq Item
        BY DEF Shown
      <3> QED
        BY <3>1, ItemAssumption, FS_Subset, FS_CardinalityType
    <2>3. s \in Seq(Shown) /\ Len(s) = Cardinality(Shown)
      BY <2>1, <2>2, SeqDef, LenProperties
    <2>4. DOMAIN s = 1 .. Len(s)
      BY <2>1, <2>3
    <2>5. \A l \in 1 .. Len(s) : l < k => s[l] # s[k]
      BY <2>4 DEF Orders
    <2> QED
      BY <2>1, <2>3, <2>4, <2>5
  <1>2. i \in Item /\ shown[i] \in Place /\ shown[i] # None
    BY <1>1 DEF Shown, Types, Placing
  <1>3. CASE fit = {}
    <2> DEFINE at == [r.at EXCEPT ![i] = [shown[i] EXCEPT !.rot = FALSE]]
    <2>1. q = [at |-> at, put |-> r.put]
      BY <1>0, <1>3 DEF Placed, SoFar
    <2>2. [shown[i] EXCEPT !.rot = FALSE] \in Place
      BY <1>2, TurnedIsPlace
    <2>3. at \in Placing
      BY <2>2 DEF SoFar, Placing
    <2>4. i \notin r.put
      BY <1>1 DEF SoFar
    <2>5. \A j \in r.put : at[j] = r.at[j]
      BY <2>4 DEF SoFar, Placing
    <2>6. \A j \in Item : at[j] # None => j \in Shown
      BY <1>1 DEF SoFar, Placing
    <2>7. Fit(r.put, at)
      BY <2>5 DEF SoFar, Fit
    <2>8. \A j \in r.put : \E l \in 1 .. k : j = s[l]
      BY <1>1 DEF SoFar
    <2>9. \A j \in r.put : at[j] # None /\ Cells(j, at[j]) \subseteq Cell
      BY <2>5 DEF SoFar
    <2>10. r.put \subseteq Item
      BY DEF SoFar
    <2> HIDE DEF at
    <2> QED
      BY <2>1, <2>3, <2>6, <2>7, <2>8, <2>9, <2>10 DEF SoFar
  <1>4. CASE fit # {}
    <2> DEFINE p == CHOOSE p \in fit : TRUE
               at == [r.at EXCEPT ![i] = p]
    <2>1. q = [at |-> at, put |-> r.put \union {i}]
      BY <1>0, <1>4 DEF Placed
    <2>2. p \in fit
      BY <1>4
    <2>3. p \in Place /\ p # None /\ Cells(i, p) \subseteq Cell \ Taken(r.at, r.put)
      <3> HIDE DEF p
      <3> QED
        BY <2>2, FitIsFree
    <2> HIDE DEF p, fit
    <2>4. at \in Placing /\ at[i] = p /\ \A j \in Item \ {i} : at[j] = r.at[j]
      BY <1>2, <2>3 DEF SoFar, Placing
    <2>5. i \notin r.put
      BY <1>1 DEF SoFar
    <2>6. \A j \in r.put : at[j] = r.at[j] /\ j \in Item
      BY <2>4, <2>5 DEF SoFar
    <2>7. \A j \in Item : at[j] # None => j \in Shown
      BY <1>1, <2>4 DEF SoFar
    <2>8. \A j \in r.put : Cells(i, p) \intersect Cells(j, r.at[j]) = {}
      BY <2>3 DEF Taken
    <2>9. Fit(r.put \union {i}, at)
      <3>1. \A j \in r.put \union {i} : Cells(j, at[j]) \subseteq Cell
        BY <2>3, <2>4, <2>6 DEF SoFar
      <3>2. \A j, l \in r.put : j # l => Cells(j, at[j]) \intersect Cells(l, at[l]) = {}
        BY <2>6 DEF SoFar, Fit
      <3>3. \A j \in r.put : Cells(i, at[i]) \intersect Cells(j, at[j]) = {}
        BY <2>4, <2>6, <2>8
      <3> QED
        BY <3>1, <3>2, <3>3 DEF Fit
    <2>10. \A j \in r.put \union {i} : \E l \in 1 .. k : j = s[l]
      BY <1>1 DEF SoFar
    <2>11. \A j \in r.put \union {i} : at[j] # None /\ Cells(j, at[j]) \subseteq Cell
      BY <2>3, <2>4, <2>6 DEF SoFar
    <2>12. r.put \union {i} \subseteq Item
      BY <1>2 DEF SoFar
    <2> HIDE DEF at
    <2> QED
      BY <2>1, <2>4, <2>7, <2>9, <2>10, <2>11, <2>12 DEF SoFar
  <1> QED
    BY <1>3, <1>4

\* What the whole sort makes.
LEMMA SortedSoFar ==
    ASSUME Types, NEW s \in Orders
    PROVE  SoFar(Sorted(s), s, Len(s))
  <1>1. Len(s) \in Nat
    <2>1. s \in [1 .. Cardinality(Shown) -> Shown]
      BY DEF Orders
    <2>2. Cardinality(Shown) \in Nat
      <3>1. Shown \subseteq Item
        BY DEF Shown
      <3> QED
        BY <3>1, ItemAssumption, FS_Subset, FS_CardinalityType
    <2> QED
      BY <2>1, <2>2, SeqDef, LenProperties
  <1>2. PICK f : Sorts(f, s, Len(s)) /\ Sorted(s) = f[Len(s)]
    BY <1>1, SortedIs
  <1> DEFINE Bad == {n \in 0 .. Len(s) : ~SoFar(f[n], s, n)}
  <1> SUFFICES ASSUME Bad # {} PROVE FALSE
    BY <1>1, <1>2
  <1>3. PICK n \in Bad : \A m \in Bad : n <= m
    <2>1. Bad \subseteq Nat
      BY <1>1
    <2> HIDE DEF Bad
    <2> QED
      BY <2>1, LeastNumber
  <1>4. n \in 0 .. Len(s) /\ ~SoFar(f[n], s, n)
    BY <1>3
  <1>5. f[n] = IF n = 0 THEN Start ELSE Placed(f[n - 1], s[n])
    BY <1>2, <1>4 DEF Sorts
  <1>6. CASE n = 0
    <2>1. Nowhere \in Placing /\ \A i \in Item : Nowhere[i] = None
      BY DEF Nowhere, Placing
    <2>2. SoFar(Start, s, 0)
      BY <2>1 DEF SoFar, Start, Fit
    <2> QED
      BY <1>4, <1>5, <1>6, <2>2
  <1>7. CASE n # 0
    <2>1. n - 1 \in 0 .. Len(s) /\ n \in 1 .. Len(s) /\ ~(n <= n - 1)
      BY <1>1, <1>4, <1>7
    <2>2. SoFar(f[n - 1], s, n - 1)
      BY <1>3, <2>1
    <2>3. SoFar(Placed(f[n - 1], s[n]), s, n)
      BY <2>1, <2>2, PlacedSoFar
    <2> QED
      BY <1>4, <1>5, <1>7, <2>3
  <1> QED
    BY <1>6, <1>7
----------------------------------------------------------------------------
(* The layout.                                                             *)

Laid ==
    \A i \in Item : items[i] # None => \A c \in Cells(i, items[i]) : c \in Cell /\ grid[c] = i

Telling(i) == \E k \in 1 .. Len(toClient) : toClient[k].uid = i

\* What a layout places lies on the grid, and apart.
Apart(to) ==
    /\ \A i \in Item : to[i] # None => Cells(i, to[i]) \subseteq Cell
    /\ \A i, j \in Item : to[i] # None /\ to[j] # None /\ i # j =>
                            Cells(i, to[i]) \intersect Cells(j, to[j]) = {}
\* An item placed on free cells lies there, and the others stay.
LEMMA PlaceLaid ==
    ASSUME Shapes, Laid, NEW i \in Item, NEW p, p # None, CanPlace(i, p), PlaceItem(i, p)
    PROVE  /\ Laid' /\ items'[i] = p
           /\ \A j \in Item \ {i} : items'[j] = items[j]
  <1>1. items'[i] = p /\ \A j \in Item \ {i} : items'[j] = items[j]
    BY DEF PlaceItem, Shapes
  <1>2. ASSUME NEW c \in Cells(i, p)
        PROVE  c \in Cell /\ grid'[c] = i
    BY <1>2 DEF PlaceItem, CanPlace
  <1>3. ASSUME NEW j \in Item, j # i, items[j] # None, NEW c \in Cells(j, items[j])
        PROVE  c \in Cell /\ grid'[c] = j
    <2>1. c \in Cell /\ grid[c] = j
      BY <1>3 DEF Laid
    <2>2. c \notin Cells(i, p)
      <3>1. j # None
        BY NoneAssumption
      <3> QED
        BY <1>3, <2>1, <3>1 DEF CanPlace
    <2> QED
      BY <1>3, <2>1, <2>2 DEF PlaceItem
  <1>4. ASSUME NEW j \in Item, items'[j] # None, NEW c \in Cells(j, items'[j])
        PROVE  c \in Cell /\ grid'[c] = j
    BY <1>1, <1>2, <1>3, <1>4
  <1>5. Laid'
    BY <1>4 DEF Laid
  <1> QED
    BY <1>1, <1>5

\* When an item is removed the others stay.
LEMMA RemoveLaid ==
    ASSUME Shapes, Laid, NEW i \in Item, RemoveItem(i)
    PROVE  /\ Laid' /\ items'[i] = None
           /\ \A j \in Item \ {i} : items'[j] = items[j]
  <1>1. items'[i] = None /\ \A j \in Item \ {i} : items'[j] = items[j]
    BY DEF RemoveItem, Shapes
  <1>2. ASSUME NEW j \in Item, j # i, items[j] # None, NEW c \in Cells(j, items[j])
        PROVE  c \in Cell /\ grid'[c] = j
    <2>1. c \in Cell /\ grid[c] = j
      BY <1>2 DEF Laid
    <2> QED
      BY <1>2, <2>1 DEF RemoveItem
  <1>3. ASSUME NEW j \in Item, items'[j] # None, NEW c \in Cells(j, items'[j])
        PROVE  c \in Cell /\ grid'[c] = j
    BY <1>1, <1>2, <1>3
  <1>4. Laid'
    BY <1>3 DEF Laid
  <1> QED
    BY <1>1, <1>4

\* A sort that covers what the server has places all of it.
LEMMA SortLaid ==
    ASSUME Shapes, NEW to, Apart(to), \A i \in Item : items[i] # None => to[i] # None,
           SortsTo(to)
    PROVE  /\ Laid' /\ \A i \in Item : items'[i] # None => items[i] # None
  <1> DEFINE sent == {i \in Item : to[i] # None /\ items[i] # None}
  <1>1. PICK S \in SUBSET sent :
             /\ \A i \in sent \ S : ~Fit(S \union {i}, to)
             /\ items' = [i \in Item |-> IF i \in S THEN to[i] ELSE items[i]]
             /\ grid' = [c \in Cell |-> IF \E i \in S : c \in Cells(i, to[i])
                                        THEN CHOOSE i \in S : c \in Cells(i, to[i]) ELSE None]
    BY DEF SortsTo
  <1>2. ASSUME NEW R \in SUBSET sent
        PROVE  Fit(R, to)
    BY DEF Fit, Apart
  <1>3. \A i \in Item : items[i] # None => i \in S
    <2> SUFFICES ASSUME NEW i \in sent \ S PROVE FALSE
      OBVIOUS
    <2>1. S \union {i} \in SUBSET sent
      OBVIOUS
    <2>2. ~Fit(S \union {i}, to)
      BY <1>1
    <2> QED
      BY <1>2, <2>1, <2>2
  <1>4. ASSUME NEW i \in Item, items'[i] # None
        PROVE  i \in S /\ items[i] # None /\ to[i] # None /\ items'[i] = to[i]
    BY <1>1, <1>3, <1>4
  <1>5. ASSUME NEW i \in S, NEW c \in Cells(i, to[i])
        PROVE  c \in Cell /\ grid'[c] = i
    <2>1. c \in Cell
      BY DEF Apart
    <2>2. \A j \in S : c \in Cells(j, to[j]) => j = i
      BY DEF Apart
    <2>3. grid'[c] = CHOOSE j \in S : c \in Cells(j, to[j])
      BY <1>1, <1>5, <2>1
    <2>4. (CHOOSE j \in S : c \in Cells(j, to[j])) \in S
      BY <1>5
    <2>5. c \in Cells(grid'[c], to[grid'[c]]) /\ grid'[c] \in S
      BY <1>5, <2>3
    <2> QED
      BY <2>1, <2>2, <2>5
  <1>6. Laid'
    BY <1>4, <1>5 DEF Laid
  <1> QED
    BY <1>4, <1>6

----------------------------------------------------------------------------
(* The commands on their way.                                              *)

\* The command read was the first, and the others move up.
LEMMA ReceiveMoves ==
    ASSUME Sent, NEW op, Receive(op)
    PROVE  /\ toServer[1] = Head(toServer) /\ toServer[1].op = op
           /\ Len(toServer) \in Nat /\ 1 \in 1 .. Len(toServer)
           /\ Len(toServer') = Len(toServer) - 1
           /\ \A k \in 1 .. Len(toServer') : toServer'[k] = toServer[k + 1]
  <1>1. PICK S : toServer \in Seq(S)
    BY DEF Sent
  <1>2. toServer # <<>> /\ toServer' = Tail(toServer) /\ Head(toServer).op = op
    BY DEF Receive
  <1> QED
    BY <1>1, <1>2, HeadTailProperties, LenProperties

----------------------------------------------------------------------------
(* The client's steps.                                                     *)

\* Places only come where the client shows something.
LEMMA ShowTypes ==
    ASSUME Types, NEW i \in Item, NEW p \in Place \union {None}
    PROVE  [shown EXCEPT ![i] = p] \in Placing
  BY DEF Types, Placing

\* What the mouse does keeps the client's values.
LEMMA MouseTypes ==
    ASSUME Types, Mouse
    PROVE  Types'
  <1>0. calm' \in BOOLEAN /\ toClient' = toClient
    <2>1. ASSUME NEW i \in Item, NEW p, Change(i, p) PROVE calm' \in BOOLEAN
      BY <2>1 DEF Change, Expect
    <2>2. CASE \E i \in Item : Grab(i) \/ Turn(i)
      BY <2>1, <2>2 DEF Grab, Expect, Turn
    <2>3. CASE PutDown
      <3>1. held.uid \in Item /\ \E p : Change(held.uid, p)
        BY <2>3 DEF PutDown, Shown
      <3> QED
        BY <2>1, <2>3, <3>1 DEF PutDown
    <2>4. CASE TurnHeld \/ PutBack \/ ThrowOut
      BY <2>4 DEF TurnHeld, PutBack, ThrowOut, Types
    <2> QED
      BY <2>2, <2>3, <2>4 DEF Mouse
  <1>1. toClient' \in Seq([uid : Item, at : Place])
    BY <1>0 DEF Types
  <1> SUFFICES shown' \in Placing /\ held' \in Held \union {None}
    BY <1>0, <1>1 DEF Types
  <1>2. \A i \in Shown : i \in Item /\ shown[i] \in Place
    BY DEF Types, Placing, Shown
  <1>3. held # None => held \in Held
    BY DEF Types
  <1>4. ASSUME NEW i \in Item, Grab(i) PROVE shown' \in Placing /\ held' \in Held \union {None}
    <2>1. shown' = shown /\ i \in Shown /\ held' = [uid |-> i, rot |-> shown[i].rot]
      BY <1>4 DEF Grab
    <2>2. shown[i].rot \in BOOLEAN
      BY <1>2, <2>1 DEF Place
    <2> QED
      BY <2>1, <2>2 DEF Types, Held
  <1>5. ASSUME NEW i \in Item, Turn(i) PROVE shown' \in Placing /\ held' \in Held \union {None}
    <2>1. i \in Shown /\ held' = held /\ shown' = [shown EXCEPT ![i] = [shown[i] EXCEPT !.rot = ~@]]
      BY <1>5 DEF Turn, Change
    <2>2. [shown[i] EXCEPT !.rot = ~@] \in Place
      BY <1>2, <2>1 DEF Place
    <2> QED
      BY <2>1, <2>2, ShowTypes DEF Types
  <1>6. CASE TurnHeld
    <2>1. PICK i : i = held.uid
      OBVIOUS
    <2>2. i \in Shown /\ shown' = [shown EXCEPT ![i].rot = ~@] /\ held' = held
      BY <1>6, <2>1 DEF TurnHeld
    <2>3. PICK p : p = [shown[i] EXCEPT !.rot = ~@]
      OBVIOUS
    <2>4. i \in Item /\ p \in Place
      BY <1>2, <2>2, <2>3 DEF Place
    <2>5. shown' = [shown EXCEPT ![i] = p]
      BY <2>2, <2>3
    <2>6. shown' \in Placing
      BY <2>4, <2>5, ShowTypes
    <2> QED
      BY <2>2, <2>6 DEF Types
  <1>7. CASE PutDown
    <2>1. PICK i : i = held.uid
      OBVIOUS
    <2>2. i \in Shown /\ held' = None
      BY <1>7, <2>1 DEF PutDown, LetGo
    <2>3. PICK x \in 0 .. Cols, y \in 0 .. Rows :
             CanShow(i, At(x, y, shown[i].rot)) /\ Change(i, At(x, y, shown[i].rot))
      BY <1>7, <2>1 DEF PutDown
    <2>4. shown[i].rot \in BOOLEAN
      BY <1>2, <2>2 DEF Place
    <2>5. At(x, y, shown[i].rot) \in Place
      <3>1. x \in Nat /\ y \in Nat
        BY GridAssumption
      <3> QED
        BY <2>3, <2>4, <3>1, OnGridIsPlace DEF CanShow
    <2> QED
      BY <1>2, <2>2, <2>3, <2>5, ShowTypes DEF Change
  <1>8. CASE PutBack
    <2>1. PICK i : i = held.uid
      OBVIOUS
    <2>2. held' = None /\ held \in Held
      BY <1>3, <1>8 DEF PutBack, LetGo
    <2>3. CASE i \notin Shown
      BY <1>8, <2>1, <2>2, <2>3 DEF PutBack, Types
    <2>4. CASE i \in Shown
      <3>1. shown' = [shown EXCEPT ![i] = [shown[i] EXCEPT !.rot = held.rot]]
        BY <1>8, <2>1, <2>4 DEF PutBack
      <3>2. [shown[i] EXCEPT !.rot = held.rot] \in Place
        BY <1>2, <2>2, <2>4, TurnedIsPlace DEF Held
      <3> QED
        BY <1>2, <2>2, <2>4, <3>1, <3>2, ShowTypes
    <2> QED
      BY <2>3, <2>4
  <1>9. CASE ThrowOut
    <2>1. held.uid \in Item /\ held' = None /\ shown' = [shown EXCEPT ![held.uid] = None]
      BY <1>2, <1>9 DEF ThrowOut, LetGo
    <2> QED
      BY <2>1, ShowTypes
  <1> QED
    BY <1>4, <1>5, <1>6, <1>7, <1>8, <1>9 DEF Mouse

\* So does everything.
LEMMA NextTypes ==
    ASSUME Shapes, Types, [Next]_vars
    PROVE  Types'
  <1>1. CASE UNCHANGED vars
    BY <1>1 DEF vars, clientVars, Types
  <1>2. CASE Server
    <2>1. shown' = shown /\ held' = held
      BY <1>2 DEF Server, MoveItem, SortItems, DropItem, DropRefused, PickUp, PickUpNothing,
                  Receive, clientVars
    <2>2. calm' \in BOOLEAN
      BY <1>2 DEF Server, MoveItem, SortItems, DropItem, DropRefused, PickUp, PickUpNothing, Types
    <2>3. toClient' \in Seq([uid : Item, at : Place])
      <3>1. CASE PickUp
        <4>1. PICK i \in ground : \E p \in FirstFit(i, {c \in Cell : grid[c] = None}) :
                                    toClient' = Append(toClient, GetItem(i, p))
          BY <3>1 DEF PickUp
        <4>2. PICK p \in FirstFit(i, {c \in Cell : grid[c] = None}) :
                                    toClient' = Append(toClient, GetItem(i, p))
          BY <4>1
        <4>3. i \in Item /\ p \in Place
          BY FitIsFree DEF Shapes
        <4>4. GetItem(i, p) \in [uid : Item, at : Place]
          BY <4>3 DEF GetItem
        <4> QED
          BY <4>2, <4>4, AppendProperties DEF Types
      <3>2. CASE ~PickUp
        BY <1>2, <3>2 DEF Server, MoveItem, SortItems, DropItem, DropRefused, PickUpNothing, Types
      <3> QED
        BY <3>1, <3>2
    <2> QED
      BY <2>1, <2>2, <2>3 DEF Types
  <1>3. CASE Toggle \/ UpdateSync \/ AskPickUp
    BY <1>3 DEF Toggle, UpdateSync, AskPickUp, Expect, Types
  <1>4. CASE AskSort
    <2>1. PICK s \in Orders : shown' = Sorted(s).at /\ calm' \in BOOLEAN
      BY <1>4 DEF AskSort, Expect
    <2>2. shown' \in Placing
      BY <2>1, SortedSoFar DEF SoFar
    <2> QED
      BY <1>4, <2>1, <2>2 DEF AskSort, Types
  <1>5. CASE AddItem
    <2>1. PICK m : m = Head(toClient)
      OBVIOUS
    <2>2. m \in [uid : Item, at : Place] /\ toClient' \in Seq([uid : Item, at : Place])
      BY <1>5, <2>1, HeadTailProperties DEF AddItem, Types
    <2>3. shown' \in Placing
      BY <1>5, <2>1, <2>2, ShowTypes DEF AddItem, Types
    <2> QED
      BY <1>5, <2>2, <2>3 DEF AddItem, Types
  <1> QED
    BY <1>1, <1>2, <1>3, <1>4, <1>5, MouseTypes DEF Next, Client
\* What is put down is put at a place.
LEMMA PutAtPlace ==
    ASSUME Types, NEW i \in Shown, i = held.uid, PutDown
    PROVE  \E p \in Place : CanShow(i, p) /\ Change(i, p)
  <1>1. PICK x \in 0 .. Cols, y \in 0 .. Rows :
           CanShow(i, At(x, y, shown[i].rot)) /\ Change(i, At(x, y, shown[i].rot))
    BY DEF PutDown
  <1>2. shown[i].rot \in BOOLEAN
    BY DEF Types, Placing, Shown, Place
  <1>3. x \in Nat /\ y \in Nat
    BY GridAssumption
  <1>4. At(x, y, shown[i].rot) \in Place
    BY <1>1, <1>2, <1>3, OnGridIsPlace DEF CanShow
  <1> QED
    BY <1>1, <1>4

\* What was excepted once is excepted for good.
LEMMA CalmBefore ==
    ASSUME [Next]_vars, calm'
    PROVE  calm
  <1>1. CASE UNCHANGED vars
    BY <1>1 DEF vars
  <1>2. CASE Server
    BY <1>2 DEF Server, MoveItem, SortItems, DropItem, DropRefused, PickUp, PickUpNothing
  <1>3. ASSUME NEW i, NEW p, Change(i, p) PROVE calm
    BY <1>3 DEF Change, Expect
  <1>4. CASE Mouse
    <2>1. CASE PutDown
      BY <1>3, <2>1 DEF PutDown
    <2>2. CASE \E i \in Item : Grab(i) \/ Turn(i)
      BY <1>3, <2>2 DEF Grab, Turn, Expect
    <2>3. CASE TurnHeld \/ PutBack \/ ThrowOut
      BY <2>3 DEF TurnHeld, PutBack, ThrowOut
    <2> QED
      BY <1>4, <2>1, <2>2, <2>3 DEF Mouse
  <1>5. CASE Toggle \/ UpdateSync \/ AskPickUp \/ AskSort \/ AddItem
    BY <1>5 DEF Toggle, UpdateSync, AskPickUp, AskSort, AddItem, Expect
  <1> QED
    BY <1>1, <1>2, <1>4, <1>5 DEF Next, Client

----------------------------------------------------------------------------
(* What the client shows is kept.                                          *)
(*                                                                         *)
(* As long as all is calm the server will follow every command on its way: *)
(* there is a layout for each point of the queue, from what the server has *)
(* to what the client wants, and each command leads from one to the next   *)
(* (Planned, Ends).                                                        *)

\* A command that will be followed leads from one layout to the next.
Steps(v, c, w) ==
    \/ c.op = "move" /\ c.uid \in Item /\ v[c.uid] # None /\ w = [v EXCEPT ![c.uid] = c.at]
    \/ c.op = "drop" /\ c.uid \in Item /\ v[c.uid] # None /\ w = [v EXCEPT ![c.uid] = None]
    \/ c.op = "sort" /\ c.slots = Slots(w) /\ \A i \in Item : w[i] # None <=> v[i] # None
    \/ c.op = "pickup" /\ w = v

Plan(q, V) ==
    /\ V \in [0 .. Len(q) -> Placing]
    /\ \A k \in 0 .. Len(q) : Apart(V[k])
    /\ \A k \in 1 .. Len(q) : Steps(V[k - 1], q[k], V[k])
Planned(q, v, w) == \E V : Plan(q, V) /\ V[0] = v /\ V[Len(q)] = w

\* What the client shows, with the item in hand as it was grabbed.
Want == [i \in Item |-> IF held # None /\ held.uid = i /\ shown[i] # None
                        THEN [shown[i] EXCEPT !.rot = held.rot] ELSE shown[i]]

\* What the commands lead to is what the client wants or will be told, but for
\* what it still has to send.
Ends(w) ==
    /\ \A k \in 1 .. Len(toClient) : toClient[k].uid \notin Shown /\ w[toClient[k].uid] = toClient[k].at
    /\ \A i \in Item : ~Telling(i) /\ i \notin dirty => w[i] = Want[i]
    /\ \A i \in Item : i \in dirty => (w[i] # None <=> i \in Shown)

\* Nothing is moved or sorted behind a pick-up.
Moves(c) == c.op \in {"move", "sort"}
Ordered(q) == \A k, l \in 1 .. Len(q) : Moves(q[k]) /\ q[l].op = "pickup" => k < l
Quiet(q) == \A k \in 1 .. Len(q) : ~Moves(q[k])

Kept ==
    /\ Apart(Want)
    /\ \E w : Planned(toServer, items, w) /\ Ends(w)
    /\ \A k, l \in 1 .. Len(toClient) : toClient[k].uid = toClient[l].uid => k = l
    /\ Ordered(toServer)
    /\ toClient # <<>> => Quiet(toServer)
    /\ PickingUp => dirty = {}
    /\ \A i, j \in dirty \intersect Shown : i = j
    /\ held # None => held.uid \in Shown

\* What lies on the ground is not in the inventory.
Apiece == \A i \in ground : items[i] = None

KeptInv == IInv /\ Types /\ Apiece /\ (calm => Laid /\ Kept)

\* The first command leads to a layout from which the others go on.
LEMMA PlannedTail ==
    ASSUME NEW S, NEW q \in Seq(S), q # <<>>, NEW v, NEW w, Planned(q, v, w)
    PROVE  \E x \in Placing : Apart(x) /\ Steps(v, Head(q), x) /\ Planned(Tail(q), x, w)
  <1>1. PICK V : Plan(q, V) /\ V[0] = v /\ V[Len(q)] = w
    BY DEF Planned
  <1>2. PICK n \in Nat : n = Len(q)
    BY LenProperties
  <1>3. /\ n >= 1 /\ Len(Tail(q)) = n - 1 /\ Head(q) = q[1]
        /\ \A k \in 1 .. n - 1 : Tail(q)[k] = q[k + 1]
    BY <1>2, HeadTailProperties, LenProperties
  <1>4. /\ V \in [0 .. n -> Placing]
        /\ \A k \in 0 .. n : Apart(V[k])
        /\ \A k \in 1 .. n : Steps(V[k - 1], q[k], V[k])
    BY <1>1, <1>2 DEF Plan
  <1> DEFINE W == [k \in 0 .. n - 1 |-> V[k + 1]]
  <1>5. \A k \in 0 .. n - 1 : k + 1 \in 0 .. n
    BY <1>2
  <1>6. W \in [0 .. n - 1 -> Placing] /\ \A k \in 0 .. n - 1 : Apart(W[k])
    BY <1>4, <1>5
  <1>7. ASSUME NEW k \in 1 .. n - 1
        PROVE  Steps(W[k - 1], Tail(q)[k], W[k])
    <2>1. W[k - 1] = V[k] /\ W[k] = V[k + 1] /\ Tail(q)[k] = q[k + 1]
      BY <1>2, <1>3
    <2>2. k + 1 \in 1 .. n /\ (k + 1) - 1 = k
      BY <1>2
    <2>3. Steps(V[(k + 1) - 1], q[k + 1], V[k + 1])
      BY <1>4, <2>2
    <2> QED
      BY <2>1, <2>2, <2>3
  <1>8. W[0] = V[1] /\ W[n - 1] = V[n]
    BY <1>2, <1>3
  <1> HIDE DEF W
  <1>9. Planned(Tail(q), V[1], w)
    BY <1>1, <1>2, <1>3, <1>6, <1>7, <1>8 DEF Planned, Plan
  <1>10. V[1] \in Placing /\ Apart(V[1])
    BY <1>2, <1>3, <1>4
  <1>11. Steps(v, Head(q), V[1])
    <2>1. 1 \in 1 .. n /\ 1 - 1 = 0
      BY <1>2, <1>3
    <2>2. Steps(V[1 - 1], q[1], V[1])
      BY <1>4, <2>1
    <2> QED
      BY <1>1, <1>3, <2>1, <2>2
  <1> QED
    BY <1>9, <1>10, <1>11

\* A command that goes on from the last layout may be sent.
LEMMA PlannedAppend ==
    ASSUME NEW S, NEW q \in Seq(S), NEW v, NEW w, Planned(q, v, w), NEW c,
           NEW x \in Placing, Apart(x), Steps(w, c, x)
    PROVE  Planned(Append(q, c), v, x)
  <1>1. PICK V : Plan(q, V) /\ V[0] = v /\ V[Len(q)] = w
    BY DEF Planned
  <1>2. PICK n \in Nat : n = Len(q)
    BY LenProperties
  <1>3. PICK r : r = Append(q, c)
    OBVIOUS
  <1>4. Len(r) = n + 1 /\ r[n + 1] = c /\ \A k \in 1 .. n : r[k] = q[k]
    <2>1. q \in Seq(S \union {c})
      BY SeqMonotonic
    <2> QED
      BY <1>2, <1>3, <2>1, AppendProperties
  <1>5. /\ V \in [0 .. n -> Placing]
        /\ \A k \in 0 .. n : Apart(V[k])
        /\ \A k \in 1 .. n : Steps(V[k - 1], q[k], V[k])
    BY <1>1, <1>2 DEF Plan
  <1> DEFINE W == [k \in 0 .. n + 1 |-> IF k = n + 1 THEN x ELSE V[k]]
  <1>6. \A k \in 0 .. n + 1 : k = n + 1 \/ k \in 0 .. n
    BY <1>2
  <1>7. W \in [0 .. n + 1 -> Placing] /\ \A k \in 0 .. n + 1 : Apart(W[k])
    BY <1>5, <1>6
  <1>8. W[0] = V[0] /\ W[n + 1] = x /\ W[n] = V[n]
    BY <1>2
  <1>9. ASSUME NEW k \in 1 .. n + 1
        PROVE  Steps(W[k - 1], r[k], W[k])
    <2>1. CASE k = n + 1
      <3>1. k - 1 = n
        BY <1>2, <2>1
      <3> HIDE DEF W
      <3> QED
        BY <1>1, <1>2, <1>4, <1>8, <2>1, <3>1
    <2>2. CASE k # n + 1
      <3>1. k \in 1 .. n /\ k - 1 \in 0 .. n + 1 /\ k - 1 # n + 1
        BY <1>2, <2>2
      <3>2. W[k - 1] = V[k - 1] /\ W[k] = V[k]
        BY <2>2, <3>1
      <3> HIDE DEF W
      <3> QED
        BY <1>4, <1>5, <3>1, <3>2
    <2> QED
      BY <2>1, <2>2
  <1> HIDE DEF W
  <1> QED
    BY <1>1, <1>3, <1>4, <1>7, <1>8, <1>9 DEF Planned, Plan

\* Changes at two places may be made in either order.
LEMMA ExceptSwaps ==
    ASSUME NEW f, NEW i, NEW j, i # j, NEW a, NEW b
    PROVE  [[f EXCEPT ![i] = a] EXCEPT ![j] = b] = [[f EXCEPT ![j] = b] EXCEPT ![i] = a]
  OBVIOUS

\* An item that is not there, laid on free cells, stays while nothing moves.
LEMMA PlannedAdd ==
    ASSUME NEW q, Len(q) \in Nat, NEW v, NEW w, Planned(q, v, w), Quiet(q),
           NEW i \in Item, v[i] = None, NEW p \in Place, Cells(i, p) \subseteq Cell,
           \A j \in Item : v[j] # None => Cells(i, p) \intersect Cells(j, v[j]) = {}
    PROVE  /\ w[i] = None /\ w \in Placing
           /\ Planned(q, [v EXCEPT ![i] = p], [w EXCEPT ![i] = p])
  <1>1. PICK V : Plan(q, V) /\ V[0] = v /\ V[Len(q)] = w
    BY DEF Planned
  <1>2. PICK n \in Nat : n = Len(q)
    OBVIOUS
  <1>3. /\ V \in [0 .. n -> Placing]
        /\ \A k \in 0 .. n : Apart(V[k])
        /\ \A k \in 1 .. n : Steps(V[k - 1], q[k], V[k])
    BY <1>1, <1>2 DEF Plan
  <1>4. ASSUME NEW k \in 1 .. n
        PROVE  \/ q[k].op = "drop" /\ q[k].uid \in Item /\ V[k - 1][q[k].uid] # None
                  /\ V[k] = [V[k - 1] EXCEPT ![q[k].uid] = None]
               \/ q[k].op = "pickup" /\ V[k] = V[k - 1]
    BY <1>2, <1>3 DEF Quiet, Moves, Steps
  <1>5. \A k \in 0 .. n : \A j \in Item : V[k][j] \in {None, v[j]}
    <2> DEFINE Bad == {k \in 0 .. n : \E j \in Item : V[k][j] \notin {None, v[j]}}
    <2> SUFFICES ASSUME Bad # {} PROVE FALSE
      OBVIOUS
    <2>1. PICK k \in Bad : \A l \in Bad : k <= l
      <3>1. Bad \subseteq Nat
        BY <1>2
      <3> HIDE DEF Bad
      <3> QED
        BY <3>1, LeastNumber
    <2>2. PICK j \in Item : k \in 0 .. n /\ V[k][j] \notin {None, v[j]}
      BY <2>1
    <2>3. k # 0
      BY <1>1, <2>2
    <2>4. k \in 1 .. n /\ k - 1 \in 0 .. n /\ ~(k <= k - 1)
      BY <1>2, <2>2, <2>3
    <2>5. V[k - 1][j] \in {None, v[j]}
      BY <2>1, <2>4
    <2>6. V[k][j] \in {None, V[k - 1][j]}
      <3>1. DOMAIN V[k - 1] = Item
        BY <1>3, <2>4 DEF Placing
      <3> QED
        BY <1>4, <2>4, <3>1
    <2> QED
      BY <2>2, <2>5, <2>6
  <1>6. \A k \in 0 .. n : V[k][i] = None
    BY <1>5
  <1>7. n \in 0 .. n /\ 0 \in 0 .. n
    BY <1>2
  <1> DEFINE W == [k \in 0 .. n |-> [V[k] EXCEPT ![i] = p]]
  <1>8. ASSUME NEW k \in 0 .. n
        PROVE  /\ W[k] \in Placing /\ W[k][i] = p
               /\ \A j \in Item \ {i} : W[k][j] = V[k][j]
    BY <1>3 DEF Placing
  <1>9. ASSUME NEW k \in 0 .. n
        PROVE  Apart(W[k])
    <2> HIDE DEF W
    <2>1. \A j \in Item : W[k][j] # None => Cells(j, W[k][j]) \subseteq Cell
      BY <1>3, <1>8 DEF Apart
    <2>2. \A j \in Item \ {i} : W[k][j] # None => Cells(i, p) \intersect Cells(j, W[k][j]) = {}
      BY <1>5, <1>8
    <2>3. \A j, l \in Item \ {i} : W[k][j] # None /\ W[k][l] # None /\ j # l =>
            Cells(j, W[k][j]) \intersect Cells(l, W[k][l]) = {}
      BY <1>3, <1>8 DEF Apart
    <2> QED
      BY <1>8, <2>1, <2>2, <2>3 DEF Apart
  <1>10. ASSUME NEW k \in 1 .. n
         PROVE  Steps(W[k - 1], q[k], W[k])
    <2>1. k - 1 \in 0 .. n /\ k \in 0 .. n
      BY <1>2
    <2>2. W[k] = [V[k] EXCEPT ![i] = p] /\ W[k - 1] = [V[k - 1] EXCEPT ![i] = p]
      BY <2>1
    <2>3. DOMAIN V[k - 1] = Item
      BY <1>3, <2>1 DEF Placing
    <2>4. CASE q[k].op = "pickup" /\ V[k] = V[k - 1]
      BY <2>2, <2>4 DEF Steps
    <2>5. CASE q[k].op = "drop" /\ q[k].uid \in Item /\ V[k - 1][q[k].uid] # None
               /\ V[k] = [V[k - 1] EXCEPT ![q[k].uid] = None]
      <3>1. PICK d \in Item : d = q[k].uid
        BY <2>5
      <3>2. d # i /\ V[k - 1][d] # None
        BY <1>6, <2>1, <2>5, <3>1
      <3>3. W[k - 1][d] = V[k - 1][d]
        BY <2>2, <2>3, <3>2
      <3>4. W[k] = [W[k - 1] EXCEPT ![d] = None]
        <4>1. PICK f, g : f = V[k - 1] /\ g = V[k]
          OBVIOUS
        <4>2. g = [f EXCEPT ![d] = None]
          BY <2>5, <3>1, <4>1
        <4>3. W[k] = [[f EXCEPT ![d] = None] EXCEPT ![i] = p]
          BY <2>2, <4>1, <4>2
        <4>4. [W[k - 1] EXCEPT ![d] = None] = [[f EXCEPT ![i] = p] EXCEPT ![d] = None]
          BY <2>2, <4>1
        <4> HIDE DEF W
        <4> QED
          BY <3>2, <4>3, <4>4, ExceptSwaps
      <3> HIDE DEF W
      <3> QED
        BY <2>5, <3>1, <3>2, <3>3, <3>4 DEF Steps
    <2> QED
      BY <1>4, <2>4, <2>5
  <1>11. W \in [0 .. n -> Placing]
    BY <1>8
  <1>12. W[0] = [v EXCEPT ![i] = p] /\ W[n] = [w EXCEPT ![i] = p]
    BY <1>1, <1>2, <1>7
  <1> HIDE DEF W
  <1>13. Planned(q, [v EXCEPT ![i] = p], [w EXCEPT ![i] = p])
    BY <1>2, <1>9, <1>10, <1>11, <1>12 DEF Planned, Plan
  <1>14. w[i] = None /\ w \in Placing
    BY <1>1, <1>2, <1>3, <1>6, <1>7
  <1> QED
    BY <1>13, <1>14
----------------------------------------------------------------------------

\* What the client wants is what it shows, but for how the item in hand is
\* turned.
LEMMA WantShows ==
    ASSUME Types
    PROVE  /\ Want \in Placing
           /\ \A i \in Item : Want[i] # None <=> i \in Shown
           /\ \A i \in Item : ~(held # None /\ held.uid = i) => Want[i] = shown[i]
           /\ \A i \in Item : held # None /\ held.uid = i /\ i \in Shown =>
                                Want[i] = [shown[i] EXCEPT !.rot = held.rot]
  <1>1. \A p \in Place : p # None
    BY NoneAssumption
  <1>2. \A i \in Item : shown[i] \in Place \union {None}
    BY DEF Types, Placing
  <1>3. held # None => held.rot \in BOOLEAN
    BY DEF Types, Held
  <1>4. ASSUME NEW i \in Item
        PROVE  /\ Want[i] \in Place \union {None}
               /\ Want[i] # None <=> i \in Shown
               /\ ~(held # None /\ held.uid = i) => Want[i] = shown[i]
               /\ held # None /\ held.uid = i /\ i \in Shown =>
                    Want[i] = [shown[i] EXCEPT !.rot = held.rot]
    <2>1. CASE held # None /\ held.uid = i /\ shown[i] # None
      <3>1. Want[i] = [shown[i] EXCEPT !.rot = held.rot]
        BY <2>1 DEF Want
      <3>2. [shown[i] EXCEPT !.rot = held.rot] \in Place
        BY <1>2, <1>3, <2>1, TurnedIsPlace
      <3> QED
        BY <1>1, <2>1, <3>1, <3>2 DEF Shown
    <2>2. CASE ~(held # None /\ held.uid = i /\ shown[i] # None)
      BY <1>2, <2>2 DEF Want, Shown
    <2> QED
      BY <2>1, <2>2
  <1>5. Want = [i \in Item |-> Want[i]]
    BY DEF Want
  <1> QED
    BY <1>4, <1>5 DEF Placing

\* The commands behind the first are in order, and behind a pick-up nothing is
\* moved.
LEMMA ReceiveOrdered ==
    ASSUME Sent, NEW op, Receive(op), Ordered(toServer)
    PROVE  /\ Ordered(toServer') /\ (Quiet(toServer) => Quiet(toServer'))
           /\ op = "pickup" => Quiet(toServer')
           /\ PickingUp' => PickingUp \/ toClient' # <<>>
  <1>1. /\ toServer[1].op = op /\ Len(toServer) \in Nat /\ 1 \in 1 .. Len(toServer)
        /\ Len(toServer') = Len(toServer) - 1
        /\ \A k \in 1 .. Len(toServer') : toServer'[k] = toServer[k + 1]
    BY ReceiveMoves
  <1>2. \A k \in 1 .. Len(toServer') : k + 1 \in 1 .. Len(toServer) /\ toServer'[k] = toServer[k + 1]
    BY <1>1
  <1>3. Ordered(toServer')
    <2> SUFFICES ASSUME NEW k \in 1 .. Len(toServer'), NEW l \in 1 .. Len(toServer'),
                        Moves(toServer'[k]), toServer'[l].op = "pickup"
                 PROVE  k < l
      BY DEF Ordered
    <2>1. k + 1 < l + 1
      BY <1>2 DEF Ordered
    <2> QED
      BY <1>1, <2>1
  <1>4. Quiet(toServer) => Quiet(toServer')
    BY <1>2 DEF Quiet
  <1>5. ASSUME op = "pickup", NEW k \in 1 .. Len(toServer')
        PROVE  ~Moves(toServer'[k])
    <2>1. ~(k + 1 < 1)
      BY <1>1
    <2> QED
      BY <1>1, <1>2, <1>5, <2>1 DEF Ordered
  <1>6. PickingUp' => PickingUp \/ toClient' # <<>>
    BY <1>2 DEF PickingUp
  <1> QED
    BY <1>3, <1>4, <1>5, <1>6 DEF Quiet

\* A command that is followed as planned keeps what is shown.
LEMMA FollowedKept ==
    ASSUME Sent, Kept, NEW op, Receive(op), toClient' = toClient,
           NEW w, Ends(w), Planned(toServer', items', w)
    PROVE  Kept'
  <1>1. Want' = Want /\ Shown' = Shown /\ dirty' = dirty /\ held' = held
    BY DEF Receive, clientVars, Want, Shown
  <1>2. Ends(w)'
    BY <1>1 DEF Ends, Telling
  <1>3. Ordered(toServer') /\ (Quiet(toServer) => Quiet(toServer')) /\ (PickingUp' => PickingUp)
    BY ReceiveOrdered DEF Kept, PickingUp
  <1> QED
    BY <1>1, <1>2, <1>3 DEF Kept

\* What the server has lies where a layout says, if it is the one it has.
LEMMA PlanCanPlace ==
    ASSUME Shapes, GridSound, NEW x, Apart(x), NEW i \in Item, x[i] # None,
           \A j \in Item \ {i} : x[j] = items[j]
    PROVE  CanPlace(i, x[i])
  <1> SUFFICES ASSUME NEW c \in Cells(i, x[i]) PROVE c \in Cell /\ grid[c] \in {None, i}
    BY DEF CanPlace
  <1>1. c \in Cell
    BY DEF Apart
  <1>2. ASSUME grid[c] # None, grid[c] # i PROVE FALSE
    <2>1. PICK j \in Item \ {i} : j = grid[c]
      BY <1>1, <1>2 DEF Shapes
    <2>2. items[j] # None /\ c \in Cells(j, items[j])
      BY <1>1, <1>2, <2>1 DEF GridSound
    <2>3. x[j] # None /\ c \in Cells(j, x[j])
      BY <2>2
    <2> QED
      BY <2>3 DEF Apart
  <1> QED
    BY <1>1, <1>2

\* What the server does while all is calm keeps what is shown.
LEMMA ServerKept ==
    ASSUME KeptInv, calm, calm', Server
    PROVE  Laid' /\ Kept'
  <1>0. Shapes /\ Sent /\ GridSound /\ Types /\ Laid /\ Apiece /\ Kept
    BY DEF KeptInv, IInv
  <1>1. PICK w : Planned(toServer, items, w) /\ Ends(w)
    BY <1>0 DEF Kept
  <1>2. ASSUME NEW op, Receive(op)
        PROVE  \E x \in Placing : /\ Apart(x) /\ Steps(items, Head(toServer), x)
                                  /\ Planned(toServer', x, w)
    <2>1. PICK S : toServer \in Seq(S)
      BY <1>0 DEF Sent
    <2>2. toServer # <<>> /\ toServer' = Tail(toServer)
      BY <1>2 DEF Receive
    <2> QED
      BY <1>1, <2>1, <2>2, PlannedTail
  <1>3. CASE MoveItem
    <2>1. Receive("move") /\ toClient' = toClient /\ Head(toServer).op = "move"
      BY <1>3 DEF MoveItem, Receive
    <2>2. PICK x \in Placing : /\ Apart(x) /\ Steps(items, Head(toServer), x)
                               /\ Planned(toServer', x, w)
      BY <1>2, <2>1
    <2>3. PICK m : m = Head(toServer)
      OBVIOUS
    <2>4. m.uid \in Item /\ items[m.uid] # None /\ x = [items EXCEPT ![m.uid] = m.at]
      BY <2>1, <2>2, <2>3 DEF Steps
    <2>5. m.at # None
      BY <1>0, <2>1, <2>3, ReceiveSent DEF WellMeant
    <2>6. x[m.uid] = m.at /\ \A j \in Item \ {m.uid} : x[j] = items[j]
      BY <1>0, <2>4 DEF Shapes
    <2>7. CanPlace(m.uid, m.at)
      <3>1. CanPlace(m.uid, x[m.uid])
        BY <1>0, <2>2, <2>4, <2>5, <2>6, PlanCanPlace
      <3> QED
        BY <2>6, <3>1
    <2>8. items' = x
      BY <1>3, <2>3, <2>4, <2>7 DEF MoveItem, PlaceItem
    <2>9. Laid'
      <3>1. PlaceItem(m.uid, m.at)
        BY <1>3, <2>3, <2>4, <2>7 DEF MoveItem
      <3> QED
        BY <1>0, <2>4, <2>5, <2>7, <3>1, PlaceLaid
    <2> QED
      BY <1>0, <1>1, <2>1, <2>2, <2>8, <2>9, FollowedKept
  <1>4. CASE SortItems
    <2>1. Receive("sort") /\ toClient' = toClient /\ Head(toServer).op = "sort"
      BY <1>4 DEF SortItems, Receive
    <2>2. PICK x \in Placing : /\ Apart(x) /\ Steps(items, Head(toServer), x)
                               /\ Planned(toServer', x, w)
      BY <1>2, <2>1
    <2>3. Head(toServer).slots = Slots(x) /\ \A i \in Item : x[i] # None <=> items[i] # None
      BY <2>1, <2>2 DEF Steps
    <2>4. SortsTo(x)
      BY <1>4, <2>3, SortOnce DEF SortItems
    <2>5. items' = x
      <3> DEFINE sent == {i \in Item : x[i] # None /\ items[i] # None}
      <3>1. PICK S \in SUBSET sent :
                 /\ \A i \in sent \ S : ~Fit(S \union {i}, x)
                 /\ items' = [i \in Item |-> IF i \in S THEN x[i] ELSE items[i]]
        BY <2>4 DEF SortsTo
      <3>2. ASSUME NEW R \in SUBSET sent
            PROVE  Fit(R, x)
        BY <2>2 DEF Fit, Apart
      <3>3. ASSUME NEW i \in sent \ S
            PROVE  FALSE
        <4>1. S \union {i} \in SUBSET sent
          OBVIOUS
        <4> QED
          BY <3>1, <3>2, <3>3, <4>1
      <3>4. \A i \in Item : items'[i] = x[i]
        BY <2>3, <3>1, <3>3
      <3> QED
        BY <2>2, <3>1, <3>4 DEF Placing
    <2>6. Laid'
      BY <1>0, <2>2, <2>3, <2>4, SortLaid
    <2> QED
      BY <1>0, <1>1, <2>1, <2>2, <2>5, <2>6, FollowedKept
  <1>5. CASE DropItem
    <2>1. Receive("drop") /\ toClient' = toClient /\ Head(toServer).op = "drop"
      BY <1>5 DEF DropItem, Receive
    <2>2. PICK x \in Placing : /\ Apart(x) /\ Steps(items, Head(toServer), x)
                               /\ Planned(toServer', x, w)
      BY <1>2, <2>1
    <2>3. PICK i : i = Head(toServer).uid
      OBVIOUS
    <2>4. items[i] # None /\ x = [items EXCEPT ![i] = None]
      BY <2>1, <2>2, <2>3 DEF Steps
    <2>5. i \in Item /\ RemoveItem(i)
      BY <1>0, <1>5, <2>1, <2>3, <2>4, ReceiveSent DEF DropItem, WellMeant
    <2>6. items' = x
      BY <2>4, <2>5 DEF RemoveItem
    <2>7. Laid'
      BY <1>0, <2>5, RemoveLaid
    <2> QED
      BY <1>0, <1>1, <2>1, <2>2, <2>6, <2>7, FollowedKept
  <1>6. CASE DropRefused
    BY <1>6 DEF DropRefused
  <1>7. CASE PickUpNothing
    <2>1. Receive("pickup") /\ toClient' = toClient /\ items' = items /\ Head(toServer).op = "pickup"
      BY <1>7 DEF PickUpNothing, Receive, serverVars
    <2>2. PICK x \in Placing : /\ Apart(x) /\ Steps(items, Head(toServer), x)
                               /\ Planned(toServer', x, w)
      BY <1>2, <2>1
    <2>3. x = items
      BY <2>1, <2>2 DEF Steps
    <2>4. Laid'
      BY <1>0, <1>7 DEF PickUpNothing, serverVars, Laid
    <2> QED
      BY <1>0, <1>1, <2>1, <2>2, <2>3, <2>4, FollowedKept
  <1>8. CASE PickUp
    <2>1. Receive("pickup") /\ Head(toServer).op = "pickup"
      BY <1>8 DEF PickUp, Receive
    <2>2. PICK x \in Placing : /\ Apart(x) /\ Steps(items, Head(toServer), x)
                               /\ Planned(toServer', x, w)
      BY <1>2, <2>1
    <2>3. x = items
      BY <2>1, <2>2 DEF Steps
    <2> DEFINE free == {c \in Cell : grid[c] = None}
    <2>4. PICK i \in ground : \E p \in FirstFit(i, free) :
                 PlaceItem(i, p) /\ toClient' = Append(toClient, GetItem(i, p))
      BY <1>8 DEF PickUp
    <2>5. PICK p \in FirstFit(i, free) :
                 PlaceItem(i, p) /\ toClient' = Append(toClient, GetItem(i, p))
      BY <2>4
    <2>6. p \in Place /\ p # None /\ Cells(i, p) \subseteq free
      BY FitIsFree
    <2>7. i \in Item /\ items[i] = None
      BY <1>0 DEF Shapes, Apiece
    <2>8. items' = [items EXCEPT ![i] = p]
      BY <2>5 DEF PlaceItem
    <2>9. \A j \in Item : items[j] # None => Cells(i, p) \intersect Cells(j, items[j]) = {}
      <3>1. \A j \in Item : j # None
        BY NoneAssumption
      <3> QED
        BY <1>0, <2>6, <3>1 DEF Laid
    <2>10. /\ Ordered(toServer') /\ Quiet(toServer')
      BY <1>0, <2>1, ReceiveOrdered DEF Kept
    <2> DEFINE y == [w EXCEPT ![i] = p]
    <2>11. w[i] = None /\ w \in Placing /\ Planned(toServer', items', y)
      <3>1. PICK q : q = toServer'
        OBVIOUS
      <3>2. Len(q) \in Nat /\ Quiet(q) /\ Planned(q, items, w)
        BY <1>0, <2>1, <2>2, <2>3, <2>10, <3>1, ReceiveMoves
      <3>3. Cells(i, p) \subseteq Cell
        BY <2>6
      <3>4. w[i] = None /\ w \in Placing /\ Planned(q, [items EXCEPT ![i] = p], y)
        BY <2>6, <2>7, <2>9, <3>2, <3>3, PlannedAdd
      <3> QED
        BY <2>8, <3>1, <3>4
    <2>12. y[i] = p /\ \A j \in Item \ {i} : y[j] = w[j]
      BY <2>7, <2>11 DEF Placing
    <2> HIDE DEF y, free
    <2>13. Want' = Want /\ Shown' = Shown /\ dirty' = dirty /\ held' = held
      BY <2>1 DEF Receive, clientVars, Want, Shown
    <2>14. dirty = {}
      <3>1. PickingUp
        BY <1>0, <2>1, ReceiveMoves DEF PickingUp
      <3> QED
        BY <1>0, <3>1 DEF Kept
    <2>15. PICK n \in Nat : n = Len(toClient)
      BY <1>0, LenProperties DEF Types
    <2>16. /\ Len(toClient') = n + 1 /\ toClient'[n + 1] = GetItem(i, p)
           /\ \A k \in 1 .. n : toClient'[k] = toClient[k] /\ toClient[k] \in [uid : Item, at : Place]
      <3>1. GetItem(i, p) \in [uid : Item, at : Place]
        BY <2>6, <2>7 DEF GetItem
      <3>2. toClient \in Seq([uid : Item, at : Place])
        BY <1>0 DEF Types
      <3>3. /\ Len(toClient') = n + 1 /\ toClient'[n + 1] = GetItem(i, p)
            /\ \A k \in 1 .. n : toClient'[k] = toClient[k]
        BY <2>5, <2>15, <3>1, <3>2, AppendProperties
      <3>4. \A k \in 1 .. n : toClient[k] \in [uid : Item, at : Place]
        BY <2>15, <3>2, LenProperties
      <3> QED
        BY <3>3, <3>4
    <2>17. GetItem(i, p).uid = i /\ GetItem(i, p).at = p
      BY DEF GetItem
    <2>18. \A k \in 1 .. n : toClient[k].uid # i
      <3> SUFFICES ASSUME NEW k \in 1 .. n, toClient[k].uid = i PROVE FALSE
        OBVIOUS
      <3>1. toClient[k].at \in Place /\ w[i] = toClient[k].at
        BY <1>1, <2>15, <2>16 DEF Ends
      <3> QED
        BY <2>11, <3>1, NoneAssumption
    <2>19. ~Telling(i) /\ i \notin Shown
      <3>1. ~Telling(i)
        BY <2>15, <2>18 DEF Telling
      <3>2. Want[i] = None
        BY <1>1, <2>7, <2>11, <2>14, <3>1 DEF Ends
      <3> QED
        BY <1>0, <2>7, <3>1, <3>2, WantShows
    <2>20. \A k \in 1 .. n + 1 : k = n + 1 \/ k \in 1 .. n
      BY <2>15
    <2>21. ASSUME NEW k \in 1 .. n + 1
           PROVE  toClient'[k].uid \notin Shown /\ y[toClient'[k].uid] = toClient'[k].at
      <3>1. CASE k = n + 1
        BY <2>12, <2>16, <2>17, <2>19, <3>1
      <3>2. CASE k \in 1 .. n
        <4>1. toClient[k].uid \in Item \ {i}
          BY <2>16, <2>18, <3>2
        <4>2. toClient[k].uid \notin Shown /\ w[toClient[k].uid] = toClient[k].at
          BY <1>1, <2>15, <3>2 DEF Ends
        <4> QED
          BY <2>12, <2>16, <3>2, <4>1, <4>2
      <3> QED
        BY <2>20, <3>1, <3>2
    <2>22. ASSUME NEW j \in Item, ~Telling(j)'
           PROVE  y[j] = Want[j]
      <3>1. j # i
        <4>1. n + 1 \in 1 .. Len(toClient')
          BY <2>15, <2>16
        <4> QED
          BY <2>16, <2>17, <2>22, <4>1 DEF Telling
      <3>2. ~Telling(j)
        <4>1. \A k \in 1 .. n : k \in 1 .. Len(toClient') /\ toClient'[k] = toClient[k]
          BY <2>15, <2>16
        <4> QED
          BY <2>15, <2>22, <4>1 DEF Telling
      <3>3. w[j] = Want[j]
        BY <1>1, <2>14, <3>2 DEF Ends
      <3> QED
        BY <2>12, <3>1, <3>3
    <2>23. Ends(y)'
      BY <2>13, <2>14, <2>16, <2>21, <2>22 DEF Ends
    <2>24. \A k, l \in 1 .. Len(toClient') : toClient'[k].uid = toClient'[l].uid => k = l
      <3> SUFFICES ASSUME NEW k \in 1 .. n + 1, NEW l \in 1 .. n + 1,
                          toClient'[k].uid = toClient'[l].uid
                   PROVE  k = l
        BY <2>16
      <3>1. CASE k \in 1 .. n /\ l \in 1 .. n
        BY <1>0, <2>15, <2>16, <3>1 DEF Kept
      <3>2. CASE k = n + 1 \/ l = n + 1
        BY <2>16, <2>17, <2>18, <2>20, <3>2
      <3> QED
        BY <2>20, <3>1, <3>2
    <2>25. Kept'
      BY <1>0, <2>10, <2>11, <2>13, <2>14, <2>23, <2>24 DEF Kept
    <2>26. CanPlace(i, p)
      BY <2>6 DEF CanPlace, free
    <2>27. Laid'
      BY <1>0, <2>5, <2>6, <2>7, <2>26, PlaceLaid
    <2> QED
      BY <2>25, <2>27
  <1> QED
    BY <1>3, <1>4, <1>5, <1>6, <1>7, <1>8 DEF Server
\* A command put behind the others keeps their order, if no move goes behind a
\* pick-up.
LEMMA OrderedAppend ==
    ASSUME NEW S, NEW q \in Seq(S), NEW c, Ordered(q),
           Moves(c) => \A k \in 1 .. Len(q) : q[k].op # "pickup"
    PROVE  Ordered(Append(q, c)) /\ (Quiet(q) /\ ~Moves(c) => Quiet(Append(q, c)))
  <1>1. PICK n \in Nat : n = Len(q)
    BY LenProperties
  <1>2. PICK r : r = Append(q, c)
    OBVIOUS
  <1>3. Len(r) = n + 1 /\ r[n + 1] = c /\ \A k \in 1 .. n : r[k] = q[k]
    <2>1. q \in Seq(S \union {c})
      BY SeqMonotonic
    <2> QED
      BY <1>1, <1>2, <2>1, AppendProperties
  <1>4. \A k \in 1 .. n + 1 : k = n + 1 \/ (k \in 1 .. n /\ k < n + 1)
    BY <1>1
  <1>5. ~(Moves(c) /\ c.op = "pickup")
    BY DEF Moves
  <1>6. Ordered(r)
    <2> SUFFICES ASSUME NEW k \in 1 .. n + 1, NEW l \in 1 .. n + 1, Moves(r[k]), r[l].op = "pickup"
                 PROVE  k < l
      BY <1>3 DEF Ordered
    <2>1. CASE k \in 1 .. n /\ l \in 1 .. n
      BY <1>1, <1>3, <2>1 DEF Ordered
    <2>2. CASE k \in 1 .. n /\ l = n + 1
      BY <1>4, <2>2
    <2>3. CASE k = n + 1 /\ l \in 1 .. n
      BY <1>1, <1>3, <2>3
    <2>4. CASE k = n + 1 /\ l = n + 1
      BY <1>3, <1>5, <2>4
    <2> QED
      BY <1>4, <2>1, <2>2, <2>3, <2>4
  <1>7. Quiet(q) /\ ~Moves(c) => Quiet(r)
    BY <1>1, <1>3, <1>4 DEF Quiet
  <1> QED
    BY <1>2, <1>6, <1>7

\* What only turns the item in hand, grabs one or puts it back keeps what is
\* shown.
LEMMA HandKept ==
    ASSUME Kept, items' = items, toServer' = toServer, toClient' = toClient,
           dirty' = dirty, Want' = Want, Shown' = Shown, held' # None => held'.uid \in Shown
    PROVE  Kept'
  BY DEF Kept, Ends, Telling, PickingUp

\* One item changed, with all others sent and no pick-up under way, is kept.
LEMMA ChangeKept ==
    ASSUME Kept, Types, Types', items' = items, toServer' = toServer, toClient' = toClient,
           NEW i \in Shown, NEW p \in Place, CanShow(i, p), shown' = [shown EXCEPT ![i] = p],
           held' = None, held = None \/ held.uid = i,
           dirty' = dirty \union {i}, dirty \intersect Shown \subseteq {i}, ~PickingUp
    PROVE  Kept'
  <1>1. i \in Item /\ p # None
    BY NoneAssumption DEF Shown
  <1>2. Shown' = Shown
    BY <1>1 DEF Types, Placing, Shown
  <1>3. Want'[i] = p /\ \A j \in Item \ {i} : Want'[j] = Want[j] /\ Want[j] = shown[j]
    <2>1. \A j \in Item \ {i} : Want[j] = shown[j]
      BY WantShows
    <2>2. \A j \in Item : Want'[j] = shown'[j]
      BY DEF Want
    <2> QED
      BY <1>1, <2>1, <2>2 DEF Types, Placing
  <1>4. \A j \in Item : Want[j] # None <=> j \in Shown
    BY WantShows
  <1>5. Apart(Want')
    <2>1. Apart(Want)
      BY DEF Kept
    <2>2. \A j \in Item : Want'[j] # None => Cells(j, Want'[j]) \subseteq Cell
      BY <1>3, <2>1 DEF Apart, CanShow
    <2>3. \A j \in Item \ {i} : Want'[j] # None => Cells(i, p) \intersect Cells(j, Want'[j]) = {}
      BY <1>3, <1>4 DEF CanShow
    <2>4. \A j, l \in Item \ {i} : Want'[j] # None /\ Want'[l] # None /\ j # l =>
            Cells(j, Want'[j]) \intersect Cells(l, Want'[l]) = {}
      BY <1>3, <2>1 DEF Apart
    <2> QED
      BY <1>3, <2>2, <2>3, <2>4 DEF Apart
  <1>6. toClient = <<>>
    BY DEF PickingUp
  <1>7. \A j \in Item : ~Telling(j) /\ ~Telling(j)'
    BY <1>6 DEF Telling
  <1>8. PICK w : Planned(toServer, items, w) /\ Ends(w)
    BY DEF Kept
  <1>9. Ends(w)'
    <2>1. w[i] # None
      BY <1>1, <1>4, <1>7, <1>8 DEF Ends
    <2>2. \A j \in Item : j \notin dirty' => w[j] = Want'[j]
      BY <1>3, <1>7, <1>8 DEF Ends
    <2>3. \A j \in Item : j \in dirty' => (w[j] # None <=> j \in Shown')
      BY <1>2, <1>8, <2>1 DEF Ends
    <2> QED
      BY <1>6, <2>2, <2>3 DEF Ends
  <1>10. ~PickingUp'
    BY DEF PickingUp
  <1>11. \A j, l \in dirty' \intersect Shown' : j = l
    BY <1>2
  <1> QED
    BY <1>5, <1>6, <1>8, <1>9, <1>10, <1>11 DEF Kept

\* What has changed may be sent: it is one item, or none.
LEMMA SyncPlanned ==
    ASSUME Kept, Types, Sent, NEW cmds \in Changes, Synced
    PROVE  \E w, S : /\ toServer \o cmds \in Seq(S)
                     /\ w \in Placing /\ Apart(w) /\ Planned(toServer \o cmds, items, w)
                     /\ \A k \in 1 .. Len(toClient) : w[toClient[k].uid] = toClient[k].at
                     /\ \A i \in Item : ~Telling(i) => w[i] = Want[i]
                     /\ Ordered(toServer \o cmds)
                     /\ toClient # <<>> => Quiet(toServer \o cmds)
  <1>1. PICK w : Planned(toServer, items, w) /\ Ends(w)
    BY DEF Kept
  <1>2. PICK S : toServer \in Seq(S)
    BY DEF Sent
  <1>3. w \in Placing /\ Apart(w)
    <2>1. PICK V : Plan(toServer, V) /\ V[Len(toServer)] = w
      BY <1>1 DEF Planned
    <2>2. Len(toServer) \in 0 .. Len(toServer)
      BY <1>2, LenProperties
    <2> QED
      BY <2>1, <2>2 DEF Plan
  <1> DEFINE D == dirty \intersect Shown
  <1>4. PICK s \in Ascending(D) : cmds = [k \in DOMAIN s |-> MoveCmd(s[k], shown[s[k]])]
    BY DEF Changes
  <1>5. s \in [1 .. Cardinality(D) -> D]
    BY <1>4 DEF Ascending
  <1>6. CASE D = {}
    <2>1. cmds = <<>>
      <3>1. Cardinality(D) = 0
        BY <1>6, FS_EmptySet
      <3>2. cmds \in [1 .. 0 -> {}]
        BY <1>4, <1>5, <1>6, <3>1
      <3>3. cmds \in Seq({})
        BY <3>2, SeqDef
      <3> QED
        BY <3>3, EmptySeq, LenProperties
    <2>2. toServer \o cmds = toServer
      BY <1>2, <2>1, ConcatEmptySeq
    <2>3. \A i \in Item : ~Telling(i) => w[i] = Want[i]
      BY <1>1, <1>6, WantShows DEF Ends
    <2> QED
      BY <1>1, <1>2, <1>3, <2>2, <2>3 DEF Ends, Kept
  <1>7. CASE D # {}
    <2>1. PICK i : D = {i}
      <3>1. PICK i : i \in D
        BY <1>7
      <3> QED
        BY <3>1 DEF Kept
    <2>2. i \in Item /\ i \in Shown /\ i \in dirty /\ shown[i] \in Place
      BY <2>1 DEF Shown, Types, Placing
    <2>3. PICK c : c = MoveCmd(i, shown[i])
      OBVIOUS
    <2>4. cmds = <<c>>
      <3>1. Cardinality(D) = 1
        BY <2>1, FS_Singleton
      <3>2. s \in [1 .. 1 -> {i}]
        BY <1>5, <2>1, <3>1
      <3> HIDE DEF D
      <3>3. \A k \in 1 .. 1 : s[k] = i
        BY <3>2
      <3>4. cmds = [k \in 1 .. 1 |-> c]
        BY <1>4, <2>3, <3>2, <3>3
      <3> QED
        BY <3>4
    <2>5. toServer \o cmds = Append(toServer, c)
      BY <1>2, <2>4, AppendIsConcat, SeqMonotonic
    <2>6. ~PickingUp
      BY <2>2 DEF Kept
    <2>7. toClient = <<>> /\ \A k \in 1 .. Len(toServer) : toServer[k].op # "pickup"
      BY <2>6 DEF PickingUp
    <2>8. Want[i] = shown[i]
      <3>1. ~Turned(i)
        BY <2>2 DEF Synced
      <3>2. CASE held # None /\ held.uid = i
        <4>1. shown[i].rot = held.rot
          BY <2>2, <3>1, <3>2 DEF Turned, Shown
        <4>2. Want[i] = [shown[i] EXCEPT !.rot = held.rot]
          BY <2>2, <3>2, WantShows
        <4> QED
          BY <2>2, <4>1, <4>2 DEF Place
      <3> QED
        BY <2>2, <3>2, WantShows
    <2>9. Want = [w EXCEPT ![i] = shown[i]]
      <3>1. \A j \in Item : ~Telling(j)
        BY <2>7 DEF Telling
      <3>2. \A j \in Item \ {i} : Want[j] = w[j]
        BY <1>1, <2>1, <3>1, WantShows DEF Ends
      <3> QED
        BY <1>3, <2>2, <2>8, <3>2, WantShows DEF Placing
    <2>10. c.op = "move" /\ c.uid = i /\ c.at = shown[i]
      BY <2>3 DEF MoveCmd
    <2>11. w[i] # None
      BY <1>1, <2>2 DEF Ends
    <2>12. Steps(w, c, Want)
      BY <2>2, <2>9, <2>10, <2>11 DEF Steps
    <2>13. Want \in Placing /\ Apart(Want)
      BY WantShows DEF Kept
    <2>14. Planned(Append(toServer, c), items, Want)
      BY <1>1, <1>2, <2>12, <2>13, PlannedAppend
    <2>15. Ordered(Append(toServer, c))
      BY <1>2, <2>7, OrderedAppend DEF Kept
    <2>16. Append(toServer, c) \in Seq(S \union {c})
      BY <1>2, SeqMonotonic, AppendProperties
    <2>17. \A k \in 1 .. Len(toClient) : Want[toClient[k].uid] = toClient[k].at
      BY <2>7
    <2> QED
      BY <2>5, <2>7, <2>13, <2>14, <2>15, <2>16, <2>17
  <1> QED
    BY <1>6, <1>7
\* Sending what has changed keeps what is shown.
LEMMA SyncKept ==
    ASSUME Kept, Types, Sent, NEW cmds \in Changes, Synced, Send(cmds), items' = items,
           toClient' = toClient, shown' = shown, held' = held, dirty' = {}
    PROVE  Kept'
  <1>1. PICK w, S : /\ toServer \o cmds \in Seq(S)
                    /\ w \in Placing /\ Apart(w) /\ Planned(toServer \o cmds, items, w)
                    /\ \A k \in 1 .. Len(toClient) : w[toClient[k].uid] = toClient[k].at
                    /\ \A i \in Item : ~Telling(i) => w[i] = Want[i]
                    /\ Ordered(toServer \o cmds)
                    /\ toClient # <<>> => Quiet(toServer \o cmds)
    BY SyncPlanned
  <1>2. toServer' = toServer \o cmds
    BY DEF Send
  <1>3. Want' = Want /\ Shown' = Shown
    BY DEF Want, Shown
  <1>4. Ends(w)'
    BY <1>1, <1>3 DEF Kept, Ends, Telling
  <1> QED
    BY <1>1, <1>2, <1>3, <1>4 DEF Kept

\* So does asking for a pick-up behind it.
LEMMA AskKept ==
    ASSUME Kept, Types, Sent, NEW cmds \in Changes, Synced, Send(Append(cmds, PickUpCmd)),
           items' = items, toClient' = toClient, shown' = shown, held' = held, dirty' = {}
    PROVE  Kept'
  <1>1. PICK w, S : /\ toServer \o cmds \in Seq(S)
                    /\ w \in Placing /\ Apart(w) /\ Planned(toServer \o cmds, items, w)
                    /\ \A k \in 1 .. Len(toClient) : w[toClient[k].uid] = toClient[k].at
                    /\ \A i \in Item : ~Telling(i) => w[i] = Want[i]
                    /\ Ordered(toServer \o cmds)
                    /\ toClient # <<>> => Quiet(toServer \o cmds)
    BY SyncPlanned
  <1>2. PICK q, c : q = toServer \o cmds /\ c = PickUpCmd
    OBVIOUS
  <1>3. toServer' = Append(q, c)
    <2>1. PICK R, T : toServer \in Seq(R) /\ cmds \in Seq(T)
      BY ChangesWellMeant DEF Sent
    <2> DEFINE U == R \union T \union {c}
    <2>2. toServer \in Seq(U) /\ cmds \in Seq(U) /\ <<c>> \in Seq(U) /\ c \in U
      BY <2>1, SeqMonotonic
    <2>3. toServer \o cmds \in Seq(U)
      BY <2>2, ConcatProperties
    <2> HIDE DEF U
    <2>4. Append(cmds, c) = cmds \o <<c>> /\ Append(q, c) = q \o <<c>>
      BY <1>2, <2>2, <2>3, AppendIsConcat
    <2>5. toServer \o (cmds \o <<c>>) = (toServer \o cmds) \o <<c>>
      BY <2>2, ConcatAssociative
    <2> QED
      BY <1>2, <2>4, <2>5 DEF Send
  <1>4. c.op = "pickup" /\ ~Moves(c)
    BY <1>2 DEF PickUpCmd, Moves
  <1>5. Want' = Want /\ Shown' = Shown
    BY DEF Want, Shown
  <1>6. Ends(w)'
    BY <1>1, <1>5 DEF Kept, Ends, Telling
  <1>7. Planned(Append(q, c), items, w)
    <2>1. Steps(w, c, w)
      BY <1>4 DEF Steps
    <2> QED
      BY <1>1, <1>2, <2>1, PlannedAppend
  <1>8. Ordered(Append(q, c)) /\ (Quiet(q) => Quiet(Append(q, c)))
    BY <1>1, <1>2, <1>4, OrderedAppend
  <1> QED
    BY <1>1, <1>2, <1>3, <1>5, <1>6, <1>7, <1>8 DEF Kept

\* Throwing out an item keeps what is shown of the others.
LEMMA ThrowKept ==
    ASSUME Kept, Types, Types', Sent, NEW i \in Shown, held # None, held.uid = i,
           Send(<<DropCmd(i)>>), items' = items, toClient' = toClient,
           shown' = [shown EXCEPT ![i] = None], held' = None, dirty' = dirty
    PROVE  Kept'
  <1>0. i \in Item
    BY DEF Shown
  <1>1. PICK w : Planned(toServer, items, w) /\ Ends(w)
    BY DEF Kept
  <1>2. PICK S : toServer \in Seq(S)
    BY DEF Sent
  <1>3. w \in Placing /\ Apart(w)
    <2>1. PICK V : Plan(toServer, V) /\ V[Len(toServer)] = w
      BY <1>1 DEF Planned
    <2>2. Len(toServer) \in 0 .. Len(toServer)
      BY <1>2, LenProperties
    <2> QED
      BY <2>1, <2>2 DEF Plan
  <1>4. PICK c : c = DropCmd(i)
    OBVIOUS
  <1>5. c.op = "drop" /\ c.uid = i /\ ~Moves(c) /\ c.op # "pickup"
    BY <1>4 DEF DropCmd, Moves
  <1>6. toServer' = Append(toServer, c)
    BY <1>2, <1>4, AppendIsConcat, SeqMonotonic DEF Send
  <1>7. PICK x : x = [w EXCEPT ![i] = None]
    OBVIOUS
  <1>8. x[i] = None /\ x \in Placing /\ \A j \in Item \ {i} : x[j] = w[j]
    BY <1>0, <1>3, <1>7 DEF Placing
  <1>9. Shown' = Shown \ {i}
    BY <1>0 DEF Types, Placing, Shown
  <1>10. Want'[i] = None /\ \A j \in Item \ {i} : Want'[j] = Want[j]
    <2>1. \A j \in Item \ {i} : Want[j] = shown[j]
      BY WantShows
    <2>2. \A j \in Item : Want'[j] = shown'[j]
      BY DEF Want
    <2> QED
      BY <1>0, <2>1, <2>2 DEF Types, Placing
  <1>11. \A k \in 1 .. Len(toClient) : toClient[k].uid \in Item \ {i}
    <2>1. \A k \in 1 .. Len(toClient) : toClient[k] \in [uid : Item, at : Place]
      BY LenProperties DEF Types
    <2> QED
      BY <1>1, <2>1 DEF Ends
  <1>12. w[i] # None
    <2>1. ~Telling(i)
      BY <1>11 DEF Telling
    <2> QED
      BY <1>0, <1>1, <2>1, WantShows DEF Ends
  <1>13. Apart(x) /\ Steps(w, c, x)
    BY <1>0, <1>3, <1>5, <1>7, <1>8, <1>12 DEF Apart, Steps
  <1>14. Planned(Append(toServer, c), items, x)
    BY <1>1, <1>2, <1>8, <1>13, PlannedAppend
  <1>15. Ordered(Append(toServer, c)) /\ (Quiet(toServer) => Quiet(Append(toServer, c)))
    BY <1>2, <1>5, OrderedAppend DEF Kept
  <1>16. Apart(Want')
    <2>1. \A j \in Item : Want'[j] # None => j # i /\ Want'[j] = Want[j]
      BY <1>10
    <2> QED
      BY <2>1 DEF Kept, Apart
  <1>17. Ends(x)'
    <2>1. \A j \in Item : Telling(j)' <=> Telling(j)
      BY DEF Telling
    <2>2. \A k \in 1 .. Len(toClient') :
            toClient'[k].uid \notin Shown' /\ x[toClient'[k].uid] = toClient'[k].at
      BY <1>1, <1>8, <1>9, <1>11 DEF Ends
    <2>3. \A j \in Item : ~Telling(j) /\ j \notin dirty => x[j] = Want'[j]
      BY <1>1, <1>8, <1>10 DEF Ends
    <2>4. \A j \in Item : j \in dirty => (x[j] # None <=> j \in Shown')
      BY <1>1, <1>8, <1>9 DEF Ends
    <2> QED
      BY <2>1, <2>2, <2>3, <2>4 DEF Ends
  <1>18. PickingUp' => PickingUp
    <2>1. /\ Len(toServer) \in Nat /\ Len(Append(toServer, c)) = Len(toServer) + 1
          /\ Append(toServer, c)[Len(toServer) + 1] = c
          /\ \A k \in 1 .. Len(toServer) : Append(toServer, c)[k] = toServer[k]
      <3>1. toServer \in Seq(S \union {c})
        BY <1>2, SeqMonotonic
      <3> QED
        BY <3>1, AppendProperties, LenProperties
    <2>2. \A k \in 1 .. Len(toServer) + 1 : k = Len(toServer) + 1 \/ k \in 1 .. Len(toServer)
      BY <2>1
    <2> QED
      BY <1>5, <1>6, <2>1, <2>2 DEF PickingUp
  <1> QED
    BY <1>6, <1>9, <1>14, <1>15, <1>16, <1>17, <1>18 DEF Kept

\* So does sorting, with the hand empty, room for all and no pick-up under way.
LEMMA AskSortKept ==
    ASSUME Kept, Types, Types', Sent, NEW s \in Orders, NEW r, r = Sorted(s),
           r.put = Shown, held = None, ~PickingUp, Send(<<SortCmd(r.at)>>),
           items' = items, toClient' = toClient, shown' = r.at, held' = None, dirty' = {}
    PROVE  Kept'
  <1>1. PICK w : Planned(toServer, items, w) /\ Ends(w)
    BY DEF Kept
  <1>2. PICK S : toServer \in Seq(S)
    BY DEF Sent
  <1>3. SoFar(r, s, Len(s))
    BY SortedSoFar
  <1>4. PICK at : at = r.at
    OBVIOUS
  <1>5. at \in Placing /\ Apart(at) /\ \A i \in Item : i \in Shown <=> at[i] # None
    <2>1. \A i \in Item : i \in Shown <=> at[i] # None
      BY <1>3, <1>4 DEF SoFar
    <2>2. Apart(at)
      BY <1>3, <1>4, <2>1 DEF SoFar, Apart, Fit
    <2> QED
      BY <1>3, <1>4, <2>1, <2>2 DEF SoFar
  <1>6. PICK c : c = SortCmd(at)
    OBVIOUS
  <1>7. c.op = "sort" /\ c.slots = Slots(at)
    BY <1>6 DEF SortCmd
  <1>8. toServer' = Append(toServer, c)
    BY <1>2, <1>4, <1>6, AppendIsConcat, SeqMonotonic DEF Send
  <1>9. toClient = <<>> /\ \A k \in 1 .. Len(toServer) : toServer[k].op # "pickup"
    BY DEF PickingUp
  <1>10. \A i \in Item : ~Telling(i) /\ ~Telling(i)'
    BY <1>9 DEF Telling
  <1>11. Want' = at
    <2>1. Want' \in Placing /\ \A i \in Item : Want'[i] = at[i]
      <3>1. \A i \in Item : Want'[i] = at[i]
        BY <1>4 DEF Want
      <3>2. Want' = [i \in Item |-> Want'[i]]
        BY DEF Want
      <3> QED
        BY <1>5, <3>1, <3>2 DEF Placing
    <2> QED
      BY <1>5, <2>1 DEF Placing
  <1>12. \A i \in Item : at[i] # None <=> w[i] # None
    BY <1>1, <1>5, <1>10, WantShows DEF Ends
  <1>13. Planned(Append(toServer, c), items, at)
    <2>1. Steps(w, c, at)
      BY <1>7, <1>12 DEF Steps
    <2> QED
      BY <1>1, <1>2, <1>5, <2>1, PlannedAppend
  <1>14. Ordered(Append(toServer, c))
    BY <1>2, <1>9, OrderedAppend DEF Kept
  <1>15. Ends(at)'
    BY <1>9, <1>11 DEF Ends
  <1> QED
    BY <1>5, <1>8, <1>9, <1>11, <1>13, <1>14, <1>15 DEF Kept

\* An item told of comes where the server has put it.
LEMMA AddKept ==
    ASSUME Kept, Types, Types', Sent, AddItem
    PROVE  Kept'
  <1>1. PICK w : Planned(toServer, items, w) /\ Ends(w)
    BY DEF Kept
  <1>2. w \in Placing /\ Apart(w)
    <2>1. PICK V : Plan(toServer, V) /\ V[Len(toServer)] = w
      BY <1>1 DEF Planned
    <2>2. Len(toServer) \in 0 .. Len(toServer)
      BY LenProperties DEF Sent
    <2> QED
      BY <2>1, <2>2 DEF Plan
  <1>3. PICK n \in Nat : n = Len(toClient)
    BY LenProperties DEF Types
  <1>4. PICK m : m = Head(toClient)
    OBVIOUS
  <1>5. /\ toClient # <<>> /\ n >= 1 /\ toClient[1] = m /\ m.uid \in Item /\ m.at \in Place
        /\ Len(toClient') = n - 1
        /\ \A k \in 1 .. n - 1 : toClient'[k] = toClient[k + 1]
    <2> DEFINE M == [uid : Item, at : Place]
    <2>1. toClient \in Seq(M) /\ toClient # <<>> /\ toClient' = Tail(toClient)
      BY DEF Types, AddItem
    <2>2. \A e \in M : e.uid \in Item /\ e.at \in Place
      OBVIOUS
    <2> HIDE DEF M
    <2>3. m \in M /\ toClient[1] = m /\ n >= 1
      BY <1>3, <1>4, <2>1, HeadTailProperties, EmptySeq
    <2>4. Len(toClient') = n - 1 /\ \A k \in 1 .. n - 1 : toClient'[k] = toClient[k + 1]
      BY <1>3, <2>1, HeadTailProperties
    <2> QED
      BY <2>1, <2>2, <2>3, <2>4
  <1>6. /\ m.uid \notin Shown /\ w[m.uid] = m.at
        /\ dirty = {} /\ Quiet(toServer)
    <2>1. 1 \in 1 .. Len(toClient)
      BY <1>3, <1>5
    <2> QED
      BY <1>1, <1>5, <2>1 DEF Ends, Kept, PickingUp
  <1>7. /\ shown' = [shown EXCEPT ![m.uid] = m.at] /\ held' = held /\ dirty' = dirty
        /\ items' = items /\ toServer' = toServer
    BY <1>4, <1>6 DEF AddItem, serverVars
  <1>8. shown'[m.uid] = m.at /\ \A j \in Item \ {m.uid} : shown'[j] = shown[j]
    BY <1>5, <1>7 DEF Types, Placing
  <1>9. Shown' = Shown \union {m.uid}
    BY <1>5, <1>8, NoneAssumption DEF Shown
  <1>10. Want'[m.uid] = m.at /\ \A j \in Item \ {m.uid} : Want'[j] = Want[j]
    <2>1. held # None => held.uid # m.uid
      BY <1>6 DEF Kept
    <2> QED
      BY <1>5, <1>7, <1>8, <2>1 DEF Want
  <1>11. \A k \in 1 .. n - 1 : k + 1 \in 1 .. n /\ k + 1 # 1
    BY <1>3
  <1>12. \A k \in 1 .. n - 1 : toClient'[k].uid # m.uid
    <2>1. 1 \in 1 .. n
      BY <1>3, <1>5
    <2> QED
      BY <1>3, <1>5, <1>11, <2>1 DEF Kept
  <1>13. \A j \in Item \ {m.uid} : Telling(j) => Telling(j)'
    <2> SUFFICES ASSUME NEW j \in Item \ {m.uid}, NEW k \in 1 .. n, toClient[k].uid = j
                 PROVE  Telling(j)'
      BY <1>3 DEF Telling
    <2>1. k - 1 \in 1 .. n - 1 /\ (k - 1) + 1 = k
      BY <1>3, <1>5
    <2>2. toClient'[k - 1] = toClient[k]
      BY <1>5, <2>1
    <2> QED
      BY <1>5, <2>1, <2>2 DEF Telling
  <1>14. Ends(w)'
    <2>1. ASSUME NEW k \in 1 .. n - 1
          PROVE  toClient'[k].uid \notin Shown' /\ w[toClient'[k].uid] = toClient'[k].at
      BY <1>1, <1>3, <1>5, <1>9, <1>11, <1>12 DEF Ends
    <2>2. \A j \in Item : ~Telling(j)' => w[j] = Want'[j]
      BY <1>1, <1>6, <1>10, <1>13 DEF Ends
    <2> QED
      BY <1>5, <1>6, <1>7, <2>1, <2>2 DEF Ends
  <1>15. Apart(Want')
    <2>1. ASSUME NEW j \in Item, Want'[j] # None
          PROVE  Want'[j] = w[j]
      <3>1. CASE j = m.uid
        BY <1>6, <1>10, <3>1
      <3>2. CASE j # m.uid
        <4>1. j \in Shown
          BY <1>10, <2>1, <3>2, WantShows
        <4>2. ~Telling(j)
          BY <1>1, <4>1 DEF Telling, Ends
        <4> QED
          BY <1>1, <1>6, <1>10, <3>2, <4>2 DEF Ends
      <3> QED
        BY <3>1, <3>2
    <2> QED
      BY <1>2, <2>1 DEF Apart
  <1>16. \A k, l \in 1 .. n - 1 : toClient'[k].uid = toClient'[l].uid => k = l
    <2> SUFFICES ASSUME NEW k \in 1 .. n - 1, NEW l \in 1 .. n - 1,
                        toClient'[k].uid = toClient'[l].uid
                 PROVE  k = l
      OBVIOUS
    <2>1. k + 1 = l + 1
      BY <1>3, <1>5, <1>11 DEF Kept
    <2> QED
      BY <1>3, <2>1
  <1> QED
    BY <1>1, <1>5, <1>6, <1>7, <1>9, <1>14, <1>15, <1>16 DEF Kept
\* What the client does while all is calm keeps what is shown.
LEMMA ClientKept ==
    ASSUME IInv, Types, Types', Laid, Kept, calm, calm', Client
    PROVE  Laid' /\ Kept'
  <1>0. Sent /\ Types
    BY DEF IInv
  <1>1. UNCHANGED serverVars
    BY DEF Client, Mouse, Grab, Turn, TurnHeld, PutDown, PutBack, ThrowOut, Toggle,
           UpdateSync, AskPickUp, AskSort, AddItem
  <1>2. items' = items /\ Laid'
    BY <1>1 DEF serverVars, Laid
  <1> SUFFICES Kept'
    BY <1>2
  <1>3. \A i \in Shown : i \in Item /\ shown[i] \in Place /\ shown[i] # None
    BY <1>0 DEF Types, Placing, Shown
  <1>4. ASSUME NEW i \in Item, Grab(i) PROVE Kept'
    <2>1. /\ i \in Shown /\ held' = [uid |-> i, rot |-> shown[i].rot] /\ shown' = shown
          /\ toServer' = toServer /\ toClient' = toClient /\ dirty' = dirty
      BY <1>4 DEF Grab
    <2>2. \A j \in Item : ~Turned(j)
      BY <1>4 DEF Grab, Expect
    <2>3. Shown' = Shown
      BY <2>1 DEF Shown
    <2>4. ASSUME NEW j \in Item PROVE Want[j] = shown[j]
      <3>1. CASE held # None /\ held.uid = j /\ j \in Shown
        <4>1. shown[j].rot = held.rot
          BY <2>2, <3>1 DEF Turned, Shown
        <4>2. Want[j] = [shown[j] EXCEPT !.rot = held.rot]
          BY <1>0, <3>1, WantShows
        <4> QED
          BY <1>3, <3>1, <4>1, <4>2 DEF Place
      <3>2. CASE j \notin Shown
        BY <3>2 DEF Want, Shown
      <3>3. CASE ~(held # None /\ held.uid = j)
        BY <1>0, <3>3, WantShows
      <3> QED
        BY <3>1, <3>2, <3>3
    <2>5. ASSUME NEW j \in Item PROVE Want'[j] = shown[j]
      <3>1. CASE j # i
        BY <2>1, <3>1 DEF Want
      <3>2. CASE j = i
        <4>1. Want'[j] \in {shown[i], [shown[i] EXCEPT !.rot = shown[i].rot]}
          BY <2>1, <3>2 DEF Want
        <4> QED
          BY <1>3, <2>1, <3>2, <4>1 DEF Place
      <3> QED
        BY <3>1, <3>2
    <2>6. Want' = Want
      <3>1. Want' = [j \in Item |-> Want'[j]] /\ Want = [j \in Item |-> Want[j]]
        BY DEF Want
      <3>2. \A j \in Item : Want'[j] = Want[j]
        BY <2>4, <2>5
      <3> QED
        BY <3>1, <3>2
    <2> QED
      BY <1>2, <2>1, <2>3, <2>6, HandKept
  <1>5. ASSUME NEW i \in Item, Turn(i) PROVE Kept'
    <2>1. i \in Shown /\ held = None /\ held' = None /\ toServer' = toServer /\ toClient' = toClient
      BY <1>5 DEF Turn
    <2>2. PICK p : p = [shown[i] EXCEPT !.rot = ~@]
      OBVIOUS
    <2>3. p \in Place
      BY <1>3, <2>1, <2>2 DEF Place
    <2>4. CanShow(i, p) /\ Change(i, p)
      BY <1>5, <2>2 DEF Turn
    <2> QED
      BY <1>0, <1>2, <2>1, <2>3, <2>4, ChangeKept DEF Change, Expect
  <1>6. CASE TurnHeld
    <2>1. PICK i : i = held.uid
      OBVIOUS
    <2>2. /\ i \in Shown /\ held # None /\ held' = held /\ dirty' = dirty
          /\ toServer' = toServer /\ toClient' = toClient
      BY <1>6, <2>1 DEF TurnHeld
    <2>3. PICK p : p = [shown[i] EXCEPT !.rot = ~@]
      OBVIOUS
    <2>4. i \in Item /\ p \in Place /\ p # None
      BY <1>3, <2>2, <2>3, NoneAssumption DEF Place
    <2>5. shown' = [shown EXCEPT ![i] = p]
      BY <1>6, <2>1, <2>3 DEF TurnHeld
    <2>6. shown'[i] = p /\ \A j \in Item \ {i} : shown'[j] = shown[j]
      BY <1>0, <2>4, <2>5 DEF Types, Placing
    <2>7. Shown' = Shown
      BY <2>2, <2>4, <2>6 DEF Shown
    <2>8. [p EXCEPT !.rot = held.rot] = [shown[i] EXCEPT !.rot = held.rot]
      BY <1>3, <2>2, <2>3 DEF Place
    <2>9. \A j \in Item : Want'[j] = Want[j]
      <3>1. \A j \in Item \ {i} : Want'[j] = Want[j]
        BY <2>1, <2>2, <2>6 DEF Want
      <3>2. Want'[i] = [p EXCEPT !.rot = held.rot]
        BY <2>1, <2>2, <2>4, <2>6 DEF Want
      <3>3. Want[i] = [shown[i] EXCEPT !.rot = held.rot]
        BY <1>0, <2>1, <2>2, <2>4, WantShows
      <3> QED
        BY <2>8, <3>1, <3>2, <3>3
    <2>10. Want' = Want
      <3>1. Want' = [j \in Item |-> Want'[j]] /\ Want = [j \in Item |-> Want[j]]
        BY DEF Want
      <3> QED
        BY <2>9, <3>1
    <2> QED
      BY <1>2, <2>1, <2>2, <2>7, <2>10, HandKept
  <1>7. CASE PutDown
    <2>1. PICK i : i = held.uid
      OBVIOUS
    <2>2. i \in Shown /\ held' = None /\ toServer' = toServer /\ toClient' = toClient
      BY <1>7, <2>1 DEF PutDown, LetGo
    <2>3. PICK p \in Place : CanShow(i, p) /\ Change(i, p)
      BY <1>0, <1>7, <2>1, <2>2, PutAtPlace
    <2> QED
      BY <1>0, <1>2, <2>1, <2>2, <2>3, ChangeKept DEF Change, Expect
  <1>8. CASE PutBack
    <2>1. PICK i : i = held.uid
      OBVIOUS
    <2>2. /\ toServer' = toServer /\ toClient' = toClient /\ dirty' = dirty
          /\ held # None /\ held' = None /\ i \in Shown
      BY <1>8, <2>1 DEF PutBack, LetGo, Kept
    <2>3. shown' = [shown EXCEPT ![i] = [shown[i] EXCEPT !.rot = held.rot]]
      BY <1>8, <2>1, <2>2 DEF PutBack
    <2>4. Want[i] = [shown[i] EXCEPT !.rot = held.rot] /\ Want[i] # None
      BY <1>0, <1>3, <2>1, <2>2, WantShows
    <2>5. shown'[i] = Want[i] /\ \A j \in Item \ {i} : shown'[j] = shown[j] /\ Want[j] = shown[j]
      BY <1>0, <1>3, <2>1, <2>2, <2>3, <2>4, WantShows DEF Types, Placing
    <2>6. Shown' = Shown
      BY <2>2, <2>4, <2>5 DEF Shown
    <2>7. Want' = Want
      <3>1. Want' = [j \in Item |-> Want'[j]] /\ Want = [j \in Item |-> Want[j]]
        BY DEF Want
      <3>2. \A j \in Item : Want'[j] = shown'[j]
        BY <2>2 DEF Want
      <3>3. \A j \in Item : shown'[j] = Want[j]
        BY <2>5
      <3> QED
        BY <3>1, <3>2, <3>3
    <2> QED
      BY <1>2, <2>2, <2>6, <2>7, HandKept
  <1>9. CASE ThrowOut
    <2>1. PICK i : i = held.uid
      OBVIOUS
    <2>2. /\ i \in Shown /\ held # None /\ held' = None /\ Send(<<DropCmd(i)>>)
          /\ toClient' = toClient /\ dirty' = dirty /\ shown' = [shown EXCEPT ![i] = None]
      BY <1>9, <2>1 DEF ThrowOut, LetGo
    <2> QED
      BY <1>0, <1>2, <2>1, <2>2, ThrowKept
  <1>10. CASE Toggle
    <2>1. CASE active
      <3>1. PICK cmds \in Changes : Send(cmds)
        BY <1>10, <2>1 DEF Toggle
      <3> QED
        BY <1>0, <1>2, <1>10, <2>1, <3>1, SyncKept DEF Toggle, Expect
    <2>2. CASE ~active
      <3>1. /\ toServer' = toServer /\ toClient' = toClient /\ dirty' = dirty
            /\ shown' = shown /\ held' = held
        BY <1>10, <2>2 DEF Toggle
      <3>2. Want' = Want /\ Shown' = Shown
        BY <3>1 DEF Want, Shown
      <3>3. held' # None => held'.uid \in Shown
        BY <3>1 DEF Kept
      <3> QED
        BY <1>2, <3>1, <3>2, <3>3, HandKept
    <2> QED
      BY <2>1, <2>2
  <1>11. CASE UpdateSync
    <2>1. PICK cmds \in Changes : Send(cmds)
      BY <1>11 DEF UpdateSync
    <2> QED
      BY <1>0, <1>2, <1>11, <2>1, SyncKept DEF UpdateSync, Expect
  <1>12. CASE AskPickUp
    <2>1. PICK cmds \in Changes : Send(Append(cmds, PickUpCmd))
      BY <1>12 DEF AskPickUp
    <2> QED
      BY <1>0, <1>2, <1>12, <2>1, AskKept DEF AskPickUp, Expect
  <1>13. CASE AskSort
    <2>1. PICK s \in Orders : /\ shown' = Sorted(s).at
                              /\ Send(<<SortCmd(Sorted(s).at)>>)
                              /\ Expect(Sorted(s).put = Shown /\ held = None /\ ~PickingUp)
      BY <1>13 DEF AskSort
    <2>2. PICK r : r = Sorted(s)
      OBVIOUS
    <2>3. r.put = Shown /\ held = None /\ ~PickingUp
      BY <2>1, <2>2 DEF Expect
    <2>4. shown' = r.at /\ Send(<<SortCmd(r.at)>>)
      BY <2>1, <2>2
    <2>5. toClient' = toClient /\ held' = None /\ dirty' = {}
      BY <1>13, <2>3 DEF AskSort
    <2> QED
      BY <1>0, <1>2, <2>2, <2>3, <2>4, <2>5, AskSortKept
  <1>14. CASE AddItem
    BY <1>0, <1>14, AddKept
  <1> QED
    BY <1>4, <1>5, <1>6, <1>7, <1>8, <1>9, <1>10, <1>11, <1>12, <1>13, <1>14 DEF Client, Mouse

\* What comes to the ground leaves the inventory, and what comes there leaves
\* the ground.
LEMMA NextApiece ==
    ASSUME Shapes, Sent, Apiece, [Next]_vars
    PROVE  Apiece'
  <1>1. CASE UNCHANGED serverVars
    BY <1>1 DEF serverVars, Apiece
  <1>2. CASE MoveItem
    <2>1. PICK m : m = Head(toServer)
      OBVIOUS
    <2>2. ground' = ground
      BY <1>2 DEF MoveItem
    <2>3. CASE items[m.uid] # None /\ items' = [items EXCEPT ![m.uid] = m.at]
      BY <2>2, <2>3 DEF Apiece, Shapes
    <2>4. CASE items' = items
      BY <2>2, <2>4 DEF Apiece
    <2> QED
      BY <1>2, <2>1, <2>3, <2>4 DEF MoveItem, PlaceItem
  <1>3. CASE SortItems
    <2>1. PICK to : SortsTo(to)
      <3>1. WellMeant(Head(toServer)) /\ Head(toServer).op = "sort"
        BY <1>3, ReceiveSent DEF SortItems, Receive
      <3> QED
        BY <1>3, <3>1, SortOnce DEF SortItems, WellMeant
    <2>2. PICK S \in SUBSET {i \in Item : to[i] # None /\ items[i] # None} :
             items' = [i \in Item |-> IF i \in S THEN to[i] ELSE items[i]]
      BY <2>1 DEF SortsTo
    <2>3. ground' = ground
      BY <1>3 DEF SortItems
    <2> QED
      BY <2>2, <2>3 DEF Apiece, Shapes
  <1>4. CASE DropItem
    <2>1. PICK i : i = Head(toServer).uid
      OBVIOUS
    <2>2. i \in Item
      BY <1>4, <2>1, ReceiveSent DEF DropItem, Receive, WellMeant
    <2>3. CASE UNCHANGED serverVars
      BY <1>1, <2>3
    <2>4. CASE items' = [items EXCEPT ![i] = None] /\ ground' = ground \union {i}
      BY <2>2, <2>4 DEF Apiece, Shapes
    <2> QED
      BY <1>4, <2>1, <2>3, <2>4 DEF DropItem, RemoveItem
  <1>5. CASE PickUp
    <2>1. PICK i \in ground : \E p : items' = [items EXCEPT ![i] = p] /\ ground' = ground \ {i}
      BY <1>5 DEF PickUp, PlaceItem
    <2> QED
      BY <2>1 DEF Apiece, Shapes
  <1>6. CASE DropRefused \/ PickUpNothing
    BY <1>1, <1>6 DEF DropRefused, PickUpNothing
  <1>7. CASE Client
    <2>1. UNCHANGED serverVars
      BY <1>7 DEF Client, Mouse, Grab, Turn, TurnHeld, PutDown, PutBack, ThrowOut, Toggle,
           UpdateSync, AskPickUp, AskSort, AddItem
    <2> QED
      BY <1>1, <2>1
  <1>8. CASE UNCHANGED vars
    BY <1>1, <1>8 DEF vars
  <1> QED
    BY <1>2, <1>3, <1>4, <1>5, <1>6, <1>7, <1>8 DEF Next, Server
LEMMA InitKept == Init => KeptInv
  <1> SUFFICES ASSUME Init PROVE KeptInv
    OBVIOUS
  <1>1. IInv /\ Types /\ Laid
    <2>1. Types
      BY DEF Init, Types, Placing, Nowhere
    <2>2. Laid
      BY DEF Init, Laid, Nowhere
    <2> QED
      BY <2>1, <2>2, InitInv
  <1>2. Apiece
    BY DEF Init, Apiece, Nowhere, Shapes
  <1>3. toServer = <<>> /\ Len(toServer) = 0 /\ toClient = <<>> /\ Len(toClient) = 0
    BY DEF Init
  <1>4. Want = Nowhere /\ Nowhere \in Placing
    BY DEF Init, Want, Nowhere, Placing
  <1>5. Apart(Nowhere)
    BY DEF Apart, Nowhere
  <1>6. Planned(toServer, items, Nowhere)
    <2> DEFINE V == [k \in 0 .. 0 |-> Nowhere]
    <2>1. items = Nowhere
      BY DEF Init
    <2>2. V \in [0 .. 0 -> Placing] /\ V[0] = Nowhere /\ \A k \in 0 .. 0 : Apart(V[k])
      BY <1>4, <1>5
    <2>3. \A k \in 1 .. 0 : Steps(V[k - 1], toServer[k], V[k])
      OBVIOUS
    <2> HIDE DEF V
    <2> QED
      BY <1>3, <2>1, <2>2, <2>3 DEF Planned, Plan
  <1>7. Ends(Nowhere)
    BY <1>3, <1>4 DEF Init, Ends
  <1>8. Kept
    <2>1. dirty = {} /\ held = None
      BY DEF Init
    <2> QED
      BY <1>3, <1>4, <1>5, <1>6, <1>7, <2>1 DEF Kept, Ordered, PickingUp
  <1> QED
    BY <1>1, <1>2, <1>8 DEF KeptInv

\* Every step keeps what is shown.
LEMMA NextKept ==
    ASSUME KeptInv, [Next]_vars
    PROVE  KeptInv'
  <1>0. IInv /\ Shapes /\ Sent /\ Types /\ Apiece
    BY DEF KeptInv, IInv
  <1>1. IInv' /\ Types' /\ Apiece'
    <2>1. Types' /\ Apiece'
      BY <1>0, NextTypes, NextApiece
    <2> QED
      BY <1>0, <2>1, NextInv
  <1>2. ASSUME calm' PROVE Laid' /\ Kept'
    <2>1. calm /\ Laid /\ Kept
      BY <1>2, CalmBefore DEF KeptInv
    <2>2. CASE UNCHANGED vars
      <3>1. UNCHANGED <<items, grid, shown, dirty, held, toServer, toClient>>
        BY <2>2 DEF vars, serverVars, clientVars
      <3>2. Want' = Want /\ Shown' = Shown
        BY <3>1 DEF Want, Shown
      <3>3. held' # None => held'.uid \in Shown
        BY <2>1, <3>1 DEF Kept
      <3>4. Laid'
        BY <2>1, <3>1 DEF Laid
      <3> QED
        BY <2>1, <3>1, <3>2, <3>3, <3>4, HandKept
    <2> QED
      BY <1>0, <1>1, <1>2, <2>1, <2>2, ServerKept, ClientKept DEF Next
  <1> QED
    BY <1>1, <1>2 DEF KeptInv

\* The invariant always holds.
LEMMA KeptInvariance == Spec => []KeptInv
  <1>1. KeptInv /\ [Next]_vars => KeptInv'
    BY NextKept
  <1> QED
    BY <1>1, InitKept, PTL DEF Spec

\* Every item of the server's is on the grid with all of its cells, as long as
\* no sort forgot or squeezed one: whatever is moved, turned, thrown out, picked
\* up and sorted, and in whatever order the packets pass each other
\* (Inventory.cpp:90-233).
THEOREM LayoutIsKept == Spec => []LayoutIsValid
  <1>1. KeptInv => LayoutIsValid
    BY DEF KeptInv, Laid, LayoutIsValid
  <1> QED
    BY <1>1, KeptInvariance, PTL

\* When everything has been sent and handled the server has what the client
\* shows, for any number of items and packets on the way, if the player changed
\* one item at a time, nothing while a pick-up was under way, and sorted with
\* his hand empty and room for all (InventoryUI.cpp:63-70, 275-282).
THEOREM WhatIsShownIsKept == Spec => []ShownIsKept
  <1>1. KeptInv => ShownIsKept
    <2> SUFFICES ASSUME Types, Kept, Settled PROVE shown = items
      BY DEF KeptInv, ShownIsKept
    <2>1. toServer = <<>> /\ toClient = <<>> /\ dirty \intersect Shown = {} /\ held = None
      BY DEF Settled
    <2>2. PICK w, V : Ends(w) /\ Plan(toServer, V) /\ V[0] = items /\ V[Len(toServer)] = w
      BY DEF Kept, Planned
    <2>3. w = items /\ items \in Placing
      BY <2>1, <2>2 DEF Plan
    <2>4. ASSUME NEW i \in Item PROVE shown[i] = items[i]
      <3>1. ~Telling(i)
        BY <2>1 DEF Telling
      <3>2. Want[i] = shown[i]
        BY <2>1 DEF Want
      <3>3. CASE i \notin dirty
        BY <2>2, <2>3, <3>1, <3>2, <3>3 DEF Ends
      <3>4. CASE i \in dirty
        <4>1. i \notin Shown
          BY <2>1, <3>4
        <4>2. items[i] = None
          BY <2>2, <2>3, <3>4, <4>1 DEF Ends
        <4> QED
          BY <4>1, <4>2 DEF Shown
      <3> QED
        BY <3>3, <3>4
    <2> QED
      BY <2>3, <2>4 DEF Types, Placing
  <1> QED
    BY <1>1, KeptInvariance, PTL
============================================================================
