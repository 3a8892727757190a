----------------------------- MODULE Inventory -----------------------------
(***************************************************************************)
(* A player's inventory on the server (SERVER/Inventory.cpp) and on the    *)
(* client's screen (CLIENT/client/InventoryUI.cpp), and the packets        *)
(* between them: the client changes its own copy at once and tells the     *)
(* server later, by CS_ITEM_MOVE packets nobody answers, while the server  *)
(* places what is picked up by itself and tells the client.                *)
(*                                                                         *)
(* Left out: the saves that end the server's handlers, the other players,  *)
(* and what the client knows of the items on the map (it may know nothing  *)
(* yet, so it may ask for a pick-up at any time).                          *)
(***************************************************************************)
EXTENDS Naturals, Sequences, FiniteSets

CONSTANTS
    Item,           \* the uids
    Tall, Wide,     \* those of templates 1 x 2 and 2 x 1; the others are 1 x 1
    Cols, Rows,     \* INV_MAX_COL, INV_MAX_ROW
    None,
    MaxCommands     \* bound: the client sends when fewer packets are on the way

ASSUME ItemAssumption == Item \subseteq Nat /\ IsFiniteSet(Item)
ASSUME SizeAssumption == Tall \subseteq Item /\ Wide \subseteq Item
ASSUME GridAssumption == Cols \in Nat /\ Rows \in Nat /\ MaxCommands \in Nat

Cell  == (0 .. Cols - 1) \X (0 .. Rows - 1)
Place == [x : 0 .. Cols - 1, y : 0 .. Rows - 1, rot : BOOLEAN]
At(x, y, rot) == [x |-> x, y |-> y, rot |-> rot]

ASSUME NoneAssumption == None \notin Item \union Place

VARIABLES
    items,      \* Inventory::items_: where each item is, or None
    grid,       \* Inventory::grid_
    ground,     \* what lies where the player stands
    shown,      \* InventoryUI::myItems_
    dirty,      \* dirtyItemUIDs_; isDirty_ is whether it has any
    held,       \* draggingItemUID_ and dragOrigRotated_, or None
    active,     \* isActive_: the inventory is open
    toServer, toClient,
    calm        \* history: nothing has happened yet that ShownIsKept excepts

serverVars == <<items, grid, ground>>
clientVars == <<shown, dirty, held, active>>
vars == <<serverVars, clientVars, toServer, toClient, calm>>

Nowhere == [i \in Item |-> None]

Init ==
    /\ items = Nowhere /\ shown = Nowhere
    /\ grid = [c \in Cell |-> None]
    /\ ground = Item
    /\ dirty = {} /\ held = None /\ active = FALSE
    /\ toServer = <<>> /\ toClient = <<>>
    /\ calm = TRUE

----------------------------------------------------------------------------
(* The grid.                                                               *)

\* GetItemTemplate, and the swap of a rotated item.
Width(i, rot)  == IF i \in (IF rot THEN Tall ELSE Wide) THEN 2 ELSE 1
Height(i, rot) == IF i \in (IF rot THEN Wide ELSE Tall) THEN 2 ELSE 1

Cells(i, p) == (p.x .. p.x + Width(i, p.rot) - 1) \X (p.y .. p.y + Height(i, p.rot) - 1)

\* Variant: only the corner is tried.
FitsCorner(i, free) ==
    {p \in {At(c[1], c[2], FALSE) : c \in free} : Cells(i, p) \subseteq Cell}

\* The search of a free spot goes by rows from the top left, unrotated: the
\* set of the first place whose cells are free, empty when there is none.
Fits(i, free) == {p \in {At(c[1], c[2], FALSE) : c \in free} : Cells(i, p) \subseteq free}
FirstFit(i, free) ==
    LET fits == Fits(i, free) IN
    {p \in fits : \A q \in fits : p.y < q.y \/ (p.y = q.y /\ p.x <= q.x)}

\* CanPlace, for an item that may lie there itself.
CanPlace(i, p) == \A c \in Cells(i, p) : c \in Cell /\ grid[c] \in {None, i}

\* PlaceItem, once CanPlace has agreed: out of the old cells, into the new.
PlaceItem(i, p) ==
    /\ items' = [items EXCEPT ![i] = p]
    /\ grid' = [c \in Cell |-> IF c \in Cells(i, p) THEN i
                               ELSE IF /\ items[i] # None /\ grid[c] = i
                                       /\ c \in Cells(i, items[i]) THEN None
                               ELSE grid[c]]

\* Variant: the shape of the item unrotated is cleared.
RemoveItemUnrotated(i) ==
    /\ items' = [items EXCEPT ![i] = None]
    /\ grid' = [c \in Cell |-> IF /\ c \in Cells(i, [items[i] EXCEPT !.rot = FALSE])
                                  /\ grid[c] = i THEN None ELSE grid[c]]

RemoveItem(i) ==
    /\ items' = [items EXCEPT ![i] = None]
    /\ grid' = [c \in Cell |-> IF c \in Cells(i, items[i]) /\ grid[c] = i THEN None
                               ELSE grid[c]]

\* ApplySortResult: the slots of the list (a uid and a place each) are placed one
\* after the other on an empty grid, and one that does not fit is passed over, also
\* if what is in its way is the same item. The order is that of the list, which may
\* be any: so what is kept is any set of slots that do not overlap and leave no room
\* for another. An item is where its last slot is; those that have none stay in
\* items_ where they were, on no cell of the grid.
SlotCells(s) == Cells(s.uid, s.at)

Keeps(S) ==
    /\ \A s \in S : SlotCells(s) \subseteq Cell
    /\ \A s, t \in S : s # t => SlotCells(s) \intersect SlotCells(t) = {}

LastOf(L, S) ==
    /\ \A s \in S : \E l \in L : l.uid = s.uid
    /\ \A k, l \in L : k.uid = l.uid => k = l

ApplySortResult(slots) ==
    LET sent == {s \in slots : items[s.uid] # None} IN
    \E S \in SUBSET sent : \E L \in SUBSET S :
      /\ Keeps(S)
      /\ \A s \in sent \ S : ~Keeps(S \union {s})
      /\ LastOf(L, S)
      /\ items' = [i \in Item |-> IF \E l \in L : l.uid = i
                                  THEN (CHOOSE l \in L : l.uid = i).at ELSE items[i]]
      /\ grid' = [c \in Cell |-> IF \E s \in S : c \in SlotCells(s)
                                 THEN (CHOOSE s \in S : c \in SlotCells(s)).uid ELSE None]

----------------------------------------------------------------------------
(* The server: one command at a time.                                      *)

\* What SortItems of the client sends: myItems_, which has each item once.
Slots(to) == {[uid |-> i, at |-> to[i]] : i \in {i \in Item : to[i] # None}}

MoveCmd(i, p) == [op |-> "move", uid |-> i, at |-> p]
SortCmd(to)   == [op |-> "sort", slots |-> Slots(to)]
DropCmd(i)    == [op |-> "drop", uid |-> i]
PickUpCmd     == [op |-> "pickup"]
GetItem(i, p) == [uid |-> i, at |-> p]

Receive(op) ==
    /\ toServer # <<>> /\ Head(toServer).op = op
    /\ toServer' = Tail(toServer)
    /\ UNCHANGED clientVars

\* CS_ITEM_MOVE. A refusal is not answered.
MoveItem ==
    /\ Receive("move")
    /\ LET c == Head(toServer) IN
         IF items[c.uid] # None /\ CanPlace(c.uid, c.at) THEN PlaceItem(c.uid, c.at)
         ELSE UNCHANGED <<items, grid>>
    /\ UNCHANGED <<ground, toClient, calm>>

\* CS_ITEM_SORT.
SortItems ==
    /\ Receive("sort")
    /\ ApplySortResult(Head(toServer).slots)
    /\ UNCHANGED <<ground, toClient, calm>>

\* CS_ITEM_DROP.
DropItem ==
    /\ Receive("drop")
    /\ LET i == Head(toServer).uid IN
         IF items[i] = None THEN UNCHANGED serverVars
         ELSE RemoveItem(i) /\ ground' = ground \union {i}
    /\ UNCHANGED <<toClient, calm>>

\* The same when GetNewMapItemId finds no slot.
DropRefused ==
    /\ Receive("drop")
    /\ calm' = FALSE
    /\ UNCHANGED <<serverVars, toClient>>

\* CS_ITEM_PICKUP: one of the items that lie there.
PickUp ==
    /\ Receive("pickup")
    /\ \E i \in ground : \E p \in FirstFit(i, {c \in Cell : grid[c] = None}) :
         /\ PlaceItem(i, p)
         /\ ground' = ground \ {i}
         /\ toClient' = Append(toClient, GetItem(i, p))
    /\ UNCHANGED calm

\* Nothing lies there, or there is no room for it.
PickUpNothing ==
    /\ Receive("pickup")
    /\ \/ ground = {}
       \/ \E i \in ground : FirstFit(i, {c \in Cell : grid[c] = None}) = {}
    /\ UNCHANGED <<serverVars, toClient, calm>>

----------------------------------------------------------------------------
(* The client.                                                             *)

Shown == {i \in Item : shown[i] # None}

Send(cmds) ==
    /\ cmds = <<>> \/ Len(toServer) + Len(toClient) < MaxCommands
    /\ toServer' = toServer \o cmds
Expect(ok) == calm' = (calm /\ ok)

\* A pick-up has been asked for, and its answer has not come.
PickingUp == toClient # <<>> \/ \E k \in 1 .. Len(toServer) : toServer[k].op = "pickup"

\* The item in hand has been turned.
Turned(i) == held # None /\ held.uid = i /\ shown[i] # None /\ shown[i].rot # held.rot

\* InventoryUI::CanPlace.
CanShow(i, p) ==
    /\ Cells(i, p) \subseteq Cell
    /\ \A j \in Shown \ {i} : Cells(i, p) \intersect Cells(j, shown[j]) = {}

\* SyncToServer: one packet for each changed item still shown, by uid.
Ascending(S) == {s \in [1 .. Cardinality(S) -> S] :
                   \A k, l \in DOMAIN s : k < l => s[k] < s[l]}
Changes == {[k \in DOMAIN s |-> MoveCmd(s[k], shown[s[k]])] :
              s \in Ascending(dirty \intersect Shown)}
Synced == \A i \in dirty : ~Turned(i)

\* An item is moved, or turned, on the client's grid.
Change(i, p) ==
    /\ shown' = [shown EXCEPT ![i] = p]
    /\ dirty' = dirty \union {i}
    /\ Expect(dirty \intersect Shown \subseteq {i} /\ ~PickingUp)

\* Left button down on an item.
Grab(i) ==
    /\ active /\ i \in Shown
    /\ held' = [uid |-> i, rot |-> shown[i].rot]
    /\ Expect(\A j \in Item : ~Turned(j))
    /\ UNCHANGED <<serverVars, shown, dirty, active, toServer, toClient>>

\* Right button, with an item in hand and without.
TurnHeld ==
    /\ active /\ held # None /\ held.uid \in Shown
    /\ shown' = [shown EXCEPT ![held.uid].rot = ~@]
    /\ UNCHANGED <<serverVars, dirty, held, active, toServer, toClient, calm>>

Turn(i) ==
    /\ active /\ held = None /\ i \in Shown
    /\ LET p == [shown[i] EXCEPT !.rot = ~@] IN CanShow(i, p) /\ Change(i, p)
    /\ UNCHANGED <<serverVars, held, active, toServer, toClient>>

\* Left button up: on free cells, elsewhere on the inventory, outside of it.
LetGo == active /\ held # None /\ held' = None

PutDown ==
    /\ LetGo
    /\ held.uid \in Shown
    /\ \E x \in 0 .. Cols, y \in 0 .. Rows :
         LET p == At(x, y, shown[held.uid].rot) IN
         CanShow(held.uid, p) /\ Change(held.uid, p)
    /\ UNCHANGED <<serverVars, active, toServer, toClient>>

\* Variant: the rotation is not restored.
PutBackTurned ==
    /\ LetGo
    /\ UNCHANGED <<serverVars, shown, dirty, active, toServer, toClient, calm>>

PutBack ==
    /\ LetGo
    /\ shown' = IF held.uid \in Shown THEN [shown EXCEPT ![held.uid].rot = held.rot]
                ELSE shown
    /\ UNCHANGED <<serverVars, dirty, active, toServer, toClient, calm>>

ThrowOut ==
    /\ LetGo
    /\ held.uid \in Shown
    /\ Send(<<DropCmd(held.uid)>>)
    /\ shown' = [shown EXCEPT ![held.uid] = None]
    /\ UNCHANGED <<serverVars, dirty, active, toClient, calm>>

\* Variant: what has changed stays unsent while the inventory is closed.
ToggleUnsynced ==
    /\ active' = ~active
    /\ UNCHANGED <<serverVars, shown, dirty, held, toServer, toClient, calm>>

\* The I key: closing sends what has changed.
Toggle ==
    /\ active' = ~active
    /\ IF active THEN (\E cmds \in Changes : Send(cmds)) /\ dirty' = {} /\ Expect(Synced)
       ELSE UNCHANGED <<dirty, toServer, calm>>
    /\ UNCHANGED <<serverVars, shown, held, toClient>>

\* UpdateSync: every five seconds while the inventory is open.
UpdateSync ==
    /\ active /\ dirty # {}
    /\ \E cmds \in Changes : Send(cmds)
    /\ dirty' = {} /\ Expect(Synced)
    /\ UNCHANGED <<serverVars, shown, held, active, toClient>>

\* The G key.
AskPickUp ==
    /\ \E cmds \in Changes : Send(Append(cmds, PickUpCmd))
    /\ dirty' = {} /\ Expect(Synced)
    /\ UNCHANGED <<serverVars, shown, held, active, toClient>>

\* SortItems: by area, then by width, each item unrotated at the first place
\* free; one that finds none stays where it was, unrotated.
Larger(i, j) == \/ i \in Tall \union Wide /\ j \notin Tall \union Wide
                \/ i \in Wide /\ j \in Tall
Orders == {s \in [1 .. Cardinality(Shown) -> Shown] :
             \A k, l \in DOMAIN s : k < l => s[k] # s[l] /\ ~Larger(s[l], s[k])}
Taken(to, S) == UNION {Cells(i, to[i]) : i \in S}

Sorted(s) ==
    LET to[k \in 0 .. Len(s)] ==
          IF k = 0 THEN [at |-> Nowhere, put |-> {}]
          ELSE LET before == to[k - 1]
                   i == s[k]
                   fit == FirstFit(i, Cell \ Taken(before.at, before.put)) IN
               IF fit = {}
               THEN [before EXCEPT !.at[i] = [shown[i] EXCEPT !.rot = FALSE]]
               ELSE [at |-> [before.at EXCEPT ![i] = CHOOSE p \in fit : TRUE],
                     put |-> before.put \union {i}]
    IN to[Len(s)]

\* The O key.
AskSort ==
    /\ active /\ Shown # {}
    /\ \E s \in Orders :
         LET result == Sorted(s) IN
         /\ shown' = result.at
         /\ Send(<<SortCmd(result.at)>>)
         /\ Expect(result.put = Shown /\ held = None /\ ~PickingUp)
    /\ dirty' = {}
    /\ UNCHANGED <<serverVars, held, active, toClient>>

\* SC_GET_ITEM: an item that is already shown is not added again.
AddItem ==
    /\ toClient # <<>>
    /\ toClient' = Tail(toClient)
    /\ LET m == Head(toClient) IN
         shown' = IF m.uid \in Shown THEN shown ELSE [shown EXCEPT ![m.uid] = m.at]
    /\ UNCHANGED <<serverVars, dirty, held, active, toServer, calm>>

----------------------------------------------------------------------------
Server == MoveItem \/ SortItems \/ DropItem \/ DropRefused \/ PickUp \/ PickUpNothing
Mouse == (\E i \in Item : Grab(i) \/ Turn(i)) \/ TurnHeld \/ PutDown \/ PutBack \/ ThrowOut
Client == Mouse \/ Toggle \/ UpdateSync \/ AskPickUp \/ AskSort \/ AddItem

Next == Server \/ Client
Spec == Init /\ [][Next]_vars

----------------------------------------------------------------------------
\* A cell that names an item is one of the cells of that item, so an item that
\* leaves frees all it had and nothing keeps a dead uid, whatever the player does
\* and however badly his client sorts (Inventory.cpp:90-233). It rests on the
\* client: a list that named an item twice would be taken as it is.
GridSound ==
    \A c \in Cell : grid[c] # None => items[grid[c]] # None /\ c \in Cells(grid[c], items[grid[c]])

\* Items do not overlap and are on the grid with all of their cells
\* (Inventory.cpp:193-195), as long as no sort forgot or squeezed one.
LayoutIsValid ==
    calm => \A i \in Item : items[i] # None =>
              \A c \in Cells(i, items[i]) : c \in Cell /\ grid[c] = i

Settled == toServer = <<>> /\ toClient = <<>> /\ dirty \intersect Shown = {} /\ held = None

\* When everything has been sent and handled, the server has what the client
\* shows, if the player changed one item at a time, nothing while a pick-up
\* was under way, and sorted with his hand empty and room for all
\* (InventoryUI.h:26).
ShownIsKept == calm /\ Settled => shown = items

\* The same with no exception (InventoryUI.h:26: the class is in charge of
\* synchronisation with the server).
SyncAgrees == Settled => shown = items

\* A closed inventory has nothing unsent: the timer runs only in an open one
\* (InventoryUI.cpp:63-70, 275-282).
ClosedIsSent == ~active => dirty = {}
============================================================================
