---------------------------- MODULE MCInventory ----------------------------
EXTENDS Inventory

\* A player who has logged in with all items, laid out without overlaps, has
\* opened the inventory and does nothing but drag items about.
DragInit ==
    /\ items \in [Item -> Place]
    /\ \A i, j \in Item : /\ Cells(i, items[i]) \subseteq Cell
                          /\ i # j => Cells(i, items[i]) \intersect Cells(j, items[j]) = {}
    /\ grid = [c \in Cell |-> IF \E i \in Item : c \in Cells(i, items[i])
                              THEN CHOOSE i \in Item : c \in Cells(i, items[i]) ELSE None]
    /\ shown = items
    /\ ground = {} /\ dirty = {} /\ held = None /\ active = TRUE
    /\ toServer = <<>> /\ toClient = <<>> /\ calm = TRUE

DragNext == PutDown \/ UpdateSync \/ MoveItem \/ \E i \in Item : Grab(i)
DragSpec == DragInit /\ [][DragNext]_vars
============================================================================
