------------------------------ MODULE MakerClient ------------------------------
(***************************************************************************)
(* The client of a maker: it reads the inventory of the maker's orders     *)
(* page by page and order by order (MakerInventory), and makes orders from *)
(* what it has read (LimitOrderMaker, where a reading is one step, as      *)
(* InventoryRead promises). The two have no state in common, so that what  *)
(* each does while the other rests is all that it can do.                  *)
(***************************************************************************)
EXTENDS MakerInventory, LimitOrderMaker

VARIABLE task   \* what the client is at

ClientInit ==
    /\ task \in {"inventory", "orders"}
    /\ InventoryInit /\ MakerInit

ReadInventories ==
    /\ task = "inventory"
    /\ InventoryNext
    /\ UNCHANGED <<makerVars, task>>

MakeOrders ==
    /\ task = "orders"
    /\ MakerNext
    /\ UNCHANGED <<inventoryVars, task>>

ClientNext == ReadInventories \/ MakeOrders

ClientSpec == ClientInit /\ [][ClientNext]_<<inventoryVars, makerVars, task>>
=============================================================================
