------------------------ MODULE MCInventoryAutoInit ------------------------
(* The requests of MCInventory beside the consumer of new variants. *)
EXTENDS MCInventory, InventoryAutoInit
=============================================================================
