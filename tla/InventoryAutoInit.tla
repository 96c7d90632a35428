------------------------- MODULE InventoryAutoInit -------------------------
(***************************************************************************)
(* Inventory with the consumer of catalog.variant.created, which creates a *)
(* row of zeros for a new variant.  Unlike every other writer it runs in   *)
(* no transaction: a look-up, a second look-up inside saveStockLevel, and  *)
(* a save by id that expects no version.                                   *)
(***************************************************************************)
EXTENDS Inventory

VARIABLE initializing   \* level -> where the handler of its event stands

initVars == <<vars, initializing>>

InitAutoInit ==
    /\ Init
    /\ initializing = [l \in Levels |-> "idle"]

At(l, here, there) ==
    /\ initializing[l] = here
    /\ initializing' = [initializing EXCEPT ![l] = there]

\* execute: an existing level returns early (a stuttering step).
AutoInitFind(l) ==
    /\ version[l] = 0
    /\ At(l, "idle", "found none")
    /\ UNCHANGED vars

\* saveStockLevel looks again: a row that is there now lends its id.
AutoInitRefind(l) ==
    /\ At(l, "found none", IF version[l] = 0 THEN "insert" ELSE "update")
    /\ UNCHANGED vars

WriteZeros(l) ==
    /\ level' = [level EXCEPT ![l] = InitialAt(0)]
    /\ version' = [version EXCEPT ![l] = @ + 1]
    /\ UNCHANGED <<hold, expiresAt, ledger, clock, slots, batch, sent, faults, acked>>

\* The INSERT; a row that got there first is a duplicate entry, a no-op.
AutoInitInsert(l) ==
    /\ At(l, "insert", "done")
    /\ IF version[l] = 0 THEN WriteZeros(l) ELSE UNCHANGED vars

\* The UPDATE by id of every counter.
AutoInitUpdate(l) ==
    /\ At(l, "update", "overwrote")
    /\ WriteZeros(l)

NextAutoInit ==
    \/ Next /\ UNCHANGED initializing
    \/ \E l \in Levels :
          \/ AutoInitFind(l)
          \/ AutoInitRefind(l)
          \/ AutoInitInsert(l)
          \/ AutoInitUpdate(l)

SpecAutoInit == InitAutoInit /\ [][NextAutoInit]_initVars

-----------------------------------------------------------------------------
\* The ledger leaves nothing out and holds nothing twice, also when requests
\* that span levels lose the race for one of them: it explains the counters of
\* every level but one that auto-init overwrote with zeros (the event of a new
\* variant that met its first receipt between the two look-ups).
LedgerExplainsCounters == \A l \in Levels : LedgerExplains(l) \/ initializing[l] = "overwrote"
=============================================================================
