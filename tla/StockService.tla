---------------------------- MODULE StockService ----------------------------
(***************************************************************************)
(* What the inventory service promises its callers: every operation takes  *)
(* effect at one instant, on the rows as they are at that instant.  There  *)
(* are no versions, no snapshots, no retries and no clock here; the module *)
(* Inventory, which has them all, is shown to implement this one.          *)
(*                                                                         *)
(* A request may arrive twice or never, and an operation may fail; both    *)
(* are stuttering here.  A hold may lapse at any time: this specification  *)
(* does not say when.                                                      *)
(***************************************************************************)
EXTENDS StockDomain, Bags

CONSTANTS
    Payloads,       \* the requests callers send
    SeedOnHand      \* on-hand quantity per level before the first request

VARIABLES
    level,          \* stock_level: counters per level
    hold,           \* reservation: one row per (level, cart)
    ledger          \* stock_movement: a bag of rows per level

vars == <<level, hold, ledger>>

Rows == [level |-> level, hold |-> hold]

Init ==
    /\ level = [l \in Levels |-> InitialAt(SeedOnHand[l])]
    /\ hold = [l \in Levels |-> [c \in Carts |-> NoHold]]
    /\ ledger = [l \in Levels |-> EmptyBag]

-----------------------------------------------------------------------------
(* Effects on the three tables, for the levels in W. *)

WriteRows(W, rows) ==
    level' = [l \in Levels |-> IF l \in W THEN rows[l] ELSE level[l]]

SetStatus(ids, status) ==
    hold' = [l \in Levels |-> [c \in Carts |->
                IF <<c, l>> \in ids THEN [hold[l][c] EXCEPT !.status = status]
                                    ELSE hold[l][c]]]

AppendRows(W, movements) ==
    ledger' = [l \in Levels |->
                  IF l \in W THEN ledger[l] (+) SetToBag(movements[l])
                             ELSE ledger[l]]

\* The unique key refuses the request's rows.
AlreadyRecorded(o) ==
    \E l \in Lines(o) : \E m \in LineMovements(o, l), n \in BagToSet(ledger[l]) :
        DedupeKey(m) # None /\ DedupeKey(m) = DedupeKey(n)

-----------------------------------------------------------------------------
(* Operations. *)

ReserveStock(o) ==
    /\ o.kind = "reserve"
    /\ \A l \in Lines(o) : CanReserveLine(Rows, o, l)
    /\ WriteRows({l \in Lines(o) : ReserveDelta(Rows, o, l) # 0},
                 [l \in Levels |-> ReserveRow(Rows, o, l)])
    /\ hold' = [l \in Levels |->
                   IF l \in Lines(o)
                   THEN [hold[l] EXCEPT ![o.cart] =
                            [status |-> "active", quantity |-> o.lines[l]]]
                   ELSE hold[l]]
    /\ UNCHANGED ledger

FreeHolds(ids, status) ==
    /\ \A l \in LevelsOf(ids) : CanFree(Rows, ids, l)
    /\ WriteRows(LevelsOf(ids), [l \in Levels |-> FreeRow(Rows, ids, l)])
    /\ SetStatus(ids, status)
    /\ AppendRows(LevelsOf(ids), [l \in Levels |-> FreeMovements(Rows, ids, l)])

ReleaseHolds(ids) == FreeHolds(ids, "released")
LapseHolds(ids) == FreeHolds(ids, "expired")

AllocateStock(o) ==
    /\ o.kind = "allocate"
    /\ \A l \in Lines(o) : CanAllocateLine(Rows, o, l)
    /\ WriteRows(Lines(o), [l \in Levels |-> AllocateRow(Rows, o, l)])
    /\ SetStatus({<<o.cart, l>> : l \in {k \in Lines(o) :
                    hold[k][o.cart].status = "active"}}, "committed")
    /\ AppendRows(Lines(o), [l \in Levels |-> LineMovements(o, l)])

CancelAllocation(o) ==
    /\ o.kind = "cancel"
    /\ ~AlreadyRecorded(o)
    /\ \A l \in Lines(o) : CanReleaseAllocated(level[l], o.lines[l])
    /\ WriteRows(Lines(o), [l \in Levels |-> ReleaseAllocated(level[l], o.lines[l])])
    /\ AppendRows(Lines(o), [l \in Levels |-> LineMovements(o, l)])
    /\ UNCHANGED hold

CommitStock(o) ==
    /\ o.kind = "sale"
    /\ ~AlreadyRecorded(o)
    /\ \A l \in Lines(o) : CanCommitSale(level[l], o.lines[l])
    /\ WriteRows(Lines(o), [l \in Levels |-> CommitSale(level[l], o.lines[l])])
    /\ AppendRows(Lines(o), [l \in Levels |-> LineMovements(o, l)])
    /\ UNCHANGED hold

ChangeStock(o) ==
    /\ o.kind \in OnHandKinds
    /\ ~AlreadyRecorded(o)
    /\ \A l \in Lines(o) : CanChangeOnHand(level[l], o.lines[l])
    /\ WriteRows(Lines(o), [l \in Levels |-> ChangeOnHand(level[l], o.lines[l])])
    /\ AppendRows(Lines(o), [l \in Levels |-> LineMovements(o, l)])
    /\ UNCHANGED hold

Next ==
    \/ \E o \in Payloads :
          \/ ReserveStock(o)
          \/ AllocateStock(o)
          \/ CancelAllocation(o)
          \/ CommitStock(o)
          \/ ChangeStock(o)
    \/ \E ids \in SUBSET Ids : ReleaseHolds(ids)
    \/ \E ids \in SUBSET Ids : LapseHolds(ids)

Spec == Init /\ [][Next]_vars

=============================================================================
