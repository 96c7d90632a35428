---------------------------- MODULE StockDomain ----------------------------
(***************************************************************************)
(* The pure part of the inventory stock module: the methods of the domain  *)
(* classes StockLevel, Reservation and StockMovement, and what one attempt *)
(* of each use case computes from the rows it has read.  Nothing here is a *)
(* state: the operators take rows (or a record s with the fields s.level   *)
(* and s.hold, one function per table) and return rows.                    *)
(*                                                                         *)
(* A level is one (variant, location) pair, the key of a stock_level row.  *)
(* A hold is one reservation row; its key is (cart, variant, location), so *)
(* hold[l][c] is the only row cart c can have at level l.                  *)
(***************************************************************************)
EXTENDS Integers, FiniteSets

CONSTANTS
    Levels,     \* (variant, location) pairs
    Carts,      \* carts that may hold stock
    None        \* a NULL column

ASSUME FiniteTables == IsFiniteSet(Levels) /\ IsFiniteSet(Carts)

-----------------------------------------------------------------------------
(* Rows. *)

LevelRow == [onHand : Nat, allocated : Nat, reserved : Nat]

\* A level that nobody has written yet reads as a row of zeros.
InitialAt(onHand) == [onHand |-> onHand, allocated |-> 0, reserved |-> 0]

HoldStatus == {"none", "active", "committed", "released", "expired"}
HoldRow == [status : HoldStatus, quantity : Nat]
NoHold == [status |-> "none", quantity |-> 0]

Available(lv) == lv.onHand - lv.allocated - lv.reserved

\* What the level has promised to carts and orders.
Promised(lv) == lv.allocated + lv.reserved

\* The quantity a hold row keeps in quantity_reserved.
Held(h) == IF h.status = "active" THEN h.quantity ELSE 0

\* The units the holds of the carts in C stand for, one element per unit.
Units(holds, C) == UNION {{c} \X (1 .. holds[c].quantity) : c \in C}
ActiveCarts(holds) == {c \in Carts : holds[c].status = "active"}
HeldUnits(holds) == Units(holds, ActiveCarts(holds))

-----------------------------------------------------------------------------
(* The methods of StockLevel: a guard (the throw) and an effect each. *)

CanChangeOnHand(lv, d) == lv.onHand + d >= 0
ChangeOnHand(lv, d) == [lv EXCEPT !.onHand = @ + d]

\* Mutant of CanReserve: what is available is not looked at.
CanOverReserve(lv, q) == q > 0
CanReserve(lv, q) == q > 0 /\ q <= Available(lv)
Reserve(lv, q) == [lv EXCEPT !.reserved = @ + q]

CanReleaseReserved(lv, q) == q > 0 /\ q <= lv.reserved
ReleaseReserved(lv, q) == [lv EXCEPT !.reserved = @ - q]

CanAllocateFromReserved(lv, q) == q > 0 /\ q <= lv.reserved
AllocateFromReserved(lv, q) ==
    [lv EXCEPT !.reserved = @ - q, !.allocated = @ + q]

CanAllocateDirect(lv, q) == q > 0 /\ q <= Available(lv)
AllocateDirect(lv, q) == [lv EXCEPT !.allocated = @ + q]

CanReleaseAllocated(lv, q) == q > 0 /\ q <= lv.allocated
ReleaseAllocated(lv, q) == [lv EXCEPT !.allocated = @ - q]

CanCommitSale(lv, q) == q > 0 /\ q <= lv.allocated /\ q <= lv.onHand
CommitSale(lv, q) == [lv EXCEPT !.onHand = @ - q, !.allocated = @ - q]

-----------------------------------------------------------------------------
(* Requests.  lines[l] is the quantity (signed for an adjustment or a      *)
(* transfer) the payload carries for level l, 0 when it has no line there; *)
(* ids are the hold rows a release or a sweep chunk names, now the time a  *)
(* sweep started; ref is the order, fulfillment or return the request      *)
(* belongs to; key is the operationKey of a Cancel Allocation.             *)

Ids == Carts \X Levels

OnHandKinds == {"receive", "adjust", "transfer", "return"}
OpKinds == {"none", "reserve", "release", "sweep", "allocate", "cancel", "sale"}
           \cup OnHandKinds

\* The three writes whose ledger row makes a redelivery recognisable.
LedgeredKinds == {"cancel", "sale", "return"}

Lines(o) == {l \in Levels : o.lines[l] # 0}

-----------------------------------------------------------------------------
(* Reserve: one line, against the cart's own row at that level. *)

ReserveDelta(s, o, l) == o.lines[l] - Held(s.hold[l][o.cart])

CanReserveLine(s, o, l) ==
    /\ s.hold[l][o.cart].status # "committed"
    /\ ReserveDelta(s, o, l) > 0 => CanReserve(s.level[l], ReserveDelta(s, o, l))
    /\ ReserveDelta(s, o, l) < 0 =>
           CanReleaseReserved(s.level[l], -ReserveDelta(s, o, l))

ReserveRow(s, o, l) ==
    IF ReserveDelta(s, o, l) > 0
    THEN Reserve(s.level[l], ReserveDelta(s, o, l))
    ELSE ReleaseReserved(s.level[l], -ReserveDelta(s, o, l))

(* Allocate: a line takes over the cart's active hold, whole; when the     *)
(* quantities differ the hold goes back first and the line is allocated    *)
(* from what is available.                                                 *)

CanAllocateLine(s, o, l) ==
    LET q == o.lines[l]
        h == s.hold[l][o.cart]
    IN  /\ h.status # "committed"
        /\ IF Held(h) = q
           THEN CanAllocateFromReserved(s.level[l], q)
           ELSE /\ Held(h) > 0 => CanReleaseReserved(s.level[l], Held(h))
                /\ CanAllocateDirect(ReleaseReserved(s.level[l], Held(h)), q)

AllocateRow(s, o, l) ==
    LET q == o.lines[l]
        h == s.hold[l][o.cart]
    IN  IF Held(h) = q
        THEN AllocateFromReserved(s.level[l], q)
        ELSE AllocateDirect(ReleaseReserved(s.level[l], Held(h)), q)

(* Release and sweep: the named rows give their units back. *)

CartsAt(ids, l) == {c \in Carts : <<c, l>> \in ids}

CanFree(s, ids, l) ==
    /\ \A c \in CartsAt(ids, l) : s.hold[l][c].status = "active"
    /\ CanReleaseReserved(s.level[l],
                          Cardinality(Units(s.hold[l], CartsAt(ids, l))))

FreeRow(s, ids, l) ==
    ReleaseReserved(s.level[l], Cardinality(Units(s.hold[l], CartsAt(ids, l))))

LevelsOf(ids) == {l \in Levels : CartsAt(ids, l) # {}}

\* Reservation.isExpired: strictly before now.
IsExpired(expiry, now) == expiry < now

\* A sweep chunk skips the rows that are no longer active or not expired.
Due(s, ids, now) ==
    {id \in ids : /\ s.hold[id[2]][id[1]].status = "active"
                  /\ IsExpired(s.expiresAt[id[2]][id[1]], now)}

Freed(o, s) == IF o.kind = "sweep" THEN Due(s, o.ids, o.now) ELSE o.ids

\* The domain rules let request o through on the rows of s.
Accepts(o, s) ==
    /\ o.kind = "reserve" => \A l \in Lines(o) : CanReserveLine(s, o, l)
    /\ o.kind = "allocate" => \A l \in Lines(o) : CanAllocateLine(s, o, l)
    /\ o.kind = "cancel" =>
           \A l \in Lines(o) : CanReleaseAllocated(s.level[l], o.lines[l])
    /\ o.kind = "sale" => \A l \in Lines(o) : CanCommitSale(s.level[l], o.lines[l])
    /\ o.kind \in OnHandKinds =>
           \A l \in Lines(o) : CanChangeOnHand(s.level[l], o.lines[l])
    /\ o.kind \in {"release", "sweep"} =>
           \A l \in LevelsOf(Freed(o, s)) : CanFree(s, Freed(o, s), l)

-----------------------------------------------------------------------------
(* Ledger rows.  A quantity is negative for a row that takes units away.   *)

Movement(type, quantity, ref, key) ==
    [type |-> type, quantity |-> quantity, ref |-> ref, key |-> key]

\* Mutant of DedupeKey: the operation key is not part of the index.
DedupeByReference(m) ==
    IF m.type \in {"sale", "return"} THEN <<m.type, m.ref>> ELSE None

\* The generated column movement_dedupe_key, whose UNIQUE refuses a second
\* row.  The level is part of the key; the ledger is kept per level.
DedupeKey(m) ==
    CASE m.type \in {"sale", "return"}             -> <<m.type, m.ref>>
      [] m.type = "release" /\ m.key # None         -> <<"release", m.key>>
      [] OTHER                                       -> None

\* The rows one request appends at level l (a sale carries the fulfillment
\* as its reference, a return the return request).
LineMovements(o, l) ==
    LET q == o.lines[l]
    IN  CASE o.kind = "allocate" -> {Movement("allocation", -q, o.ref, None)}
          [] o.kind = "cancel"   -> {Movement("release", -q, o.ref, o.key)}
          [] o.kind = "sale"     -> {Movement("sale", -q, o.ref, None)}
          [] o.kind = "return"   -> {Movement("return", q, o.ref, None)}
          [] o.kind = "receive"  -> {Movement("receipt", q, None, None)}
          [] OTHER               -> {Movement("adjustment", q, None, None)}

\* One release row per hold, against the cart.
FreeMovements(s, ids, l) ==
    {Movement("release", -s.hold[l][c].quantity, c, None) : c \in CartsAt(ids, l)}

=============================================================================
