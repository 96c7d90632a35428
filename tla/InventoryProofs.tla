-------------------------- MODULE InventoryProofs --------------------------
(***************************************************************************)
(* Safety of Inventory for any number of handlers, sweepers, levels and    *)
(* carts, any quantities and any payloads that pass validation.            *)
(*                                                                         *)
(* ReservedMatchesHolds is not inductive: a commit writes what it computed *)
(* from a snapshot.  The invariant IInv adds what makes that safe: the     *)
(* snapshot of every open transaction satisfies the same equation, the     *)
(* domain rules accepted the request on it, and a level whose version has  *)
(* not moved since still is what the snapshot says it is.                  *)
(*                                                                         *)
(* The last part is about InventoryAutoInit, whose consumer of new         *)
(* variants overwrites counters without a look at the holds: IInv fails    *)
(* there, CountersInv, the part of it that a ledger needs, does not.       *)
(***************************************************************************)
EXTENDS InventoryAutoInit, FiniteSetTheorems, TLAPS

-----------------------------------------------------------------------------
(* The domain: how the units held at a level change when one hold or       *)
(* several change, and that the row each use case computes is sound        *)
(* whenever the row it started from was.                                   *)

HoldTable == [Carts -> HoldRow]

\* quantity_reserved is the sum of the active holds.
RowMatches(lv, hs) == lv.reserved = Cardinality(HeldUnits(hs))

\* A write of one level from the row lv and the holds hs to lv2 and hs2 that
\* breaks none of the rules of a level.
SoundWrite(lv, hs, lv2, hs2) ==
    /\ lv2 \in LevelRow
    /\ hs2 \in HoldTable
    /\ RowMatches(lv2, hs2)
    /\ Promised(lv2) > Promised(lv) => Available(lv2) >= 0
    /\ \A c \in Carts : hs[c].status = "committed" => hs2[c] = hs[c]

-----------------------------------------------------------------------------
(* Units. *)

\* The units of one cart are as many as the quantity of its hold.
LEMMA UnitsOfOne ==
    ASSUME NEW hs \in HoldTable, NEW c \in Carts
    PROVE  /\ IsFiniteSet({c} \X (1 .. hs[c].quantity))
           /\ Cardinality({c} \X (1 .. hs[c].quantity)) = hs[c].quantity
<1> DEFINE q == hs[c].quantity
<1>1. q \in Nat
      BY DEF HoldTable, HoldRow
<1>2. IsFiniteSet(1 .. q) /\ Cardinality(1 .. q) = q
      <2>1. IsFiniteSet(1 .. q) /\ Cardinality(1 .. q) = IF 1 > q THEN 0 ELSE q - 1 + 1
            <3> HIDE DEF q
            <3> QED BY <1>1, FS_Interval
      <2> HIDE DEF q
      <2> QED BY <1>1, <2>1
<1>3. IsFiniteSet({c}) /\ Cardinality({c}) = 1
      BY FS_Singleton
<1>4. IsFiniteSet({c} \X (1 .. q)) /\ Cardinality({c} \X (1 .. q)) = 1 * q
      <2> HIDE DEF q
      <2> QED BY <1>2, <1>3, FS_Product
<1> QED BY <1>1, <1>4

\* Any set of carts holds finitely many units.
LEMMA UnitsFinite ==
    ASSUME NEW hs \in HoldTable, NEW C \in SUBSET Carts
    PROVE  IsFiniteSet(Units(hs, C)) /\ Cardinality(Units(hs, C)) \in Nat
<1> DEFINE f == [c \in C |-> {c} \X (1 .. hs[c].quantity)]
           T == {{c} \X (1 .. hs[c].quantity) : c \in C}
<1>1. IsFiniteSet(C)
      BY FiniteTables, FS_Subset
<1>2. f \in Surjection(C, T)
      BY DEF Surjection
<1>3. IsFiniteSet(T)
      <2> HIDE DEF f, T
      <2> QED BY <1>1, <1>2, FS_Surjection
<1>4. \A S \in T : IsFiniteSet(S)
      BY UnitsOfOne
<1>5. IsFiniteSet(UNION T)
      <2> HIDE DEF T
      <2> QED BY <1>3, <1>4, FS_UNION
<1>6. IsFiniteSet(Units(hs, C))
      BY <1>5 DEF Units
<1> QED BY <1>6, FS_CardinalityType

\* The units of disjoint sets of carts add up.
LEMMA UnitsSplit ==
    ASSUME NEW hs \in HoldTable, NEW C \in SUBSET Carts, NEW D \in SUBSET Carts,
           C \cap D = {}
    PROVE  Cardinality(Units(hs, C \cup D))
             = Cardinality(Units(hs, C)) + Cardinality(Units(hs, D))
<1>1. Units(hs, C \cup D) = Units(hs, C) \cup Units(hs, D)
      BY DEF Units
<1>2. Units(hs, C) \cap Units(hs, D) = {}
      BY DEF Units
<1>3. /\ IsFiniteSet(Units(hs, C)) /\ Cardinality(Units(hs, C)) \in Nat
      /\ IsFiniteSet(Units(hs, D)) /\ Cardinality(Units(hs, D)) \in Nat
      BY UnitsFinite
<1>4. Cardinality(Units(hs, C) \cap Units(hs, D)) = 0
      BY <1>2, FS_EmptySet
<1> DEFINE U == Units(hs, C)
           V == Units(hs, D)
<1>5. Cardinality(U \cup V) = Cardinality(U) + Cardinality(V) - Cardinality(U \cap V)
      <2>1. IsFiniteSet(U) /\ IsFiniteSet(V)
            BY <1>3
      <2> HIDE DEF U, V
      <2> QED BY <2>1, FS_Union
<1>6. Cardinality(Units(hs, C \cup D)) = Cardinality(U \cup V)
      BY <1>1
<1>7. /\ Cardinality(U) \in Nat /\ Cardinality(V) \in Nat
      /\ Cardinality(U \cap V) = 0
      BY <1>3, <1>4
<1>8. Cardinality(U \cup V) = Cardinality(U) + Cardinality(V)
      <2> HIDE DEF U, V
      <2> QED BY <1>5, <1>7
<1> QED BY <1>6, <1>8

\* Only the quantities of the carts in C count.
LEMMA UnitsAgree ==
    ASSUME NEW hs, NEW hs2, NEW C \in SUBSET Carts,
           \A c \in C : hs[c].quantity = hs2[c].quantity
    PROVE  Units(hs, C) = Units(hs2, C)
BY DEF Units

\* A single cart with an active hold stands for as many units as Held says.
LEMMA UnitsSingle ==
    ASSUME NEW hs \in HoldTable, NEW c \in Carts
    PROVE  Cardinality(Units(hs, {c})) = hs[c].quantity
<1>1. Units(hs, {c}) = {c} \X (1 .. hs[c].quantity)
      BY DEF Units
<1> QED BY <1>1, UnitsOfOne

\* What a level holds for one cart, and for the others.
LEMMA HeldSplit ==
    ASSUME NEW hs \in HoldTable, NEW c \in Carts
    PROVE  /\ Held(hs[c]) \in Nat
           /\ Cardinality(Units(hs, ActiveCarts(hs) \ {c})) \in Nat
           /\ Cardinality(HeldUnits(hs))
                = Held(hs[c]) + Cardinality(Units(hs, ActiveCarts(hs) \ {c}))
<1> DEFINE A == ActiveCarts(hs)
<1>0. A \in SUBSET Carts /\ hs[c].quantity \in Nat
      BY DEF ActiveCarts, HoldTable, HoldRow
<1>1. Cardinality(Units(hs, A \ {c})) \in Nat
      BY <1>0, UnitsFinite
<1>2. CASE c \in A
      <2>1. A = {c} \cup (A \ {c})
            BY <1>2
      <2>2. Cardinality(Units(hs, {c} \cup (A \ {c})))
              = Cardinality(Units(hs, {c})) + Cardinality(Units(hs, A \ {c}))
            BY <1>0, UnitsSplit
      <2>3. Held(hs[c]) = hs[c].quantity
            BY <1>2 DEF Held, ActiveCarts
      <2> QED BY <1>0, <1>1, <2>1, <2>2, <2>3, UnitsSingle DEF HeldUnits
<1>3. CASE c \notin A
      <2>1. A \ {c} = A
            BY <1>3
      <2>2. Held(hs[c]) = 0
            BY <1>3 DEF Held, ActiveCarts
      <2> QED BY <1>1, <2>1, <2>2 DEF HeldUnits
<1> QED BY <1>2, <1>3

\* Changing the row of one cart moves the total by the change of that row.
LEMMA HeldChange ==
    ASSUME NEW hs \in HoldTable, NEW hs2 \in HoldTable, NEW c \in Carts,
           \A d \in Carts \ {c} : hs2[d] = hs[d]
    PROVE  /\ Held(hs[c]) \in Nat /\ Held(hs2[c]) \in Nat
           /\ Cardinality(HeldUnits(hs)) \in Nat
           /\ Held(hs[c]) <= Cardinality(HeldUnits(hs))
           /\ Cardinality(HeldUnits(hs2))
                = Cardinality(HeldUnits(hs)) - Held(hs[c]) + Held(hs2[c])
<1>1. ActiveCarts(hs2) \ {c} = ActiveCarts(hs) \ {c}
      BY DEF ActiveCarts
<1>2. Units(hs2, ActiveCarts(hs2) \ {c}) = Units(hs, ActiveCarts(hs) \ {c})
      BY <1>1 DEF Units, ActiveCarts
<1> QED BY <1>2, HeldSplit

\* Taking away the status of a set of active holds takes away their units.
LEMMA HeldFreed ==
    ASSUME NEW hs \in HoldTable, NEW hs2 \in HoldTable, NEW C \in SUBSET Carts,
           \A c \in C : hs[c].status = "active" /\ hs2[c].status # "active",
           \A c \in Carts \ C : hs2[c] = hs[c]
    PROVE  /\ Cardinality(Units(hs, C)) \in Nat
           /\ Cardinality(HeldUnits(hs2)) \in Nat
           /\ Cardinality(HeldUnits(hs))
                = Cardinality(HeldUnits(hs2)) + Cardinality(Units(hs, C))
<1> DEFINE A == ActiveCarts(hs)
<1>1. ActiveCarts(hs2) = A \ C
      BY DEF ActiveCarts
<1>2. Units(hs2, A \ C) = Units(hs, A \ C)
      BY DEF Units, ActiveCarts
<1>3. A = (A \ C) \cup C /\ A \ C \in SUBSET Carts
      BY DEF ActiveCarts
<1>4. Cardinality(Units(hs, (A \ C) \cup C))
        = Cardinality(Units(hs, A \ C)) + Cardinality(Units(hs, C))
      <2>1. (A \ C) \cap C = {}
            OBVIOUS
      <2> QED BY <1>3, <2>1, UnitsSplit
<1>5. Cardinality(Units(hs, C)) \in Nat /\ Cardinality(Units(hs, A \ C)) \in Nat
      BY <1>3, UnitsFinite
<1> QED BY <1>1, <1>2, <1>3, <1>4, <1>5 DEF HeldUnits

-----------------------------------------------------------------------------
(* Rows. *)

\* Each method of StockLevel moves the counters it names; the row stays a
\* row as long as the counter does not go below zero.
LEMMA CounterMoves ==
    ASSUME NEW lv \in LevelRow, NEW q \in Int
    PROVE  /\ lv.onHand \in Nat /\ lv.allocated \in Nat /\ lv.reserved \in Nat
           /\ lv.reserved + q >= 0 =>
                 /\ Reserve(lv, q) \in LevelRow
                 /\ Reserve(lv, q).reserved = lv.reserved + q
                 /\ Reserve(lv, q).allocated = lv.allocated
                 /\ Reserve(lv, q).onHand = lv.onHand
           /\ lv.reserved - q >= 0 =>
                 /\ ReleaseReserved(lv, q) \in LevelRow
                 /\ ReleaseReserved(lv, q).reserved = lv.reserved - q
                 /\ ReleaseReserved(lv, q).allocated = lv.allocated
                 /\ ReleaseReserved(lv, q).onHand = lv.onHand
           /\ lv.allocated + q >= 0 =>
                 /\ AllocateDirect(lv, q) \in LevelRow
                 /\ AllocateDirect(lv, q).reserved = lv.reserved
                 /\ AllocateDirect(lv, q).allocated = lv.allocated + q
                 /\ AllocateDirect(lv, q).onHand = lv.onHand
           /\ lv.allocated - q >= 0 =>
                 /\ ReleaseAllocated(lv, q) \in LevelRow
                 /\ ReleaseAllocated(lv, q).reserved = lv.reserved
                 /\ ReleaseAllocated(lv, q).allocated = lv.allocated - q
                 /\ ReleaseAllocated(lv, q).onHand = lv.onHand
           /\ lv.onHand + q >= 0 =>
                 /\ ChangeOnHand(lv, q) \in LevelRow
                 /\ ChangeOnHand(lv, q).reserved = lv.reserved
                 /\ ChangeOnHand(lv, q).allocated = lv.allocated
                 /\ ChangeOnHand(lv, q).onHand = lv.onHand + q
<1>1. lv.onHand \in Nat /\ lv.allocated \in Nat /\ lv.reserved \in Nat
      BY DEF LevelRow
<1>2. lv.reserved + q >= 0 =>
        /\ Reserve(lv, q) \in LevelRow
        /\ Reserve(lv, q).reserved = lv.reserved + q
        /\ Reserve(lv, q).allocated = lv.allocated
        /\ Reserve(lv, q).onHand = lv.onHand
      BY DEF LevelRow, Reserve
<1>3. lv.reserved - q >= 0 =>
        /\ ReleaseReserved(lv, q) \in LevelRow
        /\ ReleaseReserved(lv, q).reserved = lv.reserved - q
        /\ ReleaseReserved(lv, q).allocated = lv.allocated
        /\ ReleaseReserved(lv, q).onHand = lv.onHand
      BY DEF LevelRow, ReleaseReserved
<1>4. lv.allocated + q >= 0 =>
        /\ AllocateDirect(lv, q) \in LevelRow
        /\ AllocateDirect(lv, q).reserved = lv.reserved
        /\ AllocateDirect(lv, q).allocated = lv.allocated + q
        /\ AllocateDirect(lv, q).onHand = lv.onHand
      BY DEF LevelRow, AllocateDirect
<1>5. lv.allocated - q >= 0 =>
        /\ ReleaseAllocated(lv, q) \in LevelRow
        /\ ReleaseAllocated(lv, q).reserved = lv.reserved
        /\ ReleaseAllocated(lv, q).allocated = lv.allocated - q
        /\ ReleaseAllocated(lv, q).onHand = lv.onHand
      BY DEF LevelRow, ReleaseAllocated
<1>6. lv.onHand + q >= 0 =>
        /\ ChangeOnHand(lv, q) \in LevelRow
        /\ ChangeOnHand(lv, q).reserved = lv.reserved
        /\ ChangeOnHand(lv, q).allocated = lv.allocated
        /\ ChangeOnHand(lv, q).onHand = lv.onHand + q
      BY DEF LevelRow, ChangeOnHand
<1> QED BY <1>1, <1>2, <1>3, <1>4, <1>5, <1>6

\* The two methods that move two counters, one counter at a time.
LEMMA TwoCounterMoves ==
    ASSUME NEW lv \in LevelRow, NEW q \in Int
    PROVE  /\ AllocateFromReserved(lv, q) = AllocateDirect(ReleaseReserved(lv, q), q)
           /\ CommitSale(lv, q) = ChangeOnHand(ReleaseAllocated(lv, q), -q)
<1>1. AllocateFromReserved(lv, q) = AllocateDirect(ReleaseReserved(lv, q), q)
      BY DEF LevelRow, AllocateFromReserved, AllocateDirect, ReleaseReserved
<1>2. CommitSale(lv, q) = ChangeOnHand(ReleaseAllocated(lv, q), -q)
      BY DEF LevelRow, CommitSale, ChangeOnHand, ReleaseAllocated
<1> QED BY <1>1, <1>2

\* Changing the status of a hold leaves a hold row.
LEMMA StatusMoves ==
    ASSUME NEW h \in HoldRow, NEW status \in HoldStatus
    PROVE  [h EXCEPT !.status = status] \in HoldRow
BY DEF HoldRow

\* What an allocated line does to a row, given the units h its cart held.
LEMMA AllocateEffect ==
    ASSUME NEW lv \in LevelRow, NEW q \in Nat, NEW h \in Nat, NEW lv2,
           h <= lv.reserved,
           \/ h = q /\ lv2 = AllocateFromReserved(lv, q)
           \/ /\ h # q
              /\ CanAllocateDirect(ReleaseReserved(lv, h), q)
              /\ lv2 = AllocateDirect(ReleaseReserved(lv, h), q)
    PROVE  /\ lv2 \in LevelRow
           /\ lv2.reserved = lv.reserved - h
           /\ lv2.allocated = lv.allocated + q /\ lv2.onHand = lv.onHand
           /\ Promised(lv2) > Promised(lv) => Available(lv2) >= 0
<1> DEFINE mid == ReleaseReserved(lv, h)
<1>1. lv2 = AllocateDirect(mid, q)
      BY TwoCounterMoves
<1>2. /\ mid \in LevelRow /\ mid.reserved = lv.reserved - h
      /\ mid.allocated = lv.allocated /\ mid.onHand = lv.onHand
      BY CounterMoves
<1>3. /\ lv2 \in LevelRow /\ lv2.reserved = mid.reserved
      /\ lv2.allocated = mid.allocated + q /\ lv2.onHand = mid.onHand
      <2>1. mid.allocated + q >= 0
            BY <1>2, CounterMoves
      <2> HIDE DEF mid
      <2> QED BY <1>1, <1>2, <2>1, CounterMoves
<1>4. h # q => q <= Available(mid)
      BY DEF CanAllocateDirect
<1>5. /\ lv.onHand \in Nat /\ lv.allocated \in Nat /\ lv.reserved \in Nat
      BY CounterMoves
<1> HIDE DEF mid
<1> QED BY <1>2, <1>3, <1>4, <1>5 DEF Promised, Available

\* What a reserved line does to a row, given the units h its cart held.
LEMMA ReserveEffect ==
    ASSUME NEW lv \in LevelRow, NEW q \in Nat, NEW h \in Nat, NEW lv2,
           \/ q - h > 0 /\ CanReserve(lv, q - h) /\ lv2 = Reserve(lv, q - h)
           \/ q - h < 0 /\ CanReleaseReserved(lv, -(q - h)) /\ lv2 = ReleaseReserved(lv, -(q - h))
    PROVE  /\ lv2 \in LevelRow
           /\ lv2.reserved = lv.reserved + q - h
           /\ Promised(lv2) > Promised(lv) => Available(lv2) >= 0
<1>1. lv.onHand \in Nat /\ lv.allocated \in Nat /\ lv.reserved \in Nat
      BY CounterMoves
<1>2. CASE q - h > 0 /\ CanReserve(lv, q - h) /\ lv2 = Reserve(lv, q - h)
      <2>1. /\ lv2 \in LevelRow /\ lv2.reserved = lv.reserved + (q - h)
            /\ lv2.allocated = lv.allocated /\ lv2.onHand = lv.onHand
            BY <1>1, <1>2, CounterMoves
      <2> QED BY <1>1, <1>2, <2>1 DEF CanReserve, Promised, Available
<1>3. CASE q - h < 0 /\ CanReleaseReserved(lv, -(q - h)) /\ lv2 = ReleaseReserved(lv, -(q - h))
      <2>1. lv.reserved - (-(q - h)) >= 0
            BY <1>1, <1>3 DEF CanReleaseReserved
      <2>2. /\ lv2 \in LevelRow /\ lv2.reserved = lv.reserved - (-(q - h))
            /\ lv2.allocated = lv.allocated /\ lv2.onHand = lv.onHand
            BY <1>3, <2>1, CounterMoves
      <2> QED BY <1>1, <1>3, <2>2 DEF Promised, Available
<1> QED BY <1>2, <1>3

-----------------------------------------------------------------------------
(* The rows the use cases compute are sound. *)

\* Reserve: one cart's hold becomes active at the quantity of the line.
LEMMA ReserveIsSound ==
    ASSUME NEW s, NEW o, NEW l \in Levels, NEW c \in Carts,
           s.level[l] \in LevelRow, s.hold[l] \in HoldTable,
           RowMatches(s.level[l], s.hold[l]),
           o.cart = c, o.lines[l] \in Nat, ReserveDelta(s, o, l) # 0,
           CanReserveLine(s, o, l)
    PROVE  SoundWrite(s.level[l], s.hold[l], ReserveRow(s, o, l),
               [s.hold[l] EXCEPT ![c] = [status |-> "active", quantity |-> o.lines[l]]])
<1> DEFINE lv == s.level[l]
           hs == s.hold[l]
           q == o.lines[l]
           hs2 == [hs EXCEPT ![c] = [status |-> "active", quantity |-> q]]
           lv2 == ReserveRow(s, o, l)
<1>1. hs2 \in HoldTable /\ hs2[c] = [status |-> "active", quantity |-> q]
      BY DEF HoldTable, HoldRow, HoldStatus
<1>2. \A d \in Carts \ {c} : hs2[d] = hs[d]
      BY DEF HoldTable
<1>3. Held(hs2[c]) = q
      BY <1>1 DEF Held
<1>4. /\ Held(hs[c]) \in Nat
      /\ Cardinality(HeldUnits(hs)) \in Nat
      /\ Held(hs[c]) <= Cardinality(HeldUnits(hs))
      /\ Cardinality(HeldUnits(hs2)) = Cardinality(HeldUnits(hs)) - Held(hs[c]) + q
      <2> HIDE DEF hs2
      <2> QED BY <1>1, <1>2, <1>3, HeldChange
<1>5. ReserveDelta(s, o, l) = q - Held(hs[c])
      BY DEF ReserveDelta
<1>6. /\ lv2 \in LevelRow
      /\ lv2.reserved = lv.reserved + q - Held(hs[c])
      /\ Promised(lv2) > Promised(lv) => Available(lv2) >= 0
      <2>1. \/ /\ q - Held(hs[c]) > 0 /\ CanReserve(lv, q - Held(hs[c]))
               /\ lv2 = Reserve(lv, q - Held(hs[c]))
            \/ /\ q - Held(hs[c]) < 0 /\ CanReleaseReserved(lv, -(q - Held(hs[c])))
               /\ lv2 = ReleaseReserved(lv, -(q - Held(hs[c])))
            BY <1>4, <1>5 DEF ReserveRow, CanReserveLine
      <2> HIDE DEF lv, hs, q, lv2
      <2> QED BY <1>4, <2>1, ReserveEffect DEF lv, q
<1>7. RowMatches(lv2, hs2)
      BY <1>4, <1>6 DEF RowMatches, LevelRow
<1>9. \A d \in Carts : hs[d].status = "committed" => hs2[d] = hs[d]
      BY <1>2 DEF CanReserveLine
<1> QED BY <1>1, <1>6, <1>7, <1>9 DEF SoundWrite

\* Release and sweep: the named holds give their units back.
LEMMA FreeIsSound ==
    ASSUME NEW s, NEW ids \in SUBSET Ids, NEW l \in Levels, NEW hs2 \in HoldTable,
           NEW status \in {"released", "expired"},
           s.level[l] \in LevelRow, s.hold[l] \in HoldTable,
           RowMatches(s.level[l], s.hold[l]),
           CanFree(s, ids, l),
           \A c \in Carts : hs2[c] = IF <<c, l>> \in ids
                                    THEN [s.hold[l][c] EXCEPT !.status = status]
                                    ELSE s.hold[l][c]
    PROVE  SoundWrite(s.level[l], s.hold[l], FreeRow(s, ids, l), hs2)
<1> DEFINE lv == s.level[l]
           hs == s.hold[l]
           C == CartsAt(ids, l)
           lv2 == FreeRow(s, ids, l)
<1>1. C \in SUBSET Carts
      BY DEF CartsAt
<1>2. \A c \in C : hs[c].status = "active" /\ hs2[c].status # "active"
      BY DEF CartsAt, CanFree, HoldTable, HoldRow
<1>3. \A c \in Carts \ C : hs2[c] = hs[c]
      BY DEF CartsAt
<1>4. /\ Cardinality(Units(hs, C)) \in Nat
      /\ Cardinality(HeldUnits(hs2)) \in Nat
      /\ Cardinality(HeldUnits(hs))
           = Cardinality(HeldUnits(hs2)) + Cardinality(Units(hs, C))
      <2> HIDE DEF C
      <2> QED BY <1>1, <1>2, <1>3, HeldFreed
<1>5. /\ lv2 \in LevelRow
      /\ lv2.reserved = lv.reserved - Cardinality(Units(hs, C))
      /\ lv2.onHand = lv.onHand /\ lv2.allocated = lv.allocated
      BY <1>4 DEF FreeRow, ReleaseReserved, CanFree, CanReleaseReserved, LevelRow
<1>6. RowMatches(lv2, hs2)
      BY <1>4, <1>5 DEF RowMatches, LevelRow
<1>7. ~(Promised(lv2) > Promised(lv))
      BY <1>4, <1>5 DEF Promised, LevelRow
<1>8. \A c \in Carts : hs[c].status = "committed" => hs2[c] = hs[c]
      BY <1>2, <1>3
<1> QED BY <1>5, <1>6, <1>7, <1>8 DEF SoundWrite

\* Allocate: the cart's active hold, if there is one, becomes committed.
LEMMA AllocateIsSound ==
    ASSUME NEW s, NEW o, NEW l \in Levels, NEW c \in Carts, NEW hs2 \in HoldTable,
           s.level[l] \in LevelRow, s.hold[l] \in HoldTable,
           RowMatches(s.level[l], s.hold[l]),
           o.cart = c, o.lines[l] \in Nat,
           CanAllocateLine(s, o, l),
           hs2[c] = IF s.hold[l][c].status = "active"
                    THEN [s.hold[l][c] EXCEPT !.status = "committed"]
                    ELSE s.hold[l][c],
           \A d \in Carts \ {c} : hs2[d] = s.hold[l][d]
    PROVE  SoundWrite(s.level[l], s.hold[l], AllocateRow(s, o, l), hs2)
<1> DEFINE lv == s.level[l]
           hs == s.hold[l]
           q == o.lines[l]
           lv2 == AllocateRow(s, o, l)
<1>1. Held(hs2[c]) = 0
      BY DEF Held, HoldTable, HoldRow
<1>2. /\ Held(hs[c]) \in Nat
      /\ Cardinality(HeldUnits(hs)) \in Nat
      /\ Held(hs[c]) <= Cardinality(HeldUnits(hs))
      /\ Cardinality(HeldUnits(hs2)) = Cardinality(HeldUnits(hs)) - Held(hs[c])
      BY <1>1, HeldChange
<1>3. /\ lv2 \in LevelRow
      /\ lv2.reserved = lv.reserved - Held(hs[c])
      /\ Promised(lv2) > Promised(lv) => Available(lv2) >= 0
      <2>1. Held(hs[c]) <= lv.reserved
            BY <1>2 DEF RowMatches
      <2>2. \/ Held(hs[c]) = q /\ lv2 = AllocateFromReserved(lv, q)
            \/ /\ Held(hs[c]) # q
               /\ CanAllocateDirect(ReleaseReserved(lv, Held(hs[c])), q)
               /\ lv2 = AllocateDirect(ReleaseReserved(lv, Held(hs[c])), q)
            BY DEF AllocateRow, CanAllocateLine
      <2> HIDE DEF lv, hs, q, lv2
      <2> QED BY <1>2, <2>1, <2>2, AllocateEffect DEF lv, q
<1>4. RowMatches(lv2, hs2)
      BY <1>2, <1>3 DEF RowMatches, LevelRow
<1>5. \A d \in Carts : hs[d].status = "committed" => hs2[d] = hs[d]
      OBVIOUS
<1> QED BY <1>3, <1>4, <1>5 DEF SoundWrite

\* Cancel, Commit Sale and the on-hand changes leave holds and
\* quantity_reserved alone and promise nothing.
LEMMA CountersAreSound ==
    ASSUME NEW lv \in LevelRow, NEW hs \in HoldTable, RowMatches(lv, hs), NEW q \in Int
    PROVE  /\ CanReleaseAllocated(lv, q) => SoundWrite(lv, hs, ReleaseAllocated(lv, q), hs)
           /\ CanCommitSale(lv, q) => SoundWrite(lv, hs, CommitSale(lv, q), hs)
           /\ CanChangeOnHand(lv, q) => SoundWrite(lv, hs, ChangeOnHand(lv, q), hs)
<1>1. CanReleaseAllocated(lv, q) => SoundWrite(lv, hs, ReleaseAllocated(lv, q), hs)
      BY DEF CanReleaseAllocated, ReleaseAllocated, SoundWrite, RowMatches, LevelRow, Promised
<1>2. ASSUME CanCommitSale(lv, q)
      PROVE  SoundWrite(lv, hs, CommitSale(lv, q), hs)
      <2> DEFINE mid == ReleaseAllocated(lv, q)
                 lv2 == ChangeOnHand(mid, -q)
      <2>1. /\ q \in Nat /\ q <= lv.allocated /\ q <= lv.onHand
            /\ lv.onHand \in Nat /\ lv.allocated \in Nat /\ lv.reserved \in Nat
            BY <1>2, CounterMoves DEF CanCommitSale
      <2>2. /\ mid \in LevelRow /\ mid.reserved = lv.reserved
            /\ mid.allocated = lv.allocated - q /\ mid.onHand = lv.onHand
            BY <2>1 DEF LevelRow, ReleaseAllocated
      <2>3. /\ lv2 \in LevelRow /\ lv2.reserved = mid.reserved
            /\ lv2.allocated = mid.allocated
            <3>1. -q \in Int /\ mid.onHand + (-q) >= 0
                  BY <2>1, <2>2
            <3> HIDE DEF mid
            <3> QED BY <2>2, <3>1, CounterMoves
      <2>4. RowMatches(lv2, hs)
            BY <2>2, <2>3 DEF RowMatches
      <2>5. ~(Promised(lv2) > Promised(lv))
            BY <2>1, <2>2, <2>3 DEF Promised
      <2>6. SoundWrite(lv, hs, lv2, hs)
            BY <2>3, <2>4, <2>5 DEF SoundWrite
      <2> QED BY <2>6, TwoCounterMoves
<1>3. CanChangeOnHand(lv, q) => SoundWrite(lv, hs, ChangeOnHand(lv, q), hs)
      BY DEF CanChangeOnHand, ChangeOnHand, SoundWrite, RowMatches, LevelRow, Promised
<1> QED BY <1>1, <1>2, <1>3

-----------------------------------------------------------------------------
(* The transactions. *)

\* A request that a slot may be working on.
OpSound(r) ==
    /\ op[r].kind \in {"reserve", "allocate"} => op[r].cart \in Carts
    /\ op[r].kind \notin {"adjust", "transfer"} =>
           \A l \in Levels : op[r].lines[l] >= 0

\* What an open transaction may rely on when it writes.
OpenSound(r) ==
    pc[r] = "open" =>
        /\ Accepts(op[r], seen[r])
        /\ \A l \in Levels :
              /\ RowMatches(seen[r].level[l], seen[r].hold[l])
              /\ seen[r].version[l] <= version[l]

IInv ==
    /\ TypeOK
    /\ \A r \in Slots : OpSound(r)
    /\ \A r \in Slots : OpenSound(r)
    /\ SnapshotStillTrue
    /\ ReservedMatchesHolds

-----------------------------------------------------------------------------
(* Steps. *)

\* The tables stay, or some levels are written soundly and their versions
\* move on.
SoundTables ==
    /\ level' \in [Levels -> LevelRow]
    /\ version' \in [Levels -> Nat]
    /\ hold' \in [Levels -> HoldTable]
    /\ expiresAt' \in [Levels -> [Carts -> Nat]]
    /\ \A l \in Levels :
          \/ /\ level'[l] = level[l] /\ hold'[l] = hold[l]
             /\ version'[l] = version[l]
          \/ /\ SoundWrite(level[l], hold[l], level'[l], hold'[l])
             /\ version'[l] = version[l] + 1

\* The bookkeeping keeps its types.
SoundSlots ==
    /\ clock' \in Nat
    /\ pc' \in [Slots -> {"idle", "ready", "open"}]
    /\ op' \in [Slots -> Op]
    /\ attempt' \in [Slots -> Nat]
    /\ seen' \in [Slots -> Snapshot]
    /\ batch' \in [Sweepers -> [ids : SUBSET Ids, now : Nat]]
    /\ \A r \in Slots : OpSound(r)'

\* What the slots' own steps rely on.
SlotsTyped == TypeOK /\ \A r \in Slots : OpSound(r)

\* A transaction that is open after the step was open before it.
SlotKept(r) ==
    pc'[r] = "open" => pc[r] = "open" /\ op'[r] = op[r] /\ seen'[r] = seen[r]

\* Such a step keeps the invariant.
LEMMA StepKeepsIInv ==
    ASSUME IInv, SoundTables, SoundSlots, \A r \in Slots : SlotKept(r)
    PROVE  IInv'
<1>1. TypeOK'
      BY DEF SoundTables, SoundSlots, TypeOK, HoldTable
<1>2. (\A r \in Slots : OpSound(r))'
      BY DEF SoundSlots
<1>3. ASSUME NEW l \in Levels
      PROVE  version[l] \in Nat /\ version'[l] \in Nat /\ version[l] <= version'[l]
      BY DEF SoundTables, IInv, TypeOK
<1>4. ASSUME NEW r \in Slots
      PROVE  OpenSound(r)'
      <2> SUFFICES ASSUME pc'[r] = "open"
                   PROVE  /\ Accepts(op'[r], seen'[r])
                          /\ \A l \in Levels :
                                /\ RowMatches(seen'[r].level[l], seen'[r].hold[l])
                                /\ seen'[r].version[l] <= version'[l]
            BY DEF OpenSound
      <2>1. pc[r] = "open" /\ op'[r] = op[r] /\ seen'[r] = seen[r]
            BY DEF SlotKept
      <2>2. /\ Accepts(op[r], seen[r])
            /\ \A l \in Levels :
                  /\ RowMatches(seen[r].level[l], seen[r].hold[l])
                  /\ seen[r].version[l] <= version[l]
            BY <2>1 DEF IInv, OpenSound
      <2>3. \A l \in Levels : seen[r].version[l] \in Nat
            BY DEF IInv, TypeOK, Snapshot
      <2> QED BY <1>3, <2>1, <2>2, <2>3
<1>5. SnapshotStillTrue'
      <2> SUFFICES ASSUME NEW r \in Slots, pc'[r] = "open", NEW l \in Levels,
                          version'[l] = seen'[r].version[l]
                   PROVE  level'[l] = seen'[r].level[l] /\ hold'[l] = seen'[r].hold[l]
            BY DEF SnapshotStillTrue, VersionMatches
      <2>1. pc[r] = "open" /\ seen'[r] = seen[r]
            BY DEF SlotKept
      <2>2. seen[r].version[l] <= version[l] /\ seen[r].version[l] \in Nat
            BY <2>1 DEF IInv, OpenSound, TypeOK, Snapshot
      <2>3. version'[l] = version[l] /\ level'[l] = level[l] /\ hold'[l] = hold[l]
            BY <1>3, <2>1, <2>2 DEF SoundTables
      <2> QED BY <2>1, <2>3 DEF IInv, SnapshotStillTrue, VersionMatches
<1>6. ReservedMatchesHolds'
      BY DEF SoundTables, SoundWrite, RowMatches, IInv, ReservedMatchesHolds
<1> QED BY <1>1, <1>2, <1>4, <1>5, <1>6 DEF IInv

-----------------------------------------------------------------------------
(* What a commit starts from. *)

\* Every level an open transaction is about to write is still the one its
\* snapshot shows.
LEMMA CommitFacts ==
    ASSUME IInv, NEW r \in Slots, pc[r] = "open", Current(r)
    PROVE  /\ op[r] \in Op /\ OpSound(r) /\ Accepts(op[r], seen[r])
           /\ Written(r) \subseteq Levels
           /\ \A l \in Written(r) :
                 /\ seen[r].level[l] = level[l] /\ level[l] \in LevelRow
                 /\ seen[r].hold[l] = hold[l] /\ hold[l] \in HoldTable
                 /\ RowMatches(level[l], hold[l])
<1>1. op[r] \in Op /\ OpSound(r) /\ Accepts(op[r], seen[r])
      BY DEF IInv, TypeOK, OpenSound
<1>2. Written(r) \subseteq Levels
      BY DEF Written, Lines, LevelsOf
<1>3. ASSUME NEW l \in Written(r)
      PROVE  /\ seen[r].level[l] = level[l] /\ level[l] \in LevelRow
             /\ seen[r].hold[l] = hold[l] /\ hold[l] \in HoldTable
             /\ RowMatches(level[l], hold[l])
      <2>1. VersionMatches(r, l) /\ l \in Levels
            BY <1>2, <1>3 DEF Current
      <2>2. seen[r].level[l] = level[l] /\ seen[r].hold[l] = hold[l]
            BY <2>1 DEF IInv, SnapshotStillTrue
      <2>3. level[l] \in LevelRow /\ hold[l] \in HoldTable
            BY <2>1 DEF IInv, TypeOK, HoldTable
      <2>4. RowMatches(level[l], hold[l])
            BY <2>1 DEF IInv, ReservedMatchesHolds, RowMatches
      <2> QED BY <2>2, <2>3, <2>4
<1> QED BY <1>1, <1>2, <1>3

\* To show that a commit is sound it is enough to look at the levels written.
LEMMA PersistIsSound ==
    ASSUME IInv, NEW r \in Slots, NEW rows, PersistLevels(r, rows),
           Written(r) \subseteq Levels,
           hold' \in [Levels -> HoldTable],
           expiresAt' \in [Levels -> [Carts -> Nat]],
           \A l \in Written(r) : SoundWrite(level[l], hold[l], rows[l], hold'[l]),
           \A l \in Levels \ Written(r) : hold'[l] = hold[l]
    PROVE  SoundTables
<1>1. level \in [Levels -> LevelRow] /\ version \in [Levels -> Nat]
      BY DEF IInv, TypeOK
<1>2. ASSUME NEW l \in Levels
      PROVE  /\ level'[l] = IF l \in Written(r) THEN rows[l] ELSE level[l]
             /\ version'[l] = IF l \in Written(r) THEN version[l] + 1 ELSE version[l]
      BY DEF PersistLevels
<1>3. version' \in [Levels -> Nat]
      BY <1>1 DEF PersistLevels
<1>4. level' \in [Levels -> LevelRow]
      <2>1. \A l \in Levels : level'[l] \in LevelRow
            BY <1>1, <1>2 DEF SoundWrite
      <2> QED BY <2>1 DEF PersistLevels
<1> QED BY <1>2, <1>3, <1>4 DEF SoundTables

-----------------------------------------------------------------------------
(* The commit actions. *)

\* The commit of a Reserve keeps counters, holds and versions together.
LEMMA ReserveOnceIsSound ==
    ASSUME IInv, NEW r \in Slots, ReserveOnce(r)
    PROVE  SoundTables
<1> DEFINE o == op[r]
           s == seen[r]
<1>1. pc[r] = "open" /\ Current(r) /\ o.kind = "reserve"
      BY DEF ReserveOnce, Committing
<1>2. /\ o \in Op /\ o.cart \in Carts /\ Accepts(o, s)
      /\ \A l \in Levels : o.lines[l] \in Nat
      /\ Written(r) \subseteq Levels
      /\ \A l \in Written(r) :
            /\ s.level[l] = level[l] /\ level[l] \in LevelRow
            /\ s.hold[l] = hold[l] /\ hold[l] \in HoldTable
            /\ RowMatches(level[l], hold[l])
      BY <1>1, CommitFacts DEF OpSound, Op
<1>3. Written(r) = {l \in Lines(o) : ReserveDelta(s, o, l) # 0}
      BY <1>1 DEF Written
<1>4. /\ \A l \in Written(r) :
            hold'[l] = [hold[l] EXCEPT ![o.cart] =
                           [status |-> "active", quantity |-> o.lines[l]]]
      /\ \A l \in Levels \ Written(r) : hold'[l] = hold[l]
      BY <1>2 DEF ReserveOnce
<1>5. ASSUME NEW l \in Written(r)
      PROVE  SoundWrite(level[l], hold[l], ReserveRow(s, o, l), hold'[l])
      <2>1. CanReserveLine(s, o, l) /\ ReserveDelta(s, o, l) # 0
            BY <1>1, <1>2, <1>3 DEF Accepts
      <2>2. SoundWrite(s.level[l], s.hold[l], ReserveRow(s, o, l),
                [s.hold[l] EXCEPT ![o.cart] =
                    [status |-> "active", quantity |-> o.lines[l]]])
            <3> HIDE DEF o, s
            <3> QED BY <1>2, <2>1, ReserveIsSound
      <2> QED BY <1>2, <1>4, <2>2
<1>6. hold' \in [Levels -> HoldTable]
      <2>1. \A l \in Levels : hold'[l] \in HoldTable
            BY <1>4, <1>5 DEF SoundWrite, IInv, TypeOK, HoldTable
      <2> QED BY <2>1 DEF ReserveOnce
<1>7. expiresAt' \in [Levels -> [Carts -> Nat]]
      <2>1. s.now + TTL \in Nat
            BY Budgets DEF IInv, TypeOK, Snapshot
      <2> QED BY <2>1 DEF ReserveOnce, IInv, TypeOK
<1>8. PersistLevels(r, [l \in Levels |-> ReserveRow(s, o, l)])
      BY DEF ReserveOnce
<1>9. \A l \in Written(r) :
         SoundWrite(level[l], hold[l], [k \in Levels |-> ReserveRow(s, o, k)][l], hold'[l])
      BY <1>2, <1>5
<1> HIDE DEF o, s
<1> QED BY <1>2, <1>4, <1>6, <1>7, <1>8, <1>9, PersistIsSound

\* A save of a status leaves the other rows, and the other levels, alone.
LEMMA SavedHolds ==
    ASSUME TypeOK, NEW ids \in SUBSET Ids, NEW status \in HoldStatus, SaveStatus(ids, status)
    PROVE  /\ hold' \in [Levels -> HoldTable]
           /\ \A l \in Levels, c \in Carts :
                 hold'[l][c] = IF <<c, l>> \in ids THEN [hold[l][c] EXCEPT !.status = status]
                                                  ELSE hold[l][c]
           /\ \A l \in Levels : CartsAt(ids, l) = {} => hold'[l] = hold[l]
<1>1. hold' = [l \in Levels |-> [c \in Carts |->
                  IF <<c, l>> \in ids THEN [hold[l][c] EXCEPT !.status = status]
                                      ELSE hold[l][c]]]
      BY DEF SaveStatus
<1>2. \A l \in Levels, c \in Carts : hold[l][c] \in HoldRow
      BY DEF TypeOK
<1>3. \A l \in Levels, c \in Carts : [hold[l][c] EXCEPT !.status = status] \in HoldRow
      BY <1>2, StatusMoves
<1>4. hold' \in [Levels -> HoldTable]
      BY <1>1, <1>2, <1>3 DEF HoldTable
<1>5. ASSUME NEW l \in Levels, CartsAt(ids, l) = {}
      PROVE  hold'[l] = hold[l]
      <2>1. \A c \in Carts : <<c, l>> \notin ids
            BY <1>5 DEF CartsAt
      <2>2. hold[l] = [c \in Carts |-> hold[l][c]]
            BY DEF TypeOK
      <2> QED BY <1>1, <2>1, <2>2
<1> QED BY <1>1, <1>4, <1>5

\* So does the commit of a release or of a sweep chunk.
LEMMA FreeOnceIsSound ==
    ASSUME IInv, NEW r \in Slots,
           \/ FreeOnce(r, "release", "released")
           \/ FreeOnce(r, "sweep", "expired")
    PROVE  SoundTables
<1> DEFINE o == op[r]
           s == seen[r]
           ids == Freed(o, s)
<1>1. PICK kind \in {"release", "sweep"}, status \in {"released", "expired"} :
         FreeOnce(r, kind, status)
      OBVIOUS
<1>2. pc[r] = "open" /\ Current(r) /\ o.kind \in {"release", "sweep"}
      BY <1>1 DEF FreeOnce, Committing
<1>3. /\ o \in Op /\ Accepts(o, s)
      /\ Written(r) \subseteq Levels
      /\ \A l \in Written(r) :
            /\ s.level[l] = level[l] /\ level[l] \in LevelRow
            /\ s.hold[l] = hold[l] /\ hold[l] \in HoldTable
            /\ RowMatches(level[l], hold[l])
      BY <1>2, CommitFacts
<1>4. Written(r) = LevelsOf(ids)
      BY <1>2 DEF Written
<1>5. ids \in SUBSET Ids
      BY <1>3 DEF Freed, Due, Op
<1>6. SaveStatus(ids, status) /\ status \in HoldStatus
      BY <1>1 DEF FreeOnce, HoldStatus
<1>7. /\ hold' \in [Levels -> HoldTable]
      /\ \A l \in Levels, c \in Carts :
            hold'[l][c] = IF <<c, l>> \in ids THEN [hold[l][c] EXCEPT !.status = status]
                                             ELSE hold[l][c]
      /\ \A l \in Levels : CartsAt(ids, l) = {} => hold'[l] = hold[l]
      <2> HIDE DEF ids
      <2> QED BY <1>5, <1>6, SavedHolds DEF IInv
<1>8. \A l \in Levels \ Written(r) : hold'[l] = hold[l]
      BY <1>4, <1>7 DEF LevelsOf
<1>9. ASSUME NEW l \in Written(r)
      PROVE  SoundWrite(level[l], hold[l], FreeRow(s, ids, l), hold'[l])
      <2>1. CanFree(s, ids, l) /\ l \in Levels
            BY <1>2, <1>3, <1>4 DEF Accepts
      <2>2. \A c \in Carts : hold'[l][c] = IF <<c, l>> \in ids
                                          THEN [s.hold[l][c] EXCEPT !.status = status]
                                          ELSE s.hold[l][c]
            <3> HIDE DEF ids
            <3> QED BY <1>3, <1>7, <2>1
      <2>3. hold'[l] \in HoldTable
            BY <1>7, <2>1
      <2>4. SoundWrite(s.level[l], s.hold[l], FreeRow(s, ids, l), hold'[l])
            <3> HIDE DEF o, s, ids
            <3> QED BY <1>3, <1>5, <2>1, <2>2, <2>3, FreeIsSound
      <2> QED BY <1>3, <2>4
<1>10. expiresAt' \in [Levels -> [Carts -> Nat]]
      BY <1>1 DEF FreeOnce, IInv, TypeOK
<1>11. PersistLevels(r, [l \in Levels |-> FreeRow(s, ids, l)])
      BY <1>1 DEF FreeOnce
<1>12. \A l \in Written(r) :
         SoundWrite(level[l], hold[l], [k \in Levels |-> FreeRow(s, ids, k)][l], hold'[l])
      BY <1>3, <1>9
<1> HIDE DEF o, s, ids
<1> QED BY <1>3, <1>7, <1>8, <1>10, <1>11, <1>12, PersistIsSound

\* So does the commit of an Allocate.
LEMMA AllocateOnceIsSound ==
    ASSUME IInv, NEW r \in Slots, AllocateOnce(r)
    PROVE  SoundTables
<1> DEFINE o == op[r]
           s == seen[r]
           taken == {<<o.cart, l>> : l \in {k \in Lines(o) :
                                               s.hold[k][o.cart].status = "active"}}
<1>1. pc[r] = "open" /\ Current(r) /\ o.kind = "allocate"
      BY DEF AllocateOnce, Committing
<1>2. /\ o \in Op /\ o.cart \in Carts /\ Accepts(o, s)
      /\ \A l \in Levels : o.lines[l] \in Nat
      /\ Written(r) \subseteq Levels
      /\ \A l \in Written(r) :
            /\ s.level[l] = level[l] /\ level[l] \in LevelRow
            /\ s.hold[l] = hold[l] /\ hold[l] \in HoldTable
            /\ RowMatches(level[l], hold[l])
      BY <1>1, CommitFacts DEF OpSound, Op
<1>3. Written(r) = Lines(o)
      BY <1>1, SMTT(40) DEF Written
<1>4. taken \in SUBSET Ids /\ SaveStatus(taken, "committed")
      <2>1. taken \in SUBSET Ids
            <3>1. o.cart \in Carts
                  BY <1>2
            <3>2. Lines(o) \subseteq Levels
                  BY DEF Lines
            <3> HIDE DEF o, s
            <3> QED BY <3>1, <3>2 DEF Ids
      <2>2. SaveStatus(taken, "committed")
            BY Zenon DEF AllocateOnce
      <2> QED BY <2>1, <2>2
<1>5. /\ hold' \in [Levels -> HoldTable]
      /\ \A l \in Levels, c \in Carts :
            hold'[l][c] = IF <<c, l>> \in taken THEN [hold[l][c] EXCEPT !.status = "committed"]
                                               ELSE hold[l][c]
      /\ \A l \in Levels : CartsAt(taken, l) = {} => hold'[l] = hold[l]
      <2> HIDE DEF taken
      <2> QED BY <1>4, SavedHolds DEF IInv, HoldStatus
<1>6. \A l \in Levels \ Written(r) : hold'[l] = hold[l]
      BY <1>3, <1>5 DEF CartsAt
<1>7. ASSUME NEW l \in Written(r)
      PROVE  SoundWrite(level[l], hold[l], AllocateRow(s, o, l), hold'[l])
      <2>1. CanAllocateLine(s, o, l) /\ l \in Levels
            BY <1>1, <1>2, <1>3, <1>7 DEF Accepts
      <2>2. \A c \in Carts :
               <<c, l>> \in taken <=> c = o.cart /\ s.hold[l][c].status = "active"
            BY <1>3, <1>7
      <2>3. /\ hold'[l] \in HoldTable
            /\ hold'[l][o.cart] = IF s.hold[l][o.cart].status = "active"
                                  THEN [s.hold[l][o.cart] EXCEPT !.status = "committed"]
                                  ELSE s.hold[l][o.cart]
            /\ \A d \in Carts \ {o.cart} : hold'[l][d] = s.hold[l][d]
            <3>1. s.hold[l] = hold[l] /\ l \in Levels
                  BY <1>2, <2>1
            <3>2. hold'[l] \in HoldTable
                  BY <1>5, <3>1
            <3>3. \A c \in Carts :
                     hold'[l][c] = IF c = o.cart /\ s.hold[l][o.cart].status = "active"
                                   THEN [s.hold[l][c] EXCEPT !.status = "committed"]
                                   ELSE s.hold[l][c]
                  <4> HIDE DEF taken, o, s
                  <4> QED BY <1>5, <2>2, <3>1
            <3> HIDE DEF taken, o, s
            <3> QED BY <1>2, <3>2, <3>3
      <2>4. SoundWrite(s.level[l], s.hold[l], AllocateRow(s, o, l), hold'[l])
            <3> HIDE DEF o, s, taken
            <3> QED BY <1>2, <2>1, <2>3, AllocateIsSound
      <2> QED BY <1>2, <2>4
<1>8. expiresAt' \in [Levels -> [Carts -> Nat]]
      <2>1. s.now + TTL \in Nat
            BY Budgets DEF IInv, TypeOK, Snapshot
      <2>2. \A l \in Levels, c \in Carts : expiresAt[l][c] \in Nat
            BY DEF IInv, TypeOK
      <2> QED BY <2>1, <2>2 DEF AllocateOnce
<1>9. PersistLevels(r, [l \in Levels |-> AllocateRow(s, o, l)])
      BY DEF AllocateOnce
<1>10. \A l \in Written(r) :
         SoundWrite(level[l], hold[l], [k \in Levels |-> AllocateRow(s, o, k)][l], hold'[l])
      BY <1>2, <1>7
<1> HIDE DEF o, s, taken
<1> QED BY <1>2, <1>5, <1>6, <1>8, <1>9, <1>10, PersistIsSound

\* Cancel, Commit Sale and the on-hand changes.
LEMMA WriteLinesIsSound ==
    ASSUME IInv, NEW r \in Slots, CancelOnce(r) \/ CommitOnce(r) \/ ChangeOnHandOnce(r)
    PROVE  SoundTables
<1> DEFINE o == op[r]
           s == seen[r]
<1>1. /\ pc[r] = "open" /\ Current(r)
      /\ o.kind \in {"cancel", "sale"} \cup OnHandKinds
      /\ UNCHANGED <<hold, expiresAt>>
      BY DEF CancelOnce, CommitOnce, ChangeOnHandOnce, Committing, WriteLines
<1>2. /\ o \in Op /\ Accepts(o, s)
      /\ \A l \in Levels : o.lines[l] \in Int
      /\ Written(r) \subseteq Levels
      /\ \A l \in Written(r) :
            /\ s.level[l] = level[l] /\ level[l] \in LevelRow
            /\ s.hold[l] = hold[l] /\ hold[l] \in HoldTable
            /\ RowMatches(level[l], hold[l])
      BY <1>1, CommitFacts DEF Op
<1>3. Written(r) = Lines(o)
      BY <1>1 DEF Written, OnHandKinds
<1>4. /\ hold' \in [Levels -> HoldTable]
      /\ expiresAt' \in [Levels -> [Carts -> Nat]]
      /\ \A l \in Levels : hold'[l] = hold[l]
      BY <1>1 DEF IInv, TypeOK, HoldTable
<1>5. CASE CancelOnce(r)
      <2>1. o.kind = "cancel" /\ PersistLevels(r,
               [l \in Levels |-> ReleaseAllocated(s.level[l], o.lines[l])])
            BY <1>5 DEF CancelOnce, Committing, WriteLines
      <2>2. \A l \in Written(r) : CanReleaseAllocated(s.level[l], o.lines[l])
            BY <1>2, <1>3, <2>1 DEF Accepts
      <2> HIDE DEF o, s
      <2>3. \A l \in Written(r) : SoundWrite(level[l], hold[l],
               [k \in Levels |-> ReleaseAllocated(s.level[k], o.lines[k])][l], hold'[l])
            BY <1>2, <1>4, <2>2, CountersAreSound
      <2> QED BY <1>2, <1>4, <2>1, <2>3, PersistIsSound
<1>6. CASE CommitOnce(r)
      <2>1. o.kind = "sale" /\ PersistLevels(r,
               [l \in Levels |-> CommitSale(s.level[l], o.lines[l])])
            BY <1>6 DEF CommitOnce, Committing, WriteLines
      <2>2. \A l \in Written(r) : CanCommitSale(s.level[l], o.lines[l])
            BY <1>2, <1>3, <2>1 DEF Accepts
      <2> HIDE DEF o, s
      <2>3. \A l \in Written(r) : SoundWrite(level[l], hold[l],
               [k \in Levels |-> CommitSale(s.level[k], o.lines[k])][l], hold'[l])
            BY <1>2, <1>4, <2>2, CountersAreSound
      <2> QED BY <1>2, <1>4, <2>1, <2>3, PersistIsSound
<1>7. CASE ChangeOnHandOnce(r)
      <2>1. o.kind \in OnHandKinds /\ PersistLevels(r,
               [l \in Levels |-> ChangeOnHand(s.level[l], o.lines[l])])
            BY <1>7 DEF ChangeOnHandOnce, Committing, WriteLines
      <2>2. \A l \in Written(r) : CanChangeOnHand(s.level[l], o.lines[l])
            BY <1>2, <1>3, <2>1 DEF Accepts
      <2> HIDE DEF o, s
      <2>3. \A l \in Written(r) : SoundWrite(level[l], hold[l],
               [k \in Levels |-> ChangeOnHand(s.level[k], o.lines[k])][l], hold'[l])
            BY <1>2, <1>4, <2>2, CountersAreSound
      <2> QED BY <1>2, <1>4, <2>1, <2>3, PersistIsSound
<1> QED BY <1>5, <1>6, <1>7

-----------------------------------------------------------------------------
(* The slots. *)

\* An idle slot holds a request record that passes the invariant.
LEMMA NoOpIsSound ==
    /\ NoOp \in Op /\ NoSnapshot \in Snapshot
    /\ NoOp.kind = "none" /\ \A l \in Levels : NoOp.lines[l] = 0
<1>1. NoOp \in Op
      BY DEF NoOp, Op, OpKinds
<1>2. InitialAt(0) \in LevelRow /\ NoHold \in HoldRow
      BY DEF InitialAt, LevelRow, NoHold, HoldRow, HoldStatus
<1>3. NoSnapshot \in Snapshot
      BY <1>2 DEF NoSnapshot, Snapshot
<1> QED BY <1>1, <1>3 DEF NoOp

\* A request that is answered leaves an idle slot behind.
LEMMA FinishIsSound ==
    ASSUME SlotsTyped, NEW r \in Slots, NEW ok \in BOOLEAN, Finish(r, ok), clock' = clock
    PROVE  SoundSlots /\ \A q \in Slots : SlotKept(q)
<1>1. /\ pc' = [pc EXCEPT ![r] = "idle"]
      /\ op' = [op EXCEPT ![r] = NoOp]
      /\ attempt' = [attempt EXCEPT ![r] = 0]
      /\ seen' = [seen EXCEPT ![r] = NoSnapshot]
      BY DEF Finish
<1>2. batch' \in [Sweepers -> [ids : SUBSET Ids, now : Nat]]
      BY DEF Finish, NoBatch, SlotsTyped, TypeOK
<1>3. /\ clock' \in Nat
      /\ pc' \in [Slots -> {"idle", "ready", "open"}]
      /\ op' \in [Slots -> Op]
      /\ attempt' \in [Slots -> Nat]
      /\ seen' \in [Slots -> Snapshot]
      BY <1>1, NoOpIsSound DEF SlotsTyped, TypeOK
<1>4. ASSUME NEW q \in Slots
      PROVE  OpSound(q)' /\ SlotKept(q)
      <2>1. CASE q = r
            BY <1>1, <2>1, NoOpIsSound DEF OpSound, SlotKept, SlotsTyped, TypeOK
      <2>2. CASE q # r
            BY <1>1, <2>2 DEF OpSound, SlotKept, SlotsTyped, TypeOK
      <2> QED BY <2>1, <2>2
<1> QED BY <1>2, <1>3, <1>4 DEF SoundSlots

\* A request that starts is one that passed validation.
LEMMA StartIsSound ==
    ASSUME SlotsTyped, NEW r \in Slots, NEW o \in Op, Start(r, o),
           o.kind \in {"reserve", "allocate"} => o.cart \in Carts,
           o.kind \notin {"adjust", "transfer"} => \A l \in Levels : o.lines[l] >= 0,
           clock' = clock,
           batch' \in [Sweepers -> [ids : SUBSET Ids, now : Nat]]
    PROVE  SoundSlots /\ \A q \in Slots : SlotKept(q)
<1>1. /\ pc' = [pc EXCEPT ![r] = "ready"]
      /\ op' = [op EXCEPT ![r] = o]
      /\ attempt' = [attempt EXCEPT ![r] = 1]
      /\ seen' = seen
      BY DEF Start
<1>2. /\ clock' \in Nat
      /\ pc' \in [Slots -> {"idle", "ready", "open"}]
      /\ op' \in [Slots -> Op]
      /\ attempt' \in [Slots -> Nat]
      /\ seen' \in [Slots -> Snapshot]
      BY <1>1 DEF SlotsTyped, TypeOK
<1>3. ASSUME NEW q \in Slots
      PROVE  OpSound(q)' /\ SlotKept(q)
      <2>1. CASE q = r
            BY <1>1, <2>1 DEF OpSound, SlotKept, SlotsTyped, TypeOK
      <2>2. CASE q # r
            BY <1>1, <2>2 DEF OpSound, SlotKept, SlotsTyped, TypeOK
      <2> QED BY <2>1, <2>2
<1> QED BY <1>2, <1>3 DEF SoundSlots

\* A step that leaves the tables alone writes nothing unsound.
LEMMA TablesKeptIsSound ==
    ASSUME IInv, UNCHANGED tables
    PROVE  SoundTables
BY DEF SoundTables, tables, IInv, TypeOK, HoldTable

\* A step that leaves the slots alone keeps what is known of their requests.
LEMMA SlotsKeptIsSound ==
    ASSUME SlotsTyped, UNCHANGED slots, clock' \in Nat,
           batch' \in [Sweepers -> [ids : SUBSET Ids, now : Nat]]
    PROVE  SoundSlots /\ \A q \in Slots : SlotKept(q)
<1>1. pc' = pc /\ op' = op /\ attempt' = attempt /\ seen' = seen
      BY DEF slots
<1>2. \A q \in Slots : OpSound(q)' /\ SlotKept(q)
      BY <1>1 DEF OpSound, SlotKept, SlotsTyped
<1> QED BY <1>1, <1>2 DEF SoundSlots, SlotsTyped, TypeOK

-----------------------------------------------------------------------------
(* Every step. *)

\* Opening a transaction: the snapshot is the truth of this instant.
LEMMA OpenKeepsIInv ==
    ASSUME IInv, NEW r \in Slots, Open(r)
    PROVE  IInv' /\ SoundTables
<1>1. /\ pc' = [pc EXCEPT ![r] = "open"]
      /\ seen' = [seen EXCEPT ![r] = Now]
      /\ UNCHANGED tables
      /\ clock' = clock /\ op' = op /\ attempt' = attempt /\ batch' = batch
      /\ Accepts(op[r], Now)
      BY DEF Open
<1>2. /\ level' = level /\ version' = version /\ hold' = hold /\ expiresAt' = expiresAt
      BY <1>1 DEF tables
<1>3. Now \in Snapshot
      BY DEF Now, Snapshot, IInv, TypeOK
<1>4. TypeOK'
      BY <1>1, <1>2, <1>3 DEF IInv, TypeOK
<1>5. (\A q \in Slots : OpSound(q))'
      BY <1>1 DEF IInv, OpSound
<1>6. ASSUME NEW q \in Slots
      PROVE  OpenSound(q)'
      <2>1. CASE q = r
            <3>1. op'[q] = op[r] /\ seen'[q] = Now
                  BY <1>1, <2>1 DEF IInv, TypeOK
            <3>2. \A l \in Levels :
                     /\ RowMatches(Now.level[l], Now.hold[l])
                     /\ Now.version[l] <= version[l]
                  BY DEF Now, RowMatches, IInv, ReservedMatchesHolds, TypeOK
            <3> QED BY <1>1, <1>2, <3>1, <3>2 DEF OpenSound
      <2>2. CASE q # r
            <3>1. op'[q] = op[q] /\ seen'[q] = seen[q] /\ pc'[q] = pc[q]
                  BY <1>1, <2>2 DEF IInv, TypeOK
            <3>2. OpenSound(q)
                  BY DEF IInv
            <3> QED BY <1>2, <3>1, <3>2 DEF OpenSound
      <2> QED BY <2>1, <2>2
<1>7. SnapshotStillTrue'
      <2> SUFFICES ASSUME NEW q \in Slots, pc'[q] = "open", NEW l \in Levels,
                          version'[l] = seen'[q].version[l]
                   PROVE  level'[l] = seen'[q].level[l] /\ hold'[l] = seen'[q].hold[l]
            BY DEF SnapshotStillTrue, VersionMatches
      <2>1. CASE q = r
            BY <1>1, <1>2, <2>1 DEF Now, IInv, TypeOK
      <2>2. CASE q # r
            BY <1>1, <1>2, <2>2 DEF IInv, TypeOK, SnapshotStillTrue, VersionMatches
      <2> QED BY <2>1, <2>2
<1>8. ReservedMatchesHolds'
      BY <1>2 DEF IInv, ReservedMatchesHolds
<1>9. SoundTables
      BY <1>1, TablesKeptIsSound
<1> QED BY <1>4, <1>5, <1>6, <1>7, <1>8, <1>9 DEF IInv

\* A commit, whichever it is, answers its request.
LEMMA CommitKeepsIInv ==
    ASSUME IInv, NEW r \in Slots, SoundTables, Finish(r, TRUE), clock' = clock
    PROVE  IInv'
<1>1. SoundSlots /\ \A q \in Slots : SlotKept(q)
      BY FinishIsSound DEF IInv, SlotsTyped
<1> QED BY <1>1, StepKeepsIInv

\* So does a request that is answered without a write.
LEMMA AnswerKeepsIInv ==
    ASSUME IInv, NEW r \in Slots, NEW ok \in BOOLEAN, UNCHANGED tables, Finish(r, ok),
           clock' = clock
    PROVE  IInv' /\ SoundTables
<1>1. SoundSlots /\ \A q \in Slots : SlotKept(q)
      BY FinishIsSound DEF IInv, SlotsTyped
<1>2. SoundTables
      BY TablesKeptIsSound
<1> QED BY <1>1, <1>2, StepKeepsIInv

\* The arrival of a request, answered at once or started.
LEMMA SubmitIsSound ==
    ASSUME SlotsTyped, NEW r \in Handlers, NEW o \in Payloads, Submit(r, o)
    PROVE  UNCHANGED tables /\ SoundSlots /\ \A q \in Slots : SlotKept(q)
<1>1. r \in Slots /\ UNCHANGED tables /\ clock' = clock
      BY DEF Submit, Slots
<1>2. batch' \in [Sweepers -> [ids : SUBSET Ids, now : Nat]]
      BY DEF Submit, SlotsTyped, TypeOK
<1>3. ValidPayload(o)
      BY ValidPayloads
<1>4. SoundSlots /\ \A q \in Slots : SlotKept(q)
      <2>1. CASE UNCHANGED slots
            BY <1>1, <1>2, <2>1, SlotsKeptIsSound DEF SlotsTyped, TypeOK
      <2>2. CASE Start(r, o)
            BY <1>1, <1>2, <1>3, <2>2, StartIsSound DEF ValidPayload
      <2>3. ASSUME NEW ids \in SUBSET Ids, o.kind = "release",
                   Start(r, [o EXCEPT !.ids = ids])
            PROVE  SoundSlots /\ \A q \in Slots : SlotKept(q)
            <3> DEFINE p == [o EXCEPT !.ids = ids]
            <3>1. /\ p \in Op /\ p.kind = "release"
                  /\ \A l \in Levels : p.lines[l] >= 0
                  BY <1>3, <2>3 DEF ValidPayload, Op
            <3>2. Start(r, p)
                  BY <2>3
            <3> HIDE DEF p
            <3> QED BY <1>1, <1>2, <3>1, <3>2, StartIsSound
      <2>4. \/ UNCHANGED slots
            \/ Start(r, o)
            \/ /\ o.kind = "release"
               /\ \E ids \in SUBSET Ids : Start(r, [o EXCEPT !.ids = ids])
            <3>1. CASE SubmitRelease(r, o)
                  <4> DEFINE ids == {id \in o.ids : hold[id[2]][id[1]].status = "active"}
                  <4>1. o.kind = "release" /\
                        (UNCHANGED slots \/ Start(r, [o EXCEPT !.ids = ids]))
                        BY <3>1 DEF SubmitRelease
                  <4>2. ids \in SUBSET Ids
                        BY <1>3 DEF ValidPayload, Op
                  <4> HIDE DEF ids
                  <4> QED BY <4>1, <4>2
            <3>2. CASE SubmitLedgered(r, o)
                  BY <3>2 DEF SubmitLedgered
            <3>3. CASE SubmitOther(r, o)
                  BY <3>3 DEF SubmitOther
            <3> QED BY <3>1, <3>2, <3>3 DEF Submit
      <2> QED BY <2>1, <2>2, <2>3, <2>4
<1> QED BY <1>1, <1>4

\* A write conflict that is retried drops the snapshot.
LEMMA RetryIsSound ==
    ASSUME SlotsTyped, NEW r \in Slots, Retry(r)
    PROVE  UNCHANGED tables /\ SoundSlots /\ \A q \in Slots : SlotKept(q)
<1>1. /\ pc' = [pc EXCEPT ![r] = "ready"]
      /\ attempt' = [attempt EXCEPT ![r] = @ + 1]
      /\ seen' = [seen EXCEPT ![r] = NoSnapshot]
      /\ UNCHANGED tables /\ clock' = clock /\ op' = op /\ batch' = batch
      BY DEF Retry
<1>2. SoundSlots
      BY <1>1, NoOpIsSound DEF SoundSlots, OpSound, SlotsTyped, TypeOK
<1>3. \A q \in Slots : SlotKept(q)
      BY <1>1 DEF SlotKept, SlotsTyped, TypeOK
<1> QED BY <1>1, <1>2, <1>3

\* Such a step keeps the invariant, for it writes no table.
LEMMA SlotStepKeepsIInv ==
    ASSUME IInv, UNCHANGED tables, SoundSlots, \A q \in Slots : SlotKept(q)
    PROVE  IInv' /\ SoundTables
BY TablesKeptIsSound, StepKeepsIInv

\* Every step of an attempt keeps the invariant.
LEMMA AttemptKeepsIInv ==
    ASSUME IInv, NEW r \in Slots, Attempt(r)
    PROVE  IInv' /\ SoundTables
<1>1. CASE Replay(r)
      BY <1>1, AnswerKeepsIInv DEF Replay
<1>2. CASE Reject(r)
      BY <1>2, AnswerKeepsIInv DEF Reject
<1>3. CASE Open(r)
      BY <1>3, OpenKeepsIInv
<1>4. CASE ReserveOnce(r)
      BY <1>4, ReserveOnceIsSound, CommitKeepsIInv DEF ReserveOnce, Committing
<1>5. CASE ReleaseAll(r)
      BY <1>5, FreeOnceIsSound, CommitKeepsIInv DEF ReleaseAll, FreeOnce, Committing
<1>6. CASE ExpireChunk(r)
      BY <1>6, FreeOnceIsSound, CommitKeepsIInv, Zenon DEF ExpireChunk, FreeOnce, Committing
<1>7. CASE AllocateOnce(r)
      BY <1>7, AllocateOnceIsSound, CommitKeepsIInv, Zenon DEF AllocateOnce, Committing
<1>8. CASE CancelOnce(r)
      BY <1>8, WriteLinesIsSound, CommitKeepsIInv DEF CancelOnce, Committing
<1>9. CASE CommitOnce(r)
      BY <1>9, WriteLinesIsSound, CommitKeepsIInv DEF CommitOnce, Committing
<1>10. CASE ChangeOnHandOnce(r)
      BY <1>10, WriteLinesIsSound, CommitKeepsIInv DEF ChangeOnHandOnce, Committing
<1>11. CASE DuplicateEntry(r)
      BY <1>11, AnswerKeepsIInv DEF DuplicateEntry, Committing
<1>12. CASE Retry(r)
      BY <1>12, RetryIsSound, SlotStepKeepsIInv DEF IInv, SlotsTyped
<1>13. CASE Exhaust(r)
      BY <1>13, AnswerKeepsIInv DEF Exhaust
<1> QED BY <1>1, <1>2, <1>3, <1>4, <1>5, <1>6, <1>7, <1>8, <1>9, <1>10, <1>11,
           <1>12, <1>13 DEF Attempt

\* A sweep that starts, or goes on with its next chunk.
LEMMA SweepIsSound ==
    ASSUME SlotsTyped, NEW w \in Sweepers, SweepStart(w) \/ SweepChunk(w)
    PROVE  UNCHANGED tables /\ SoundSlots /\ \A q \in Slots : SlotKept(q)
<1>1. w \in Slots /\ UNCHANGED tables /\ clock' = clock /\ clock \in Nat
      BY DEF SweepStart, SweepChunk, Slots, SlotsTyped, TypeOK
<1>2. CASE SweepStart(w)
      <2>1. PICK S \in SUBSET ExpiredActive(clock) :
               batch' = [batch EXCEPT ![w] = [ids |-> S, now |-> clock]]
            BY <1>2 DEF SweepStart
      <2>2. S \in SUBSET Ids
            BY DEF ExpiredActive
      <2>3. batch' \in [Sweepers -> [ids : SUBSET Ids, now : Nat]]
            BY <1>1, <2>1, <2>2 DEF SlotsTyped, TypeOK
      <2> QED BY <1>1, <1>2, <2>3, SlotsKeptIsSound DEF SweepStart
<1>3. CASE SweepChunk(w)
      <2>1. PICK S \in SUBSET batch[w].ids :
               /\ batch' = [batch EXCEPT ![w].ids = @ \ S]
               /\ Start(w, SweepOp(S, batch[w].now))
            BY <1>3 DEF SweepChunk
      <2>2. batch[w].ids \in SUBSET Ids /\ batch[w].now \in Nat
            BY DEF SlotsTyped, TypeOK
      <2>3. batch' \in [Sweepers -> [ids : SUBSET Ids, now : Nat]]
            BY <2>1, <2>2 DEF SlotsTyped, TypeOK
      <2> DEFINE o == SweepOp(S, batch[w].now)
      <2>4. /\ o \in Op /\ o.kind = "sweep"
            /\ \A l \in Levels : o.lines[l] >= 0
            <3>1. S \in SUBSET Ids
                  BY <2>2
            <3> QED BY <2>2, <3>1 DEF SweepOp, Op, OpKinds
      <2>5. SoundSlots /\ \A q \in Slots : SlotKept(q)
            <3>1. Start(w, o)
                  BY <2>1
            <3> HIDE DEF o
            <3> QED BY <1>1, <2>3, <2>4, <3>1, StartIsSound
      <2> QED BY <1>1, <2>5
<1> QED BY <1>2, <1>3

\* Time passes, or nothing happens.
LEMMA TickIsSound ==
    ASSUME SlotsTyped, Tick \/ UNCHANGED vars
    PROVE  UNCHANGED tables /\ SoundSlots /\ \A q \in Slots : SlotKept(q)
<1>1. /\ UNCHANGED tables /\ UNCHANGED slots /\ batch' = batch /\ clock' \in Nat
      BY DEF Tick, vars, SlotsTyped, TypeOK
<1>2. batch' \in [Sweepers -> [ids : SUBSET Ids, now : Nat]]
      BY <1>1 DEF SlotsTyped, TypeOK
<1> QED BY <1>1, <1>2, SlotsKeptIsSound

\* The invariant is inductive.
LEMMA NextKeepsIInv ==
    ASSUME IInv, [Next]_vars
    PROVE  IInv' /\ SoundTables
<1>1. ASSUME NEW r \in Handlers, NEW o \in Payloads, Submit(r, o)
      PROVE  IInv' /\ SoundTables
      BY <1>1, SubmitIsSound, SlotStepKeepsIInv DEF IInv, SlotsTyped
<1>2. ASSUME NEW r \in Handlers, Attempt(r)
      PROVE  IInv' /\ SoundTables
      BY <1>2, AttemptKeepsIInv DEF Slots
<1>3. ASSUME NEW w \in Sweepers, SweepStep(w)
      PROVE  IInv' /\ SoundTables
      BY <1>3, AttemptKeepsIInv, SweepIsSound, SlotStepKeepsIInv DEF SweepStep, Slots, IInv, SlotsTyped
<1>4. ASSUME NEW r \in Slots, Fault(r)
      PROVE  IInv' /\ SoundTables
      BY <1>4, AnswerKeepsIInv DEF Fault
<1>5. CASE Tick \/ UNCHANGED vars
      BY <1>5, TickIsSound, SlotStepKeepsIInv DEF IInv, SlotsTyped
<1> QED BY <1>1, <1>2, <1>3, <1>4, <1>5 DEF Next

\* The invariant holds of the seeded tables.
LEMMA InitIsSound == Init => IInv
<1> SUFFICES ASSUME Init PROVE IInv
    OBVIOUS
<1>1. NoHold \in HoldRow /\ \A l \in Levels : InitialAt(SeedOnHand[l]) \in LevelRow
      BY Budgets DEF NoHold, HoldRow, HoldStatus, InitialAt, LevelRow
<1>2. TypeOK
      BY <1>1, NoOpIsSound DEF Init, TypeOK, NoBatch
<1>3. \A r \in Slots : OpSound(r) /\ pc[r] = "idle"
      BY NoOpIsSound DEF Init, OpSound
<1>4. ASSUME NEW l \in Levels
      PROVE  level[l].reserved = Cardinality(HeldUnits(hold[l]))
      <2>1. ActiveCarts(hold[l]) = {}
            BY DEF Init, ActiveCarts, NoHold
      <2>2. HeldUnits(hold[l]) = {}
            BY <2>1 DEF HeldUnits, Units
      <2>3. level[l].reserved = 0
            BY DEF Init, InitialAt
      <2> QED BY <2>2, <2>3, FS_EmptySet
<1> QED BY <1>2, <1>3, <1>4 DEF IInv, OpenSound, SnapshotStillTrue, ReservedMatchesHolds

-----------------------------------------------------------------------------
(* The theorems. *)

\* Every reachable state of the service satisfies the inductive invariant.
THEOREM Invariance == Spec => []IInv
<1>1. IInv /\ [Next]_vars => IInv'
      BY NextKeepsIInv
<1> QED BY <1>1, InitIsSound, PTL DEF Spec

\* Every variable keeps its type; in particular no counter of a stock level
\* ever goes below zero.
THEOREM TypeCorrect == Spec => []TypeOK
<1>1. IInv => TypeOK
      BY DEF IInv
<1> QED BY <1>1, Invariance, PTL

\* The version of a level vouches for its counters and its holds.
THEOREM SnapshotsStayTrue == Spec => []SnapshotStillTrue
<1>1. IInv => SnapshotStillTrue
      BY DEF IInv
<1> QED BY <1>1, Invariance, PTL

\* quantity_reserved is always the sum of the active holds of the level.
THEOREM ReservedStaysExact == Spec => []ReservedMatchesHolds
<1>1. IInv => ReservedMatchesHolds
      BY DEF IInv
<1> QED BY <1>1, Invariance, PTL

\* No reservation and no allocation promises more than there is on hand.
THEOREM NothingIsOversold == Spec => NoOversell
<1> DEFINE A == \A l \in Levels :
              Promised(level'[l]) > Promised(level[l]) => Available(level'[l]) >= 0
<1>1. ASSUME IInv, [Next]_vars
      PROVE  A
      <2>1. SoundTables
            BY <1>1, NextKeepsIInv
      <2>2. \A l \in Levels : Promised(level[l]) \in Int
            BY <1>1 DEF IInv, TypeOK, LevelRow, Promised
      <2> QED BY <2>1, <2>2 DEF SoundTables, SoundWrite
<1>2. IInv /\ [Next]_vars => [A]_vars
      BY <1>1
<1>3. Spec => [][A]_vars
      BY <1>2, Invariance, PTL DEF Spec
<1> QED BY <1>3 DEF NoOversell

\* A hold that an order has taken over never changes again.
THEOREM CommittedStaysCommitted == Spec => CommittedIsFinal
<1> DEFINE A == \A l \in Levels, c \in Carts :
              hold[l][c].status = "committed" => hold'[l][c] = hold[l][c]
<1>1. ASSUME IInv, [Next]_vars
      PROVE  A
      <2>1. SoundTables
            BY <1>1, NextKeepsIInv
      <2> QED BY <2>1 DEF SoundTables, SoundWrite
<1>2. IInv /\ [Next]_vars => [A]_vars
      BY <1>1
<1>3. Spec => [][A]_vars
      BY <1>2, Invariance, PTL DEF Spec
<1> QED BY <1>3 DEF CommittedIsFinal

-----------------------------------------------------------------------------
(* The refinement of StockService.  Its operators on rows are those of     *)
(* StockDomain, read through the instance.                                 *)

LEMMA ServiceLines ==
    ASSUME NEW o, NEW l
    PROVE  /\ Service!Lines(o) = Lines(o)
           /\ Service!LineMovements(o, l) = LineMovements(o, l)
           /\ Service!AlreadyRecorded(o) <=> AlreadyRecorded(o)
<1>1. \A p, k : Service!LineMovements(p, k) = LineMovements(p, k)
      BY DEF Service!LineMovements, LineMovements, Service!Movement, Movement
<1>2. \A p : Service!Lines(p) = Lines(p)
      BY DEF Service!Lines, Lines
<1>3. \A m : Service!DedupeKey(m) = DedupeKey(m)
      BY DEF Service!DedupeKey, DedupeKey
<1>4. \A B : Service!BagToSet(B) = BagToSet(B)
      BY DEF Service!BagToSet, BagToSet
<1>5. Service!AlreadyRecorded(o) <=> AlreadyRecorded(o)
      BY <1>1, <1>2, <1>3, <1>4 DEF Service!AlreadyRecorded, AlreadyRecorded
<1> QED BY <1>1, <1>2, <1>5

LEMMA ServiceLevels ==
    ASSUME NEW lv, NEW q
    PROVE  /\ Service!CanReserve(lv, q) <=> CanReserve(lv, q)
           /\ Service!Reserve(lv, q) = Reserve(lv, q)
           /\ Service!CanReleaseReserved(lv, q) <=> CanReleaseReserved(lv, q)
           /\ Service!ReleaseReserved(lv, q) = ReleaseReserved(lv, q)
           /\ Service!CanAllocateFromReserved(lv, q) <=> CanAllocateFromReserved(lv, q)
           /\ Service!AllocateFromReserved(lv, q) = AllocateFromReserved(lv, q)
           /\ Service!CanAllocateDirect(lv, q) <=> CanAllocateDirect(lv, q)
           /\ Service!AllocateDirect(lv, q) = AllocateDirect(lv, q)
           /\ Service!CanReleaseAllocated(lv, q) <=> CanReleaseAllocated(lv, q)
           /\ Service!ReleaseAllocated(lv, q) = ReleaseAllocated(lv, q)
           /\ Service!CanCommitSale(lv, q) <=> CanCommitSale(lv, q)
           /\ Service!CommitSale(lv, q) = CommitSale(lv, q)
           /\ Service!CanChangeOnHand(lv, q) <=> CanChangeOnHand(lv, q)
           /\ Service!ChangeOnHand(lv, q) = ChangeOnHand(lv, q)
BY DEF Service!CanReserve, CanReserve, Service!Reserve, Reserve, Service!Available, Available,
   Service!CanReleaseReserved, CanReleaseReserved, Service!ReleaseReserved, ReleaseReserved,
   Service!CanAllocateFromReserved, CanAllocateFromReserved, Service!AllocateFromReserved,
   AllocateFromReserved, Service!CanAllocateDirect, CanAllocateDirect, Service!AllocateDirect,
   AllocateDirect, Service!CanReleaseAllocated, CanReleaseAllocated, Service!ReleaseAllocated,
   ReleaseAllocated, Service!CanCommitSale, CanCommitSale, Service!CommitSale, CommitSale,
   Service!CanChangeOnHand, CanChangeOnHand, Service!ChangeOnHand, ChangeOnHand

LEMMA ServiceReserve ==
    ASSUME NEW s, NEW o, NEW l
    PROVE  /\ Service!ReserveDelta(s, o, l) = ReserveDelta(s, o, l)
           /\ Service!CanReserveLine(s, o, l) <=> CanReserveLine(s, o, l)
           /\ Service!ReserveRow(s, o, l) = ReserveRow(s, o, l)
<1>1. Service!ReserveDelta(s, o, l) = ReserveDelta(s, o, l)
      BY DEF Service!ReserveDelta, ReserveDelta, Service!Held, Held
<1> QED BY <1>1, ServiceLevels DEF Service!CanReserveLine, CanReserveLine, Service!ReserveRow, ReserveRow

LEMMA ServiceAllocate ==
    ASSUME NEW s, NEW o, NEW l
    PROVE  /\ Service!CanAllocateLine(s, o, l) <=> CanAllocateLine(s, o, l)
           /\ Service!AllocateRow(s, o, l) = AllocateRow(s, o, l)
<1>1. \A h : Service!Held(h) = Held(h)
      BY DEF Service!Held, Held
<1> QED BY <1>1, ServiceLevels DEF Service!CanAllocateLine, CanAllocateLine,
        Service!AllocateRow, AllocateRow

LEMMA ServiceFree ==
    ASSUME NEW s, NEW ids, NEW l
    PROVE  /\ Service!CanFree(s, ids, l) <=> CanFree(s, ids, l)
           /\ Service!FreeRow(s, ids, l) = FreeRow(s, ids, l)
           /\ Service!FreeMovements(s, ids, l) = FreeMovements(s, ids, l)
           /\ Service!LevelsOf(ids) = LevelsOf(ids)
<1>1. \A k : Service!CartsAt(ids, k) = CartsAt(ids, k)
      BY DEF Service!CartsAt, CartsAt
<1>2. \A holds, C : Service!Units(holds, C) = Units(holds, C)
      BY DEF Service!Units, Units
<1>3. Service!LevelsOf(ids) = LevelsOf(ids)
      BY <1>1 DEF Service!LevelsOf, LevelsOf
<1>4. Service!FreeMovements(s, ids, l) = FreeMovements(s, ids, l)
      BY <1>1 DEF Service!FreeMovements, FreeMovements, Service!Movement, Movement
<1>5. \A S : Service!Cardinality(S) = Cardinality(S)
      BY DEF Service!Cardinality, Cardinality
<1> QED BY <1>1, <1>2, <1>3, <1>4, <1>5, ServiceLevels DEF Service!CanFree, CanFree, Service!FreeRow, FreeRow

LEMMA ServiceAppends ==
    ASSUME NEW W, NEW movements
    PROVE  Service!AppendRows(W, movements)
             <=> ledger' = [l \in Levels |-> IF l \in W THEN ledger[l] (+) SetToBag(movements[l])
                                                        ELSE ledger[l]]
<1>1. \A B, C : Service!(+)(B, C) = B (+) C
      BY DEF Service!(+), (+)
<1>2. \A S : Service!SetToBag(S) = SetToBag(S)
      BY DEF Service!SetToBag, SetToBag
<1> QED BY <1>1, <1>2 DEF Service!AppendRows

-----------------------------------------------------------------------------
(* A request in a slot is one that was sent; a release has narrowed its    *)
(* rows, a sweep is nobody's request.                                      *)
InFlight ==
    \A r \in Slots :
        pc[r] # "idle" => op[r] \in Payloads \/ op[r].kind \in {"release", "sweep"}

LEMMA InFlightKept ==
    ASSUME TypeOK, InFlight, NEW r \in Slots, NEW o,
           o \in Payloads \/ o.kind \in {"release", "sweep"}, Start(r, o)
    PROVE  InFlight'
BY DEF TypeOK, InFlight, Start

LEMMA SubmitKeepsInFlight ==
    ASSUME TypeOK, InFlight, NEW r \in Handlers, NEW o \in Payloads, Submit(r, o)
    PROVE  InFlight'
<1>1. r \in Slots /\ ValidPayload(o)
      BY ValidPayloads DEF Slots
<1>2. CASE UNCHANGED slots
      BY <1>2 DEF slots, InFlight
<1>3. CASE Start(r, o)
      BY <1>1, <1>3, InFlightKept
<1>4. ASSUME SubmitRelease(r, o), ~UNCHANGED slots
      PROVE  InFlight'
      <2> DEFINE p == [o EXCEPT !.ids = {id \in o.ids : hold[id[2]][id[1]].status = "active"}]
      <2>1. Start(r, p) /\ o.kind = "release"
            BY <1>4 DEF SubmitRelease
      <2>2. p.kind = "release"
            BY <1>1, <2>1 DEF ValidPayload, Op
      <2> HIDE DEF p
      <2> QED BY <1>1, <2>1, <2>2, InFlightKept
<1> QED BY <1>2, <1>3, <1>4 DEF Submit, SubmitLedgered, SubmitOther

LEMMA FinishKeepsInFlight ==
    ASSUME TypeOK, InFlight, NEW r \in Slots, NEW ok, Finish(r, ok) PROVE InFlight'
BY DEF TypeOK, InFlight, Finish

LEMMA AttemptKeepsInFlight ==
    ASSUME TypeOK, InFlight, NEW r \in Slots, Attempt(r) PROVE InFlight'
<1>1. CASE Open(r) \/ Retry(r)
      BY <1>1 DEF Open, Retry, TypeOK, InFlight
<1>2. CASE ~(Open(r) \/ Retry(r))
      <2>1. \E ok : Finish(r, ok)
            BY <1>2 DEF Attempt, Replay, Reject, ReserveOnce, ReleaseAll, ExpireChunk, FreeOnce,
               AllocateOnce, CancelOnce, CommitOnce, ChangeOnHandOnce, DuplicateEntry, Exhaust,
               Committing
      <2> QED BY <2>1, FinishKeepsInFlight, SMTT(40)
<1> QED BY <1>1, <1>2

LEMMA NextKeepsInFlight == TypeOK /\ InFlight /\ [Next]_vars => InFlight'
<1> SUFFICES ASSUME TypeOK, InFlight, [Next]_vars PROVE InFlight'
    OBVIOUS
<1>1. ASSUME NEW r \in Slots, Attempt(r) PROVE InFlight'
      BY <1>1, AttemptKeepsInFlight
<1>2. ASSUME NEW w \in Sweepers, SweepChunk(w) PROVE InFlight'
      <2>1. PICK S : Start(w, SweepOp(S, batch[w].now))
            BY <1>2 DEF SweepChunk
      <2>2. SweepOp(S, batch[w].now).kind = "sweep" /\ w \in Slots
            BY DEF SweepOp, Slots
      <2> QED BY <2>1, <2>2, InFlightKept
<1>3. ASSUME NEW r \in Slots, Fault(r) PROVE InFlight'
      BY <1>3, FinishKeepsInFlight DEF Fault
<1>4. CASE UNCHANGED slots
      BY <1>4 DEF slots, InFlight
<1> QED BY <1>1, <1>2, <1>3, <1>4, SubmitKeepsInFlight
        DEF Next, SweepStep, SweepStart, Tick, Slots, vars

LEMMA ReserveImplements ==
    ASSUME IInv, NEW r \in Slots, op[r] \in Payloads, ReserveOnce(r)
    PROVE  Service!ReserveStock(op[r]) \/ UNCHANGED Service!vars
<1> DEFINE o == op[r]
           s == seen[r]
<1>1. /\ pc[r] = "open" /\ Current(r) /\ o.kind = "reserve"
      /\ level' = [l \in Levels |-> IF l \in Written(r) THEN ReserveRow(s, o, l) ELSE level[l]]
      /\ hold' = [l \in Levels |->
                     IF l \in Written(r)
                     THEN [hold[l] EXCEPT ![o.cart] =
                              [status |-> "active", quantity |-> o.lines[l]]]
                     ELSE hold[l]]
      /\ UNCHANGED ledger
      BY DEF ReserveOnce, Committing, PersistLevels
<1>2. /\ Accepts(o, s)
      /\ \A l \in Written(r) : s.level[l] = level[l] /\ s.hold[l] = hold[l]
      BY <1>1, CommitFacts
<1>3. Written(r) = {l \in Lines(o) : ReserveDelta(s, o, l) # 0} /\ Lines(o) \subseteq Levels
      BY <1>1 DEF Written, Lines
<1>4. PICK m \in Levels : Lines(o) = {m}
      BY <1>1, ValidPayloads DEF ValidPayload
<1>5. CASE Written(r) = {}
      <2>1. level' = level /\ hold' = hold
            BY <1>1, <1>5 DEF IInv, TypeOK
      <2> QED BY <1>1, <2>1 DEF Service!vars
<1>6. CASE Written(r) = {m}
      <2>1. s.level[m] = level[m] /\ s.hold[m] = hold[m]
            BY <1>2, <1>6
      <2>2. /\ ReserveDelta(Service!Rows, o, m) = ReserveDelta(s, o, m)
            /\ CanReserveLine(Service!Rows, o, m) <=> CanReserveLine(s, o, m)
            /\ ReserveRow(Service!Rows, o, m) = ReserveRow(s, o, m)
            BY <2>1 DEF Service!Rows, ReserveDelta, CanReserveLine, ReserveRow
      <2>3. CanReserveLine(s, o, m)
            BY <1>1, <1>2, <1>4 DEF Accepts
      <2>4. ReserveDelta(s, o, m) # 0
            BY <1>3, <1>6
      <2> HIDE DEF o, s
      <2>5. {l \in Lines(o) : ReserveDelta(Service!Rows, o, l) # 0} = {m}
            BY <1>4, <2>2, <2>4
      <2> DEFINE rows == [l \in Levels |-> ReserveRow(Service!Rows, o, l)]
      <2>6. Service!WriteRows({m}, rows)
            <3>1. level' = [l \in Levels |-> IF l \in {m} THEN rows[l] ELSE level[l]]
                  BY <1>1, <1>4, <1>6, <2>2
            <3> QED BY <3>1 DEF Service!WriteRows
      <2>7. hold' = [l \in Levels |->
                     IF l \in Lines(o)
                     THEN [hold[l] EXCEPT ![o.cart] =
                              [status |-> "active", quantity |-> o.lines[l]]]
                     ELSE hold[l]]
            BY <1>1, <1>4, <1>6
      <2>8. Service!Lines(o) = Lines(o)
            BY ServiceLines
      <2>9. /\ {l \in Service!Lines(o) : Service!ReserveDelta(Service!Rows, o, l) # 0} = {m}
            /\ [l \in Levels |-> Service!ReserveRow(Service!Rows, o, l)] = rows
            BY <2>5, <2>8, ServiceReserve
      <2>10. \A l \in Service!Lines(o) : Service!CanReserveLine(Service!Rows, o, l)
            BY <1>4, <2>2, <2>3, <2>8, ServiceReserve
      <2> HIDE DEF rows
      <2>11. Service!ReserveStock(o)
            BY <1>1, <2>6, <2>7, <2>8, <2>9, <2>10 DEF Service!ReserveStock
      <2> QED BY <2>11 DEF o
<1> QED BY <1>3, <1>4, <1>5, <1>6

LEMMA FreeImplements ==
    ASSUME IInv, NEW r \in Slots, NEW kind \in {"release", "sweep"}, NEW status,
           FreeOnce(r, kind, status)
    PROVE  Freed(op[r], seen[r]) \in SUBSET Ids /\ Service!FreeHolds(Freed(op[r], seen[r]), status)
<1> DEFINE o == op[r]
           s == seen[r]
           ids == Freed(o, s)
           W == LevelsOf(ids)
<1>1. /\ pc[r] = "open" /\ Current(r) /\ o.kind \in {"release", "sweep"}
      /\ level' = [l \in Levels |-> IF l \in Written(r) THEN FreeRow(s, ids, l) ELSE level[l]]
      /\ hold' = [l \in Levels |-> [c \in Carts |->
                     IF <<c, l>> \in ids THEN [hold[l][c] EXCEPT !.status = status]
                                         ELSE hold[l][c]]]
      /\ Append(r, [l \in Levels |-> FreeMovements(s, ids, l)])
      BY DEF FreeOnce, Committing, PersistLevels, SaveStatus
<1>2. /\ o \in Op /\ Accepts(o, s)
      /\ \A l \in Written(r) : s.level[l] = level[l] /\ s.hold[l] = hold[l]
      BY <1>1, CommitFacts
<1>3. Written(r) = W /\ W \subseteq Levels
      BY <1>1 DEF Written, LevelsOf
<1>4. ids \in SUBSET Ids
      BY <1>2 DEF Freed, Due, Op
<1>5. ASSUME NEW l \in W
      PROVE  /\ CanFree(Service!Rows, ids, l)
             /\ FreeRow(Service!Rows, ids, l) = FreeRow(s, ids, l)
             /\ FreeMovements(Service!Rows, ids, l) = FreeMovements(s, ids, l)
      <2>1. s.level[l] = level[l] /\ s.hold[l] = hold[l] /\ CanFree(s, ids, l)
            BY <1>1, <1>2, <1>3 DEF Accepts
      <2> HIDE DEF ids, s
      <2> QED BY <2>1 DEF Service!Rows, CanFree, FreeRow, FreeMovements
<1> HIDE DEF ids, s, W
<1>6. Service!LevelsOf(ids) = W
      BY ServiceFree DEF W
<1>7. \A l \in Service!LevelsOf(ids) : Service!CanFree(Service!Rows, ids, l)
      BY <1>5, <1>6, ServiceFree
<1>8. Service!WriteRows(W, [l \in Levels |-> Service!FreeRow(Service!Rows, ids, l)])
      BY <1>1, <1>3, <1>5, ServiceFree DEF Service!WriteRows
<1>9. Service!SetStatus(ids, status)
      BY <1>1 DEF Service!SetStatus
<1>10. Service!AppendRows(W, [l \in Levels |-> Service!FreeMovements(Service!Rows, ids, l)])
      <2>1. ledger' = [l \in Levels |->
                IF l \in W THEN ledger[l] (+) SetToBag([k \in Levels |-> FreeMovements(s, ids, k)][l])
                           ELSE ledger[l]]
            BY <1>1, <1>3 DEF Append
      <2>2. \A l \in W : [k \in Levels |-> FreeMovements(s, ids, k)][l]
                           = [k \in Levels |-> Service!FreeMovements(Service!Rows, ids, k)][l]
            BY <1>3, <1>5, ServiceFree
      <2> QED BY <2>1, <2>2, ServiceAppends
<1>11. Service!FreeHolds(ids, status)
      BY <1>6, <1>7, <1>8, <1>9, <1>10 DEF Service!FreeHolds
<1> QED BY <1>4, <1>11 DEF ids, s

LEMMA AllocateImplements ==
    ASSUME IInv, NEW r \in Slots, AllocateOnce(r)
    PROVE  Service!AllocateStock(op[r])
<1> DEFINE o == op[r]
           s == seen[r]
           W == Lines(o)
           taken(h) == {<<o.cart, l>> : l \in {k \in W : h[k][o.cart].status = "active"}}
<1>1. /\ pc[r] = "open" /\ Current(r) /\ o.kind = "allocate"
      /\ level' = [l \in Levels |-> IF l \in Written(r) THEN AllocateRow(s, o, l) ELSE level[l]]
      /\ SaveStatus(taken(s.hold), "committed")
      /\ Append(r, [l \in Levels |-> LineMovements(o, l)])
      BY DEF AllocateOnce, Committing, PersistLevels
<1>2. /\ Accepts(o, s)
      /\ \A l \in Written(r) : s.level[l] = level[l] /\ s.hold[l] = hold[l]
      BY <1>1, CommitFacts
<1>3. Written(r) = W /\ W \subseteq Levels /\ Service!Lines(o) = W
      BY <1>1, ServiceLines DEF Written, Lines
<1>4. ASSUME NEW l \in W
      PROVE  /\ Service!CanAllocateLine(Service!Rows, o, l)
             /\ Service!AllocateRow(Service!Rows, o, l) = AllocateRow(s, o, l)
      <2>1. s.level[l] = level[l] /\ s.hold[l] = hold[l] /\ CanAllocateLine(s, o, l)
            BY <1>1, <1>2, <1>3 DEF Accepts
      <2>2. /\ CanAllocateLine(Service!Rows, o, l)
            /\ AllocateRow(Service!Rows, o, l) = AllocateRow(s, o, l)
            <3> HIDE DEF o, s, W
            <3> QED BY <2>1 DEF Service!Rows, CanAllocateLine, AllocateRow
      <2> QED BY <2>2, ServiceAllocate
<1>5. taken(hold) = taken(s.hold)
      <2>1. \A k \in W : s.hold[k] = hold[k]
            BY <1>2, <1>3
      <2> HIDE DEF o, s, W
      <2> QED BY <2>1
<1>6. Service!SetStatus(taken(hold), "committed")
      <2> HIDE DEF taken
      <2> QED BY <1>1, <1>5 DEF Service!SetStatus, SaveStatus
<1>7. Service!AppendRows(W, [l \in Levels |-> Service!LineMovements(o, l)])
      <2>1. [l \in Levels |-> Service!LineMovements(o, l)] = [l \in Levels |-> LineMovements(o, l)]
            BY ServiceLines
      <2> HIDE DEF W, o
      <2> QED BY <1>1, <1>3, <2>1, ServiceAppends DEF Append
<1> HIDE DEF o, s
<1>8. Service!WriteRows(W, [l \in Levels |-> Service!AllocateRow(Service!Rows, o, l)])
      <2> HIDE DEF W
      <2> QED BY <1>1, <1>3, <1>4 DEF Service!WriteRows
<1>9. Service!AllocateStock(o)
      BY <1>1, <1>3, <1>4, <1>6, <1>7, <1>8 DEF Service!AllocateStock
<1> QED BY <1>9, SMTT(40) DEF o

\* Counters and one ledger row per line.
LEMMA WriteLinesImplements ==
    ASSUME IInv, NEW r \in Slots, pc[r] = "open", Current(r), NEW rows, WriteLines(r, rows),
           Written(r) = Lines(op[r]), NEW current,
           \A l \in Lines(op[r]) : seen[r].level[l] = level[l] => rows[l] = current[l]
    PROVE  /\ ~Service!AlreadyRecorded(op[r])
           /\ Service!WriteRows(Lines(op[r]), current)
           /\ Service!AppendRows(Lines(op[r]), [l \in Levels |-> Service!LineMovements(op[r], l)])
           /\ UNCHANGED hold
<1> DEFINE o == op[r]
           W == Lines(o)
<1>1. \A l \in W : seen[r].level[l] = level[l]
      BY CommitFacts
<1>2. W \subseteq Levels
      BY DEF Lines
<1>3. ~Service!AlreadyRecorded(o) /\ UNCHANGED hold
      BY ServiceLines DEF WriteLines
<1>4. Service!AppendRows(W, [l \in Levels |-> Service!LineMovements(o, l)])
      <2>1. [l \in Levels |-> Service!LineMovements(o, l)] = [l \in Levels |-> LineMovements(o, l)]
            BY ServiceLines
      <2>2. Append(r, [l \in Levels |-> LineMovements(o, l)])
            BY DEF WriteLines
      <2> HIDE DEF W, o
      <2> QED BY <2>1, <2>2, ServiceAppends DEF Append, W, o
<1>5. level' = [l \in Levels |-> IF l \in W THEN rows[l] ELSE level[l]]
      BY DEF WriteLines, PersistLevels
<1>6. Service!WriteRows(W, current)
      <2>1. \A l \in W : rows[l] = current[l]
            BY <1>1, <1>2
      <2> HIDE DEF W
      <2> QED BY <1>2, <1>5, <2>1 DEF Service!WriteRows
<1> QED BY <1>1, <1>3, <1>4, <1>6

LEMMA CancelImplements ==
    ASSUME IInv, NEW r \in Slots, CancelOnce(r) PROVE Service!CancelAllocation(op[r])
<1> DEFINE current == [l \in Levels |-> Service!ReleaseAllocated(level[l], op[r].lines[l])]
<1>1. pc[r] = "open" /\ Current(r) /\ op[r].kind = "cancel"
      BY DEF CancelOnce, Committing
<1>2. Written(r) = Lines(op[r]) /\ Lines(op[r]) \subseteq Levels
      BY <1>1 DEF Written, Lines
<1>3. \A l \in Lines(op[r]) :
          Service!CanReleaseAllocated(level[l], op[r].lines[l])
      BY <1>1, <1>2, CommitFacts, ServiceLevels DEF Accepts
<1>4. WriteLines(r, [l \in Levels |-> ReleaseAllocated(seen[r].level[l], op[r].lines[l])])
      BY DEF CancelOnce
<1>5. \A l \in Lines(op[r]) : seen[r].level[l] = level[l] =>
          [k \in Levels |-> ReleaseAllocated(seen[r].level[k], op[r].lines[k])][l] = current[l]
      BY <1>2, ServiceLevels
<1> HIDE DEF current
<1>6. /\ ~Service!AlreadyRecorded(op[r]) /\ Service!WriteRows(Lines(op[r]), current)
      /\ Service!AppendRows(Lines(op[r]), [l \in Levels |-> Service!LineMovements(op[r], l)])
      /\ UNCHANGED hold
      BY <1>1, <1>2, <1>4, <1>5, WriteLinesImplements
<1>7. Service!Lines(op[r]) = Lines(op[r])
      BY ServiceLines
<1> QED BY <1>1, <1>3, <1>6, <1>7 DEF current, Service!CancelAllocation

LEMMA CommitImplements ==
    ASSUME IInv, NEW r \in Slots, CommitOnce(r) PROVE Service!CommitStock(op[r])
<1> DEFINE current == [l \in Levels |-> Service!CommitSale(level[l], op[r].lines[l])]
<1>1. pc[r] = "open" /\ Current(r) /\ op[r].kind = "sale"
      BY DEF CommitOnce, Committing
<1>2. Written(r) = Lines(op[r]) /\ Lines(op[r]) \subseteq Levels
      BY <1>1 DEF Written, Lines
<1>3. \A l \in Lines(op[r]) : Service!CanCommitSale(level[l], op[r].lines[l])
      BY <1>1, <1>2, CommitFacts, ServiceLevels DEF Accepts
<1>4. WriteLines(r, [l \in Levels |-> CommitSale(seen[r].level[l], op[r].lines[l])])
      BY DEF CommitOnce
<1>5. \A l \in Lines(op[r]) : seen[r].level[l] = level[l] =>
          [k \in Levels |-> CommitSale(seen[r].level[k], op[r].lines[k])][l] = current[l]
      BY <1>2, ServiceLevels
<1> HIDE DEF current
<1>6. /\ ~Service!AlreadyRecorded(op[r]) /\ Service!WriteRows(Lines(op[r]), current)
      /\ Service!AppendRows(Lines(op[r]), [l \in Levels |-> Service!LineMovements(op[r], l)])
      /\ UNCHANGED hold
      BY <1>1, <1>2, <1>4, <1>5, WriteLinesImplements
<1>7. Service!Lines(op[r]) = Lines(op[r])
      BY ServiceLines
<1> QED BY <1>1, <1>3, <1>6, <1>7 DEF current, Service!CommitStock

LEMMA ChangeImplements ==
    ASSUME IInv, NEW r \in Slots, ChangeOnHandOnce(r) PROVE Service!ChangeStock(op[r])
<1> DEFINE current == [l \in Levels |-> Service!ChangeOnHand(level[l], op[r].lines[l])]
<1>1. pc[r] = "open" /\ Current(r) /\ op[r].kind \in OnHandKinds
      BY DEF ChangeOnHandOnce, Committing
<1>2. Written(r) = Lines(op[r]) /\ Lines(op[r]) \subseteq Levels
      BY <1>1 DEF Written, Lines, OnHandKinds
<1>3. \A l \in Lines(op[r]) : Service!CanChangeOnHand(level[l], op[r].lines[l])
      BY <1>1, <1>2, CommitFacts, ServiceLevels DEF Accepts
<1>4. WriteLines(r, [l \in Levels |-> ChangeOnHand(seen[r].level[l], op[r].lines[l])])
      BY DEF ChangeOnHandOnce
<1>5. \A l \in Lines(op[r]) : seen[r].level[l] = level[l] =>
          [k \in Levels |-> ChangeOnHand(seen[r].level[k], op[r].lines[k])][l] = current[l]
      BY <1>2, ServiceLevels
<1> HIDE DEF current
<1>6. /\ ~Service!AlreadyRecorded(op[r]) /\ Service!WriteRows(Lines(op[r]), current)
      /\ Service!AppendRows(Lines(op[r]), [l \in Levels |-> Service!LineMovements(op[r], l)])
      /\ UNCHANGED hold
      BY <1>1, <1>2, <1>4, <1>5, WriteLinesImplements
<1>7. Service!Lines(op[r]) = Lines(op[r])
      BY ServiceLines
<1>8. op[r].kind \in Service!OnHandKinds
      BY <1>1 DEF Service!OnHandKinds, OnHandKinds
<1> QED BY <1>3, <1>6, <1>7, <1>8 DEF current, Service!ChangeStock

LEMMA AttemptImplements ==
    ASSUME IInv, InFlight, NEW r \in Slots, Attempt(r)
    PROVE  [Service!Next]_(Service!vars)
<1>1. pc[r] # "idle"
      BY Zenon DEF Attempt, Replay, Reject, Open, ReserveOnce, ReleaseAll, ExpireChunk, FreeOnce,
         AllocateOnce, CancelOnce, CommitOnce, ChangeOnHandOnce, DuplicateEntry, Retry,
         Exhaust, Committing
<1>2. op[r] \in Payloads \/ op[r].kind \in {"release", "sweep"}
      BY <1>1 DEF InFlight
<1>3. CASE ReserveOnce(r)
      <2>1. op[r] \in Payloads
            BY <1>2, <1>3 DEF ReserveOnce, Committing
      <2> QED BY <1>3, <2>1, ReserveImplements DEF Service!Next
<1>4. CASE ReleaseAll(r)
      <2>1. /\ Freed(op[r], seen[r]) \in SUBSET Ids
            /\ Service!FreeHolds(Freed(op[r], seen[r]), "released")
            BY <1>4, FreeImplements DEF ReleaseAll
      <2> QED BY <2>1 DEF Service!Next, Service!ReleaseHolds, Service!Ids, Ids
<1>5. CASE ExpireChunk(r)
      <2>1. /\ Freed(op[r], seen[r]) \in SUBSET Ids
            /\ Service!FreeHolds(Freed(op[r], seen[r]), "expired")
            BY <1>5, FreeImplements DEF ExpireChunk
      <2> QED BY <2>1 DEF Service!Next, Service!LapseHolds, Service!Ids, Ids
<1>6. CASE AllocateOnce(r)
      <2>1. op[r] \in Payloads
            BY <1>2, <1>6 DEF AllocateOnce, Committing
      <2> QED BY <1>6, <2>1, AllocateImplements, SMTT(40) DEF Service!Next
<1>7. CASE CancelOnce(r)
      <2>1. op[r] \in Payloads
            BY <1>2, <1>7 DEF CancelOnce, Committing
      <2> QED BY <1>7, <2>1, CancelImplements DEF Service!Next
<1>8. CASE CommitOnce(r)
      <2>1. op[r] \in Payloads
            BY <1>2, <1>8 DEF CommitOnce, Committing
      <2> QED BY <1>8, <2>1, CommitImplements DEF Service!Next
<1>9. CASE ChangeOnHandOnce(r)
      <2>1. op[r] \in Payloads
            BY <1>2, <1>9 DEF ChangeOnHandOnce, Committing, OnHandKinds
      <2> QED BY <1>9, <2>1, ChangeImplements DEF Service!Next
<1>10. CASE \/ Replay(r) \/ Reject(r) \/ Open(r) \/ DuplicateEntry(r) \/ Retry(r) \/ Exhaust(r)
      BY <1>10 DEF Replay, Reject, Open, DuplicateEntry, Retry, Exhaust, tables, Service!vars
<1> QED BY <1>3, <1>4, <1>5, <1>6, <1>7, <1>8, <1>9, <1>10, SMTT(40) DEF Attempt

LEMMA NextImplements == IInv /\ InFlight /\ [Next]_vars => [Service!Next]_(Service!vars)
<1> SUFFICES ASSUME IInv, InFlight, [Next]_vars PROVE [Service!Next]_(Service!vars)
    OBVIOUS
<1>1. ASSUME NEW r \in Slots, Attempt(r) PROVE [Service!Next]_(Service!vars)
      BY <1>1, AttemptImplements
<1>2. CASE UNCHANGED tables
      BY <1>2 DEF tables, Service!vars
<1> QED BY <1>1, <1>2 DEF Next, SweepStep, SweepStart, SweepChunk, Submit, Fault, Tick, Slots, vars

\* The service, with its snapshots, versions, retries, redeliveries, sweeps and
\* lost transactions, is the atomic one: every step of it is one operation of
\* StockService on the rows as they are at that instant, or changes no row.
THEOREM InventoryIsAtomic == Spec => Implements
<1>1. Init => Service!Init
      <2>1. \A n : Service!InitialAt(n) = InitialAt(n)
            BY DEF Service!InitialAt, InitialAt
      <2>2. Service!NoHold = NoHold /\ Service!EmptyBag = EmptyBag
            BY DEF Service!NoHold, NoHold, Service!EmptyBag, EmptyBag, Service!SetToBag, SetToBag
      <2> QED BY <2>1, <2>2 DEF Init, Service!Init
<1>2. Init => InFlight
      BY DEF Init, InFlight
<1>3. IInv => TypeOK
      BY DEF IInv
<1>4. Spec => [](IInv /\ InFlight)
      BY <1>2, <1>3, Invariance, NextKeepsInFlight, PTL DEF Spec
<1> QED BY <1>1, <1>4, NextImplements, PTL DEF Spec, Implements, Service!Spec

-----------------------------------------------------------------------------
(* The ledger.                                                             *)

\* Two rows of one sale, one restock or one cancellation.
SameOperation(m, n) ==
    \/ m.type \in {"sale", "return"} /\ n.type = m.type /\ n.ref = m.ref
    \/ m.type = "release" /\ n.type = m.type /\ m.key # None /\ n.key = m.key

\* The rows that name an operation.
Tracked(m) ==
    \/ m.type \in {"sale", "return"}
    \/ m.type = "release" /\ m.key # None

\* What a request may append at a level: at most one row that names an
\* operation, and none of an operation the level has a row of.
FreshRows(S, l) ==
    \A m \in S : Tracked(m) => /\ S = {m}
                               /\ \A n \in BagToSet(ledger[l]) :
                                     ~SameOperation(m, n) /\ ~SameOperation(n, m)

LEMMA BagAppend ==
    ASSUME NEW B, NEW S, NEW m
    PROVE  /\ BagToSet(B (+) SetToBag(S)) = BagToSet(B) \cup S
           /\ m \in BagToSet(B) /\ m \notin S /\ B[m] = 1 => (B (+) SetToBag(S))[m] = 1
           /\ m \notin BagToSet(B) /\ m \in S => (B (+) SetToBag(S))[m] = 1
BY DEF (+), SetToBag, BagToSet

LEMMA FreshRowsKeepOnce ==
    ASSUME OncePerOperation, NEW W,
           NEW movements, \A l \in Levels \cap W : FreshRows(movements[l], l),
           ledger' = [l \in Levels |-> IF l \in W THEN ledger[l] (+) SetToBag(movements[l])
                                                  ELSE ledger[l]]
    PROVE  OncePerOperation'
<1> SUFFICES ASSUME NEW l \in Levels, NEW m \in BagToSet(ledger'[l]), NEW n \in BagToSet(ledger'[l]),
                    SameOperation(m, n)
             PROVE  m = n /\ ledger'[l][m] = 1
    BY DEF OncePerOperation, SameOperation
<1>1. \A x, y \in BagToSet(ledger[l]) : SameOperation(x, y) => x = y /\ ledger[l][x] = 1
      BY DEF OncePerOperation, SameOperation
<1>2. CASE l \notin W
      BY <1>1, <1>2
<1>3. CASE l \in W
      <2> DEFINE S == movements[l]
                 B == ledger[l]
      <2>1. ledger'[l] = B (+) SetToBag(S)
            BY <1>3
      <2>2. BagToSet(ledger'[l]) = BagToSet(B) \cup S
            BY <2>1, BagAppend
      <2>3. Tracked(m) /\ Tracked(n) /\ SameOperation(m, m)
            BY DEF SameOperation, Tracked
      <2>4. FreshRows(S, l)
            BY <1>3
      <2>5. CASE m \in S
            <3>1. S = {m} /\ m \notin BagToSet(B) /\ n \notin BagToSet(B)
                  BY <2>3, <2>4, <2>5 DEF FreshRows
            <3> QED BY <2>1, <2>2, <2>5, <3>1, BagAppend
      <2>6. CASE m \notin S
            <3>1. n \notin S
                  BY <2>2, <2>3, <2>4, <2>6 DEF FreshRows
            <3>2. m = n /\ B[m] = 1
                  BY <1>1, <2>2, <2>6, <3>1
            <3> QED BY <2>1, <2>2, <2>6, <3>2, BagAppend
      <2> QED BY <2>5, <2>6
<1> QED BY <1>2, <1>3

\* The key the unique index compares is the operation.
LEMMA KeyOfOperation ==
    ASSUME NEW o \in Op, o.kind \in LedgeredKinds, o.kind = "cancel" => o.key # None,
           NEW l, NEW m \in LineMovements(o, l), NEW n,
           SameOperation(m, n) \/ SameOperation(n, m)
    PROVE  DedupeKey(m) # None /\ DedupeKey(m) = DedupeKey(n)
<1>1. CASE o.kind = "cancel"
      <2>1. m.type = "release" /\ m.key = o.key /\ o.key \in Refs /\ o.key # None
            BY <1>1 DEF LineMovements, Movement, Op
      <2>2. n.type = "release" /\ n.key = o.key
            BY <2>1 DEF SameOperation
      <2>3. DedupeKey(m) = <<"release", o.key>> /\ DedupeKey(n) = <<"release", o.key>>
            BY <2>1, <2>2 DEF DedupeKey
      <2> QED BY <2>1, <2>3, NullIsNoKey
<1>2. CASE o.kind \in {"sale", "return"}
      <2>1. m.type = o.kind /\ m.ref = o.ref /\ o.ref \in Refs \cup {None}
            BY <1>2 DEF LineMovements, Movement, Op
      <2>2. n.type = o.kind /\ n.ref = o.ref
            BY <1>2, <2>1 DEF SameOperation
      <2>3. DedupeKey(m) = <<o.kind, o.ref>> /\ DedupeKey(n) = <<o.kind, o.ref>>
            BY <1>2, <2>1, <2>2 DEF DedupeKey
      <2> QED BY <1>2, <2>1, <2>3, NullIsNoKey
<1> QED BY <1>1, <1>2 DEF LedgeredKinds

Recorded(o) == \A l \in Lines(o) : LineMovements(o, l) \subseteq BagToSet(ledger[l])

\* A row that names an operation came with all rows of its request.
Explained ==
    \A l \in Levels : \A m \in BagToSet(ledger[l]) : Tracked(m) =>
        \E o \in Payloads : o.kind \in LedgeredKinds /\ m \in LineMovements(o, l) /\ Recorded(o)

LedgerInv == OncePerOperation /\ Explained /\ AckedIsRecorded

LEMMA AppendKeepsLedger ==
    ASSUME LedgerInv, NEW W, NEW movements,
           ledger' = [l \in Levels |-> IF l \in W THEN ledger[l] (+) SetToBag(movements[l])
                                                  ELSE ledger[l]],
           \A l \in Levels \cap W : FreshRows(movements[l], l),
           \A l \in Levels \cap W : \A m \in movements[l] : Tracked(m) =>
               \E o \in Payloads : o.kind \in LedgeredKinds /\ m \in LineMovements(o, l) /\ Recorded(o)',
           \A o \in acked' : o \in acked \/ Recorded(o)'
    PROVE  LedgerInv'
<1>1. OncePerOperation'
      BY FreshRowsKeepOnce DEF LedgerInv
<1>2. \A l \in Levels :
          BagToSet(ledger'[l]) = IF l \in W THEN BagToSet(ledger[l]) \cup movements[l]
                                            ELSE BagToSet(ledger[l])
      BY BagAppend
<1>3. \A o : Recorded(o) => Recorded(o)'
      BY <1>2 DEF Recorded, Lines
<1>4. Explained'
      <2> SUFFICES ASSUME NEW l \in Levels, NEW m \in BagToSet(ledger'[l]), Tracked(m)
                   PROVE  \E o \in Payloads : /\ o.kind \in LedgeredKinds
                                              /\ m \in LineMovements(o, l) /\ Recorded(o)'
          BY DEF Explained
      <2>1. CASE m \in BagToSet(ledger[l])
            BY <1>3, <2>1 DEF LedgerInv, Explained
      <2>2. CASE l \in W /\ m \in movements[l]
            BY <2>2
      <2> QED BY <1>2, <2>1, <2>2
<1>5. AckedIsRecorded'
      BY <1>3 DEF LedgerInv, AckedIsRecorded, Recorded
<1> QED BY <1>1, <1>4, <1>5 DEF LedgerInv

\* A request that finds its operation in the ledger finds all its rows there.
LEMMA SameRequest ==
    ASSUME LedgerInv, NEW o \in Payloads, NEW p \in Payloads, Recorded(p), o.kind = p.kind,
           o.kind \in LedgeredKinds, IF o.kind = "cancel" THEN o.key = p.key ELSE o.ref = p.ref
    PROVE  Recorded(o)
<1>1. o.lines = p.lines /\ o.ref = p.ref
      BY OneRequestPerKey DEF LedgeredKinds
<1>2. Lines(o) = Lines(p) /\ \A l : LineMovements(o, l) = LineMovements(p, l)
      BY <1>1 DEF Lines, LineMovements, LedgeredKinds
<1> QED BY <1>2 DEF Recorded

LEMMA ReplayIsRecorded ==
    ASSUME LedgerInv, NEW o \in Payloads, o.kind \in {"sale", "return"}, ExistsByReference(o)
    PROVE  Recorded(o)
<1>0. PICK l \in Levels : \E m \in BagToSet(ledger[l]) : m.type = o.kind /\ m.ref = o.ref
      BY DEF ExistsByReference
<1>1. PICK m \in BagToSet(ledger[l]) : m.type = o.kind /\ m.ref = o.ref
      BY <1>0
<1>2. PICK p \in Payloads : p.kind \in LedgeredKinds /\ m \in LineMovements(p, l) /\ Recorded(p)
      BY <1>1 DEF LedgerInv, Explained, Tracked
<1>3. p.kind = o.kind /\ p.ref = o.ref
      BY <1>1, <1>2 DEF LineMovements, Movement, LedgeredKinds
<1> QED BY <1>2, <1>3, SameRequest DEF LedgeredKinds

LEMMA DuplicateIsRecorded ==
    ASSUME LedgerInv, NEW o \in Payloads, o.kind \in LedgeredKinds, AlreadyRecorded(o)
    PROVE  Recorded(o)
<1>1. PICK l \in Lines(o) : \E m \in LineMovements(o, l), n \in BagToSet(ledger[l]) :
                                DedupeKey(m) # None /\ DedupeKey(m) = DedupeKey(n)
      BY DEF AlreadyRecorded
<1>2. PICK m \in LineMovements(o, l), n \in BagToSet(ledger[l]) :
          DedupeKey(m) # None /\ DedupeKey(m) = DedupeKey(n)
      BY <1>1
<1>3. Tracked(n) /\ l \in Levels
      BY <1>2 DEF DedupeKey, Tracked, Lines
<1>4. PICK p \in Payloads : p.kind \in LedgeredKinds /\ n \in LineMovements(p, l) /\ Recorded(p)
      BY <1>3 DEF LedgerInv, Explained
<1>5. \A q \in Payloads : \A x \in LineMovements(q, l) : q.kind \in LedgeredKinds =>
          IF q.kind = "cancel" THEN x.type = "release" /\ x.key = q.key
                               ELSE x.type = q.kind /\ x.ref = q.ref
      BY DEF LineMovements, Movement, LedgeredKinds
<1>6. o.kind = p.kind /\ IF o.kind = "cancel" THEN o.key = p.key ELSE o.ref = p.ref
      <2>1. CASE o.kind = "cancel"
            <3>1. m.type = "release" /\ m.key = o.key
                  BY <1>5, <2>1 DEF LedgeredKinds
            <3>2. DedupeKey(m) = <<"release", o.key>>
                  BY <1>2, <3>1 DEF DedupeKey
            <3>3. n.type = "release" /\ n.key = o.key
                  BY <1>2, <1>3, <3>2 DEF DedupeKey, Tracked
            <3> QED BY <1>4, <1>5, <2>1, <3>3 DEF LedgeredKinds
      <2>2. CASE o.kind # "cancel"
            <3>1. m.type = o.kind /\ m.ref = o.ref /\ o.kind \in {"sale", "return"}
                  BY <1>5, <2>2 DEF LedgeredKinds
            <3>2. DedupeKey(m) = <<o.kind, o.ref>>
                  BY <3>1 DEF DedupeKey
            <3>3. n.type = o.kind /\ n.ref = o.ref
                  BY <1>2, <1>3, <3>1, <3>2 DEF DedupeKey, Tracked
            <3> QED BY <1>4, <1>5, <2>2, <3>1, <3>3 DEF LedgeredKinds
      <2> QED BY <2>1, <2>2
<1> QED BY <1>4, <1>6, SameRequest

LEMMA UntrackedKeepsLedger ==
    ASSUME LedgerInv, NEW W, NEW movements,
           ledger' = [l \in Levels |-> IF l \in W THEN ledger[l] (+) SetToBag(movements[l])
                                                  ELSE ledger[l]],
           \A l \in Levels \cap W : \A m \in movements[l] : ~Tracked(m),
           acked' = acked
    PROVE  LedgerInv'
BY AppendKeepsLedger DEF FreshRows

LEMMA AnswerKeepsLedger ==
    ASSUME LedgerInv, UNCHANGED ledger, \A o \in acked' : o \in acked \/ Recorded(o)
    PROVE  LedgerInv'
BY DEF LedgerInv, OncePerOperation, Explained, AckedIsRecorded, Recorded

LEMMA WriteLinesKeepsLedger ==
    ASSUME LedgerInv, NEW r \in Slots, NEW rows, op[r] \in Payloads,
           op[r].kind \in LedgeredKinds \cup OnHandKinds,
           Written(r) = Lines(op[r]), WriteLines(r, rows), Finish(r, TRUE)
    PROVE  LedgerInv'
<1> PICK o \in Payloads : o = op[r]
    OBVIOUS
<1> DEFINE movements == [l \in Levels |-> LineMovements(o, l)]
<1>1. /\ ledger' = [l \in Levels |-> IF l \in Written(r) THEN ledger[l] (+) SetToBag(movements[l])
                                                        ELSE ledger[l]]
      /\ ~AlreadyRecorded(o) /\ Written(r) = Lines(o) /\ Lines(o) \subseteq Levels
      BY DEF WriteLines, Append, Lines
<1>2. o \in Op /\ (o.kind = "cancel" => o.key # None)
      BY ValidPayloads DEF ValidPayload
<1>3. \A l \in Levels : movements[l] = LineMovements(o, l)
      OBVIOUS
<1>4. acked' = IF o.kind \in LedgeredKinds THEN acked \cup {o} ELSE acked
      BY DEF Finish
<1>5. CASE o.kind \notin LedgeredKinds
      <2>1. \A l : \A m \in LineMovements(o, l) : ~Tracked(m)
            BY <1>5 DEF LineMovements, Movement, Tracked, LedgeredKinds, OnHandKinds
      <2> HIDE DEF movements
      <2> QED BY <1>1, <1>3, <1>4, <1>5, <2>1, UntrackedKeepsLedger
<1>6. CASE o.kind \in LedgeredKinds
      <2>1. Recorded(o)'
            <3>1. \A l \in Lines(o) : BagToSet(ledger'[l]) = BagToSet(ledger[l]) \cup LineMovements(o, l)
                  <4> HIDE DEF movements
                  <4> QED BY <1>1, <1>3, BagAppend, ZenonT(60)
            <3> QED BY <3>1 DEF Recorded
      <2>2. ASSUME NEW l \in Lines(o) PROVE FreshRows(movements[l], l)
            <3>1. movements[l] = LineMovements(o, l)
                  BY <1>1, <1>3
            <3>2. \A m \in LineMovements(o, l) : LineMovements(o, l) = {m}
                  BY <1>6 DEF LineMovements, LedgeredKinds
            <3>3. \A m \in LineMovements(o, l), n \in BagToSet(ledger[l]) :
                      ~(DedupeKey(m) # None /\ DedupeKey(m) = DedupeKey(n))
                  BY <1>1 DEF AlreadyRecorded
            <3> HIDE DEF movements
            <3>4. \A m \in LineMovements(o, l), n \in BagToSet(ledger[l]) :
                      ~SameOperation(m, n) /\ ~SameOperation(n, m)
                  BY <1>2, <1>6, <3>3, KeyOfOperation
            <3> QED BY <3>1, <3>2, <3>4 DEF FreshRows
      <2>3. \A p \in acked' : p \in acked \/ Recorded(p)'
            <3> QED BY <1>4, <1>6, <2>1
      <2> HIDE DEF movements
      <2>4. \A l \in Levels \cap Written(r) : \A m \in movements[l] : Tracked(m) =>
               \E p \in Payloads : p.kind \in LedgeredKinds /\ m \in LineMovements(p, l) /\ Recorded(p)'
            BY <1>3, <1>6, <2>1
      <2> QED BY <1>1, <2>2, <2>3, <2>4, AppendKeepsLedger
<1> QED BY <1>5, <1>6

LEMMA AttemptKeepsLedger ==
    ASSUME InFlight, LedgerInv, NEW r \in Slots, Attempt(r) PROVE LedgerInv'
<1>1. pc[r] # "idle"
      BY Zenon DEF Attempt, Replay, Reject, Open, ReserveOnce, ReleaseAll, ExpireChunk, FreeOnce,
         AllocateOnce, CancelOnce, CommitOnce, ChangeOnHandOnce, DuplicateEntry, Retry,
         Exhaust, Committing
<1>2. op[r] \in Payloads \/ op[r].kind \in {"release", "sweep"}
      BY <1>1 DEF InFlight
<1>3. CASE ReserveOnce(r)
      <2>1. UNCHANGED ledger /\ acked' = acked
            BY <1>3 DEF ReserveOnce, Committing, Finish, LedgeredKinds
      <2> QED BY <2>1, AnswerKeepsLedger
<1>4. CASE ReleaseAll(r) \/ ExpireChunk(r)
      <2> DEFINE movements == [l \in Levels |-> FreeMovements(seen[r], Freed(op[r], seen[r]), l)]
      <2>1. Append(r, movements) /\ acked' = acked
            BY <1>4 DEF ReleaseAll, ExpireChunk, FreeOnce, Committing, Finish, LedgeredKinds
      <2>2. \A l \in Levels : \A m \in movements[l] : ~Tracked(m)
            BY DEF FreeMovements, Movement, Tracked
      <2> HIDE DEF movements
      <2> QED BY <2>1, <2>2, UntrackedKeepsLedger DEF Append
<1>5. CASE AllocateOnce(r)
      <2> DEFINE movements == [l \in Levels |-> LineMovements(op[r], l)]
      <2>1. Append(r, movements) /\ acked' = acked /\ op[r].kind = "allocate"
            BY <1>5 DEF AllocateOnce, Committing, Finish, LedgeredKinds
      <2>2. \A l \in Levels : \A m \in movements[l] : ~Tracked(m)
            BY <2>1 DEF LineMovements, Movement, Tracked
      <2> HIDE DEF movements
      <2> QED BY <2>1, <2>2, UntrackedKeepsLedger, SMTT(40) DEF Append
<1>6. CASE CancelOnce(r) \/ CommitOnce(r) \/ ChangeOnHandOnce(r)
      <2>1. /\ op[r].kind \in LedgeredKinds \cup OnHandKinds /\ op[r].kind \notin {"release", "sweep", "reserve"}
            /\ Finish(r, TRUE) /\ \E rows : WriteLines(r, rows)
            BY <1>6 DEF CancelOnce, CommitOnce, ChangeOnHandOnce, Committing, LedgeredKinds, OnHandKinds
      <2>2. Written(r) = Lines(op[r])
            BY <2>1 DEF Written
      <2> QED BY <1>2, <2>1, <2>2, WriteLinesKeepsLedger
<1>7. CASE DuplicateEntry(r)
      <2>1. /\ op[r].kind \in LedgeredKinds /\ AlreadyRecorded(op[r]) /\ UNCHANGED ledger
            /\ acked' = acked \cup {op[r]}
            BY <1>7 DEF DuplicateEntry, Committing, Finish, tables
      <2>2. op[r] \in Payloads
            BY <1>2, <2>1 DEF LedgeredKinds
      <2> QED BY <2>1, <2>2, DuplicateIsRecorded, AnswerKeepsLedger
<1>8. CASE Replay(r)
      <2>1. /\ op[r].kind \in {"sale", "return"} /\ ExistsByReference(op[r]) /\ UNCHANGED ledger
            /\ acked' = acked \cup {op[r]}
            BY <1>8 DEF Replay, Finish, tables, LedgeredKinds
      <2>2. op[r] \in Payloads
            BY <1>2, <2>1
      <2> QED BY <2>1, <2>2, ReplayIsRecorded, AnswerKeepsLedger
<1>9. CASE Reject(r) \/ Open(r) \/ Retry(r) \/ Exhaust(r)
      <2>1. UNCHANGED ledger /\ acked' = acked
            BY <1>9 DEF Reject, Open, Retry, Exhaust, Finish, tables
      <2> QED BY <2>1, AnswerKeepsLedger
<1> QED BY <1>3, <1>4, <1>5, <1>6, <1>7, <1>8, <1>9 DEF Attempt

LEMMA NextKeepsLedger == InFlight /\ LedgerInv /\ [Next]_vars => LedgerInv'
<1> SUFFICES ASSUME InFlight, LedgerInv, [Next]_vars PROVE LedgerInv'
    OBVIOUS
<1>1. ASSUME NEW r \in Slots, Attempt(r) PROVE LedgerInv'
      BY <1>1, AttemptKeepsLedger
<1>2. ASSUME NEW r \in Handlers, NEW o \in Payloads, Submit(r, o) PROVE LedgerInv'
      <2>1. /\ UNCHANGED ledger
            /\ \/ acked' = acked
               \/ o.kind \in {"sale", "return"} /\ ExistsByReference(o) /\ acked' = acked \cup {o}
            BY <1>2 DEF Submit, SubmitRelease, SubmitLedgered, SubmitOther, tables
      <2> QED BY <2>1, ReplayIsRecorded, AnswerKeepsLedger
<1>3. ASSUME NEW r \in Slots, Fault(r) PROVE LedgerInv'
      BY <1>3, AnswerKeepsLedger DEF Fault, Finish, tables
<1>4. CASE UNCHANGED <<ledger, acked>>
      BY <1>4, AnswerKeepsLedger
<1> QED BY <1>1, <1>2, <1>3, <1>4 DEF Next, SweepStep, SweepStart, SweepChunk, Tick, Slots, vars, tables

LEMMA LedgerInvariance == Spec => []LedgerInv
<1>1. Init => LedgerInv
      BY DEF Init, LedgerInv, OncePerOperation, Explained, AckedIsRecorded, EmptyBag, SetToBag, BagToSet
<1>2. Init => InFlight
      BY DEF Init, InFlight
<1>3. IInv => TypeOK
      BY DEF IInv
<1> QED BY <1>1, <1>2, <1>3, Invariance, NextKeepsInFlight, NextKeepsLedger, PTL DEF Spec

\* However often a sale, a restock or a cancellation is delivered, and by
\* whichever two handlers at once, a level has its row once.
THEOREM OperationsHappenOnce == Spec => []OncePerOperation
<1>1. LedgerInv => OncePerOperation
      BY DEF LedgerInv
<1> QED BY <1>1, LedgerInvariance, PTL

\* Whoever is told that a sale, a restock or a cancellation was done, by the
\* commit or by the answer to a repetition, finds all its rows in the ledger.
THEOREM AnswersAreRecorded == Spec => []AckedIsRecorded
<1>1. LedgerInv => AckedIsRecorded
      BY DEF LedgerInv
<1> QED BY <1>1, LedgerInvariance, PTL

-----------------------------------------------------------------------------
(* What a ledger adds up to.  Counters are numbers of units and a row that *)
(* counts n times moves n times its quantity, so the sums are cardinals of *)
(* grids, one cell per row, copy and unit, and an appended row adds its    *)
(* own cells and no others.                                                *)

\* The units of rows R whose row m counts rows[m] times and moves size[m] units.
Grid(rows, R, size) == UNION {{m} \X ((1 .. rows[m]) \X (1 .. size[m])) : m \in R}

LEMMA IntervalSize ==
    ASSUME NEW q \in Int
    PROVE  IsFiniteSet(1 .. q) /\ Cardinality(1 .. q) = IF q > 0 THEN q ELSE 0
<1>1. IsFiniteSet(1 .. q) /\ Cardinality(1 .. q) = IF 1 > q THEN 0 ELSE q - 1 + 1
      BY FS_Interval
<1> QED BY <1>1

LEMMA GridFinite ==
    ASSUME NEW rows, NEW R, IsFiniteSet(R), NEW size,
           \A m \in R : rows[m] \in Nat /\ size[m] \in Int
    PROVE  IsFiniteSet(Grid(rows, R, size)) /\ Cardinality(Grid(rows, R, size)) \in Nat
<1> DEFINE f == [m \in R |-> {m} \X ((1 .. rows[m]) \X (1 .. size[m]))]
           T == {{m} \X ((1 .. rows[m]) \X (1 .. size[m])) : m \in R}
<1>1. f \in Surjection(R, T)
      BY DEF Surjection
<1>2. IsFiniteSet(T)
      <2> HIDE DEF f, T
      <2> QED BY <1>1, FS_Surjection
<1>3. ASSUME NEW m \in R PROVE IsFiniteSet({m} \X ((1 .. rows[m]) \X (1 .. size[m])))
      <2>1. IsFiniteSet(1 .. rows[m]) /\ IsFiniteSet(1 .. size[m])
            BY IntervalSize
      <2>2. IsFiniteSet((1 .. rows[m]) \X (1 .. size[m])) /\ IsFiniteSet({m})
            BY <2>1, FS_Product, FS_Singleton
      <2> QED BY <2>2, FS_Product
<1>4. \A S \in T : IsFiniteSet(S)
      BY <1>3
<1>5. IsFiniteSet(UNION T)
      <2> HIDE DEF T
      <2> QED BY <1>2, <1>4, FS_UNION
<1>6. IsFiniteSet(Grid(rows, R, size))
      BY <1>5 DEF Grid
<1> QED BY <1>6, FS_CardinalityType

LEMMA GridAgrees ==
    ASSUME NEW rows, NEW rows2, NEW R, NEW size, NEW size2,
           \A m \in R : rows[m] = rows2[m] /\ size[m] = size2[m]
    PROVE  Grid(rows, R, size) = Grid(rows2, R, size2)
BY DEF Grid

\* One more occurrence of a row is as many units more as the row moves.
LEMMA GridGrows ==
    ASSUME NEW rows, NEW rows2, NEW R, IsFiniteSet(R), NEW m, NEW size,
           \A x \in R : rows[x] \in Nat /\ size[x] \in Int /\ (x # m => rows2[x] = rows[x]),
           rows2[m] = (IF m \in R THEN rows[m] ELSE 0) + 1,
           size[m] \in Int
    PROVE  Cardinality(Grid(rows2, R \cup {m}, size))
              = Cardinality(Grid(rows, R, size)) + (IF size[m] > 0 THEN size[m] ELSE 0)
<1> DEFINE k == rows2[m]
           q == size[m]
           old == Grid(rows, R, size)
           new == {m} \X ({k} \X (1 .. q))
<1>1. k \in Nat /\ k > 0 /\ (m \in R => k = rows[m] + 1)
      OBVIOUS
<1>2. Grid(rows2, R \cup {m}, size) = old \cup new
      <2>1. ASSUME NEW x \in R, x # m
            PROVE  {x} \X ((1 .. rows2[x]) \X (1 .. size[x])) = {x} \X ((1 .. rows[x]) \X (1 .. size[x]))
            BY <2>1
      <2>2. m \in R => 1 .. k = (1 .. rows[m]) \cup {k}
            BY <1>1
      <2>3. m \notin R => 1 .. k = {k}
            BY <1>1
      <2>4. CASE m \in R
            <3>1. {m} \X ((1 .. k) \X (1 .. q)) = ({m} \X ((1 .. rows[m]) \X (1 .. q))) \cup new
                  <4>1. 1 .. k = (1 .. rows[m]) \cup {k}
                        BY <2>2, <2>4
                  <4> HIDE DEF k, q
                  <4> QED BY <4>1
            <3>2. R \cup {m} = R
                  BY <2>4
            <3>3. \A x \in R : {x} \X ((1 .. rows2[x]) \X (1 .. size[x]))
                     = IF x = m THEN ({m} \X ((1 .. rows[m]) \X (1 .. q))) \cup new
                                ELSE {x} \X ((1 .. rows[x]) \X (1 .. size[x]))
                  BY <2>1, <3>1
            <3> HIDE DEF new
            <3> QED BY <2>4, <3>2, <3>3 DEF Grid
      <2>5. CASE m \notin R
            <3>1. {m} \X ((1 .. k) \X (1 .. q)) = new
                  BY <2>3, <2>5
            <3>2. \A x \in R \cup {m} : {x} \X ((1 .. rows2[x]) \X (1 .. size[x]))
                     = IF x = m THEN new ELSE {x} \X ((1 .. rows[x]) \X (1 .. size[x]))
                  BY <2>1, <3>1
            <3> HIDE DEF new
            <3> QED BY <2>5, <3>2 DEF Grid
      <2> QED BY <2>4, <2>5
<1>3. old \cap new = {}
      <2> SUFFICES ASSUME NEW e \in new, e \in old PROVE FALSE
          OBVIOUS
      <2>1. PICK x \in R : e \in {x} \X ((1 .. rows[x]) \X (1 .. size[x]))
            BY DEF Grid
      <2>2. x = m /\ k \in 1 .. rows[x]
            BY <2>1
      <2> QED BY <1>1, <2>2
<1>4. IsFiniteSet(old) /\ Cardinality(old) \in Nat
      BY GridFinite
<1>5. IsFiniteSet(new) /\ Cardinality(new) = IF q > 0 THEN q ELSE 0
      <2>1. IsFiniteSet(1 .. q) /\ Cardinality(1 .. q) = IF q > 0 THEN q ELSE 0
            BY IntervalSize
      <2>2. /\ IsFiniteSet({k}) /\ Cardinality({k}) = 1
            /\ IsFiniteSet({m}) /\ Cardinality({m}) = 1
            BY FS_Singleton
      <2> HIDE DEF k
      <2> DEFINE units == {k} \X (1 .. q)
      <2>3. IsFiniteSet(units) /\ Cardinality(units) = 1 * Cardinality(1 .. q)
            BY <2>1, <2>2, FS_Product
      <2>4. IsFiniteSet({m} \X units) /\ Cardinality({m} \X units) = 1 * Cardinality(units)
            <3> HIDE DEF units
            <3> QED BY <2>2, <2>3, FS_Product
      <2> QED BY <2>1, <2>3, <2>4
<1>6. Cardinality(old \cup new) = Cardinality(old) + Cardinality(new)
      <2>1. Cardinality(old \cup new)
               = Cardinality(old) + Cardinality(new) - Cardinality(old \cap new)
            <3> HIDE DEF old, new
            <3> QED BY <1>4, <1>5, FS_Union
      <2>2. Cardinality(old \cap new) = 0
            BY <1>3, FS_EmptySet
      <2> HIDE DEF old, new
      <2>3. Cardinality(new) \in Nat
            BY <1>5, FS_CardinalityType
      <2> QED BY <1>4, <2>1, <2>2, <2>3
<1> QED BY <1>2, <1>5, <1>6

\* The rows of a ledger: finitely many, each a number of times, each with a
\* quantity.
FiniteRows(rows) ==
    /\ IsFiniteSet(BagToSet(rows))
    /\ \A m \in BagToSet(rows) : rows[m] \in Nat /\ m.quantity \in Int

FiniteLedger == \A l \in Levels : FiniteRows(ledger[l])

\* What the rows of a class are after S was appended.
LEMMA AppendedRows ==
    ASSUME NEW rows, NEW S
    PROVE  /\ BagToSet(rows (+) SetToBag(S)) = BagToSet(rows) \cup S
           /\ \A m \in BagToSet(rows) \ S : rows[m] \in Nat => (rows (+) SetToBag(S))[m] = rows[m]
           /\ \A m \in S : (rows (+) SetToBag(S))[m] =
                               (IF m \in BagToSet(rows) THEN rows[m] ELSE 0) + 1
<1> DEFINE B == SetToBag(S)
<1>1. DOMAIN B = S /\ \A m \in S : B[m] = 1
      BY DEF SetToBag
<1> HIDE DEF B
<1>2. DOMAIN (rows (+) B) = DOMAIN rows \cup S
      BY <1>1 DEF (+)
<1>3. \A m \in DOMAIN rows \cup S : (rows (+) B)[m] =
          (IF m \in DOMAIN rows THEN rows[m] ELSE 0) + (IF m \in S THEN B[m] ELSE 0)
      BY <1>1 DEF (+)
<1> QED BY <1>1, <1>2, <1>3 DEF BagToSet, B

LEMMA AppendKeepsFinite ==
    ASSUME NEW rows, FiniteRows(rows), NEW S, IsFiniteSet(S), \A m \in S : m.quantity \in Int
    PROVE  FiniteRows(rows (+) SetToBag(S))
<1>0. /\ IsFiniteSet(BagToSet(rows))
      /\ \A m \in BagToSet(rows) : rows[m] \in Nat /\ m.quantity \in Int
      BY DEF FiniteRows
<1> DEFINE R == BagToSet(rows)
<1>1. IsFiniteSet(R \cup S)
      <2>1. IsFiniteSet(R)
            BY <1>0
      <2> HIDE DEF R
      <2> QED BY <2>1, FS_Union
<1> DEFINE rows2 == rows (+) SetToBag(S)
<1>2. ASSUME NEW m \in R \cup S PROVE rows2[m] \in Nat /\ m.quantity \in Int
      <2>1. CASE m \in S
            BY <1>0, <2>1, AppendedRows
      <2>2. CASE m \notin S
            BY <1>0, <2>2, AppendedRows
      <2> QED BY <2>1, <2>2
<1>3. BagToSet(rows2) = R \cup S
      BY AppendedRows
<1> HIDE DEF rows2, R
<1>4. FiniteRows(rows2)
      BY <1>1, <1>2, <1>3 DEF FiniteRows
<1> QED BY <1>4 DEF rows2

\* A class of rows, and the two counts of what its rows move.
LEMMA UnitsAsGrid ==
    ASSUME NEW rows, NEW R
    PROVE  /\ BroughtIn(rows, R) = Grid(rows, R, [m \in R |-> m.quantity])
           /\ TakenOut(rows, R) = Grid(rows, R, [m \in R |-> -m.quantity])
<1>1. \A m \in R : [x \in R |-> x.quantity][m] = m.quantity /\ [x \in R |-> -x.quantity][m] = -m.quantity
      OBVIOUS
<1>2. /\ \A m \in R : {m} \X ((1 .. rows[m]) \X (1 .. [x \in R |-> x.quantity][m]))
                        = {m} \X ((1 .. rows[m]) \X (1 .. m.quantity))
      /\ \A m \in R : {m} \X ((1 .. rows[m]) \X (1 .. [x \in R |-> -x.quantity][m]))
                        = {m} \X ((1 .. rows[m]) \X (1 .. -m.quantity))
      BY <1>1
<1> QED BY <1>2 DEF BroughtIn, TakenOut, Grid

\* Rows of other classes change nothing.
LEMMA OtherRowsCount ==
    ASSUME NEW rows, NEW rows2, NEW R, \A m \in R : rows2[m] = rows[m]
    PROVE  /\ BroughtIn(rows2, R) = BroughtIn(rows, R)
           /\ TakenOut(rows2, R) = TakenOut(rows, R)
BY DEF BroughtIn, TakenOut

\* A row of the class moves as many units as its quantity says.
LEMMA RowCounts ==
    ASSUME NEW rows, NEW rows2, NEW R, IsFiniteSet(R), NEW m, m.quantity \in Int,
           \A x \in R : rows[x] \in Nat /\ x.quantity \in Int /\ (x # m => rows2[x] = rows[x]),
           rows2[m] = (IF m \in R THEN rows[m] ELSE 0) + 1
    PROVE  /\ Cardinality(BroughtIn(rows2, R \cup {m}))
                 = Cardinality(BroughtIn(rows, R)) + (IF m.quantity > 0 THEN m.quantity ELSE 0)
           /\ Cardinality(TakenOut(rows2, R \cup {m}))
                 = Cardinality(TakenOut(rows, R)) + (IF m.quantity < 0 THEN -m.quantity ELSE 0)
<1> DEFINE in == [x \in R \cup {m} |-> x.quantity]
           out == [x \in R \cup {m} |-> -x.quantity]
<1>1. \A x \in R \cup {m} : /\ in[x] \in Int /\ out[x] \in Int
                            /\ in[x] = x.quantity /\ out[x] = -x.quantity
      OBVIOUS
<1>2. /\ BroughtIn(rows, R) = Grid(rows, R, in)
      /\ TakenOut(rows, R) = Grid(rows, R, out)
      <2>1. /\ Grid(rows, R, [x \in R |-> x.quantity]) = Grid(rows, R, in)
            /\ Grid(rows, R, [x \in R |-> -x.quantity]) = Grid(rows, R, out)
            <3>1. \A x \in R : [y \in R |-> y.quantity][x] = in[x] /\ [y \in R |-> -y.quantity][x] = out[x]
                  OBVIOUS
            <3> HIDE DEF in, out
            <3> QED BY <3>1, GridAgrees
      <2> HIDE DEF in, out
      <2> QED BY <2>1, UnitsAsGrid
<1>3. /\ BroughtIn(rows2, R \cup {m}) = Grid(rows2, R \cup {m}, in)
      /\ TakenOut(rows2, R \cup {m}) = Grid(rows2, R \cup {m}, out)
      BY UnitsAsGrid
<1>4. /\ Cardinality(Grid(rows2, R \cup {m}, in))
            = Cardinality(Grid(rows, R, in)) + (IF in[m] > 0 THEN in[m] ELSE 0)
      /\ Cardinality(Grid(rows2, R \cup {m}, out))
            = Cardinality(Grid(rows, R, out)) + (IF out[m] > 0 THEN out[m] ELSE 0)
      <2>1. \A x \in R : rows[x] \in Nat /\ in[x] \in Int /\ out[x] \in Int /\ (x # m => rows2[x] = rows[x])
            BY <1>1
      <2>2. in[m] \in Int /\ out[m] \in Int
            BY <1>1
      <2> HIDE DEF in, out
      <2>3. Cardinality(Grid(rows2, R \cup {m}, in))
               = Cardinality(Grid(rows, R, in)) + (IF in[m] > 0 THEN in[m] ELSE 0)
            BY <2>1, <2>2, GridGrows
      <2>4. Cardinality(Grid(rows2, R \cup {m}, out))
               = Cardinality(Grid(rows, R, out)) + (IF out[m] > 0 THEN out[m] ELSE 0)
            BY <2>1, <2>2, GridGrows
      <2> QED BY <2>3, <2>4
<1>5. (IF out[m] > 0 THEN out[m] ELSE 0) = IF m.quantity < 0 THEN -m.quantity ELSE 0
      BY <1>1
<1> QED BY <1>1, <1>2, <1>3, <1>4, <1>5

\* A class that no appended row belongs to counts what it counted.
LEMMA ClassKept ==
    ASSUME NEW rows, FiniteRows(rows), NEW S, NEW C, \A m \in S : m \notin C
    PROVE  LET rows2 == rows (+) SetToBag(S)
               R == BagToSet(rows) \cap C
               R2 == BagToSet(rows2) \cap C
           IN  BroughtIn(rows2, R2) = BroughtIn(rows, R) /\ TakenOut(rows2, R2) = TakenOut(rows, R)
<1> DEFINE rows2 == rows (+) SetToBag(S)
           R == BagToSet(rows) \cap C
<1>1. BagToSet(rows2) \cap C = R /\ \A m \in R : rows2[m] = rows[m]
      BY AppendedRows DEF FiniteRows
<1> HIDE DEF rows2, R
<1>2. BroughtIn(rows2, R) = BroughtIn(rows, R) /\ TakenOut(rows2, R) = TakenOut(rows, R)
      BY <1>1, OtherRowsCount
<1> QED BY <1>1, <1>2 DEF rows2, R

\* A class that the one appended row belongs to counts its units.
LEMMA ClassGrows ==
    ASSUME NEW rows, FiniteRows(rows), NEW C, NEW m \in C, m.quantity \in Int
    PROVE  LET rows2 == rows (+) SetToBag({m})
               R == BagToSet(rows) \cap C
               R2 == BagToSet(rows2) \cap C
           IN  /\ Cardinality(BroughtIn(rows2, R2))
                     = Cardinality(BroughtIn(rows, R)) + (IF m.quantity > 0 THEN m.quantity ELSE 0)
               /\ Cardinality(TakenOut(rows2, R2))
                     = Cardinality(TakenOut(rows, R)) + (IF m.quantity < 0 THEN -m.quantity ELSE 0)
<1> DEFINE rows2 == rows (+) SetToBag({m})
           R == BagToSet(rows) \cap C
<1>1. /\ BagToSet(rows2) \cap C = R \cup {m}
      /\ \A x \in R : x # m => rows2[x] = rows[x]
      /\ rows2[m] = (IF m \in R THEN rows[m] ELSE 0) + 1
      BY AppendedRows DEF FiniteRows
<1>2. IsFiniteSet(R)
      BY FS_Subset DEF FiniteRows
<1>3. \A x \in R : rows[x] \in Nat /\ x.quantity \in Int
      BY DEF FiniteRows
<1> HIDE DEF rows2, R
<1>4. /\ Cardinality(BroughtIn(rows2, R \cup {m}))
            = Cardinality(BroughtIn(rows, R)) + (IF m.quantity > 0 THEN m.quantity ELSE 0)
      /\ Cardinality(TakenOut(rows2, R \cup {m}))
            = Cardinality(TakenOut(rows, R)) + (IF m.quantity < 0 THEN -m.quantity ELSE 0)
      BY <1>1, <1>2, <1>3, RowCounts
<1> QED BY <1>1, <1>4 DEF rows2, R

LEMMA CountsAreNumbers ==
    ASSUME NEW rows, FiniteRows(rows), NEW R \in SUBSET BagToSet(rows)
    PROVE  Cardinality(BroughtIn(rows, R)) \in Nat /\ Cardinality(TakenOut(rows, R)) \in Nat
<1>1. IsFiniteSet(R) /\ \A m \in R : rows[m] \in Nat /\ m.quantity \in Int
      BY FS_Subset DEF FiniteRows
<1> DEFINE in == [x \in R |-> x.quantity]
           out == [x \in R |-> -x.quantity]
<1>2. \A m \in R : in[m] \in Int /\ out[m] \in Int
      BY <1>1
<1>3. Cardinality(Grid(rows, R, in)) \in Nat /\ Cardinality(Grid(rows, R, out)) \in Nat
      <2> HIDE DEF in, out
      <2> QED BY <1>1, <1>2, GridFinite
<1> QED BY <1>3, UnitsAsGrid


\* One appended row, of the class or not.
LEMMA ClassMoves ==
    ASSUME NEW rows, FiniteRows(rows), NEW C, NEW m, m.quantity \in Int
    PROVE  LET rows2 == rows (+) SetToBag({m})
               R == BagToSet(rows) \cap C
               R2 == BagToSet(rows2) \cap C
           IN  /\ Cardinality(BroughtIn(rows2, R2)) = Cardinality(BroughtIn(rows, R))
                     + (IF m \in C /\ m.quantity > 0 THEN m.quantity ELSE 0)
               /\ Cardinality(TakenOut(rows2, R2)) = Cardinality(TakenOut(rows, R))
                     + (IF m \in C /\ m.quantity < 0 THEN -m.quantity ELSE 0)
               /\ Cardinality(BroughtIn(rows, R)) \in Nat
               /\ Cardinality(TakenOut(rows, R)) \in Nat
<1> DEFINE rows2 == rows (+) SetToBag({m})
           R == BagToSet(rows) \cap C
           R2 == BagToSet(rows2) \cap C
<1>1. Cardinality(BroughtIn(rows, R)) \in Nat /\ Cardinality(TakenOut(rows, R)) \in Nat
      BY CountsAreNumbers
<1>2. CASE m \in C
      BY <1>1, <1>2, ClassGrows
<1>3. CASE m \notin C
      <2>1. BroughtIn(rows2, R2) = BroughtIn(rows, R) /\ TakenOut(rows2, R2) = TakenOut(rows, R)
            BY <1>3, ClassKept, ZenonT(60)
      <2> HIDE DEF rows2, R, R2
      <2>2. /\ Cardinality(BroughtIn(rows2, R2)) = Cardinality(BroughtIn(rows, R)) + 0
            /\ Cardinality(TakenOut(rows2, R2)) = Cardinality(TakenOut(rows, R)) + 0
            BY <1>1, <2>1
      <2> QED BY <1>1, <1>3, <2>2 DEF rows2, R, R2
<1> QED BY <1>2, <1>3

\* Rows of no class leave the counters explained.
LEMMA AddUpKept ==
    ASSUME NEW rows, FiniteRows(rows), NEW S,
           \A m \in S : ~MovesOnHand(m) /\ ~Allocates(m) /\ ~Deallocates(m),
           NEW seed, NEW lv, NEW lv2, AddUp(lv, seed, rows),
           lv2.onHand = lv.onHand, lv2.allocated = lv.allocated
    PROVE  AddUp(lv2, seed, rows (+) SetToBag(S))
<1> DEFINE rows2 == rows (+) SetToBag(S)
<1>1. BagToSet(rows2) = BagToSet(rows) \cup S /\ \A m \in BagToSet(rows) \ S : rows2[m] = rows[m]
      BY AppendedRows DEF FiniteRows
<1> HIDE DEF rows2
<1>2. /\ {m \in BagToSet(rows2) : MovesOnHand(m)} = {m \in BagToSet(rows) : MovesOnHand(m)}
      /\ {m \in BagToSet(rows2) : Allocates(m)} = {m \in BagToSet(rows) : Allocates(m)}
      /\ {m \in BagToSet(rows2) : Deallocates(m)} = {m \in BagToSet(rows) : Deallocates(m)}
      BY <1>1
<1>3. \A R : (\A m \in R : rows2[m] = rows[m]) =>
                BroughtIn(rows2, R) = BroughtIn(rows, R) /\ TakenOut(rows2, R) = TakenOut(rows, R)
      BY OtherRowsCount
<1>4. \A m \in BagToSet(rows) : MovesOnHand(m) \/ Allocates(m) \/ Deallocates(m) => rows2[m] = rows[m]
      BY <1>1
<1> DEFINE onHand == {m \in BagToSet(rows) : MovesOnHand(m)}
           allocations == {m \in BagToSet(rows) : Allocates(m)}
           deallocations == {m \in BagToSet(rows) : Deallocates(m)}
<1>5. /\ \A m \in onHand : rows2[m] = rows[m]
      /\ \A m \in allocations : rows2[m] = rows[m]
      /\ \A m \in deallocations : rows2[m] = rows[m]
      BY <1>4
<1>6. /\ lv.onHand = seed + Cardinality(BroughtIn(rows, onHand)) - Cardinality(TakenOut(rows, onHand))
      /\ lv.allocated = Cardinality(TakenOut(rows, allocations)) - Cardinality(TakenOut(rows, deallocations))
      BY DEF AddUp
<1>7. AddUp(lv2, seed, rows2) <=>
          /\ lv2.onHand = seed + Cardinality(BroughtIn(rows2, onHand)) - Cardinality(TakenOut(rows2, onHand))
          /\ lv2.allocated = Cardinality(TakenOut(rows2, allocations)) - Cardinality(TakenOut(rows2, deallocations))
      BY <1>2 DEF AddUp
<1> HIDE DEF onHand, allocations, deallocations
<1>8. AddUp(lv2, seed, rows2)
      BY <1>3, <1>5, <1>6, <1>7
<1> QED BY <1>8 DEF rows2

\* One row moves the counters by its quantity.
LEMMA AddUpGrows ==
    ASSUME NEW rows, FiniteRows(rows), NEW m, m.quantity \in Int,
           Allocates(m) \/ Deallocates(m) => m.quantity < 0,
           NEW seed \in Nat, NEW lv, NEW lv2, AddUp(lv, seed, rows),
           lv2.onHand = lv.onHand + (IF MovesOnHand(m) THEN m.quantity ELSE 0),
           lv2.allocated = lv.allocated + (IF Allocates(m) THEN -m.quantity
                                           ELSE IF Deallocates(m) THEN m.quantity ELSE 0)
    PROVE  AddUp(lv2, seed, rows (+) SetToBag({m}))
<1> DEFINE rows2 == rows (+) SetToBag({m})
           onHand == {x \in BagToSet(rows) : MovesOnHand(x)}
           allocations == {x \in BagToSet(rows) : Allocates(x)}
           deallocations == {x \in BagToSet(rows) : Deallocates(x)}
           onHand2 == {x \in BagToSet(rows2) : MovesOnHand(x)}
           allocations2 == {x \in BagToSet(rows2) : Allocates(x)}
           deallocations2 == {x \in BagToSet(rows2) : Deallocates(x)}
           all == BagToSet(rows) \cup {m}
           q == m.quantity
<1>1. BagToSet(rows2) = all
      BY AppendedRows
<1>2. /\ Cardinality(BroughtIn(rows2, onHand2)) = Cardinality(BroughtIn(rows, onHand))
                + (IF MovesOnHand(m) /\ q > 0 THEN q ELSE 0)
      /\ Cardinality(TakenOut(rows2, onHand2)) = Cardinality(TakenOut(rows, onHand))
                + (IF MovesOnHand(m) /\ q < 0 THEN -q ELSE 0)
      /\ Cardinality(BroughtIn(rows, onHand)) \in Nat /\ Cardinality(TakenOut(rows, onHand)) \in Nat
      <2> DEFINE C == {x \in all : MovesOnHand(x)}
      <2>1. onHand = BagToSet(rows) \cap C /\ onHand2 = BagToSet(rows2) \cap C /\ (m \in C <=> MovesOnHand(m))
            BY <1>1
      <2> HIDE DEF C, onHand, onHand2, all
      <2> QED BY <2>1, ClassMoves
<1>3. /\ Cardinality(TakenOut(rows2, allocations2)) = Cardinality(TakenOut(rows, allocations))
                + (IF Allocates(m) /\ q < 0 THEN -q ELSE 0)
      /\ Cardinality(TakenOut(rows, allocations)) \in Nat
      <2> DEFINE C == {x \in all : Allocates(x)}
      <2>1. /\ allocations = BagToSet(rows) \cap C /\ allocations2 = BagToSet(rows2) \cap C
            /\ m \in C <=> Allocates(m)
            BY <1>1
      <2> HIDE DEF C, allocations, allocations2, all
      <2> QED BY <2>1, ClassMoves
<1>4. /\ Cardinality(TakenOut(rows2, deallocations2)) = Cardinality(TakenOut(rows, deallocations))
                + (IF Deallocates(m) /\ q < 0 THEN -q ELSE 0)
      /\ Cardinality(TakenOut(rows, deallocations)) \in Nat
      <2> DEFINE C == {x \in all : Deallocates(x)}
      <2>1. /\ deallocations = BagToSet(rows) \cap C /\ deallocations2 = BagToSet(rows2) \cap C
            /\ m \in C <=> Deallocates(m)
            BY <1>1
      <2> HIDE DEF C, deallocations, deallocations2, all
      <2> QED BY <2>1, ClassMoves
<1>5. ~(Allocates(m) /\ Deallocates(m))
      BY DEF Allocates, Deallocates
<1>6. /\ lv.onHand = seed + Cardinality(BroughtIn(rows, onHand)) - Cardinality(TakenOut(rows, onHand))
      /\ lv.allocated = Cardinality(TakenOut(rows, allocations)) - Cardinality(TakenOut(rows, deallocations))
      BY DEF AddUp
<1>7. AddUp(lv2, seed, rows2) <=>
          /\ lv2.onHand = seed + Cardinality(BroughtIn(rows2, onHand2)) - Cardinality(TakenOut(rows2, onHand2))
          /\ lv2.allocated = Cardinality(TakenOut(rows2, allocations2)) - Cardinality(TakenOut(rows2, deallocations2))
      BY DEF AddUp
<1>8. q \in Int
      OBVIOUS
<1> HIDE DEF onHand, allocations, deallocations, onHand2, allocations2, deallocations2, rows2, all
<1>9. lv2.onHand = seed + Cardinality(BroughtIn(rows2, onHand2)) - Cardinality(TakenOut(rows2, onHand2))
      BY <1>2, <1>6, <1>8
<1>10. lv2.allocated = Cardinality(TakenOut(rows2, allocations2)) - Cardinality(TakenOut(rows2, deallocations2))
      BY <1>3, <1>4, <1>5, <1>6, <1>8
<1> QED BY <1>7, <1>9, <1>10 DEF rows2

-----------------------------------------------------------------------------
(* Counters and ledger beside the consumer of new variants.  Its writes do *)
(* not look at holds, so ReservedMatchesHolds is out of reach here, and    *)
(* not needed: a level is explained because every commit appends what it   *)
(* does to the counters, to the level that its snapshot shows.             *)

CountersInv ==
    /\ TypeOK
    /\ \A r \in Slots : OpSound(r)
    /\ \A r \in Slots : pc[r] = "open" =>
           Accepts(op[r], seen[r]) /\ \A l \in Levels : seen[r].version[l] <= version[l]
    /\ SnapshotStillTrue

\* A write of a level moves its version on.
VersionedTables ==
    /\ level' \in [Levels -> LevelRow]
    /\ version' \in [Levels -> Nat]
    /\ hold' \in [Levels -> HoldTable]
    /\ expiresAt' \in [Levels -> [Carts -> Nat]]
    /\ \A l \in Levels :
          \/ level'[l] = level[l] /\ hold'[l] = hold[l] /\ version'[l] = version[l]
          \/ version'[l] = version[l] + 1

\* The ledger still explains the counters that it explained.
LevelBooked(l) ==
    /\ FiniteRows(ledger'[l])
    /\ AddUp(level[l], SeedOnHand[l], ledger[l]) => AddUp(level'[l], SeedOnHand[l], ledger'[l])

BookedLevels == \A l \in Levels : LevelBooked(l)

LEMMA StepKeepsCounters ==
    ASSUME CountersInv, VersionedTables, SoundSlots, \A r \in Slots : SlotKept(r)
    PROVE  CountersInv'
<1>1. TypeOK'
      BY DEF VersionedTables, SoundSlots, TypeOK, HoldTable
<1>2. (\A r \in Slots : OpSound(r))'
      BY DEF SoundSlots
<1>3. ASSUME NEW l \in Levels
      PROVE  version[l] \in Nat /\ version'[l] \in Nat /\ version[l] <= version'[l]
      BY DEF VersionedTables, CountersInv, TypeOK
<1>4. ASSUME NEW r \in Slots, pc'[r] = "open"
      PROVE  Accepts(op'[r], seen'[r]) /\ \A l \in Levels : seen'[r].version[l] <= version'[l]
      <2>1. pc[r] = "open" /\ op'[r] = op[r] /\ seen'[r] = seen[r]
            BY <1>4 DEF SlotKept
      <2>2. Accepts(op[r], seen[r]) /\ \A l \in Levels : seen[r].version[l] <= version[l]
            BY <2>1 DEF CountersInv
      <2>3. \A l \in Levels : seen[r].version[l] \in Nat
            BY DEF CountersInv, TypeOK, Snapshot
      <2> QED BY <1>3, <2>1, <2>2, <2>3
<1>5. SnapshotStillTrue'
      <2> SUFFICES ASSUME NEW r \in Slots, pc'[r] = "open", NEW l \in Levels,
                          version'[l] = seen'[r].version[l]
                   PROVE  level'[l] = seen'[r].level[l] /\ hold'[l] = seen'[r].hold[l]
            BY DEF SnapshotStillTrue, VersionMatches
      <2>1. pc[r] = "open" /\ seen'[r] = seen[r]
            BY DEF SlotKept
      <2>2. seen[r].version[l] <= version[l] /\ seen[r].version[l] \in Nat
            BY <2>1 DEF CountersInv, TypeOK, Snapshot
      <2>3. version'[l] = version[l] /\ level'[l] = level[l] /\ hold'[l] = hold[l]
            BY <1>3, <2>1, <2>2 DEF VersionedTables
      <2> QED BY <2>1, <2>3 DEF CountersInv, SnapshotStillTrue, VersionMatches
<1> QED BY <1>1, <1>2, <1>4, <1>5 DEF CountersInv

LEMMA OpenKeepsCounters ==
    ASSUME CountersInv, NEW r \in Slots, Open(r)
    PROVE  CountersInv'
<1>1. /\ pc' = [pc EXCEPT ![r] = "open"]
      /\ seen' = [seen EXCEPT ![r] = Now]
      /\ level' = level /\ version' = version /\ hold' = hold /\ expiresAt' = expiresAt
      /\ clock' = clock /\ op' = op /\ attempt' = attempt /\ batch' = batch
      /\ Accepts(op[r], Now)
      BY DEF Open, tables
<1>2. Now \in Snapshot
      BY DEF Now, Snapshot, CountersInv, TypeOK
<1>3. TypeOK'
      BY <1>1, <1>2 DEF CountersInv, TypeOK
<1>4. (\A q \in Slots : OpSound(q))'
      BY <1>1 DEF CountersInv, OpSound
<1>5. ASSUME NEW q \in Slots
      PROVE  \/ q = r /\ seen'[q] = Now
             \/ q # r /\ seen'[q] = seen[q] /\ pc'[q] = pc[q]
      BY <1>1 DEF CountersInv, TypeOK
<1>6. ASSUME NEW q \in Slots, pc'[q] = "open"
      PROVE  Accepts(op'[q], seen'[q]) /\ \A l \in Levels : seen'[q].version[l] <= version'[l]
      <2>1. \A l \in Levels : Now.version[l] <= version[l]
            BY DEF Now, CountersInv, TypeOK
      <2> QED BY <1>1, <1>5, <1>6, <2>1 DEF CountersInv
<1>7. SnapshotStillTrue'
      <2> SUFFICES ASSUME NEW q \in Slots, pc'[q] = "open", NEW l \in Levels,
                          version'[l] = seen'[q].version[l]
                   PROVE  level'[l] = seen'[q].level[l] /\ hold'[l] = seen'[q].hold[l]
            BY DEF SnapshotStillTrue, VersionMatches
      <2> QED BY <1>1, <1>5 DEF Now, CountersInv, SnapshotStillTrue, VersionMatches
<1> QED BY <1>3, <1>4, <1>6, <1>7 DEF CountersInv

-----------------------------------------------------------------------------
(* The commits, as the ledger sees them.                                   *)

LEMMA WrittenIsCurrent ==
    ASSUME CountersInv, NEW r \in Slots, pc[r] = "open", Current(r)
    PROVE  /\ op[r] \in Op /\ OpSound(r) /\ Accepts(op[r], seen[r]) /\ seen[r] \in Snapshot
           /\ Written(r) \subseteq Levels
           /\ \A l \in Written(r) :
                 /\ seen[r].level[l] = level[l] /\ level[l] \in LevelRow
                 /\ seen[r].hold[l] = hold[l] /\ hold[l] \in HoldTable
<1>1. op[r] \in Op /\ OpSound(r) /\ Accepts(op[r], seen[r]) /\ seen[r] \in Snapshot
      BY DEF CountersInv, TypeOK
<1>2. Written(r) \subseteq Levels
      BY DEF Written, Lines, LevelsOf
<1>3. \A l \in Written(r) : seen[r].level[l] = level[l] /\ seen[r].hold[l] = hold[l]
      BY <1>2 DEF Current, CountersInv, SnapshotStillTrue
<1> QED BY <1>1, <1>2, <1>3 DEF CountersInv, TypeOK, HoldTable

\* It is enough to look at the levels that a commit writes.
LEMMA PersistIsBooked ==
    ASSUME CountersInv, FiniteLedger, NEW r \in Slots, NEW rows, PersistLevels(r, rows),
           Written(r) \subseteq Levels,
           hold' \in [Levels -> HoldTable],
           expiresAt' \in [Levels -> [Carts -> Nat]],
           \A l \in Written(r) : rows[l] \in LevelRow,
           \A l \in Levels \ Written(r) : hold'[l] = hold[l] /\ ledger'[l] = ledger[l],
           \A l \in Written(r) :
               /\ FiniteRows(ledger'[l])
               /\ AddUp(level[l], SeedOnHand[l], ledger[l]) => AddUp(rows[l], SeedOnHand[l], ledger'[l])
    PROVE  VersionedTables /\ BookedLevels
<1>1. level \in [Levels -> LevelRow] /\ version \in [Levels -> Nat]
      BY DEF CountersInv, TypeOK
<1>2. ASSUME NEW l \in Levels
      PROVE  /\ level'[l] = IF l \in Written(r) THEN rows[l] ELSE level[l]
             /\ version'[l] = IF l \in Written(r) THEN version[l] + 1 ELSE version[l]
      BY DEF PersistLevels
<1>3. version' \in [Levels -> Nat]
      BY <1>1 DEF PersistLevels
<1>4. level' \in [Levels -> LevelRow]
      <2>1. \A l \in Levels : level'[l] \in LevelRow
            BY <1>1, <1>2
      <2> QED BY <2>1 DEF PersistLevels
<1>5. VersionedTables
      BY <1>2, <1>3, <1>4 DEF VersionedTables
<1>6. BookedLevels
      BY <1>2 DEF BookedLevels, LevelBooked, FiniteLedger
<1> QED BY <1>5, <1>6

\* A level's new row and the one movement that goes with it.
LEMMA LineIsBooked ==
    ASSUME FiniteLedger, NEW l \in Levels, level[l] \in LevelRow, NEW lv,
           NEW m, ledger'[l] = ledger[l] (+) SetToBag({m}), m.quantity \in Int,
           Allocates(m) \/ Deallocates(m) => m.quantity < 0,
           lv.onHand = level[l].onHand + (IF MovesOnHand(m) THEN m.quantity ELSE 0),
           lv.allocated = level[l].allocated
               + (IF Allocates(m) THEN -m.quantity ELSE IF Deallocates(m) THEN m.quantity ELSE 0)
    PROVE  /\ FiniteRows(ledger'[l])
           /\ AddUp(level[l], SeedOnHand[l], ledger[l]) => AddUp(lv, SeedOnHand[l], ledger'[l])
<1>1. FiniteRows(ledger[l]) /\ SeedOnHand[l] \in Nat
      BY Budgets DEF FiniteLedger
<1>2. FiniteRows(ledger'[l])
      <2>1. IsFiniteSet({m})
            BY FS_Singleton
      <2> QED BY <1>1, <2>1, AppendKeepsFinite
<1>3. ASSUME AddUp(level[l], SeedOnHand[l], ledger[l])
      PROVE  AddUp(lv, SeedOnHand[l], ledger[l] (+) SetToBag({m}))
      BY <1>1, <1>3, AddUpGrows
<1> QED BY <1>2, <1>3

\* A Reserve moves neither counter and appends nothing.
LEMMA ReserveIsBooked ==
    ASSUME CountersInv, FiniteLedger, NEW r \in Slots, ReserveOnce(r)
    PROVE  VersionedTables /\ BookedLevels
<1> DEFINE o == op[r]
           s == seen[r]
<1>1. pc[r] = "open" /\ Current(r) /\ o.kind = "reserve"
      BY DEF ReserveOnce, Committing
<1>2. /\ o \in Op /\ o.cart \in Carts /\ Accepts(o, s) /\ s \in Snapshot
      /\ \A l \in Levels : o.lines[l] \in Nat
      /\ Written(r) \subseteq Levels
      /\ \A l \in Written(r) :
            /\ s.level[l] = level[l] /\ level[l] \in LevelRow
            /\ s.hold[l] = hold[l] /\ hold[l] \in HoldTable
      BY <1>1, WrittenIsCurrent DEF OpSound, Op
<1>3. Written(r) = {l \in Lines(o) : ReserveDelta(s, o, l) # 0}
      BY <1>1 DEF Written
<1>4. /\ \A l \in Levels : hold'[l] = IF l \in Written(r)
                                     THEN [hold[l] EXCEPT ![o.cart] =
                                              [status |-> "active", quantity |-> o.lines[l]]]
                                     ELSE hold[l]
      /\ hold' = [l \in Levels |-> hold'[l]]
      BY DEF ReserveOnce
<1>5. hold' \in [Levels -> HoldTable]
      <2>1. \A l \in Levels : [status |-> "active", quantity |-> o.lines[l]] \in HoldRow
            BY <1>2 DEF HoldRow, HoldStatus
      <2>2. \A l \in Levels : hold[l] \in HoldTable
            BY DEF CountersInv, TypeOK, HoldTable
      <2>3. \A l \in Levels : hold'[l] \in HoldTable
            <3> HIDE DEF o, s
            <3> QED BY <1>4, <2>1, <2>2 DEF HoldTable
      <2> QED BY <1>4, <2>3
<1>6. expiresAt' \in [Levels -> [Carts -> Nat]]
      <2>1. s.now + TTL \in Nat
            BY <1>2, Budgets DEF Snapshot
      <2> QED BY <2>1 DEF ReserveOnce, CountersInv, TypeOK
<1>7. ASSUME NEW l \in Written(r)
      PROVE  /\ ReserveRow(s, o, l) \in LevelRow
             /\ ReserveRow(s, o, l).onHand = level[l].onHand
             /\ ReserveRow(s, o, l).allocated = level[l].allocated
      <2>1. CanReserveLine(s, o, l) /\ ReserveDelta(s, o, l) # 0
            BY <1>1, <1>2, <1>3 DEF Accepts
      <2>2. ReserveDelta(s, o, l) \in Int
            <3>1. s.hold[l][o.cart] \in HoldRow /\ o.lines[l] \in Nat
                  BY <1>2 DEF HoldTable
            <3> QED BY <3>1 DEF ReserveDelta, Held, HoldRow
      <2>3. s.level[l] = level[l] /\ level[l] \in LevelRow
            BY <1>2
      <2> HIDE DEF o, s
      <2> QED BY <2>1, <2>2, <2>3 DEF CanReserveLine, ReserveRow, Reserve, ReleaseReserved,
             CanReserve, CanReleaseReserved, LevelRow
<1>8. PersistLevels(r, [l \in Levels |-> ReserveRow(s, o, l)]) /\ ledger' = ledger
      BY DEF ReserveOnce
<1> DEFINE rows == [l \in Levels |-> ReserveRow(s, o, l)]
<1>9. /\ \A l \in Written(r) : rows[l] = ReserveRow(s, o, l)
      /\ PersistLevels(r, rows)
      BY <1>2, <1>8
<1>10. ASSUME NEW l \in Written(r)
       PROVE  /\ FiniteRows(ledger'[l])
              /\ AddUp(level[l], SeedOnHand[l], ledger[l]) => AddUp(rows[l], SeedOnHand[l], ledger'[l])
       BY <1>2, <1>7, <1>8, <1>9 DEF FiniteLedger, AddUp
<1> HIDE DEF o, s, rows
<1> QED BY <1>2, <1>4, <1>5, <1>6, <1>7, <1>8, <1>9, <1>10, PersistIsBooked

\* A release or a sweep chunk moves neither counter; its rows, against carts,
\* count for none.
LEMMA FreeIsBooked ==
    ASSUME CountersInv, FiniteLedger, NEW r \in Slots,
           NEW kind \in {"release", "sweep"}, NEW status \in {"released", "expired"},
           FreeOnce(r, kind, status)
    PROVE  VersionedTables /\ BookedLevels
<1> DEFINE o == op[r]
           s == seen[r]
           ids == Freed(o, s)
           rows == [l \in Levels |-> FreeRow(s, ids, l)]
           movements == [l \in Levels |-> FreeMovements(s, ids, l)]
<1>1. /\ pc[r] = "open" /\ Current(r) /\ o.kind \in {"release", "sweep"}
      /\ PersistLevels(r, rows) /\ Append(r, movements)
      /\ SaveStatus(ids, status) /\ expiresAt' = expiresAt
      BY DEF FreeOnce, Committing
<1>2. /\ o \in Op /\ Accepts(o, s)
      /\ Written(r) \subseteq Levels
      /\ \A l \in Written(r) :
            /\ s.level[l] = level[l] /\ level[l] \in LevelRow
            /\ s.hold[l] = hold[l] /\ hold[l] \in HoldTable
      BY <1>1, WrittenIsCurrent
<1>3. Written(r) = LevelsOf(ids)
      BY <1>1 DEF Written
<1>4. ids \in SUBSET Ids
      BY <1>2 DEF Freed, Due, Op
<1>5. /\ hold' \in [Levels -> HoldTable]
      /\ \A l \in Levels : CartsAt(ids, l) = {} => hold'[l] = hold[l]
      <2>1. status \in HoldStatus
            BY DEF HoldStatus
      <2> HIDE DEF ids
      <2> QED BY <1>1, <1>4, <2>1, SavedHolds DEF CountersInv
<1>6. expiresAt' \in [Levels -> [Carts -> Nat]]
      BY <1>1 DEF CountersInv, TypeOK
<1>7. \A l \in Levels : rows[l] = FreeRow(s, ids, l) /\ movements[l] = FreeMovements(s, ids, l)
      OBVIOUS
<1>8. \A l \in Levels : ledger'[l] = IF l \in Written(r) THEN ledger[l] (+) SetToBag(movements[l])
                                                       ELSE ledger[l]
      <2> HIDE DEF movements
      <2> QED BY <1>1 DEF Append
<1>9. ASSUME NEW l \in Written(r)
      PROVE  /\ rows[l] \in LevelRow
             /\ rows[l].onHand = level[l].onHand /\ rows[l].allocated = level[l].allocated
      <2>1. CanFree(s, ids, l) /\ l \in Levels
            BY <1>1, <1>2, <1>3 DEF Accepts
      <2>2. CartsAt(ids, l) \in SUBSET Carts
            BY DEF CartsAt
      <2> DEFINE n == Cardinality(Units(s.hold[l], CartsAt(ids, l)))
      <2>3. n \in Nat
            BY <1>2, <2>2, UnitsFinite
      <2>4. n <= s.level[l].reserved /\ FreeRow(s, ids, l) = ReleaseReserved(s.level[l], n)
            BY <2>1 DEF CanFree, CanReleaseReserved, FreeRow
      <2>5. s.level[l] = level[l] /\ level[l] \in LevelRow
            BY <1>2
      <2> HIDE DEF n, o, s, ids
      <2> QED BY <1>7, <2>1, <2>3, <2>4, <2>5 DEF ReleaseReserved, LevelRow
<1>10. ASSUME NEW l \in Written(r)
       PROVE  /\ IsFiniteSet(movements[l])
              /\ \A m \in movements[l] : /\ m.quantity \in Int
                                         /\ ~MovesOnHand(m) /\ ~Allocates(m) /\ ~Deallocates(m)
       <2>1. l \in Levels /\ s.hold[l] \in HoldTable /\ CartsAt(ids, l) \in SUBSET Carts
             BY <1>2 DEF CartsAt
       <2>2. movements[l] = {Movement("release", -s.hold[l][c].quantity, c, None) : c \in CartsAt(ids, l)}
             BY <1>7, <2>1 DEF FreeMovements
       <2>3. IsFiniteSet(CartsAt(ids, l))
             BY <2>1, FiniteTables, FS_Subset
       <2> DEFINE C == CartsAt(ids, l)
                  f == [c \in C |-> Movement("release", -s.hold[l][c].quantity, c, None)]
                  T == {Movement("release", -s.hold[l][c].quantity, c, None) : c \in C}
       <2>4. f \in Surjection(C, T)
             BY DEF Surjection
       <2>5. IsFiniteSet(T)
             <3> HIDE DEF f, T, C
             <3> QED BY <2>3, <2>4, FS_Surjection DEF C
       <2>6. \A c \in C : s.hold[l][c].quantity \in Nat
             BY <2>1 DEF HoldTable, HoldRow
       <2>7. \A m \in T : /\ m.quantity \in Int
                          /\ m.type = "release" /\ m.key = None
             BY <2>6 DEF Movement
       <2> HIDE DEF movements, T, s, o, ids
       <2> QED BY <2>2, <2>5, <2>7 DEF MovesOnHand, Allocates, Deallocates, T
<1>11. ASSUME NEW l \in Written(r)
       PROVE  /\ FiniteRows(ledger'[l])
              /\ AddUp(level[l], SeedOnHand[l], ledger[l]) => AddUp(rows[l], SeedOnHand[l], ledger'[l])
       <2>1. ledger'[l] = ledger[l] (+) SetToBag(movements[l]) /\ FiniteRows(ledger[l])
             BY <1>2, <1>8 DEF FiniteLedger
       <2> HIDE DEF movements, rows
       <2>2. FiniteRows(ledger'[l])
             BY <1>10, <2>1, AppendKeepsFinite
       <2>3. ASSUME AddUp(level[l], SeedOnHand[l], ledger[l])
             PROVE  AddUp(rows[l], SeedOnHand[l], ledger[l] (+) SetToBag(movements[l]))
             BY <1>9, <1>10, <2>1, <2>3, AddUpKept
       <2> QED BY <2>1, <2>2, <2>3
<1>12. \A l \in Levels \ Written(r) : hold'[l] = hold[l] /\ ledger'[l] = ledger[l]
       BY <1>3, <1>5, <1>8 DEF LevelsOf
<1> HIDE DEF o, s, ids, rows, movements
<1> QED BY <1>1, <1>2, <1>5, <1>6, <1>9, <1>11, <1>12, PersistIsBooked

\* The row a request appends says what it does to the counters.
BookedLine(o, l, lv, lv2) ==
    /\ lv2 \in LevelRow
    /\ \E m : /\ LineMovements(o, l) = {m} /\ m.quantity \in Int
              /\ Allocates(m) \/ Deallocates(m) => m.quantity < 0
              /\ lv2.onHand = lv.onHand + (IF MovesOnHand(m) THEN m.quantity ELSE 0)
              /\ lv2.allocated = lv.allocated + (IF Allocates(m) THEN -m.quantity
                                                 ELSE IF Deallocates(m) THEN m.quantity ELSE 0)

LEMMA AllocateBooksLine ==
    ASSUME NEW o \in Op, o.kind = "allocate", NEW s, NEW l \in Levels, s.level[l] \in LevelRow,
           s.hold[l][o.cart] \in HoldRow, CanAllocateLine(s, o, l)
    PROVE  BookedLine(o, l, s.level[l], AllocateRow(s, o, l))
<1> DEFINE q == o.lines[l]
           h == Held(s.hold[l][o.cart])
           m == Movement("allocation", -q, o.ref, None)
           lv == s.level[l]
           lv2 == AllocateRow(s, o, l)
<1>1. q \in Int /\ h \in Nat /\ lv \in LevelRow
      BY DEF Op, Held, HoldRow
<1>2. LineMovements(o, l) = {m}
      BY DEF LineMovements
<1>3. m.type = "allocation" /\ m.quantity = -q
      BY DEF Movement
<1>4. q > 0 /\ lv2 \in LevelRow /\ lv2.onHand = lv.onHand /\ lv2.allocated = lv.allocated + q
      <2>1. q > 0 /\ q \in Nat
            BY <1>1 DEF CanAllocateLine, CanAllocateFromReserved, CanAllocateDirect
      <2>2. h <= lv.reserved
            BY <1>1 DEF CanAllocateLine, CanAllocateFromReserved, CanReleaseReserved, LevelRow
      <2>3. \/ h = q /\ lv2 = AllocateFromReserved(lv, q)
            \/ /\ h # q
               /\ CanAllocateDirect(ReleaseReserved(lv, h), q)
               /\ lv2 = AllocateDirect(ReleaseReserved(lv, h), q)
            BY DEF CanAllocateLine, AllocateRow
      <2> HIDE DEF q, h, lv, lv2
      <2> QED BY <1>1, <2>1, <2>2, <2>3, AllocateEffect
<1> HIDE DEF q, m, lv, lv2
<1>5. /\ m.quantity \in Int /\ m.quantity < 0
      /\ Allocates(m) /\ ~MovesOnHand(m)
      /\ lv.onHand \in Int /\ lv.allocated \in Int
      BY <1>1, <1>3, <1>4 DEF Allocates, MovesOnHand, LevelRow
<1>6. lv2.onHand = lv.onHand + 0 /\ lv2.allocated = lv.allocated + -m.quantity
      BY <1>1, <1>3, <1>4, <1>5
<1>7. BookedLine(o, l, lv, lv2)
      BY <1>2, <1>4, <1>5, <1>6 DEF BookedLine
<1> QED BY <1>7 DEF lv, lv2

LEMMA CancelBooksLine ==
    ASSUME NEW o \in Op, o.kind = "cancel", o.key # None, NEW l \in Levels, NEW lv \in LevelRow,
           CanReleaseAllocated(lv, o.lines[l])
    PROVE  BookedLine(o, l, lv, ReleaseAllocated(lv, o.lines[l]))
<1> DEFINE q == o.lines[l]
           m == Movement("release", -q, o.ref, o.key)
           lv2 == ReleaseAllocated(lv, q)
<1>1. q \in Int /\ q > 0 /\ q <= lv.allocated
      BY DEF Op, CanReleaseAllocated
<1>2. LineMovements(o, l) = {m}
      BY DEF LineMovements
<1>3. m.type = "release" /\ m.quantity = -q /\ m.key # None
      BY DEF Movement
<1> HIDE DEF q, m
<1>4. lv2 \in LevelRow /\ lv2.onHand = lv.onHand /\ lv2.allocated = lv.allocated - q
      BY <1>1 DEF ReleaseAllocated, LevelRow
<1> HIDE DEF lv2
<1>5. /\ m.quantity \in Int /\ m.quantity < 0
      /\ Deallocates(m) /\ ~Allocates(m) /\ ~MovesOnHand(m)
      /\ lv2.onHand = lv.onHand + 0 /\ lv2.allocated = lv.allocated + m.quantity
      BY <1>1, <1>3, <1>4 DEF Allocates, Deallocates, MovesOnHand, LevelRow
<1>6. BookedLine(o, l, lv, lv2)
      BY <1>2, <1>4, <1>5 DEF BookedLine
<1> QED BY <1>6 DEF lv2, q

LEMMA SaleBooksLine ==
    ASSUME NEW o \in Op, o.kind = "sale", NEW l \in Levels, NEW lv \in LevelRow,
           CanCommitSale(lv, o.lines[l])
    PROVE  BookedLine(o, l, lv, CommitSale(lv, o.lines[l]))
<1> DEFINE q == o.lines[l]
           m == Movement("sale", -q, o.ref, None)
           lv2 == CommitSale(lv, q)
<1>1. q \in Int /\ q > 0 /\ q <= lv.allocated /\ q <= lv.onHand
      BY DEF Op, CanCommitSale
<1>2. LineMovements(o, l) = {m}
      BY DEF LineMovements
<1>3. m.type = "sale" /\ m.quantity = -q
      BY DEF Movement
<1> HIDE DEF q, m
<1>4. lv2 \in LevelRow /\ lv2.onHand = lv.onHand - q /\ lv2.allocated = lv.allocated - q
      <2> DEFINE mid == ReleaseAllocated(lv, q)
      <2>1. lv2 = ChangeOnHand(mid, -q)
            BY <1>1, TwoCounterMoves
      <2>2. /\ mid \in LevelRow /\ mid.allocated = lv.allocated - q /\ mid.onHand = lv.onHand
            /\ lv.onHand \in Nat
            BY <1>1, CounterMoves
      <2> HIDE DEF mid
      <2>3. mid.onHand + -q >= 0 /\ -q \in Int
            BY <1>1, <2>2
      <2>4. /\ ChangeOnHand(mid, -q) \in LevelRow
            /\ ChangeOnHand(mid, -q).allocated = mid.allocated
            /\ ChangeOnHand(mid, -q).onHand = mid.onHand + -q
            BY <2>2, <2>3, CounterMoves
      <2> QED BY <1>1, <2>1, <2>2, <2>4
<1> HIDE DEF lv2
<1>5. /\ m.quantity \in Int /\ m.quantity < 0
      /\ Deallocates(m) /\ ~Allocates(m) /\ MovesOnHand(m)
      /\ lv2.onHand = lv.onHand + m.quantity /\ lv2.allocated = lv.allocated + m.quantity
      BY <1>1, <1>3, <1>4 DEF Allocates, Deallocates, MovesOnHand, LevelRow
<1>6. BookedLine(o, l, lv, lv2)
      BY <1>2, <1>4, <1>5 DEF BookedLine
<1> QED BY <1>6 DEF lv2, q

LEMMA ChangeBooksLine ==
    ASSUME NEW o \in Op, o.kind \in OnHandKinds, NEW l \in Levels, NEW lv \in LevelRow,
           CanChangeOnHand(lv, o.lines[l])
    PROVE  BookedLine(o, l, lv, ChangeOnHand(lv, o.lines[l]))
<1> DEFINE q == o.lines[l]
           type == CASE o.kind = "return" -> "return" [] o.kind = "receive" -> "receipt"
                     [] OTHER -> "adjustment"
           ref == IF o.kind = "return" THEN o.ref ELSE None
           m == Movement(type, q, ref, None)
           lv2 == ChangeOnHand(lv, q)
<1>1. q \in Int /\ lv.onHand + q >= 0
      BY DEF Op, CanChangeOnHand
<1>2. LineMovements(o, l) = {m}
      BY DEF LineMovements, OnHandKinds
<1>3. m.type \in {"receipt", "adjustment", "return"} /\ m.quantity = q
      BY DEF Movement
<1> HIDE DEF q, m
<1>4. lv2 \in LevelRow /\ lv2.onHand = lv.onHand + q /\ lv2.allocated = lv.allocated
      BY <1>1 DEF ChangeOnHand, LevelRow
<1> HIDE DEF lv2
<1>5. /\ m.quantity \in Int /\ ~Deallocates(m) /\ ~Allocates(m) /\ MovesOnHand(m)
      /\ lv2.onHand = lv.onHand + m.quantity /\ lv2.allocated = lv.allocated + 0
      BY <1>1, <1>3, <1>4 DEF Allocates, Deallocates, MovesOnHand, LevelRow
<1>6. BookedLine(o, l, lv, lv2)
      BY <1>2, <1>4, <1>5 DEF BookedLine
<1> QED BY <1>6 DEF lv2, q

LEMMA LinesAreBooked ==
    ASSUME CountersInv, FiniteLedger, NEW r \in Slots, NEW rows, PersistLevels(r, rows),
           Append(r, [l \in Levels |-> LineMovements(op[r], l)]),
           Written(r) \subseteq Levels,
           hold' \in [Levels -> HoldTable],
           expiresAt' \in [Levels -> [Carts -> Nat]],
           \A l \in Levels \ Written(r) : hold'[l] = hold[l],
           \A l \in Written(r) : BookedLine(op[r], l, level[l], rows[l])
    PROVE  VersionedTables /\ BookedLevels
<1>1. \A l \in Levels : ledger'[l] = IF l \in Written(r)
                                     THEN ledger[l] (+) SetToBag(LineMovements(op[r], l))
                                     ELSE ledger[l]
      <2> DEFINE movements == [l \in Levels |-> LineMovements(op[r], l)]
      <2>1. \A l \in Levels : movements[l] = LineMovements(op[r], l)
            OBVIOUS
      <2>2. Append(r, movements)
            OBVIOUS
      <2> HIDE DEF movements
      <2> QED BY <2>1, <2>2 DEF Append
<1>2. ASSUME NEW l \in Written(r)
      PROVE  /\ rows[l] \in LevelRow
             /\ FiniteRows(ledger'[l])
             /\ AddUp(level[l], SeedOnHand[l], ledger[l]) => AddUp(rows[l], SeedOnHand[l], ledger'[l])
      <2>1. BookedLine(op[r], l, level[l], rows[l]) /\ l \in Levels /\ level[l] \in LevelRow
            BY DEF CountersInv, TypeOK
      <2>2. PICK m : /\ LineMovements(op[r], l) = {m} /\ m.quantity \in Int
                     /\ Allocates(m) \/ Deallocates(m) => m.quantity < 0
                     /\ rows[l].onHand = level[l].onHand + (IF MovesOnHand(m) THEN m.quantity ELSE 0)
                     /\ rows[l].allocated = level[l].allocated
                           + (IF Allocates(m) THEN -m.quantity
                              ELSE IF Deallocates(m) THEN m.quantity ELSE 0)
            BY <2>1 DEF BookedLine
      <2>3. ledger'[l] = ledger[l] (+) SetToBag({m})
            BY <1>1, <2>1, <2>2
      <2> QED BY <2>1, <2>2, <2>3, LineIsBooked DEF BookedLine
<1>3. \A l \in Levels \ Written(r) : ledger'[l] = ledger[l]
      BY <1>1
<1> QED BY <1>2, <1>3, PersistIsBooked

LEMMA AllocateIsBooked ==
    ASSUME CountersInv, FiniteLedger, NEW r \in Slots, AllocateOnce(r)
    PROVE  VersionedTables /\ BookedLevels
<1> DEFINE o == op[r]
           s == seen[r]
           taken == {<<o.cart, l>> : l \in {k \in Lines(o) :
                                               s.hold[k][o.cart].status = "active"}}
           rows == [l \in Levels |-> AllocateRow(s, o, l)]
<1>1. /\ pc[r] = "open" /\ Current(r) /\ o.kind = "allocate"
      /\ PersistLevels(r, rows) /\ SaveStatus(taken, "committed")
      /\ Append(r, [l \in Levels |-> LineMovements(o, l)])
      BY DEF AllocateOnce, Committing
<1>2. /\ o \in Op /\ o.cart \in Carts /\ Accepts(o, s) /\ s \in Snapshot
      /\ Written(r) \subseteq Levels
      /\ \A l \in Written(r) :
            /\ s.level[l] = level[l] /\ level[l] \in LevelRow
            /\ s.hold[l] = hold[l] /\ hold[l] \in HoldTable
      BY <1>1, WrittenIsCurrent DEF OpSound
<1>3. Written(r) = Lines(o)
      BY <1>1 DEF Written
<1>4. taken \in SUBSET Ids
      BY <1>2 DEF Ids, Lines
<1>5. /\ hold' \in [Levels -> HoldTable]
      /\ \A l \in Levels : CartsAt(taken, l) = {} => hold'[l] = hold[l]
      <2> HIDE DEF taken
      <2> QED BY <1>1, <1>4, SavedHolds DEF CountersInv, HoldStatus
<1>6. \A l \in Levels \ Written(r) : hold'[l] = hold[l]
      BY <1>3, <1>5, SMTT(40) DEF CartsAt
<1>7. expiresAt' \in [Levels -> [Carts -> Nat]]
      <2>1. s.now + TTL \in Nat
            BY <1>2, Budgets DEF Snapshot
      <2>2. \A l \in Levels, c \in Carts : expiresAt[l][c] \in Nat
            BY DEF CountersInv, TypeOK
      <2> QED BY <2>1, <2>2 DEF AllocateOnce
<1>8. ASSUME NEW l \in Written(r)
      PROVE  BookedLine(o, l, level[l], rows[l])
      <2>1. CanAllocateLine(s, o, l) /\ l \in Levels /\ rows[l] = AllocateRow(s, o, l)
            BY <1>1, <1>2, <1>3 DEF Accepts
      <2>2. s.level[l] = level[l] /\ s.level[l] \in LevelRow /\ s.hold[l][o.cart] \in HoldRow
            BY <1>2 DEF HoldTable
      <2>3. BookedLine(o, l, s.level[l], AllocateRow(s, o, l))
            <3> HIDE DEF o, s
            <3> QED BY <1>1, <1>2, <2>1, <2>2, AllocateBooksLine
      <2> QED BY <2>1, <2>2, <2>3
<1> HIDE DEF rows, taken, s
<1> QED BY <1>1, <1>2, <1>5, <1>6, <1>7, <1>8, LinesAreBooked

\* Cancel, Commit Sale and the on-hand changes.
LEMMA WriteLinesIsBooked ==
    ASSUME CountersInv, InFlight, FiniteLedger, NEW r \in Slots,
           CancelOnce(r) \/ CommitOnce(r) \/ ChangeOnHandOnce(r)
    PROVE  VersionedTables /\ BookedLevels
<1> DEFINE o == op[r]
           s == seen[r]
<1>1. /\ pc[r] = "open" /\ Current(r)
      /\ o.kind \in {"cancel", "sale"} \cup OnHandKinds
      /\ hold' = hold /\ expiresAt' = expiresAt
      /\ Append(r, [l \in Levels |-> LineMovements(op[r], l)])
      BY DEF CancelOnce, CommitOnce, ChangeOnHandOnce, Committing, WriteLines
<1>2. /\ o \in Op /\ Accepts(o, s)
      /\ Written(r) \subseteq Levels
      /\ \A l \in Written(r) : s.level[l] = level[l] /\ level[l] \in LevelRow
      BY <1>1, WrittenIsCurrent
<1>3. Written(r) = Lines(o)
      BY <1>1 DEF Written, OnHandKinds
<1>4. /\ hold' \in [Levels -> HoldTable]
      /\ expiresAt' \in [Levels -> [Carts -> Nat]]
      BY <1>1 DEF CountersInv, TypeOK, HoldTable
<1>5. o.kind = "cancel" => o.key # None
      <2>1. pc[r] # "idle"
            BY <1>1
      <2>2. o.kind = "cancel" => o \in Payloads
            BY <2>1 DEF InFlight
      <2> QED BY <2>2, ValidPayloads DEF ValidPayload
<1>6. PICK rows : /\ PersistLevels(r, rows)
                  /\ \A l \in Written(r) : BookedLine(o, l, level[l], rows[l])
      <2>1. CASE CancelOnce(r)
            <3> DEFINE rows == [l \in Levels |-> ReleaseAllocated(s.level[l], o.lines[l])]
            <3>1. o.kind = "cancel" /\ PersistLevels(r, rows)
                  BY <2>1 DEF CancelOnce, Committing, WriteLines
            <3>2. \A l \in Written(r) :
                     /\ rows[l] = ReleaseAllocated(level[l], o.lines[l])
                     /\ CanReleaseAllocated(level[l], o.lines[l])
                  BY <1>2, <1>3, <3>1 DEF Accepts
            <3>3. \A l \in Written(r) : BookedLine(o, l, level[l], rows[l])
                  <4> HIDE DEF rows, o
                  <4> QED BY <1>2, <1>5, <3>1, <3>2, CancelBooksLine
            <3> QED BY <3>1, <3>3
      <2>2. CASE CommitOnce(r)
            <3> DEFINE rows == [l \in Levels |-> CommitSale(s.level[l], o.lines[l])]
            <3>1. o.kind = "sale" /\ PersistLevels(r, rows)
                  BY <2>2 DEF CommitOnce, Committing, WriteLines
            <3>2. \A l \in Written(r) :
                     /\ rows[l] = CommitSale(level[l], o.lines[l])
                     /\ CanCommitSale(level[l], o.lines[l])
                  BY <1>2, <1>3, <3>1 DEF Accepts
            <3>3. \A l \in Written(r) : BookedLine(o, l, level[l], rows[l])
                  <4> HIDE DEF rows, o
                  <4> QED BY <1>2, <3>1, <3>2, SaleBooksLine
            <3> QED BY <3>1, <3>3
      <2>3. CASE ChangeOnHandOnce(r)
            <3> DEFINE rows == [l \in Levels |-> ChangeOnHand(s.level[l], o.lines[l])]
            <3>1. o.kind \in OnHandKinds /\ PersistLevels(r, rows)
                  BY <2>3 DEF ChangeOnHandOnce, Committing, WriteLines
            <3>2. \A l \in Written(r) :
                     /\ rows[l] = ChangeOnHand(level[l], o.lines[l])
                     /\ CanChangeOnHand(level[l], o.lines[l])
                  BY <1>2, <1>3, <3>1 DEF Accepts
            <3>3. \A l \in Written(r) : BookedLine(o, l, level[l], rows[l])
                  <4> HIDE DEF rows, o
                  <4> QED BY <1>2, <3>1, <3>2, ChangeBooksLine
            <3> QED BY <3>1, <3>3
      <2> QED BY <2>1, <2>2, <2>3
<1> QED BY <1>1, <1>2, <1>4, <1>6, LinesAreBooked

-----------------------------------------------------------------------------
(* Every step.                                                             *)

\* A step that writes no table.
LEMMA SlotStepKeepsCounters ==
    ASSUME CountersInv, FiniteLedger, UNCHANGED tables, SoundSlots, \A q \in Slots : SlotKept(q)
    PROVE  CountersInv' /\ VersionedTables /\ BookedLevels
<1>1. VersionedTables
      BY DEF VersionedTables, tables, CountersInv, TypeOK, HoldTable
<1>2. BookedLevels
      BY DEF BookedLevels, LevelBooked, tables, FiniteLedger
<1> QED BY <1>1, <1>2, StepKeepsCounters

LEMMA AttemptKeepsCounters ==
    ASSUME CountersInv, InFlight, FiniteLedger, NEW r \in Slots, Attempt(r)
    PROVE  CountersInv' /\ VersionedTables /\ BookedLevels
<1>0. SlotsTyped
      BY DEF CountersInv, SlotsTyped
<1>1. CASE Replay(r) \/ Reject(r) \/ DuplicateEntry(r) \/ Exhaust(r)
      <2>1. UNCHANGED tables /\ clock' = clock /\ \E ok \in BOOLEAN : Finish(r, ok)
            BY <1>1 DEF Replay, Reject, DuplicateEntry, Exhaust, Committing
      <2> QED BY <1>0, <2>1, FinishIsSound, SlotStepKeepsCounters
<1>2. CASE Open(r)
      <2>1. UNCHANGED tables
            BY <1>2 DEF Open
      <2>2. VersionedTables /\ BookedLevels
            BY <2>1 DEF VersionedTables, BookedLevels, LevelBooked, tables, FiniteLedger,
               CountersInv, TypeOK, HoldTable
      <2> QED BY <1>2, <2>2, OpenKeepsCounters
<1>3. CASE Retry(r)
      BY <1>0, <1>3, RetryIsSound, SlotStepKeepsCounters
<1>4. ASSUME VersionedTables, BookedLevels, Finish(r, TRUE), clock' = clock
      PROVE  CountersInv' /\ VersionedTables /\ BookedLevels
      BY <1>0, <1>4, FinishIsSound, StepKeepsCounters
<1>5. CASE ReserveOnce(r)
      BY <1>4, <1>5, ReserveIsBooked DEF ReserveOnce, Committing
<1>6. CASE ReleaseAll(r) \/ ExpireChunk(r)
      <2>1. PICK kind \in {"release", "sweep"}, status \in {"released", "expired"} :
               FreeOnce(r, kind, status)
            BY <1>6 DEF ReleaseAll, ExpireChunk
      <2> QED BY <1>4, <2>1, FreeIsBooked, Zenon DEF FreeOnce, Committing
<1>7. CASE AllocateOnce(r)
      BY <1>4, <1>7, AllocateIsBooked, Zenon DEF AllocateOnce, Committing
<1>8. CASE CancelOnce(r) \/ CommitOnce(r) \/ ChangeOnHandOnce(r)
      <2>1. Finish(r, TRUE) /\ clock' = clock
            BY <1>8 DEF CancelOnce, CommitOnce, ChangeOnHandOnce, Committing
      <2> QED BY <1>4, <1>8, <2>1, WriteLinesIsBooked
<1> QED BY <1>1, <1>2, <1>3, <1>5, <1>6, <1>7, <1>8 DEF Attempt

\* A step of the service keeps every explained level explained.
LEMMA NextKeepsCounters ==
    ASSUME CountersInv, InFlight, FiniteLedger, [Next]_vars
    PROVE  CountersInv' /\ VersionedTables /\ BookedLevels
<1>0. SlotsTyped
      BY DEF CountersInv, SlotsTyped
<1>1. ASSUME NEW r \in Handlers, NEW o \in Payloads, Submit(r, o)
      PROVE  CountersInv' /\ VersionedTables /\ BookedLevels
      BY <1>0, <1>1, SubmitIsSound, SlotStepKeepsCounters
<1>2. ASSUME NEW r \in Slots, Attempt(r)
      PROVE  CountersInv' /\ VersionedTables /\ BookedLevels
      BY <1>2, AttemptKeepsCounters
<1>3. ASSUME NEW w \in Sweepers, SweepStart(w) \/ SweepChunk(w)
      PROVE  CountersInv' /\ VersionedTables /\ BookedLevels
      BY <1>0, <1>3, SweepIsSound, SlotStepKeepsCounters
<1>4. ASSUME NEW r \in Slots, Fault(r)
      PROVE  CountersInv' /\ VersionedTables /\ BookedLevels
      BY <1>0, <1>4, FinishIsSound, SlotStepKeepsCounters DEF Fault
<1>5. CASE Tick \/ UNCHANGED vars
      BY <1>0, <1>5, TickIsSound, SlotStepKeepsCounters
<1> QED BY <1>1, <1>2, <1>3, <1>4, <1>5 DEF Next, SweepStep, Slots

\* Before the first request the ledger is empty and the counters are the seed.
LEMMA InitIsExplained ==
    ASSUME Init
    PROVE  CountersInv /\ InFlight /\ FiniteLedger /\ \A l \in Levels : LedgerExplains(l)
<1>1. CountersInv
      BY InitIsSound DEF Init, IInv, CountersInv, OpenSound
<1>2. InFlight
      BY DEF Init, InFlight
<1>3. ASSUME NEW l \in Levels
      PROVE  FiniteRows(ledger[l]) /\ LedgerExplains(l)
      <2>1. BagToSet(ledger[l]) = {}
            BY DEF Init, EmptyBag, SetToBag, BagToSet
      <2>2. FiniteRows(ledger[l])
            BY <2>1, FS_EmptySet DEF FiniteRows
      <2>3. /\ {m \in BagToSet(ledger[l]) : MovesOnHand(m)} = {}
            /\ {m \in BagToSet(ledger[l]) : Allocates(m)} = {}
            /\ {m \in BagToSet(ledger[l]) : Deallocates(m)} = {}
            BY <2>1
      <2>4. BroughtIn(ledger[l], {}) = {} /\ TakenOut(ledger[l], {}) = {}
            BY DEF BroughtIn, TakenOut
      <2>5. level[l].onHand = SeedOnHand[l] /\ level[l].allocated = 0 /\ SeedOnHand[l] \in Nat
            BY Budgets DEF Init, InitialAt
      <2>6. AddUp(level[l], SeedOnHand[l], ledger[l])
            <3> DEFINE b == Cardinality(BroughtIn(ledger[l], {}))
                       t == Cardinality(TakenOut(ledger[l], {}))
            <3>1. b = 0 /\ t = 0
                  BY <2>4, FS_EmptySet
            <3>2. AddUp(level[l], SeedOnHand[l], ledger[l])
                    <=> level[l].onHand = SeedOnHand[l] + b - t /\ level[l].allocated = t - t
                  BY <2>3 DEF AddUp
            <3> HIDE DEF b, t
            <3> QED BY <2>5, <3>1, <3>2
      <2> QED BY <2>2, <2>6 DEF LedgerExplains
<1> QED BY <1>1, <1>2, <1>3 DEF FiniteLedger

\* Without the consumer of new variants the ledger explains the counters of
\* every level: the use cases leave no gap between a counter and its rows.
THEOREM LedgerIsComplete == Spec => [](\A l \in Levels : LedgerExplains(l))
<1> DEFINE I == /\ CountersInv /\ InFlight /\ FiniteLedger
                /\ \A l \in Levels : LedgerExplains(l)
<1>1. Init => I
      BY InitIsExplained
<1>2. ASSUME I, [Next]_vars PROVE I'
      <2>1. CountersInv' /\ BookedLevels
            BY <1>2, NextKeepsCounters
      <2>2. FiniteLedger' /\ (\A l \in Levels : LedgerExplains(l))'
            BY <1>2, <2>1 DEF BookedLevels, LevelBooked, LedgerExplains, FiniteLedger
      <2>3. InFlight'
            BY <1>2, NextKeepsInFlight DEF CountersInv
      <2> QED BY <2>1, <2>2, <2>3
<1>3. I => \A l \in Levels : LedgerExplains(l)
      OBVIOUS
<1> HIDE DEF I
<1> QED BY <1>1, <1>2, <1>3, PTL DEF Spec

-----------------------------------------------------------------------------
(* Beside the consumer of new variants.                                    *)

\* A level without a row reads as zeros.
MissingReadsZero == \A l \in Levels : version[l] = 0 => level[l] = InitialAt(0)

AutoInv ==
    /\ CountersInv /\ InFlight /\ FiniteLedger /\ MissingReadsZero
    /\ initializing \in [Levels -> {"idle", "found none", "insert", "update", "done", "overwrote"}]
    /\ LedgerExplainsCounters

\* The slots know nothing of that consumer.
LEMMA AutoInitKeepsSlots ==
    ASSUME CountersInv, UNCHANGED <<clock, slots, batch>>, VersionedTables
    PROVE  CountersInv'
<1>1. SlotsTyped /\ UNCHANGED slots /\ clock' \in Nat
      BY DEF CountersInv, SlotsTyped, TypeOK
<1>2. batch' \in [Sweepers -> [ids : SUBSET Ids, now : Nat]]
      BY DEF CountersInv, TypeOK
<1> QED BY <1>1, <1>2, SlotsKeptIsSound, StepKeepsCounters

LEMMA WriteZerosKeeps ==
    ASSUME CountersInv, InFlight, FiniteLedger, MissingReadsZero, NEW l \in Levels, WriteZeros(l)
    PROVE  CountersInv' /\ InFlight' /\ FiniteLedger' /\ MissingReadsZero'
<1>1. InitialAt(0) \in LevelRow
      BY DEF InitialAt, LevelRow
<1>2. level \in [Levels -> LevelRow] /\ version \in [Levels -> Nat]
      BY DEF CountersInv, TypeOK
<1>3. VersionedTables
      BY <1>1, <1>2 DEF WriteZeros, VersionedTables, CountersInv, TypeOK, HoldTable
<1>4. CountersInv'
      BY <1>3, AutoInitKeepsSlots DEF WriteZeros
<1>5. InFlight' /\ FiniteLedger'
      BY DEF WriteZeros, slots, InFlight, FiniteLedger
<1>6. MissingReadsZero'
      BY <1>2 DEF WriteZeros, MissingReadsZero
<1> QED BY <1>4, <1>5, <1>6

LEMMA NextKeepsAutoInv == AutoInv /\ [NextAutoInit]_initVars => AutoInv'
<1> SUFFICES ASSUME AutoInv, [NextAutoInit]_initVars PROVE AutoInv'
    OBVIOUS
<1> DEFINE Stages == {"idle", "found none", "insert", "update", "done", "overwrote"}
<1>0. CountersInv /\ InFlight /\ FiniteLedger /\ MissingReadsZero /\ initializing \in [Levels -> Stages]
      BY DEF AutoInv
<1>1. CASE [Next]_vars /\ UNCHANGED initializing
      <2>1. CountersInv' /\ VersionedTables /\ BookedLevels
            BY <1>0, <1>1, NextKeepsCounters
      <2>2. FiniteLedger' /\ LedgerExplainsCounters'
            BY <1>1, <2>1 DEF AutoInv, BookedLevels, LevelBooked, LedgerExplains, FiniteLedger,
               LedgerExplainsCounters
      <2>3. InFlight'
            BY <1>0, <1>1, NextKeepsInFlight DEF CountersInv
      <2>4. MissingReadsZero'
            <3> SUFFICES ASSUME NEW l \in Levels, version'[l] = 0
                         PROVE  level'[l] = InitialAt(0)
                  BY DEF MissingReadsZero
            <3>1. version[l] \in Nat
                  BY <1>0 DEF CountersInv, TypeOK
            <3>2. level'[l] = level[l] /\ version'[l] = version[l]
                  BY <2>1, <3>1 DEF VersionedTables
            <3> QED BY <1>0, <3>2 DEF MissingReadsZero
      <2> QED BY <1>0, <1>1, <2>1, <2>2, <2>3, <2>4 DEF AutoInv
<1>2. ASSUME NEW l \in Levels, UNCHANGED vars,
             initializing[l] # "overwrote", initializing' \in [Levels -> Stages],
             \A k \in Levels \ {l} : initializing'[k] = initializing[k]
      PROVE  AutoInv'
      <2>1. CountersInv' /\ InFlight' /\ FiniteLedger' /\ MissingReadsZero'
            <3>1. VersionedTables
                  BY <1>0, <1>2 DEF vars, tables, VersionedTables, CountersInv, TypeOK, HoldTable
            <3>2. CountersInv'
                  BY <1>0, <1>2, <3>1, AutoInitKeepsSlots DEF vars
            <3> QED BY <1>0, <1>2, <3>2 DEF vars, tables, slots, InFlight, FiniteLedger, MissingReadsZero
      <2>2. LedgerExplainsCounters'
            BY <1>2 DEF AutoInv, LedgerExplainsCounters, LedgerExplains, vars, tables
      <2> QED BY <1>2, <2>1, <2>2 DEF AutoInv
<1>3. ASSUME NEW l \in Levels, AutoInitFind(l) \/ AutoInitRefind(l) PROVE AutoInv'
      BY <1>0, <1>2, <1>3 DEF AutoInitFind, AutoInitRefind, At
<1>4. ASSUME NEW l \in Levels, AutoInitInsert(l) PROVE AutoInv'
      <2>1. /\ initializing[l] # "overwrote" /\ initializing' \in [Levels -> Stages]
            /\ \A k \in Levels \ {l} : initializing'[k] = initializing[k]
            BY <1>0, <1>4 DEF AutoInitInsert, At
      <2>2. CASE version[l] = 0
            <3>1. WriteZeros(l)
                  BY <1>4, <2>2 DEF AutoInitInsert
            <3>2. level' = level /\ ledger' = ledger
                  BY <1>0, <2>2, <3>1 DEF WriteZeros, MissingReadsZero, CountersInv, TypeOK
            <3>3. LedgerExplainsCounters'
                  BY <2>1, <3>2 DEF AutoInv, LedgerExplainsCounters, LedgerExplains
            <3> QED BY <1>0, <2>1, <3>1, <3>3, WriteZerosKeeps DEF AutoInv
      <2>3. CASE version[l] # 0
            BY <1>2, <1>4, <2>1, <2>3 DEF AutoInitInsert
      <2> QED BY <2>2, <2>3
<1>5. ASSUME NEW l \in Levels, AutoInitUpdate(l) PROVE AutoInv'
      <2>1. /\ WriteZeros(l) /\ initializing' \in [Levels -> Stages]
            /\ initializing' = [initializing EXCEPT ![l] = "overwrote"]
            BY <1>0, <1>5 DEF AutoInitUpdate, At
      <2>2. LedgerExplainsCounters'
            <3>1. \A k \in Levels \ {l} : /\ level'[k] = level[k] /\ ledger'[k] = ledger[k]
                                          /\ initializing'[k] = initializing[k]
                  BY <1>0, <2>1 DEF WriteZeros, CountersInv, TypeOK
            <3>2. initializing'[l] = "overwrote"
                  BY <1>0, <2>1
            <3> QED BY <3>1, <3>2 DEF AutoInv, LedgerExplainsCounters, LedgerExplains
      <2> QED BY <1>0, <2>1, <2>2, WriteZerosKeeps DEF AutoInv
<1> QED BY <1>1, <1>3, <1>4, <1>5 DEF NextAutoInit, initVars

LEMMA AutoInvariance == SpecAutoInit => []AutoInv
<1>1. ASSUME InitAutoInit PROVE AutoInv
      <2>1. /\ CountersInv /\ InFlight /\ FiniteLedger
            /\ \A l \in Levels : LedgerExplains(l)
            BY <1>1, InitIsExplained DEF InitAutoInit
      <2>2. MissingReadsZero
            <3> SUFFICES ASSUME NEW l \in Levels, version[l] = 0
                         PROVE  level[l] = InitialAt(0)
                  BY DEF MissingReadsZero
            <3>1. SeedOnHand[l] \in Nat /\ level[l] = InitialAt(SeedOnHand[l])
                  BY <1>1, Budgets DEF InitAutoInit, Init
            <3>2. version[l] = IF SeedOnHand[l] > 0 THEN 1 ELSE 0
                  BY <1>1 DEF InitAutoInit, Init
            <3>3. SeedOnHand[l] = 0
                  BY <3>1, <3>2
            <3> QED BY <3>1, <3>3
      <2>3. initializing \in [Levels -> {"idle", "found none", "insert", "update", "done", "overwrote"}]
            BY <1>1 DEF InitAutoInit
      <2> QED BY <2>1, <2>2, <2>3 DEF AutoInv, LedgerExplainsCounters
<1> QED BY <1>1, NextKeepsAutoInv, PTL DEF SpecAutoInit

\* The ledger explains the counters of every level that auto-init has not
\* overwritten: no commit, retried or answered as a repetition, changes a
\* counter without its row or appends a row without its change.
THEOREM LedgerAccountsForCounters == SpecAutoInit => []LedgerExplainsCounters
<1>1. AutoInv => LedgerExplainsCounters
      BY DEF AutoInv
<1> QED BY <1>1, AutoInvariance, PTL

\* Nor does auto-init take a row back that a caller was told of.
THEOREM AnswersAreRecordedBesideAutoInit == SpecAutoInit => []AckedIsRecorded
<1>1. InitAutoInit => LedgerInv
      BY DEF InitAutoInit, Init, LedgerInv, OncePerOperation, Explained, AckedIsRecorded, EmptyBag,
         SetToBag, BagToSet
<1>2. ASSUME AutoInv, LedgerInv, [NextAutoInit]_initVars PROVE LedgerInv'
      <2>1. CASE [Next]_vars
            BY <1>2, <2>1, NextKeepsLedger DEF AutoInv
      <2>2. CASE ~[Next]_vars
            <3>1. UNCHANGED <<ledger, acked>>
                  BY <1>2, <2>2 DEF NextAutoInit, initVars, AutoInitFind, AutoInitRefind,
                     AutoInitInsert, AutoInitUpdate, WriteZeros, vars, tables
            <3> QED BY <1>2, <3>1, AnswerKeepsLedger
      <2> QED BY <2>1, <2>2
<1>3. LedgerInv => AckedIsRecorded
      BY DEF LedgerInv
<1> QED BY <1>1, <1>2, <1>3, AutoInvariance, PTL DEF SpecAutoInit

=============================================================================
