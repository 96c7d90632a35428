------------------------------ MODULE Checkout ------------------------------
(***************************************************************************)
(* Place Order, beside the edits of the module Cart: a cart becomes an     *)
(* order, its held stock becomes allocated stock, and the payment is       *)
(* authorized.                                                             *)
(*                                                                         *)
(* The cart is read by two queries outside any transaction.  One           *)
(* transaction then inserts the order, converts the cart by an UPDATE that *)
(* expects it active (the row stays locked until the end), calls the       *)
(* inventory service to allocate, and commits.  After the commit come the  *)
(* payment gateway and a second transaction that records the authorization.*)
(* There are two compensations: a failed commit after an answered          *)
(* allocation, and anything that fails in the authorization.               *)
(* The idempotency key is looked up first and stored last; nothing is      *)
(* reserved under it in between.                                           *)
(*                                                                         *)
(* A customer may cancel an order from its commit on.  A transaction that  *)
(* is lost is rolled back.                                                 *)
(***************************************************************************)
EXTENDS Cart

CONSTANTS
    Placers,        \* concurrent handlers of Place Order
    Keys,           \* idempotency keys
    Bodies,         \* fingerprints of the rest of a body (addresses, method)
    PlaceRequests,  \* the requests callers send
    MaxOrders       \* bound: order ids given out

PlaceRequest == [cart : Carts, customer : Customers, key : Keys, body : Bodies]

ASSUME PlaceConstants == PlaceRequests \subseteq PlaceRequest /\ MaxOrders \in Nat

OrderIds == 1 .. MaxOrders

\* A movement refers to a cart or to an order, and says which (reference_type).
ASSUME CartsAreNoOrders == Carts \cap OrderIds = {}

VARIABLES
    orders,     \* the order rows, by id
    payment,    \* the status of the payment row of an order
    lastOrder,  \* order.id given out last
    keys,       \* idempotency_key: fingerprint and the order in the response
    stage,      \* placer -> where its request is
    place,      \* placer -> the request
    cut,        \* placer -> quantity per variant, as it read the cart
    mine,       \* placer -> id of the order it inserted or found
    releasing,  \* cancelled orders whose allocation is still to be released
    orphans,    \* order ids whose allocation nobody will release
    answers     \* answers of success: what was asked, and the order told

orderTables == <<orders, payment, lastOrder, keys>>
placers == <<stage, place, cut, mine>>
afterwards == <<releasing, orphans, answers>>
placeVars == <<orderTables, placers, afterwards>>
vars == <<cartVars, placeVars>>

NoCut == [l \in Levels |-> 0]
OrderRow == [status : {"none", "pending", "cancelled"},
             paymentStatus : {"none", "authorized", "failed"},
             cart : Carts \cup {None}, customer : Customers \cup {None},
             lines : [Levels -> Nat]]
NoOrder == [status |-> "none", paymentStatus |-> "none", cart |-> None,
            customer |-> None, lines |-> NoCut]
KeyRow == [cart : Carts \cup {None}, body : Bodies \cup {None}, order : Nat]
NoKey == [cart |-> None, body |-> None, order |-> 0]
NoPlace == [cart |-> None, customer |-> None, key |-> None, body |-> None]

Init ==
    /\ CartInit
    /\ orders = [o \in OrderIds |-> NoOrder]
    /\ payment = [o \in OrderIds |-> "none"]
    /\ lastOrder = 0
    /\ keys = [k \in Keys |-> NoKey]
    /\ stage = [p \in Placers |-> "idle"]
    /\ place = [p \in Placers |-> NoPlace]
    /\ cut = [p \in Placers |-> NoCut]
    /\ mine = [p \in Placers |-> 0]
    /\ releasing = {}
    /\ orphans = {}
    /\ answers = {}

-----------------------------------------------------------------------------
MoveTo(p, label) ==
    /\ stage' = [stage EXCEPT ![p] = label]
    /\ UNCHANGED <<place, cut, mine>>

\* The request ends with an error, or with the answer it gives beside this.
EndPlace(p) ==
    /\ stage' = [stage EXCEPT ![p] = "idle"]
    /\ place' = [place EXCEPT ![p] = NoPlace]
    /\ cut' = [cut EXCEPT ![p] = NoCut]
    /\ mine' = [mine EXCEPT ![p] = 0]

Answer(r, o) == answers' = answers \cup {[request |-> r, order |-> o]}

\* The transaction of a place ends; the row of the cart is free again.
Unlock(p) == locked' = locked \ {place[p].cart}

edits == <<tables, editors, strayed, sent, faults>>

Faulty == faults < MaxFaults /\ faults' = faults + 1
editsButFaults == <<tables, editors, strayed, sent>>

-----------------------------------------------------------------------------
(* The key, and the reads of the cart. *)

Matches(row, r) == row.cart = r.cart /\ row.body = r.body

\* A stored answer is given again; one under another body is refused.
Replay(r) ==
    /\ r \in PlaceRequests
    /\ keys[r.key] # NoKey
    /\ Matches(keys[r.key], r)
    /\ Answer(r, keys[r.key].order)
    /\ UNCHANGED <<cartVars, orderTables, placers, releasing, orphans>>

BeginPlace(p, r) ==
    /\ stage[p] = "idle"
    /\ r \in PlaceRequests
    /\ keys[r.key] = NoKey
    /\ sent < MaxRequests
    /\ sent' = sent + 1
    /\ stage' = [stage EXCEPT ![p] = "header"]
    /\ place' = [place EXCEPT ![p] = r]
    /\ UNCHANGED <<cut, mine, stock, tables, locked, editors, strayed, faults>>
    /\ UNCHANGED <<orderTables, afterwards>>

ReadHeader(p) ==
    LET row == cart[place[p].cart] IN
    /\ stage[p] = "header"
    /\ CASE row.owner # place[p].customer \/ row.status \in {"none", "abandoned"} ->
                EndPlace(p)
         [] row.owner = place[p].customer /\ row.status = "converted" ->
                MoveTo(p, "resolve")
         [] row.owner = place[p].customer /\ row.status = "active" ->
                MoveTo(p, "lines")
    /\ UNCHANGED <<cartVars, orderTables, afterwards>>

Quantities(c) == [l \in Levels |-> lines[c][l].quantity]

ReadLines(p) ==
    /\ stage[p] = "lines"
    /\ IF Quantities(place[p].cart) = NoCut THEN EndPlace(p)
       ELSE /\ cut' = [cut EXCEPT ![p] = Quantities(place[p].cart)]
            /\ stage' = [stage EXCEPT ![p] = "convert"]
            /\ UNCHANGED <<place, mine>>
    /\ UNCHANGED <<cartVars, orderTables, afterwards>>

-----------------------------------------------------------------------------
(* The place transaction. *)

\* CartReaderTypeormAdapter.markConverted: WHERE status = 'active'.
Convertible(c) == cart[c].status = "active"

\* The order is inserted, which takes an id, and the cart is converted.  A
\* second place waits here for the row.
Convert(p) ==
    /\ stage[p] = "convert"
    /\ place[p].cart \notin locked
    /\ lastOrder < MaxOrders
    /\ lastOrder' = lastOrder + 1
    /\ IF Convertible(place[p].cart)
       THEN /\ locked' = locked \cup {place[p].cart}
            /\ mine' = [mine EXCEPT ![p] = lastOrder + 1]
            /\ stage' = [stage EXCEPT ![p] = "allocate"]
            /\ UNCHANGED <<place, cut>>
       ELSE EndPlace(p) /\ UNCHANGED locked
    /\ UNCHANGED <<stock, edits, orders, payment, keys, afterwards>>

\* Mutant of AllocateOf: the lines are read again.
AllocateNow(p) ==
    StockRequest("allocate", place[p].cart, Quantities(place[p].cart), mine[p], None)

AllocateOf(p) == StockRequest("allocate", place[p].cart, cut[p], mine[p], None)

AllocateCut(p) ==
    /\ stage[p] = "allocate"
    /\ Stock!AllocateStock(AllocateOf(p))
    /\ MoveTo(p, "commit")
    /\ UNCHANGED <<locked, edits, orderTables, afterwards>>

\* The inventory refuses, and the transaction is rolled back.
RefuseAllocate(p) ==
    /\ stage[p] = "allocate"
    /\ Refuses(AllocateOf(p))
    /\ EndPlace(p)
    /\ Unlock(p)
    /\ UNCHANGED <<stock, edits, orderTables, afterwards>>

\* The stock is allocated, but the caller sees an error: it rolls back and
\* compensates nothing.
LoseAllocateAnswer(p) ==
    /\ stage[p] = "allocate"
    /\ Faulty
    /\ Stock!AllocateStock(AllocateOf(p))
    /\ orphans' = orphans \cup {mine[p]}
    /\ EndPlace(p)
    /\ Unlock(p)
    /\ UNCHANGED <<editsButFaults, orderTables, releasing, answers>>

MarkConverted(c) ==
    cart' = [cart EXCEPT ![c].status = "converted", ![c].version = @ + 1]

CommitPlace(p) ==
    /\ stage[p] = "commit"
    /\ orders' = [orders EXCEPT ![mine[p]] =
                     [status |-> "pending", paymentStatus |-> "none",
                      cart |-> place[p].cart, customer |-> place[p].customer,
                      lines |-> cut[p]]]
    /\ MarkConverted(place[p].cart)
    /\ Unlock(p)
    /\ MoveTo(p, "authorize")
    /\ UNCHANGED <<stock, lines, lastLine, editors, strayed, sent, faults>>
    /\ UNCHANGED <<payment, lastOrder, keys, afterwards>>

\* Mutant of LoseCommit: the allocation is not cancelled.
ForgetAllocation(p) ==
    /\ stage[p] = "commit"
    /\ Faulty
    /\ Unlock(p)
    /\ EndPlace(p)
    /\ UNCHANGED <<stock, editsButFaults, orderTables, afterwards>>

\* The commit fails after the allocation was answered: to be compensated.
LoseCommit(p) ==
    /\ stage[p] = "commit"
    /\ Faulty
    /\ Unlock(p)
    /\ MoveTo(p, "rollback")
    /\ UNCHANGED <<stock, editsButFaults, orderTables, afterwards>>

-----------------------------------------------------------------------------
(* Compensations.  Each mints an operation key of its own. *)

CancelOf(o, c, quantities, reason) ==
    StockRequest("cancel", c, quantities, o, <<o, reason>>)

Compensation(p, reason) ==
    CancelOf(mine[p], place[p].cart, cut[p], reason)

\* Nothing is left to do once the allocation of a lost commit is cancelled;
\* an inventory that refuses is only logged.
Rollback(p) ==
    LET o == Compensation(p, "place-rollback") IN
    /\ stage[p] = "rollback"
    /\ \/ Stock!CancelAllocation(o) /\ UNCHANGED orphans
       \/ Refuses(o) /\ orphans' = orphans \cup {mine[p]} /\ UNCHANGED stock
    /\ EndPlace(p)
    /\ UNCHANGED <<locked, edits, orderTables, releasing, answers>>

ReleaseDeclined(p) ==
    LET o == Compensation(p, "authorization-declined") IN
    /\ stage[p] = "declined"
    /\ \/ Stock!CancelAllocation(o) /\ UNCHANGED orphans
       \/ Refuses(o) /\ orphans' = orphans \cup {mine[p]} /\ UNCHANGED stock
    /\ MoveTo(p, "fail")
    /\ UNCHANGED <<locked, edits, orderTables, releasing, answers>>

LoseReleaseDeclined(p) ==
    /\ stage[p] = "declined"
    /\ Faulty
    /\ orphans' = orphans \cup {mine[p]}
    /\ MoveTo(p, "fail")
    /\ UNCHANGED <<stock, locked, editsButFaults, orderTables, releasing, answers>>

\* markPaymentFailed and cancel, or neither.
FailOrder(p) ==
    /\ stage[p] = "fail"
    /\ orders' = IF /\ orders[mine[p]].paymentStatus = "none"
                    /\ orders[mine[p]].status = "pending"
                 THEN [orders EXCEPT ![mine[p]].paymentStatus = "failed",
                                     ![mine[p]].status = "cancelled"]
                 ELSE orders
    /\ EndPlace(p)
    /\ UNCHANGED <<cartVars, payment, lastOrder, keys, afterwards>>

-----------------------------------------------------------------------------
(* Authorization, after the commit. *)

\* The gateway approves, the payment row is inserted and the order marked,
\* whatever its status is by now: the UPDATE of the order expects no version
\* and writes the payment axis only.
Authorize(p) ==
    /\ stage[p] = "authorize"
    /\ orders[mine[p]].paymentStatus = "none"
    /\ payment' = [payment EXCEPT ![mine[p]] = "authorized"]
    /\ orders' = [orders EXCEPT ![mine[p]].paymentStatus = "authorized"]
    /\ MoveTo(p, "store")
    /\ UNCHANGED <<cartVars, lastOrder, keys, afterwards>>

\* The gateway declines, or the recording of an approval fails.
Decline(p) ==
    /\ stage[p] = "authorize"
    /\ MoveTo(p, "declined")
    /\ UNCHANGED <<cartVars, orderTables, afterwards>>

-----------------------------------------------------------------------------
(* The answer. *)

OrdersOf(c) == {o \in OrderIds : orders[o].status # "none" /\ orders[o].cart = c}

\* A payment row exists.
Resolvable(o) == payment[o] # "none"

\* resolveExistingOrder: the cart was converted before; the latest order of
\* the cart answers, if it was paid.
Resolve(p) ==
    LET found == OrdersOf(place[p].cart)
        latest == CHOOSE o \in found : \A q \in found : q <= o
    IN  /\ stage[p] = "resolve"
        /\ IF found # {} /\ Resolvable(latest)
           THEN /\ mine' = [mine EXCEPT ![p] = latest]
                /\ stage' = [stage EXCEPT ![p] = "store"]
                /\ UNCHANGED <<place, cut>>
           ELSE EndPlace(p)
        /\ UNCHANGED <<cartVars, orderTables, afterwards>>

\* Mutant of Told: the key is not read again.
ToldOwn(p, row) == mine[p]

\* The order the answer names, when row is what is stored under the key.
Told(p, row) == row.order

\* The key is stored unless it is there, then read: whoever stored first
\* decides the answer.
StoreKey(p) ==
    LET r == place[p]
        row == [cart |-> r.cart, body |-> r.body, order |-> mine[p]]
    IN  /\ stage[p] = "store"
        /\ keys' = IF keys[r.key] = NoKey THEN [keys EXCEPT ![r.key] = row] ELSE keys
        /\ Answer(r, Told(p, keys'[r.key]))
        /\ EndPlace(p)
        /\ UNCHANGED <<cartVars, orders, payment, lastOrder, releasing, orphans>>

-----------------------------------------------------------------------------
(* Cancel Order, from the commit on; the module OrderLifecycle has its     *)
(* races with capture and shipment, which need an authorized payment.      *)

CancelOrder(o) ==
    /\ orders[o].status = "pending"
    /\ sent < MaxRequests
    /\ sent' = sent + 1
    /\ orders' = [orders EXCEPT ![o].status = "cancelled"]
    /\ payment' = [payment EXCEPT ![o] = IF @ = "authorized" THEN "voided" ELSE @]
    /\ releasing' = releasing \cup {o}
    /\ UNCHANGED <<stock, tables, locked, editors, strayed, faults>>
    /\ UNCHANGED <<lastOrder, keys, placers, orphans, answers>>

\* releaseAllocationWithRetry, which logs for replay what it cannot do.
ReleaseCancelled(o) ==
    LET r == CancelOf(o, orders[o].cart, orders[o].lines, "order-cancelled") IN
    /\ o \in releasing
    /\ \/ Stock!CancelAllocation(r) /\ UNCHANGED orphans
       \/ Refuses(r) /\ orphans' = orphans \cup {o} /\ UNCHANGED stock
    /\ releasing' = releasing \ {o}
    /\ UNCHANGED <<locked, edits, orderTables, placers, answers>>

-----------------------------------------------------------------------------
\* The process stops, or a query or a call to the catalog fails, between two
\* steps; an open transaction is rolled back.
DiePlace(p) ==
    /\ stage[p] # "idle"
    /\ Faulty
    /\ IF stage[p] \in {"allocate", "commit"} THEN Unlock(p) ELSE UNCHANGED locked
    /\ orphans' = IF stage[p] \in {"commit", "rollback", "declined"}
                  THEN orphans \cup {mine[p]} ELSE orphans
    /\ EndPlace(p)
    /\ UNCHANGED <<stock, editsButFaults, orderTables, releasing, answers>>

PlaceNext ==
    \/ \E r \in PlaceRequests : Replay(r)
    \/ \E p \in Placers :
          \/ \E r \in PlaceRequests : BeginPlace(p, r)
          \/ ReadHeader(p)
          \/ ReadLines(p)
          \/ Convert(p)
          \/ AllocateCut(p)
          \/ RefuseAllocate(p)
          \/ LoseAllocateAnswer(p)
          \/ CommitPlace(p)
          \/ LoseCommit(p)
          \/ Rollback(p)
          \/ ReleaseDeclined(p)
          \/ LoseReleaseDeclined(p)
          \/ FailOrder(p)
          \/ Authorize(p)
          \/ Decline(p)
          \/ Resolve(p)
          \/ StoreKey(p)
          \/ DiePlace(p)
    \/ \E o \in OrderIds : CancelOrder(o) \/ ReleaseCancelled(o)

Next == (CartNext /\ UNCHANGED placeVars) \/ PlaceNext

Spec == Init /\ [][Next]_vars

-----------------------------------------------------------------------------
(* Properties. *)

\* A cart becomes at most one order, and has one exactly when it is
\* converted: two places under different keys, or under one key that neither
\* has stored yet, meet on the row of the cart.
OneOrderPerCart ==
    \A c \in Carts :
        /\ \A o, q \in OrdersOf(c) : o = q
        /\ cart[c].status = "converted" <=> OrdersOf(c) # {}

RowsOf(l, o) == {m \in BagToSet(ledger[l]) : m.ref = o}

\* The units an order has in the inventory are those of its lines: allocated
\* once, at every level, and none given back.
FullyAllocated(o) ==
    \A l \in Levels :
        IF orders[o].lines[l] = 0 THEN RowsOf(l, o) = {}
        ELSE LET m == Movement("allocation", -orders[o].lines[l], o, None)
             IN  RowsOf(l, o) = {m} /\ ledger[l][m] = 1

Paid == {o \in OrderIds : orders[o].status = "pending" /\ orders[o].paymentStatus = "authorized"}

\* The allocation of order o has been given back twice, as happens to an order
\* that is cancelled while its payment is being declined: each side releases
\* it under an operation key of its own.
ReleasedTwice(o) ==
    \E l \in Levels : \E m, n \in RowsOf(l, o) :
        /\ m.type = "release" /\ n.type = "release"
        /\ m # n \/ ledger[l][m] > 1

\* The units of the orders in O at level l, one element per unit.
UnitsOf(l, O) == UNION {{o} \X (1 .. orders[o].lines[l]) : o \in O}

\* README.md, Place Order: "money is never authorized for unallocatable stock".
\* What a level counts as allocated, for all orders together, covers the pending
\* orders whose payment is authorized.
StockCoversPaidOrders ==
    \A l \in Levels : Cardinality(UnitsOf(l, Paid)) <= level[l].allocated

\* A pending order whose payment is authorized still has all of its stock.
\* Its own allocation is in the ledger, untouched, and the count of allocated
\* units, which all orders share, covers it: nobody's compensation released what
\* was never allocated, or more of it, except in the one case ReleasedTwice.
PaidOrderIsAllocated ==
    /\ \A o \in Paid : FullyAllocated(o)
    /\ StockCoversPaidOrders \/ \E o \in OrderIds : ReleasedTwice(o)

\* No allocation is forgotten: it serves a pending order, or a request that
\* is still at work on it, or it is given back, or will be, or somebody's
\* answer, process or compensation was lost.
AllocationIsAccountedFor ==
    \A l \in Levels : \A m \in BagToSet(ledger[l]) :
        m.type = "allocation" =>
            \/ orders[m.ref].status = "pending"
            \/ \E p \in Placers : mine[p] = m.ref /\ stage[p] \in {"commit", "rollback"}
            \/ \E n \in RowsOf(l, m.ref) : n.type = "release"
            \/ m.ref \in releasing \cup orphans

\* Whoever is told of success is told of an order that has a payment, also
\* when the cart was converted by somebody else's place, declined or cut off.
AnsweredOrderIsPaid == \A a \in answers : payment[a.order] # "none"

\* Two successful answers under one key name the same order, although no
\* place reserves its key before it runs.
KeyAnswersOneOrder ==
    \A a, b \in answers : a.request.key = b.request.key => a.order = b.order

=============================================================================
