--------------------------- MODULE OrderLifecycle ---------------------------
(***************************************************************************)
(* One placed order on its way to the buyer: capture, create, ship and     *)
(* deliver fulfillments, cancel the order or units of a line.              *)
(*                                                                         *)
(* The rows of an order are guarded in three different ways, and the       *)
(* handlers meet on all three:                                             *)
(*   - the order row (with its lines) is written by an UPDATE that expects *)
(*     the version the transaction read; a lost race starts a new attempt; *)
(*   - a fulfillment is re-read FOR UPDATE before it changes status; the   *)
(*     lock lasts until the transaction ends;                              *)
(*   - the payment is claimed FOR UPDATE (authorized -> capturing) in a    *)
(*     transaction of its own, before the gateway is called with no        *)
(*     transaction open.                                                   *)
(* Reads at the head of a use case take no lock, and a transaction reads   *)
(* one snapshot.  A new fulfillment is inserted under none of the three.   *)
(*                                                                         *)
(* The release of an allocation and the sale are calls to the inventory    *)
(* service after the commit; here they are counted, the module Inventory   *)
(* says what they do.                                                      *)
(***************************************************************************)
EXTENDS Integers, FiniteSets

CONSTANTS
    Handlers,           \* concurrent RPC handlers
    Lines,              \* the lines of the order
    Quantity,           \* order_line.quantity
    MaxFulfillments,    \* bound: fulfillments created over a run
    Payloads,           \* the requests callers send
    MaxAttempts,        \* OCC_RETRY_ATTEMPTS
    MaxRequests,        \* bound: requests sent over a run
    MaxFaults           \* bound: requests that die before they end

Fulfillments == 1 .. MaxFulfillments
Units == [Lines -> Nat]
NoUnits == [l \in Lines |-> 0]

ASSUME OrderedUnits == IsFiniteSet(Lines) /\ Quantity \in [Lines -> Nat \ {0}]
ASSUME OrderBudgets ==
    /\ IsFiniteSet(Handlers)
    /\ MaxFulfillments \in Nat /\ MaxAttempts \in Nat \ {0}
    /\ MaxRequests \in Nat /\ MaxFaults \in Nat

\* A request names a fulfillment (ship, deliver) or units of lines (create,
\* cancelLine); the other fields are at rest.
Kinds == {"capture", "ship", "deliver", "create", "cancelOrder", "cancelLine"}
Request == [kind : Kinds, fulfillment : Nat, units : Units]
NoRequest == [kind |-> "capture", fulfillment |-> 0, units |-> NoUnits]

ASSUME OrderPayloads ==
    \A p \in Payloads :
        /\ p \in Request
        /\ p.kind \in {"ship", "deliver"} => p.fulfillment \in Fulfillments
        /\ p.kind = "create" => p.units # NoUnits
        /\ p.kind = "cancelLine" => \E l \in Lines : \A k \in Lines :
                                        (p.units[k] > 0) <=> (k = l)

-----------------------------------------------------------------------------
VARIABLES
    order,          \* the order row: three status axes and the version
    line,           \* order_line: status and cancelled_quantity
    payment,        \* the payment row: status and flagged_for_refund
    fulfillment,    \* fulfillment rows with their line quantities
    pc,             \* handler -> where its request is
    req,            \* handler -> the request
    attempt,        \* handler -> number of the current attempt
    seen,           \* handler -> the rows it read
    due,            \* handler -> units to release or to sell after the commit
    paid,           \* handler -> the gateway captured for this request
    charges,        \* captures the gateway carried out
    released,       \* movement reason -> line -> units given back
    sold,           \* line -> units sold by Commit Sale
    sent,           \* requests sent so far
    faults          \* requests that died so far

rows == <<order, line, payment, fulfillment>>
handlers == <<pc, req, attempt, seen, due, paid>>
outside == <<charges, released, sold>>
bounds == <<sent, faults>>
vars == <<rows, handlers, outside, bounds>>

OrderRow == [status : {"pending", "cancelled", "delivered"},
             paymentStatus : {"authorized", "captured"},
             fulfillmentStatus : {"unfulfilled", "partially-shipped", "shipped", "delivered"},
             version : Nat]
LineRow == [status : {"allocated", "partially-shipped", "shipped", "cancelled"},
            cancelled : Nat]
PaymentRow == [status : {"authorized", "capturing", "captured", "voided"},
               flagged : BOOLEAN]
FulfillmentRow == [status : {"none", "pending", "shipped", "delivered", "cancelled"},
                   quantity : Units]
Snapshot == [order : OrderRow, line : [Lines -> LineRow], payment : PaymentRow,
             fulfillment : [Fulfillments -> FulfillmentRow]]

Now == [order |-> order, line |-> line, payment |-> payment,
        fulfillment |-> fulfillment]

\* The order as Place Order leaves it: allocated and authorized.
Placed ==
    [order |-> [status |-> "pending", paymentStatus |-> "authorized",
                fulfillmentStatus |-> "unfulfilled", version |-> 0],
     line |-> [l \in Lines |-> [status |-> "allocated", cancelled |-> 0]],
     payment |-> [status |-> "authorized", flagged |-> FALSE],
     fulfillment |-> [f \in Fulfillments |-> [status |-> "none", quantity |-> NoUnits]]]

Init ==
    /\ order = Placed.order
    /\ line = Placed.line
    /\ payment = Placed.payment
    /\ fulfillment = Placed.fulfillment
    /\ pc = [h \in Handlers |-> "idle"]
    /\ req = [h \in Handlers |-> NoRequest]
    /\ attempt = [h \in Handlers |-> 0]
    /\ seen = [h \in Handlers |-> Placed]
    /\ due = [h \in Handlers |-> NoUnits]
    /\ paid = [h \in Handlers |-> FALSE]
    /\ charges = 0
    /\ released = [reason \in {"order-cancelled", "line-cancelled"} |-> NoUnits]
    /\ sold = NoUnits
    /\ sent = 0
    /\ faults = 0

-----------------------------------------------------------------------------
(* Queries on a snapshot s. *)

Active(s, l) == Quantity[l] - s.line[l].cancelled

WithStatus(s, statuses) == {f \in Fulfillments : s.fulfillment[f].status \in statuses}

\* The sum of quantity[x] over the members x of S: how many units they have.
Together(quantity, S) == Cardinality(UNION {{x} \X (1 .. quantity[x]) : x \in S})

\* sumLineQuantitiesByOrderLine
UnitsIn(s, fs, l) == Together([f \in fs |-> s.fulfillment[f].quantity[l]], fs)

CountsTowardFulfilled == {"pending", "shipped", "delivered"}
CountsTowardShipped == {"shipped", "delivered"}

Planned(s, l) == UnitsIn(s, WithStatus(s, CountsTowardFulfilled), l)
Shipped(s, l) == UnitsIn(s, WithStatus(s, CountsTowardShipped), l)

HasShippedFulfillment(s, fs) == fs \cap WithStatus(s, CountsTowardShipped) # {}

\* Order.fulfillmentRank, OrderLine.fulfillmentRank
Rank(status) ==
    CASE status \in {"unfulfilled", "allocated"} -> 0
      [] status = "partially-shipped" -> 1
      [] status = "shipped" -> 2
      [] status = "delivered" -> 3

\* ShipFulfillmentUseCase.advanceLinesAndRollUp, on the snapshot s in which
\* fulfillment f has just become shipped: the new rows of the lines ...
AdvanceLine(s, l) ==
    LET units == Shipped(s, l)
    IN  IF Active(s, l) = 0 \/ units = 0 THEN s.line[l]
        ELSE [s.line[l] EXCEPT !.status =
                 IF units >= Active(s, l) THEN "shipped" ELSE "partially-shipped"]

\* ... and the new fulfillment axis of the order.
RollUp(s) ==
    IF \A l \in Lines : Active(s, l) = 0 \/ Shipped(s, l) >= Active(s, l)
    THEN "shipped" ELSE "partially-shipped"

With(s, f, status) == [s EXCEPT !.fulfillment[f].status = status]

\* MarkDeliveredUseCase.everyFulfillmentDelivered
EveryFulfillmentDelivered(s) ==
    LET live == WithStatus(s, CountsTowardFulfilled)
    IN  live # {} /\ live \subseteq WithStatus(s, {"delivered"})

-----------------------------------------------------------------------------
(* Steps every use case has. *)

\* The request ends, with or without an answer; what the handler kept in
\* memory is gone.
End(h) ==
    /\ pc' = [pc EXCEPT ![h] = "idle"]
    /\ req' = [req EXCEPT ![h] = NoRequest]
    /\ attempt' = [attempt EXCEPT ![h] = 0]
    /\ seen' = [seen EXCEPT ![h] = Placed]
    /\ due' = [due EXCEPT ![h] = NoUnits]
    /\ paid' = [paid EXCEPT ![h] = FALSE]

\* The transaction is committed and a call to the inventory service is due.
CallInventory(h, label, units) ==
    /\ pc' = [pc EXCEPT ![h] = label]
    /\ due' = [due EXCEPT ![h] = units]
    /\ seen' = [seen EXCEPT ![h] = Placed]
    /\ attempt' = [attempt EXCEPT ![h] = 0]
    /\ paid' = [paid EXCEPT ![h] = FALSE]
    /\ UNCHANGED req

Goto(h, label) ==
    /\ pc' = [pc EXCEPT ![h] = label]
    /\ UNCHANGED <<req, attempt, seen, due, paid>>

\* A request passes the checks at the head of its use case; the handler
\* keeps what it read there and the units it means to release.
Begin(h, p, label, read, units) ==
    /\ pc[h] = "idle"
    /\ p \in Payloads
    /\ sent < MaxRequests
    /\ sent' = sent + 1
    /\ pc' = [pc EXCEPT ![h] = label]
    /\ req' = [req EXCEPT ![h] = p]
    /\ attempt' = [attempt EXCEPT ![h] = 1]
    /\ seen' = [seen EXCEPT ![h] = read]
    /\ due' = [due EXCEPT ![h] = units]
    /\ UNCHANGED <<paid, rows, outside, faults>>

\* findByIdForUpdate: a ship or a deliver holds the row until its
\* transaction ends.
Locked(f) ==
    \E h \in Handlers : /\ pc[h] = "open"
                        /\ req[h].kind \in {"ship", "deliver"}
                        /\ req[h].fulfillment = f

-----------------------------------------------------------------------------
(* The claim on the payment (CapturePaymentUseCase.capture,               *)
(* ShipFulfillmentUseCase.captureIfNeeded).                               *)

BeginCapture(h, p) ==
    /\ p.kind = "capture"
    /\ payment.status = "authorized"
    /\ Begin(h, p, "claim", Placed, NoUnits)

AlreadyCaptured == payment.status = "captured"

BeginShip(h, p) ==
    /\ p.kind = "ship"
    /\ fulfillment[p.fulfillment].status = "pending"
    /\ Begin(h, p, IF AlreadyCaptured THEN "ready" ELSE "claim", Placed, NoUnits)

\* Mutant of CanClaim: the status read before the lock is trusted.
ClaimOnEarlierRead == payment.status \in {"authorized", "capturing"}

\* Payment.beginCapture on the locked row.
CanClaim == payment.status = "authorized"

Claim(h) ==
    /\ pc[h] = "claim"
    /\ CanClaim
    /\ payment' = [payment EXCEPT !.status = "capturing"]
    /\ Goto(h, "charge")
    /\ UNCHANGED <<order, line, fulfillment, outside, bounds>>

RefuseClaim(h) ==
    /\ pc[h] = "claim"
    /\ ~CanClaim
    /\ End(h)
    /\ UNCHANGED <<rows, outside, bounds>>

ChargeApproved(h) ==
    /\ pc[h] = "charge"
    /\ charges' = charges + 1
    /\ paid' = [paid EXCEPT ![h] = TRUE]
    /\ pc' = [pc EXCEPT ![h] = "ready"]
    /\ UNCHANGED <<rows, req, attempt, seen, due, released, sold, bounds>>

ChargeDeclined(h) ==
    /\ pc[h] = "charge"
    /\ Goto(h, "declined")
    /\ UNCHANGED <<rows, outside, bounds>>

\* Payment.releaseCapture on the locked row.
ReleaseClaim(h) ==
    /\ pc[h] = "declined"
    /\ payment.status = "capturing"
    /\ payment' = [payment EXCEPT !.status = "authorized"]
    /\ End(h)
    /\ UNCHANGED <<order, line, fulfillment, outside, bounds>>

-----------------------------------------------------------------------------
(* The other requests, up to their transaction.                            *)

BeginDeliver(h, p) ==
    /\ p.kind = "deliver"
    /\ fulfillment[p.fulfillment].status = "shipped"
    /\ Begin(h, p, "ready", Placed, NoUnits)

\* The units to release are those of the order as it is read here
\* (buildCancelAllocationPayload).
BeginCancelOrder(h, p) ==
    /\ p.kind = "cancelOrder"
    /\ ~HasShippedFulfillment(Now, Fulfillments)
    /\ Begin(h, p, "ready", Placed, [l \in Lines |-> Active(Now, l)])

BeginCancelLine(h, p) ==
    /\ p.kind = "cancelLine"
    /\ Begin(h, p, "ready", Placed, NoUnits)

\* CreateFulfillmentUseCase: the order is read first (assertFulfillable), ...
BeginCreate(h, p) ==
    /\ p.kind = "create"
    /\ order.status = "pending"
    /\ Cardinality({k \in Handlers : req[k].kind = "create"})
          < Cardinality(WithStatus(Now, {"none"}))      \* bound: MaxFulfillments
    /\ Begin(h, p, "plan", Now, NoUnits)

\* ... then the fulfillments (assertWithinRemaining), ...
WithinRemaining(h) ==
    \A l \in Lines : req[h].units[l] > 0 =>
        req[h].units[l] <= Active(seen[h], l) - Planned(Now, l)

PlanFulfillment(h) ==
    /\ pc[h] = "plan"
    /\ IF WithinRemaining(h) THEN Goto(h, "insert") ELSE End(h)
    /\ UNCHANGED <<rows, outside, bounds>>

\* ... and the row is inserted, outside any transaction those reads belong to.
InsertFulfillment(h) ==
    /\ pc[h] = "insert"
    /\ \E f \in Fulfillments :
          /\ fulfillment[f].status = "none"
          /\ \A g \in 1 .. f - 1 : fulfillment[g].status # "none"
          /\ fulfillment' = [fulfillment EXCEPT ![f] =
                                [status |-> "pending", quantity |-> req[h].units]]
    /\ End(h)
    /\ UNCHANGED <<order, line, payment, outside, bounds>>

-----------------------------------------------------------------------------
(* Transactions: Open takes the snapshot, a commit action writes.          *)

\* The rules of the aggregates on the snapshot s; a request that breaks one
\* ends and leaves nothing behind.
CanCapture(h, s) ==
    /\ s.payment.status = "capturing"
    /\ s.order.paymentStatus = "authorized"

AfterShip(h, s) == With(s, req[h].fulfillment, "shipped")

\* Mutant of CanShip: the fulfillment is not looked at again under its lock.
CanShipAgain(h, s) ==
    /\ paid[h] => s.order.paymentStatus = "authorized"
    /\ Rank(RollUp(AfterShip(h, s))) >= Rank(s.order.fulfillmentStatus)

CanShip(h, s) ==
    /\ s.fulfillment[req[h].fulfillment].status = "pending"
    /\ paid[h] => s.order.paymentStatus = "authorized"
    /\ Rank(RollUp(AfterShip(h, s))) >= Rank(s.order.fulfillmentStatus)

AfterDeliver(h, s) == With(s, req[h].fulfillment, "delivered")

CanDeliver(h, s) ==
    /\ s.fulfillment[req[h].fulfillment].status = "shipped"
    /\ EveryFulfillmentDelivered(AfterDeliver(h, s)) =>
          /\ s.order.status # "cancelled"
          /\ s.order.fulfillmentStatus \in {"partially-shipped", "shipped"}

CanCancelOrder(s) == s.order.status = "pending"

CanCancelLine(h, s) ==
    \A l \in Lines : req[h].units[l] > 0 =>
        req[h].units[l] <= Active(s, l) - Planned(s, l)

Allowed(h, s) ==
    CASE req[h].kind = "capture" -> CanCapture(h, s)
      [] req[h].kind = "ship" -> CanShip(h, s)
      [] req[h].kind = "deliver" -> CanDeliver(h, s)
      [] req[h].kind = "cancelOrder" -> CanCancelOrder(s)
      [] req[h].kind = "cancelLine" -> CanCancelLine(h, s)

CanOpen(h) ==
    /\ pc[h] = "ready"
    /\ req[h].kind \in {"ship", "deliver"} => ~Locked(req[h].fulfillment)

Open(h) ==
    /\ CanOpen(h)
    /\ Allowed(h, Now)
    /\ pc' = [pc EXCEPT ![h] = "open"]
    /\ seen' = [seen EXCEPT ![h] = Now]
    /\ UNCHANGED <<req, attempt, due, paid, rows, outside, bounds>>

Refuse(h) ==
    /\ CanOpen(h)
    /\ ~Allowed(h, Now)
    /\ End(h)
    /\ UNCHANGED <<rows, outside, bounds>>

\* Mutant of VersionMatches: the UPDATE names the id only.
AnyVersionMatches(h) == TRUE

\* UPDATE ... WHERE version = expectedVersion finds the row.
VersionMatches(h) == order.version = seen[h].order.version

Committing(h, kind) == pc[h] = "open" /\ req[h].kind = kind

CommitCapture(h) ==
    /\ Committing(h, "capture")
    /\ VersionMatches(h)
    /\ payment' = [payment EXCEPT !.status = "captured"]
    /\ order' = [seen[h].order EXCEPT !.paymentStatus = "captured",
                                      !.version = @ + 1]
    /\ End(h)
    /\ UNCHANGED <<line, fulfillment, outside, bounds>>

\* The payment is completed when this ship charged it; then the roll-up.
CommitShip(h) ==
    LET after == AfterShip(h, seen[h]) IN
    /\ Committing(h, "ship")
    /\ VersionMatches(h)
    /\ fulfillment' = [fulfillment EXCEPT ![req[h].fulfillment].status = "shipped"]
    /\ payment' = IF paid[h] /\ seen[h].payment.status = "capturing"
                  THEN [payment EXCEPT !.status = "captured"] ELSE payment
    /\ order' = [seen[h].order EXCEPT
                    !.paymentStatus = IF paid[h] THEN "captured" ELSE @,
                    !.fulfillmentStatus = RollUp(after),
                    !.version = @ + 1]
    /\ line' = [l \in Lines |-> AdvanceLine(after, l)]
    /\ CallInventory(h, "sale", fulfillment[req[h].fulfillment].quantity)
    /\ UNCHANGED <<outside, bounds>>

DeliversOrder(h) == EveryFulfillmentDelivered(AfterDeliver(h, seen[h]))

\* The order is written, and its version checked, by the last delivery only.
CommitDeliver(h) ==
    /\ Committing(h, "deliver")
    /\ fulfillment' = [fulfillment EXCEPT ![req[h].fulfillment].status = "delivered"]
    /\ IF DeliversOrder(h)
       THEN /\ VersionMatches(h)
            /\ order' = [seen[h].order EXCEPT !.status = "delivered",
                                              !.fulfillmentStatus = "delivered",
                                              !.version = @ + 1]
       ELSE UNCHANGED order
    /\ End(h)
    /\ UNCHANGED <<line, payment, outside, bounds>>

\* The fulfillments of the snapshot and the payment are locked and read
\* again, as they are now.
ReRead(h) == WithStatus(seen[h], {"pending", "shipped", "delivered", "cancelled"})

RowsFree(h) == Committing(h, "cancelOrder") /\ \A f \in ReRead(h) : ~Locked(f)

\* Mutant of RowsAllowCancel: the fulfillments are not looked at again.
PaymentAllowsCancel(h) == payment.status # "capturing"

RowsAllowCancel(h) ==
    /\ ~HasShippedFulfillment(Now, ReRead(h))
    /\ payment.status # "capturing"

RefuseCancelOrder(h) ==
    /\ RowsFree(h)
    /\ ~RowsAllowCancel(h)
    /\ End(h)
    /\ UNCHANGED <<rows, outside, bounds>>

CommitCancelOrder(h) ==
    /\ RowsFree(h)
    /\ RowsAllowCancel(h)
    /\ VersionMatches(h)
    /\ order' = [seen[h].order EXCEPT !.status = "cancelled", !.version = @ + 1]
    /\ fulfillment' = [f \in Fulfillments |->
                          IF f \in ReRead(h) /\ fulfillment[f].status = "pending"
                          THEN [fulfillment[f] EXCEPT !.status = "cancelled"]
                          ELSE fulfillment[f]]
    /\ payment' = CASE payment.status = "captured" -> [payment EXCEPT !.flagged = TRUE]
                    [] payment.status = "authorized" -> [payment EXCEPT !.status = "voided"]
                    [] OTHER -> payment
    /\ IF due[h] = NoUnits THEN End(h) ELSE CallInventory(h, "release", due[h])
    /\ UNCHANGED <<line, outside, bounds>>

CommitCancelLine(h) ==
    /\ Committing(h, "cancelLine")
    /\ VersionMatches(h)
    /\ line' = [l \in Lines |->
                   LET left == Active(seen[h], l) - req[h].units[l] IN
                   [status |-> IF req[h].units[l] > 0 /\ left = 0 THEN "cancelled"
                               ELSE seen[h].line[l].status,
                    cancelled |-> seen[h].line[l].cancelled + req[h].units[l]]]
    /\ order' = [seen[h].order EXCEPT !.version = @ + 1]
    /\ CallInventory(h, "release", req[h].units)
    /\ UNCHANGED <<payment, fulfillment, outside, bounds>>

\* runWithOrderWriteRetry: the attempt that lost the race is rolled back.
Conflict(h) ==
    /\ ~VersionMatches(h)
    /\ \/ \E kind \in {"capture", "ship", "cancelLine"} : Committing(h, kind)
       \/ Committing(h, "deliver") /\ DeliversOrder(h)
       \/ RowsFree(h) /\ RowsAllowCancel(h)

Retry(h) ==
    /\ Conflict(h)
    /\ attempt[h] < MaxAttempts
    /\ pc' = [pc EXCEPT ![h] = "ready"]
    /\ attempt' = [attempt EXCEPT ![h] = @ + 1]
    /\ seen' = [seen EXCEPT ![h] = Placed]
    /\ UNCHANGED <<req, due, paid, rows, outside, bounds>>

Exhaust(h) ==
    /\ Conflict(h)
    /\ attempt[h] >= MaxAttempts
    /\ End(h)
    /\ UNCHANGED <<rows, outside, bounds>>

-----------------------------------------------------------------------------
(* After the commit, and what may go wrong on the way.                     *)

Add(units, more) == [l \in Lines |-> units[l] + more[l]]

\* releaseAllocationWithRetry under one fresh operationKey: applied once.
Reason(h) == IF req[h].kind = "cancelOrder" THEN "order-cancelled" ELSE "line-cancelled"

ReleaseAllocation(h) ==
    /\ pc[h] = "release"
    /\ released' = [released EXCEPT ![Reason(h)] = Add(@, due[h])]
    /\ End(h)
    /\ UNCHANGED <<rows, charges, sold, bounds>>

\* commitSaleWithRetry: inventory applies a fulfillment once.
CommitSale(h) ==
    /\ pc[h] = "sale"
    /\ sold' = Add(sold, due[h])
    /\ End(h)
    /\ UNCHANGED <<rows, charges, released, bounds>>

\* The request dies: its process stops, a database call fails, the gateway
\* throws (the charge may have gone through all the same), or the call to the
\* inventory service fails on every attempt and is only logged for replay.
Die(h) ==
    /\ pc[h] # "idle"
    /\ faults < MaxFaults
    /\ faults' = faults + 1
    /\ charges' \in IF pc[h] = "charge" THEN {charges, charges + 1} ELSE {charges}
    /\ End(h)
    /\ UNCHANGED <<rows, released, sold, sent>>

-----------------------------------------------------------------------------
\* What a handler does with the request it has.
Step(h) ==
    \/ Claim(h) \/ RefuseClaim(h)
    \/ ChargeApproved(h) \/ ChargeDeclined(h) \/ ReleaseClaim(h)
    \/ PlanFulfillment(h) \/ InsertFulfillment(h)
    \/ Open(h) \/ Refuse(h)
    \/ CommitCapture(h) \/ CommitShip(h) \/ CommitDeliver(h)
    \/ RefuseCancelOrder(h) \/ CommitCancelOrder(h) \/ CommitCancelLine(h)
    \/ Retry(h) \/ Exhaust(h)
    \/ ReleaseAllocation(h) \/ CommitSale(h)

Receive(h, p) ==
    \/ BeginCapture(h, p) \/ BeginShip(h, p) \/ BeginDeliver(h, p)
    \/ BeginCreate(h, p) \/ BeginCancelOrder(h, p) \/ BeginCancelLine(h, p)

Next ==
    \E h \in Handlers :
        \/ \E p \in Payloads : Receive(h, p)
        \/ Step(h)
        \/ Die(h)

Spec == Init /\ [][Next]_vars

-----------------------------------------------------------------------------

\* The buyer is charged at most once, only under a claim, and a payment that
\* says captured was charged.  Captures and ships race for the claim, gateway
\* answers get lost, recording attempts conflict and give up.
MoneyMatchesPayment ==
    /\ charges <= 1
    /\ payment.status = "captured" => charges = 1
    /\ charges = 1 => payment.status \in {"capturing", "captured"}

\* The payment row and the payment axis of the order, which two use cases
\* write, agree; and no parcel leaves before the money is recorded.
ShippedIsPaid ==
    /\ order.paymentStatus = "captured" <=> payment.status = "captured"
    /\ WithStatus(Now, CountsTowardShipped) # {} => payment.status = "captured"

\* The fulfillment axis and the line statuses, computed from a snapshot, are
\* true of the rows as they are: nothing is called shipped that is not, and
\* the first parcel shows.
RollUpIsTrue ==
    /\ order.fulfillmentStatus = "unfulfilled" <=> WithStatus(Now, CountsTowardShipped) = {}
    /\ order.fulfillmentStatus = "shipped" =>
          \A l \in Lines : Shipped(Now, l) >= Active(Now, l)
    /\ \A l \in Lines : line[l].status = "shipped" => Shipped(Now, l) >= Active(Now, l)

\* An order is never cancelled once a parcel of it has left
\* (CancelOrderUseCase.hasShippedFulfillment): also not a parcel planned and
\* shipped while the cancellation runs.
CancelSparesShipped ==
    [][order.status # "cancelled" /\ order'.status = "cancelled" =>
          ~HasShippedFulfillment(Now, Fulfillments)]_vars

\* The money of a cancelled order is settled: the authorization is void, or
\* what was captured is marked for refund.  No capture slips in between.
CancelledMoneyIsSettled ==
    order.status = "cancelled" =>
        \/ payment.status = "voided"
        \/ payment.status = "captured" /\ payment.flagged

\* What the calls to the inventory service under way ask for.
DueOf(l) == [h \in Handlers |-> due[h][l]]
Releasing(kind) == {h \in Handlers : pc[h] = "release" /\ req[h].kind = kind}
Selling == {h \in Handlers : pc[h] = "sale"}

\* Units given back because lines were cancelled were cancelled on those
\* lines, each once; a cancelled order gives back no unit twice by itself.
EachCancellationReleasesOnce ==
    \A l \in Lines :
        /\ released["line-cancelled"][l] + Together(DueOf(l), Releasing("cancelLine"))
              <= line[l].cancelled
        /\ released["order-cancelled"][l] + Together(DueOf(l), Releasing("cancelOrder"))
              <= Quantity[l]

\* Commit Sale is asked for exactly the units that were shipped, once per
\* fulfillment, also when two requests ship the same one.
SoldWasShipped ==
    \A l \in Lines : sold[l] + Together(DueOf(l), Selling) <= Shipped(Now, l)

\* The money of an order: charged once and only for what is shipped or settled.
MoneyIsRight == MoneyMatchesPayment /\ ShippedIsPaid /\ CancelledMoneyIsSettled

\* The inventory is asked to move each unit of the order once, whichever of its
\* requests asks.
StockMovesOnce == EachCancellationReleasesOnce /\ SoldWasShipped

=============================================================================
