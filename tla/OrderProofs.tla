---------------------------- MODULE OrderProofs ----------------------------
(***************************************************************************)
(* The money of an order, and the units of its lines, for any number of    *)
(* handlers, lines, fulfillments and requests.                             *)
(*                                                                         *)
(* None of the properties is inductive.  IInv adds what a handler in the   *)
(* middle of a request may rely on: the claim on the payment has one       *)
(* holder, and a snapshot whose version is still the order's shows the     *)
(* order, and the parcels that have left, as they are.  UInv, in the       *)
(* second half, adds what it knows of the units.                           *)
(***************************************************************************)
EXTENDS OrderLifecycle, FiniteSetTheorems, TLAPS

\* The types the argument needs.  That a line loses no more units than it has
\* is not among them: it is part of the argument on the units (UnitsTyped).
RowsTyped ==
    /\ order \in OrderRow
    /\ line \in [Lines -> LineRow]
    /\ payment \in PaymentRow
    /\ fulfillment \in [Fulfillments -> FulfillmentRow]
    /\ charges \in Nat

HandlersTyped ==
    /\ pc \in [Handlers -> {"idle", "claim", "charge", "declined", "ready", "open",
                            "plan", "insert", "release", "sale"}]
    /\ req \in [Handlers -> Payloads \cup {NoRequest}]
    /\ seen \in [Handlers -> Snapshot]
    /\ paid \in [Handlers -> BOOLEAN]

TypeInv == RowsTyped /\ HandlersTyped

\* The handler has taken the claim and not given it back.
HoldsClaim(h) == pc[h] \in {"charge", "declined"} \/ paid[h]

\* What the claim means for the handler's request.
ClaimInv(h) ==
    /\ pc[h] \in {"claim", "charge", "declined"} => req[h].kind \in {"capture", "ship"}
    /\ HoldsClaim(h) => payment.status = "capturing"
    /\ pc[h] \in {"charge", "declined"} => ~paid[h] /\ charges = 0
    /\ paid[h] => /\ charges = 1
                  /\ pc[h] \in {"ready", "open"}
                  /\ req[h].kind \in {"capture", "ship"}
    /\ pc[h] \in {"ready", "open"} /\ req[h].kind = "capture" => paid[h]
    /\ pc[h] \in {"ready", "open"} /\ req[h].kind = "ship" /\ ~paid[h] =>
           payment.status = "captured"

\* What an open transaction may rely on.
OpenInv(h) ==
    pc[h] = "open" =>
        /\ paid[h] => seen[h].payment.status = "capturing"
        /\ req[h].kind = "deliver" =>
               fulfillment[req[h].fulfillment].status \in CountsTowardShipped
        /\ seen[h].order.version <= order.version
        /\ VersionMatches(h) =>
               /\ seen[h].order = order
               /\ \A f \in Fulfillments :
                     fulfillment[f].status \in CountsTowardShipped =>
                         seen[h].fulfillment[f].status \in CountsTowardShipped

HandlerInv(h) == ClaimInv(h) /\ OpenInv(h)

OneClaim == \A h, k \in Handlers : HoldsClaim(h) /\ HoldsClaim(k) => h = k

RowInv == MoneyMatchesPayment /\ ShippedIsPaid /\ CancelledMoneyIsSettled

IInv ==
    /\ TypeInv
    /\ RowInv
    /\ OneClaim
    /\ \A h \in Handlers : HandlerInv(h)

-----------------------------------------------------------------------------
(* Steps. *)

\* Money that is captured stays, a parcel that has left stays away, and a
\* step that changes the order or sends a parcel moves the version.
RowStep ==
    /\ payment.status = "captured" => payment'.status = "captured"
    /\ \A f \in Fulfillments :
          fulfillment[f].status \in CountsTowardShipped =>
              fulfillment'[f].status \in CountsTowardShipped
    /\ \/ /\ order' = order
          /\ \A f \in Fulfillments :
                fulfillment'[f].status \in CountsTowardShipped =>
                    fulfillment[f].status \in CountsTowardShipped
       \/ order'.version = order.version + 1

\* The other handlers do not move, and the one with the claim keeps it.
OthersKeep(h) ==
    \A k \in Handlers \ {h} :
        /\ pc'[k] = pc[k] /\ req'[k] = req[k] /\ seen'[k] = seen[k]
        /\ paid'[k] = paid[k]
        /\ HoldsClaim(k) => payment'.status = "capturing" /\ charges' = charges

\* Such a step of h keeps the invariant if h keeps its part of it.
LEMMA StepKeepsIInv ==
    ASSUME IInv, NEW h \in Handlers, TypeInv', RowInv', RowStep, OthersKeep(h),
           HandlerInv(h)',
           HoldsClaim(h)' => \A k \in Handlers \ {h} : ~HoldsClaim(k)
    PROVE  IInv'
<1>1. ASSUME NEW k \in Handlers \ {h}
      PROVE  HandlerInv(k)' /\ (HoldsClaim(k)' <=> HoldsClaim(k))
      <2>1. /\ pc'[k] = pc[k] /\ req'[k] = req[k] /\ seen'[k] = seen[k]
            /\ paid'[k] = paid[k]
            /\ HoldsClaim(k) => payment'.status = "capturing" /\ charges' = charges
            BY <1>1 DEF OthersKeep
      <2>2. ClaimInv(k) /\ OpenInv(k)
            BY <1>1 DEF IInv, HandlerInv
      <2>3. HoldsClaim(k)' <=> HoldsClaim(k)
            BY <2>1 DEF HoldsClaim
      <2>4. ClaimInv(k)'
            BY <2>1, <2>2 DEF ClaimInv, HoldsClaim, RowStep
      <2>5. OpenInv(k)'
            <3> SUFFICES ASSUME pc'[k] = "open" PROVE OpenInv(k)'
                BY DEF OpenInv
            <3>1. /\ order \in OrderRow /\ order' \in OrderRow /\ seen[k] \in Snapshot
                  /\ req[k] \in Payloads \cup {NoRequest}
                  BY <1>1 DEF IInv, TypeInv, RowsTyped, HandlersTyped
            <3>2. req[k].kind = "deliver" => req[k].fulfillment \in Fulfillments
                  BY <3>1, OrderPayloads DEF NoRequest
            <3>3. order.version \in Nat /\ seen[k].order.version \in Nat
                  BY <3>1 DEF OrderRow, Snapshot
            <3>4. CASE order' = order
                  BY <2>1, <2>2, <3>2, <3>3, <3>4 DEF OpenInv, RowStep, VersionMatches
            <3>5. CASE order'.version = order.version + 1
                  BY <2>1, <2>2, <3>2, <3>3, <3>5 DEF OpenInv, RowStep, VersionMatches
            <3> QED BY <3>4, <3>5 DEF RowStep
      <2> QED BY <2>3, <2>4, <2>5 DEF HandlerInv
<1>2. OneClaim'
      BY <1>1 DEF IInv, OneClaim
<1>3. \A k \in Handlers : HandlerInv(k)'
      BY <1>1
<1> QED BY <1>2, <1>3 DEF IInv

-----------------------------------------------------------------------------
(* What a handler does on its own side. *)

\* The rows an idle handler remembers have their types.
LEMMA PlacedIsSound == Placed \in Snapshot
<1>1. Placed.order \in OrderRow /\ Placed.payment \in PaymentRow
      BY DEF Placed, OrderRow, PaymentRow
<1>2. Placed.line \in [Lines -> LineRow]
      BY DEF Placed, LineRow
<1>3. Placed.fulfillment \in [Fulfillments -> FulfillmentRow]
      BY DEF Placed, FulfillmentRow, NoUnits, Units
<1> QED BY <1>1, <1>2, <1>3 DEF Placed, Snapshot

\* The others do not notice: their columns stay.
Alone(h) ==
    \A k \in Handlers \ {h} :
        /\ pc'[k] = pc[k] /\ req'[k] = req[k] /\ seen'[k] = seen[k]
        /\ paid'[k] = paid[k]

\* A handler whose transaction is over relies on nothing.
LEMMA LeaveIsSound ==
    ASSUME IInv, NEW h \in Handlers,
           \/ End(h)
           \/ \E label \in {"release", "sale"} : \E units : CallInventory(h, label, units)
    PROVE  /\ HandlersTyped' /\ Alone(h)
           /\ HandlerInv(h)' /\ ~HoldsClaim(h)'
<1>1. /\ pc' = [pc EXCEPT ![h] = pc'[h]]
      /\ pc'[h] \in {"idle", "release", "sale"}
      /\ \/ req' = [req EXCEPT ![h] = NoRequest]
         \/ req' = req
      /\ seen' = [seen EXCEPT ![h] = Placed]
      /\ paid' = [paid EXCEPT ![h] = FALSE]
      BY DEF End, CallInventory, IInv, TypeInv, HandlersTyped
<1>2. HandlersTyped' /\ Alone(h)
      BY <1>1, PlacedIsSound DEF IInv, TypeInv, HandlersTyped, Alone
<1>3. pc'[h] \in {"idle", "release", "sale"} /\ ~paid'[h]
      BY <1>1 DEF IInv, TypeInv, HandlersTyped
<1> QED BY <1>2, <1>3 DEF HandlerInv, ClaimInv, OpenInv, HoldsClaim

\* A request that ends without a write.
LEMMA AnswerKeepsIInv ==
    ASSUME IInv, NEW h \in Handlers, End(h), UNCHANGED rows, UNCHANGED charges
    PROVE  IInv'
<1>1. /\ HandlersTyped' /\ Alone(h)
      /\ HandlerInv(h)' /\ ~HoldsClaim(h)'
      BY LeaveIsSound
<1>2. /\ order' = order /\ line' = line /\ payment' = payment
      /\ fulfillment' = fulfillment /\ charges' = charges
      BY DEF rows
<1>3. TypeInv' /\ RowInv'
      BY <1>1, <1>2 DEF IInv, TypeInv, RowsTyped, RowInv, MoneyMatchesPayment,
                        ShippedIsPaid, CancelledMoneyIsSettled, WithStatus, Now
<1>4. RowStep
      BY <1>2 DEF RowStep
<1>5. OthersKeep(h)
      BY <1>1, <1>2 DEF OthersKeep, Alone, IInv, HandlerInv, ClaimInv
<1> QED BY <1>1, <1>3, <1>4, <1>5, StepKeepsIInv

\* Rows and charges stay while a handler moves on.
LEMMA MoveKeepsIInv ==
    ASSUME IInv, NEW h \in Handlers, UNCHANGED rows, UNCHANGED charges,
           HandlersTyped', Alone(h), HandlerInv(h)',
           HoldsClaim(h)' => HoldsClaim(h)
    PROVE  IInv'
<1>1. /\ order' = order /\ line' = line /\ payment' = payment
      /\ fulfillment' = fulfillment /\ charges' = charges
      BY DEF rows
<1>2. TypeInv' /\ RowInv'
      BY <1>1 DEF IInv, TypeInv, RowsTyped, RowInv, MoneyMatchesPayment,
                  ShippedIsPaid, CancelledMoneyIsSettled, WithStatus, Now
<1>3. RowStep
      BY <1>1 DEF RowStep
<1>4. OthersKeep(h)
      BY <1>1 DEF OthersKeep, Alone, IInv, HandlerInv, ClaimInv
<1>5. HoldsClaim(h)' => \A k \in Handlers \ {h} : ~HoldsClaim(k)
      BY DEF IInv, OneClaim
<1> QED BY <1>2, <1>3, <1>4, <1>5, StepKeepsIInv

\* The arrival of a request.
LEMMA ReceiveKeepsIInv ==
    ASSUME IInv, NEW h \in Handlers, NEW p \in Payloads, Receive(h, p)
    PROVE  IInv'
<1>1. PICK label \in {"claim", "ready", "plan"}, read \in {Placed, Now} :
         /\ \E units : Begin(h, p, label, read, units)
         /\ label = "claim" => p.kind \in {"capture", "ship"}
         /\ label = "ready" /\ p.kind = "ship" => payment.status = "captured"
         /\ label = "ready" => p.kind # "capture"
      <2>1. CASE BeginCapture(h, p)
            BY <2>1 DEF BeginCapture
      <2>2. CASE BeginShip(h, p)
            <3>1. CASE AlreadyCaptured
                  BY <2>2, <3>1 DEF BeginShip, AlreadyCaptured
            <3>2. CASE ~AlreadyCaptured
                  BY <2>2, <3>2 DEF BeginShip
            <3> QED BY <3>1, <3>2
      <2>3. CASE BeginDeliver(h, p)
            BY <2>3 DEF BeginDeliver
      <2>4. CASE BeginCreate(h, p)
            BY <2>4 DEF BeginCreate
      <2>5. CASE BeginCancelOrder(h, p)
            <3> DEFINE active == [l \in Lines |-> Active(Now, l)]
            <3>1. Begin(h, p, "ready", Placed, active) /\ p.kind = "cancelOrder"
                  BY <2>5 DEF BeginCancelOrder
            <3> HIDE DEF active
            <3> QED BY <3>1
      <2>6. CASE BeginCancelLine(h, p)
            BY <2>6 DEF BeginCancelLine
      <2> QED BY <2>1, <2>2, <2>3, <2>4, <2>5, <2>6 DEF Receive
<1>2. /\ pc' = [pc EXCEPT ![h] = label]
      /\ req' = [req EXCEPT ![h] = p]
      /\ seen' = [seen EXCEPT ![h] = read]
      /\ paid' = paid /\ UNCHANGED rows /\ UNCHANGED charges
      /\ pc[h] = "idle"
      BY <1>1 DEF Begin, outside
<1>3. read \in Snapshot
      BY PlacedIsSound DEF Now, Snapshot, IInv, TypeInv, RowsTyped
<1>4. HandlersTyped' /\ Alone(h)
      BY <1>2, <1>3 DEF IInv, TypeInv, HandlersTyped, Alone
<1>5. ~HoldsClaim(h)' /\ ~paid'[h] /\ pc'[h] = label /\ req'[h] = p
      BY <1>2 DEF IInv, TypeInv, HandlersTyped, HandlerInv, ClaimInv, HoldsClaim
<1>6. HandlerInv(h)'
      BY <1>1, <1>2, <1>5 DEF HandlerInv, ClaimInv, OpenInv, rows
<1> QED BY <1>2, <1>4, <1>5, <1>6, MoveKeepsIInv

-----------------------------------------------------------------------------
(* The claim. *)

\* Only an authorized payment is claimed, so nobody holds the claim yet and
\* nothing was charged.
LEMMA ClaimKeepsIInv ==
    ASSUME IInv, NEW h \in Handlers, Claim(h)
    PROVE  IInv'
<1>1. /\ pc[h] = "claim" /\ payment.status = "authorized"
      /\ pc' = [pc EXCEPT ![h] = "charge"]
      /\ payment' = [payment EXCEPT !.status = "capturing"]
      /\ req' = req /\ seen' = seen /\ paid' = paid
      /\ order' = order /\ line' = line /\ fulfillment' = fulfillment
      /\ charges' = charges
      BY DEF Claim, CanClaim, Goto, outside
<1>2. charges = 0 /\ order.paymentStatus # "captured" /\ order.status # "cancelled"
      /\ WithStatus(Now, CountsTowardShipped) = {}
      BY <1>1 DEF IInv, TypeInv, RowsTyped, RowInv, MoneyMatchesPayment, ShippedIsPaid,
                  CancelledMoneyIsSettled
<1>3. \A k \in Handlers : ~HoldsClaim(k)
      BY <1>1 DEF IInv, HandlerInv, ClaimInv
<1>4. payment'.status = "capturing" /\ payment' \in PaymentRow
      BY <1>1 DEF IInv, TypeInv, RowsTyped, PaymentRow
<1>5. HandlersTyped' /\ Alone(h)
      BY <1>1 DEF IInv, TypeInv, HandlersTyped, Alone
<1>6. TypeInv'
      BY <1>1, <1>4, <1>5 DEF IInv, TypeInv, RowsTyped
<1>7. RowInv'
      BY <1>1, <1>2, <1>4 DEF RowInv, MoneyMatchesPayment, ShippedIsPaid,
                              CancelledMoneyIsSettled, WithStatus, Now
<1>8. RowStep
      BY <1>1 DEF RowStep
<1>9. OthersKeep(h)
      BY <1>3, <1>5 DEF OthersKeep, Alone
<1>10. HandlerInv(h)'
      <2>1. ~paid'[h] /\ pc'[h] = "charge" /\ req'[h].kind \in {"capture", "ship"}
            BY <1>1, <1>3 DEF IInv, TypeInv, HandlersTyped, HandlerInv, ClaimInv, HoldsClaim
      <2> QED BY <1>1, <1>2, <1>4, <2>1 DEF HandlerInv, ClaimInv, OpenInv, HoldsClaim
<1> QED BY <1>3, <1>6, <1>7, <1>8, <1>9, <1>10, StepKeepsIInv

\* The holder of the claim charges: nothing was charged before.
LEMMA ChargeKeepsIInv ==
    ASSUME IInv, NEW h \in Handlers, ChargeApproved(h)
    PROVE  IInv'
<1>1. /\ pc[h] = "charge" /\ charges' = charges + 1
      /\ pc' = [pc EXCEPT ![h] = "ready"]
      /\ paid' = [paid EXCEPT ![h] = TRUE]
      /\ req' = req /\ seen' = seen
      /\ order' = order /\ line' = line /\ payment' = payment
      /\ fulfillment' = fulfillment
      BY DEF ChargeApproved, rows
<1>2. HoldsClaim(h) /\ payment.status = "capturing" /\ charges = 0
      /\ req[h].kind \in {"capture", "ship"}
      BY <1>1 DEF IInv, HandlerInv, ClaimInv, HoldsClaim
<1>3. \A k \in Handlers \ {h} : ~HoldsClaim(k)
      BY <1>2 DEF IInv, OneClaim
<1>4. HandlersTyped' /\ Alone(h)
      BY <1>1 DEF IInv, TypeInv, HandlersTyped, Alone
<1>5. TypeInv'
      BY <1>1, <1>2, <1>4 DEF IInv, TypeInv, RowsTyped
<1>6. RowInv'
      BY <1>1, <1>2 DEF IInv, RowInv, MoneyMatchesPayment, ShippedIsPaid,
                        CancelledMoneyIsSettled, WithStatus, Now
<1>7. RowStep
      BY <1>1 DEF RowStep
<1>8. OthersKeep(h)
      BY <1>3, <1>4 DEF OthersKeep, Alone
<1>9. HandlerInv(h)'
      <2>1. pc'[h] = "ready" /\ paid'[h] /\ req'[h] = req[h]
            BY <1>1 DEF IInv, TypeInv, HandlersTyped
      <2> QED BY <1>1, <1>2, <2>1 DEF HandlerInv, ClaimInv, OpenInv
<1> QED BY <1>3, <1>5, <1>6, <1>7, <1>8, <1>9, StepKeepsIInv

\* A declined claim goes back to authorized, uncharged.
LEMMA ReleaseClaimKeepsIInv ==
    ASSUME IInv, NEW h \in Handlers, ReleaseClaim(h)
    PROVE  IInv'
<1>1. /\ pc[h] = "declined" /\ payment.status = "capturing" /\ End(h)
      /\ payment' = [payment EXCEPT !.status = "authorized"]
      /\ order' = order /\ line' = line /\ fulfillment' = fulfillment
      /\ charges' = charges
      BY DEF ReleaseClaim, outside
<1>2. HoldsClaim(h) /\ charges = 0
      BY <1>1 DEF IInv, HandlerInv, ClaimInv, HoldsClaim
<1>3. \A k \in Handlers \ {h} : ~HoldsClaim(k)
      BY <1>2 DEF IInv, OneClaim
<1>4. /\ HandlersTyped' /\ Alone(h)
      /\ HandlerInv(h)' /\ ~HoldsClaim(h)'
      BY <1>1, LeaveIsSound
<1>5. payment' \in PaymentRow /\ payment'.status = "authorized"
      BY <1>1 DEF IInv, TypeInv, RowsTyped, PaymentRow
<1>6. TypeInv'
      BY <1>1, <1>4, <1>5 DEF IInv, TypeInv, RowsTyped
<1>7. RowInv'
      BY <1>1, <1>2, <1>5 DEF IInv, RowInv, MoneyMatchesPayment, ShippedIsPaid,
                              CancelledMoneyIsSettled, WithStatus, Now
<1>8. RowStep
      BY <1>1 DEF RowStep
<1>9. OthersKeep(h)
      BY <1>3, <1>4 DEF OthersKeep, Alone
<1> QED BY <1>4, <1>6, <1>7, <1>8, <1>9, StepKeepsIInv

\* A request that dies: at worst the gateway has charged under the claim,
\* which then stays taken.
LEMMA DieKeepsIInv ==
    ASSUME IInv, NEW h \in Handlers, Die(h)
    PROVE  IInv'
<1>1. /\ End(h) /\ UNCHANGED rows
      /\ \/ charges' = charges
         \/ pc[h] = "charge" /\ charges' = charges + 1
      BY DEF Die
<1>2. CASE charges' = charges
      BY <1>1, <1>2, AnswerKeepsIInv
<1>3. CASE pc[h] = "charge" /\ charges' = charges + 1
      <2>1. HoldsClaim(h) /\ payment.status = "capturing" /\ charges = 0
            BY <1>3 DEF IInv, HandlerInv, ClaimInv, HoldsClaim
      <2>2. \A k \in Handlers \ {h} : ~HoldsClaim(k)
            BY <2>1 DEF IInv, OneClaim
      <2>3. /\ HandlersTyped' /\ Alone(h)
            /\ HandlerInv(h)' /\ ~HoldsClaim(h)'
            BY <1>1, LeaveIsSound
      <2>4. /\ order' = order /\ line' = line /\ payment' = payment
            /\ fulfillment' = fulfillment
            BY <1>1 DEF rows
      <2>5. TypeInv' /\ RowInv'
            BY <1>3, <2>1, <2>3, <2>4
               DEF IInv, TypeInv, RowsTyped, RowInv, MoneyMatchesPayment, ShippedIsPaid,
                   CancelledMoneyIsSettled, WithStatus, Now
      <2>6. RowStep /\ OthersKeep(h)
            BY <2>2, <2>3, <2>4 DEF RowStep, OthersKeep, Alone
      <2> QED BY <2>3, <2>5, <2>6, StepKeepsIInv
<1> QED BY <1>1, <1>2, <1>3

\* Steps between two points of a use case that touch no row.
LEMMA GotoKeepsIInv ==
    ASSUME IInv, NEW h \in Handlers, UNCHANGED rows, UNCHANGED charges,
           \/ pc[h] = "charge" /\ Goto(h, "declined")
           \/ pc[h] = "plan" /\ Goto(h, "insert")
    PROVE  IInv'
<1>1. /\ pc' = [pc EXCEPT ![h] = pc'[h]]
      /\ \/ pc[h] = "charge" /\ pc'[h] = "declined"
         \/ pc[h] = "plan" /\ pc'[h] = "insert"
      /\ req' = req /\ seen' = seen /\ paid' = paid
      BY DEF Goto, IInv, TypeInv, HandlersTyped
<1>2. HandlersTyped' /\ Alone(h)
      BY <1>1 DEF IInv, TypeInv, HandlersTyped, Alone
<1>3. HandlerInv(h)' /\ (HoldsClaim(h)' => HoldsClaim(h))
      BY <1>1 DEF IInv, HandlerInv, ClaimInv, OpenInv, HoldsClaim, rows
<1> QED BY <1>2, <1>3, MoveKeepsIInv

\* Opening a transaction: the snapshot is the truth of this instant.
LEMMA OpenKeepsIInv ==
    ASSUME IInv, NEW h \in Handlers, Open(h)
    PROVE  IInv'
<1>1. /\ pc[h] = "ready" /\ Allowed(h, Now)
      /\ pc' = [pc EXCEPT ![h] = "open"]
      /\ seen' = [seen EXCEPT ![h] = Now]
      /\ req' = req /\ paid' = paid /\ UNCHANGED rows /\ UNCHANGED charges
      BY DEF Open, CanOpen, outside
<1>2. Now \in Snapshot
      BY DEF Now, Snapshot, IInv, TypeInv, RowsTyped
<1>3. HandlersTyped' /\ Alone(h)
      BY <1>1, <1>2 DEF IInv, TypeInv, HandlersTyped, Alone
<1>4. pc'[h] = "open" /\ seen'[h] = Now
      BY <1>1 DEF IInv, TypeInv, HandlersTyped
<1>5. req[h].kind = "deliver" =>
          fulfillment[req[h].fulfillment].status \in CountsTowardShipped
      BY <1>1 DEF Allowed, CanDeliver, Now, CountsTowardShipped
<1>6. HoldsClaim(h)' <=> HoldsClaim(h)
      BY <1>1, <1>4 DEF HoldsClaim
<1>7. ClaimInv(h)'
      BY <1>1, <1>4, <1>6 DEF IInv, HandlerInv, ClaimInv, HoldsClaim, rows
<1>8. OpenInv(h)'
      <2>1. paid[h] => Now.payment.status = "capturing"
            BY DEF IInv, HandlerInv, ClaimInv, HoldsClaim, Now
      <2>2. order.version <= order.version
            BY DEF IInv, TypeInv, RowsTyped, OrderRow
      <2> QED BY <1>1, <1>4, <1>5, <2>1, <2>2 DEF OpenInv, Now, rows
<1> QED BY <1>1, <1>3, <1>6, <1>7, <1>8, MoveKeepsIInv DEF HandlerInv

\* A lost race: the snapshot is dropped, the claim is kept.
LEMMA RetryKeepsIInv ==
    ASSUME IInv, NEW h \in Handlers, Retry(h)
    PROVE  IInv'
<1>1. /\ pc[h] = "open"
      /\ pc' = [pc EXCEPT ![h] = "ready"]
      /\ seen' = [seen EXCEPT ![h] = Placed]
      /\ req' = req /\ paid' = paid /\ UNCHANGED rows /\ UNCHANGED charges
      BY DEF Retry, Conflict, Committing, RowsFree, outside
<1>2. HandlersTyped' /\ Alone(h)
      BY <1>1, PlacedIsSound DEF IInv, TypeInv, HandlersTyped, Alone
<1>3. pc'[h] = "ready"
      BY <1>1 DEF IInv, TypeInv, HandlersTyped
<1>4. HandlerInv(h)' /\ (HoldsClaim(h)' => HoldsClaim(h))
      BY <1>1, <1>3 DEF IInv, HandlerInv, ClaimInv, OpenInv, HoldsClaim, rows
<1> QED BY <1>1, <1>2, <1>4, MoveKeepsIInv

-----------------------------------------------------------------------------
(* Writes to the rows. *)

\* A new parcel is pending: nobody relied on its slot.
LEMMA InsertKeepsIInv ==
    ASSUME IInv, NEW h \in Handlers, InsertFulfillment(h)
    PROVE  IInv'
<1>1. PICK f \in Fulfillments :
         /\ fulfillment[f].status = "none"
         /\ fulfillment' = [fulfillment EXCEPT ![f] =
                               [status |-> "pending", quantity |-> req[h].units]]
      BY DEF InsertFulfillment
<1>2. /\ order' = order /\ line' = line /\ payment' = payment /\ charges' = charges
      /\ End(h)
      BY DEF InsertFulfillment, outside
<1>3. /\ HandlersTyped' /\ Alone(h)
      /\ HandlerInv(h)' /\ ~HoldsClaim(h)'
      BY <1>2, LeaveIsSound
<1>4. req[h].units \in Units
      BY OrderPayloads DEF IInv, TypeInv, HandlersTyped, Request, NoRequest, NoUnits, Units
<1>5. fulfillment' \in [Fulfillments -> FulfillmentRow]
      BY <1>1, <1>4 DEF IInv, TypeInv, RowsTyped, FulfillmentRow
<1>6. TypeInv'
      BY <1>2, <1>3, <1>5 DEF IInv, TypeInv, RowsTyped
<1>7. \A g \in Fulfillments : fulfillment'[g].status \in CountsTowardShipped
                                <=> fulfillment[g].status \in CountsTowardShipped
      BY <1>1 DEF CountsTowardShipped, IInv, TypeInv, RowsTyped
<1>8. RowInv'
      BY <1>2, <1>7 DEF IInv, RowInv, MoneyMatchesPayment, ShippedIsPaid,
                        CancelledMoneyIsSettled, WithStatus, Now
<1>9. RowStep
      BY <1>2, <1>7 DEF RowStep
<1>10. OthersKeep(h)
      BY <1>2, <1>3 DEF OthersKeep, Alone, IInv, HandlerInv, ClaimInv
<1> QED BY <1>3, <1>6, <1>8, <1>9, <1>10, StepKeepsIInv

\* What a commit that writes the order starts from.
LEMMA CommitFacts ==
    ASSUME IInv, NEW h \in Handlers, pc[h] = "open", VersionMatches(h)
    PROVE  /\ seen[h].order = order
           /\ \A f \in Fulfillments :
                 fulfillment[f].status \in CountsTowardShipped =>
                     seen[h].fulfillment[f].status \in CountsTowardShipped
BY DEF IInv, HandlerInv, OpenInv

\* The capture is recorded by the holder of the claim.
LEMMA CommitCaptureKeepsIInv ==
    ASSUME IInv, NEW h \in Handlers, CommitCapture(h)
    PROVE  IInv'
<1>1. /\ pc[h] = "open" /\ req[h].kind = "capture" /\ VersionMatches(h)
      /\ payment' = [payment EXCEPT !.status = "captured"]
      /\ order' = [seen[h].order EXCEPT !.paymentStatus = "captured", !.version = @ + 1]
      /\ line' = line /\ fulfillment' = fulfillment /\ charges' = charges
      /\ End(h)
      BY DEF CommitCapture, Committing, outside
<1>2. HoldsClaim(h) /\ payment.status = "capturing" /\ charges = 1
      BY <1>1 DEF IInv, HandlerInv, ClaimInv, HoldsClaim
<1>3. \A k \in Handlers \ {h} : ~HoldsClaim(k)
      BY <1>2 DEF IInv, OneClaim
<1>4. /\ HandlersTyped' /\ Alone(h)
      /\ HandlerInv(h)' /\ ~HoldsClaim(h)'
      BY <1>1, LeaveIsSound
<1>5. order' = [order EXCEPT !.paymentStatus = "captured", !.version = @ + 1]
      BY <1>1, CommitFacts
<1>6. /\ order' \in OrderRow /\ order'.paymentStatus = "captured"
      /\ order'.status = order.status /\ order'.version = order.version + 1
      <2> DEFINE paidOrder == [order EXCEPT !.paymentStatus = "captured"]
      <2>1. paidOrder \in OrderRow /\ paidOrder.paymentStatus = "captured"
            /\ paidOrder.status = order.status /\ paidOrder.version = order.version
            BY DEF IInv, TypeInv, RowsTyped, OrderRow
      <2>2. order' = [paidOrder EXCEPT !.version = @ + 1]
            BY <1>5 DEF IInv, TypeInv, RowsTyped, OrderRow
      <2> HIDE DEF paidOrder
      <2> QED BY <2>1, <2>2 DEF OrderRow
<1>7. payment' \in PaymentRow /\ payment'.status = "captured"
      BY <1>1 DEF IInv, TypeInv, RowsTyped, PaymentRow
<1>8. TypeInv'
      BY <1>1, <1>4, <1>6, <1>7 DEF IInv, TypeInv, RowsTyped
<1>9. order.status # "cancelled"
      BY <1>2 DEF IInv, RowInv, CancelledMoneyIsSettled
<1>10. RowInv'
      BY <1>1, <1>2, <1>6, <1>7, <1>9
         DEF RowInv, MoneyMatchesPayment, ShippedIsPaid, CancelledMoneyIsSettled
<1>11. RowStep
      BY <1>1, <1>6, <1>7 DEF RowStep
<1>12. OthersKeep(h)
      BY <1>3, <1>4 DEF OthersKeep, Alone
<1> QED BY <1>4, <1>8, <1>10, <1>11, <1>12, StepKeepsIInv

\* A ship or a deliver names a fulfillment.
LEMMA NamesFulfillment ==
    ASSUME IInv, NEW h \in Handlers, req[h].kind \in {"ship", "deliver"}
    PROVE  req[h].fulfillment \in Fulfillments
BY OrderPayloads DEF IInv, TypeInv, HandlersTyped, NoRequest

\* The lines after a ship are lines.
LEMMA AdvanceIsSound ==
    ASSUME NEW s \in Snapshot, NEW f, NEW status
    PROVE  [l \in Lines |-> AdvanceLine(With(s, f, status), l)] \in [Lines -> LineRow]
<1> DEFINE t == With(s, f, status)
<1>1. t.line = s.line
      BY DEF With, Snapshot
<1>2. \A l \in Lines : t.line[l] \in LineRow
      BY <1>1 DEF Snapshot
<1> HIDE DEF t
<1>3. ASSUME NEW l \in Lines PROVE AdvanceLine(t, l) \in LineRow
      <2>1. \/ AdvanceLine(t, l) = t.line[l]
            \/ AdvanceLine(t, l) = [t.line[l] EXCEPT !.status = "shipped"]
            \/ AdvanceLine(t, l) = [t.line[l] EXCEPT !.status = "partially-shipped"]
            BY DEF AdvanceLine
      <2> QED BY <1>2, <2>1 DEF LineRow
<1> QED BY <1>3 DEF t

\* The ship that charged completes the payment; one that did not found it
\* captured.
LEMMA CommitShipKeepsIInv ==
    ASSUME IInv, NEW h \in Handlers, CommitShip(h)
    PROVE  IInv'
<1> DEFINE f == req[h].fulfillment
           after == AfterShip(h, seen[h])
           payStatus == IF paid[h] THEN "captured" ELSE order.paymentStatus
<1>1. /\ pc[h] = "open" /\ req[h].kind = "ship" /\ VersionMatches(h)
      /\ fulfillment' = [fulfillment EXCEPT ![f].status = "shipped"]
      /\ payment' = IF paid[h] /\ seen[h].payment.status = "capturing"
                    THEN [payment EXCEPT !.status = "captured"] ELSE payment
      /\ order' = [seen[h].order EXCEPT
                      !.paymentStatus = IF paid[h] THEN "captured" ELSE @,
                      !.fulfillmentStatus = RollUp(after),
                      !.version = @ + 1]
      /\ line' = [l \in Lines |-> AdvanceLine(after, l)]
      /\ charges' = charges
      BY DEF CommitShip, Committing, outside
<1>2. /\ HandlersTyped' /\ Alone(h)
      /\ HandlerInv(h)' /\ ~HoldsClaim(h)'
      <2>1. CallInventory(h, "sale", fulfillment[f].quantity)
            BY DEF CommitShip
      <2> HIDE DEF f
      <2> QED BY <2>1, LeaveIsSound
<1>3. f \in Fulfillments
      BY <1>1, NamesFulfillment
<1>4. /\ paid[h] => /\ seen[h].payment.status = "capturing"
                    /\ payment.status = "capturing" /\ charges = 1
                    /\ \A k \in Handlers \ {h} : ~HoldsClaim(k)
      /\ ~paid[h] => payment.status = "captured"
      BY <1>1 DEF IInv, HandlerInv, ClaimInv, OpenInv, HoldsClaim, OneClaim
<1>5. /\ order' \in OrderRow /\ order'.paymentStatus = payStatus
      /\ order'.status = order.status /\ order'.version = order.version + 1
      <2> DEFINE o1 == [order EXCEPT !.paymentStatus = payStatus]
                 o2 == [o1 EXCEPT !.fulfillmentStatus = RollUp(after)]
      <2>1. /\ o1 \in OrderRow /\ o1.paymentStatus = payStatus
            /\ o1.status = order.status /\ o1.version = order.version
            BY DEF IInv, TypeInv, RowsTyped, OrderRow
      <2>2. RollUp(after) \in {"shipped", "partially-shipped"}
            BY DEF RollUp
      <2>3. order' = [o2 EXCEPT !.version = @ + 1]
            <3>1. seen[h].order = order
                  BY <1>1, CommitFacts
            <3> HIDE DEF after
            <3> QED BY <1>1, <3>1 DEF IInv, TypeInv, RowsTyped, OrderRow
      <2> HIDE DEF o1, payStatus, after
      <2>4. /\ o2 \in OrderRow /\ o2.paymentStatus = payStatus
            /\ o2.status = order.status /\ o2.version = order.version
            BY <2>1, <2>2 DEF OrderRow
      <2> HIDE DEF o2
      <2> QED BY <2>3, <2>4 DEF OrderRow
<1>6. payment' \in PaymentRow /\ payment'.status = "captured"
      BY <1>1, <1>4 DEF IInv, TypeInv, RowsTyped, PaymentRow
<1>7. fulfillment' \in [Fulfillments -> FulfillmentRow]
      BY <1>1, <1>3 DEF IInv, TypeInv, RowsTyped, FulfillmentRow
<1>8. line' \in [Lines -> LineRow]
      BY <1>1, AdvanceIsSound DEF AfterShip, IInv, TypeInv, HandlersTyped
<1>9. TypeInv'
      BY <1>1, <1>2, <1>5, <1>6, <1>7, <1>8 DEF IInv, TypeInv, RowsTyped
<1>10. charges = 1 /\ order'.paymentStatus = "captured"
      BY <1>4, <1>5 DEF IInv, RowInv, MoneyMatchesPayment, ShippedIsPaid
<1>11. order.status = "cancelled" => payment'.flagged
      BY <1>1, <1>4 DEF IInv, RowInv, CancelledMoneyIsSettled
<1>12. RowInv'
      BY <1>1, <1>5, <1>6, <1>10, <1>11
         DEF RowInv, MoneyMatchesPayment, ShippedIsPaid, CancelledMoneyIsSettled
<1>13. RowStep
      BY <1>1, <1>3, <1>5, <1>6 DEF RowStep, CountsTowardShipped, IInv, TypeInv, RowsTyped
<1>14. OthersKeep(h)
      BY <1>1, <1>2, <1>4 DEF OthersKeep, Alone, IInv, HandlerInv, ClaimInv
<1> QED BY <1>2, <1>9, <1>12, <1>13, <1>14, StepKeepsIInv

\* A delivered parcel was shipped before, under its lock or not.
LEMMA CommitDeliverKeepsIInv ==
    ASSUME IInv, NEW h \in Handlers, CommitDeliver(h)
    PROVE  IInv'
<1> DEFINE f == req[h].fulfillment
<1>1. /\ pc[h] = "open" /\ req[h].kind = "deliver"
      /\ fulfillment' = [fulfillment EXCEPT ![f].status = "delivered"]
      /\ \/ /\ VersionMatches(h)
            /\ order' = [seen[h].order EXCEPT !.status = "delivered",
                                              !.fulfillmentStatus = "delivered",
                                              !.version = @ + 1]
         \/ order' = order
      /\ line' = line /\ payment' = payment /\ charges' = charges
      /\ End(h)
      BY DEF CommitDeliver, Committing, outside
<1>2. /\ HandlersTyped' /\ Alone(h)
      /\ HandlerInv(h)' /\ ~HoldsClaim(h)'
      BY <1>1, LeaveIsSound
<1>3. f \in Fulfillments /\ fulfillment[f].status \in CountsTowardShipped
      BY <1>1, NamesFulfillment DEF IInv, HandlerInv, OpenInv
<1>4. /\ order' \in OrderRow /\ order'.paymentStatus = order.paymentStatus
      /\ order'.status = "cancelled" => order.status = "cancelled"
      /\ order' = order \/ order'.version = order.version + 1
      <2>1. CASE order' = order
            BY <2>1 DEF IInv, TypeInv, RowsTyped
      <2>2. CASE VersionMatches(h) /\ order' = [seen[h].order EXCEPT
                    !.status = "delivered", !.fulfillmentStatus = "delivered",
                    !.version = @ + 1]
            <3> DEFINE o1 == [order EXCEPT !.status = "delivered"]
                       o2 == [o1 EXCEPT !.fulfillmentStatus = "delivered"]
            <3>1. /\ o1 \in OrderRow /\ o1.paymentStatus = order.paymentStatus
                  /\ o1.status = "delivered" /\ o1.version = order.version
                  BY DEF IInv, TypeInv, RowsTyped, OrderRow
            <3>2. order' = [o2 EXCEPT !.version = @ + 1]
                  <4>1. seen[h].order = order
                        BY <1>1, <2>2, CommitFacts
                  <4> QED BY <2>2, <4>1 DEF IInv, TypeInv, RowsTyped, OrderRow
            <3> HIDE DEF o1
            <3>3. /\ o2 \in OrderRow /\ o2.paymentStatus = order.paymentStatus
                  /\ o2.status = "delivered" /\ o2.version = order.version
                  BY <3>1 DEF OrderRow
            <3> HIDE DEF o2
            <3> QED BY <3>2, <3>3 DEF OrderRow
      <2> QED BY <1>1, <2>1, <2>2
<1>5. fulfillment' \in [Fulfillments -> FulfillmentRow]
      BY <1>1, <1>3 DEF IInv, TypeInv, RowsTyped, FulfillmentRow
<1>6. TypeInv'
      BY <1>1, <1>2, <1>4, <1>5 DEF IInv, TypeInv, RowsTyped
<1>7. \A g \in Fulfillments : fulfillment'[g].status \in CountsTowardShipped
                                <=> fulfillment[g].status \in CountsTowardShipped
      BY <1>1, <1>3 DEF CountsTowardShipped, IInv, TypeInv, RowsTyped
<1>8. RowInv'
      BY <1>1, <1>4, <1>7 DEF IInv, RowInv, MoneyMatchesPayment, ShippedIsPaid,
                              CancelledMoneyIsSettled, WithStatus, Now
<1>9. RowStep
      BY <1>1, <1>4, <1>7 DEF RowStep
<1>10. OthersKeep(h)
      BY <1>1, <1>2 DEF OthersKeep, Alone, IInv, HandlerInv, ClaimInv
<1> QED BY <1>2, <1>6, <1>8, <1>9, <1>10, StepKeepsIInv

\* A cancellation finds no claim, no parcel on its way, and settles the money.
LEMMA CommitCancelOrderKeepsIInv ==
    ASSUME IInv, NEW h \in Handlers, CommitCancelOrder(h)
    PROVE  IInv' /\ ~HasShippedFulfillment(Now, Fulfillments)
<1>1. /\ pc[h] = "open" /\ VersionMatches(h) /\ RowsAllowCancel(h)
      /\ order' = [seen[h].order EXCEPT !.status = "cancelled", !.version = @ + 1]
      /\ fulfillment' = [g \in Fulfillments |->
                            IF g \in ReRead(h) /\ fulfillment[g].status = "pending"
                            THEN [fulfillment[g] EXCEPT !.status = "cancelled"]
                            ELSE fulfillment[g]]
      /\ line' = line /\ charges' = charges
      BY DEF CommitCancelOrder, RowsFree, Committing, outside
<1>2. /\ HandlersTyped' /\ Alone(h)
      /\ HandlerInv(h)' /\ ~HoldsClaim(h)'
      <2>1. End(h) \/ CallInventory(h, "release", due[h])
            BY DEF CommitCancelOrder
      <2> QED BY <2>1, LeaveIsSound
<1>3. payment.status \in {"authorized", "captured", "voided"} /\ payment \in PaymentRow
      BY <1>1 DEF RowsAllowCancel, IInv, TypeInv, RowsTyped, PaymentRow
<1>4. \A k \in Handlers : ~HoldsClaim(k)
      BY <1>3 DEF IInv, HandlerInv, ClaimInv
<1>5. /\ payment' \in PaymentRow
      /\ payment'.status = "captured" <=> payment.status = "captured"
      /\ payment'.status = "captured" => payment'.flagged
      /\ payment'.status \in {"captured", "voided"}
      <2>1. payment' = CASE payment.status = "captured" -> [payment EXCEPT !.flagged = TRUE]
                    [] payment.status = "authorized" -> [payment EXCEPT !.status = "voided"]
                    [] OTHER -> payment
            BY DEF CommitCancelOrder
      <2>2. CASE payment.status = "captured"
            <3>1. payment' = [payment EXCEPT !.flagged = TRUE]
                  BY <2>1, <2>2
            <3> QED BY <1>3, <2>2, <3>1 DEF PaymentRow
      <2>3. CASE payment.status = "authorized"
            <3>1. payment' = [payment EXCEPT !.status = "voided"]
                  BY <2>1, <2>3
            <3> QED BY <1>3, <2>3, <3>1 DEF PaymentRow
      <2>4. CASE payment.status = "voided"
            <3>1. payment' = payment
                  BY <2>1, <2>4
            <3> QED BY <1>3, <2>4, <3>1
      <2> QED BY <1>3, <2>2, <2>3, <2>4
<1>6. /\ order' \in OrderRow /\ order'.paymentStatus = order.paymentStatus
      /\ order'.version = order.version + 1
      <2> DEFINE o1 == [order EXCEPT !.status = "cancelled"]
      <2>1. /\ o1 \in OrderRow /\ o1.paymentStatus = order.paymentStatus
            /\ o1.version = order.version
            BY DEF IInv, TypeInv, RowsTyped, OrderRow
      <2>2. order' = [o1 EXCEPT !.version = @ + 1]
            <3>1. seen[h].order = order
                  BY <1>1, CommitFacts
            <3> QED BY <1>1, <3>1 DEF IInv, TypeInv, RowsTyped, OrderRow
      <2> HIDE DEF o1
      <2> QED BY <2>1, <2>2 DEF OrderRow
<1>7. \A g \in Fulfillments :
         /\ fulfillment'[g] \in FulfillmentRow
         /\ fulfillment'[g].status \in CountsTowardShipped
               <=> fulfillment[g].status \in CountsTowardShipped
      <2> SUFFICES ASSUME NEW g \in Fulfillments
                   PROVE  /\ fulfillment'[g] \in FulfillmentRow
                          /\ fulfillment'[g].status \in CountsTowardShipped
                                <=> fulfillment[g].status \in CountsTowardShipped
            OBVIOUS
      <2>1. fulfillment[g] \in FulfillmentRow
            BY DEF IInv, TypeInv, RowsTyped
      <2>2. \/ fulfillment'[g] = fulfillment[g]
            \/ /\ fulfillment[g].status = "pending"
               /\ fulfillment'[g] = [fulfillment[g] EXCEPT !.status = "cancelled"]
            BY <1>1
      <2> QED BY <2>1, <2>2 DEF FulfillmentRow, CountsTowardShipped
<1>8. TypeInv'
      <2>1. fulfillment' \in [Fulfillments -> FulfillmentRow]
            BY <1>1, <1>7
      <2> QED BY <1>1, <1>2, <1>5, <1>6, <2>1 DEF IInv, TypeInv, RowsTyped
<1>9. RowInv'
      <2>1. payment.status = "authorized" \/ payment.status = "voided" => charges = 0
            BY DEF IInv, TypeInv, RowsTyped, RowInv, MoneyMatchesPayment
      <2> QED BY <1>1, <1>3, <1>5, <1>6, <1>7, <2>1
                 DEF IInv, RowInv, MoneyMatchesPayment, ShippedIsPaid,
                     CancelledMoneyIsSettled, WithStatus, Now
<1>10. RowStep
      BY <1>5, <1>6, <1>7 DEF RowStep
<1>11. OthersKeep(h)
      BY <1>2, <1>4 DEF OthersKeep, Alone
<1>12. ~HasShippedFulfillment(Now, Fulfillments)
      <2> SUFFICES ASSUME NEW g \in Fulfillments,
                          fulfillment[g].status \in CountsTowardShipped
                   PROVE  FALSE
            BY DEF HasShippedFulfillment, WithStatus, Now
      <2>1. seen[h].fulfillment[g].status \in CountsTowardShipped
            BY <1>1, CommitFacts
      <2>2. g \in ReRead(h)
            BY <2>1 DEF ReRead, WithStatus, CountsTowardShipped
      <2> QED BY <1>1, <2>2 DEF RowsAllowCancel, HasShippedFulfillment, WithStatus, Now
<1> QED BY <1>2, <1>4, <1>8, <1>9, <1>10, <1>11, <1>12, StepKeepsIInv

\* Cancelled units change lines and the version, not the money.
LEMMA CommitCancelLineKeepsIInv ==
    ASSUME IInv, NEW h \in Handlers, CommitCancelLine(h)
    PROVE  IInv'
<1>1. /\ pc[h] = "open" /\ VersionMatches(h)
      /\ line' = [l \in Lines |->
                   LET left == Active(seen[h], l) - req[h].units[l] IN
                   [status |-> IF req[h].units[l] > 0 /\ left = 0 THEN "cancelled"
                               ELSE seen[h].line[l].status,
                    cancelled |-> seen[h].line[l].cancelled + req[h].units[l]]]
      /\ order' = [seen[h].order EXCEPT !.version = @ + 1]
      /\ payment' = payment /\ fulfillment' = fulfillment /\ charges' = charges
      BY DEF CommitCancelLine, Committing, outside
<1>2. /\ HandlersTyped' /\ Alone(h)
      /\ HandlerInv(h)' /\ ~HoldsClaim(h)'
      <2>1. CallInventory(h, "release", req[h].units)
            BY DEF CommitCancelLine
      <2> QED BY <2>1, LeaveIsSound
<1>3. /\ order' \in OrderRow /\ order'.paymentStatus = order.paymentStatus
      /\ order'.status = order.status /\ order'.version = order.version + 1
      BY <1>1, CommitFacts DEF IInv, TypeInv, RowsTyped, OrderRow
<1>4. line' \in [Lines -> LineRow]
      <2>1. req[h].units \in Units
            BY OrderPayloads DEF IInv, TypeInv, HandlersTyped, Request, NoRequest,
                                 NoUnits, Units
      <2>2. \A l \in Lines : seen[h].line[l] \in LineRow
            BY DEF IInv, TypeInv, HandlersTyped, Snapshot
      <2>3. \A l \in Lines : line'[l] \in LineRow
            BY <1>1, <2>1, <2>2 DEF LineRow, Units
      <2> QED BY <1>1, <2>3
<1>5. TypeInv'
      BY <1>1, <1>2, <1>3, <1>4 DEF IInv, TypeInv, RowsTyped
<1>6. RowInv'
      BY <1>1, <1>3 DEF IInv, RowInv, MoneyMatchesPayment, ShippedIsPaid,
                        CancelledMoneyIsSettled, WithStatus, Now
<1>7. RowStep
      BY <1>1, <1>3 DEF RowStep
<1>8. OthersKeep(h)
      BY <1>1, <1>2 DEF OthersKeep, Alone, IInv, HandlerInv, ClaimInv
<1> QED BY <1>2, <1>5, <1>6, <1>7, <1>8, StepKeepsIInv

-----------------------------------------------------------------------------
(* Every step. *)

\* What a handler does with its request keeps the invariant.
LEMMA HandlerStepKeepsIInv ==
    ASSUME IInv, NEW h \in Handlers, Step(h)
    PROVE  IInv'
<1>1. CASE Claim(h)
      BY <1>1, ClaimKeepsIInv
<1>2. CASE ChargeApproved(h)
      BY <1>2, ChargeKeepsIInv
<1>3. CASE ReleaseClaim(h)
      BY <1>3, ReleaseClaimKeepsIInv
<1>4. CASE ChargeDeclined(h)
      BY <1>4, GotoKeepsIInv DEF ChargeDeclined, outside
<1>5. CASE PlanFulfillment(h)
      <2>1. /\ UNCHANGED rows /\ UNCHANGED charges
            /\ \/ pc[h] = "plan" /\ Goto(h, "insert")
               \/ End(h)
            BY <1>5 DEF PlanFulfillment, outside
      <2> QED BY <2>1, GotoKeepsIInv, AnswerKeepsIInv
<1>6. CASE InsertFulfillment(h)
      BY <1>6, InsertKeepsIInv
<1>7. CASE Open(h)
      BY <1>7, OpenKeepsIInv
<1>8. CASE CommitCapture(h)
      BY <1>8, CommitCaptureKeepsIInv
<1>9. CASE CommitShip(h)
      BY <1>9, CommitShipKeepsIInv
<1>10. CASE CommitDeliver(h)
      BY <1>10, CommitDeliverKeepsIInv
<1>11. CASE CommitCancelOrder(h)
      BY <1>11, CommitCancelOrderKeepsIInv
<1>12. CASE CommitCancelLine(h)
      BY <1>12, CommitCancelLineKeepsIInv
<1>13. CASE Retry(h)
      BY <1>13, RetryKeepsIInv
<1>14. CASE RefuseClaim(h) \/ Refuse(h) \/ RefuseCancelOrder(h) \/ Exhaust(h)
      BY <1>14, AnswerKeepsIInv
         DEF RefuseClaim, Refuse, RefuseCancelOrder, Exhaust, outside
<1>15. CASE ReleaseAllocation(h) \/ CommitSale(h)
      BY <1>15, AnswerKeepsIInv DEF ReleaseAllocation, CommitSale
<1> QED BY <1>1, <1>2, <1>3, <1>4, <1>5, <1>6, <1>7, <1>8, <1>9, <1>10, <1>11,
           <1>12, <1>13, <1>14, <1>15 DEF Step

\* The invariant is inductive.
LEMMA NextKeepsIInv ==
    ASSUME IInv, [Next]_vars
    PROVE  IInv'
<1>1. ASSUME NEW h \in Handlers, NEW p \in Payloads, Receive(h, p)
      PROVE  IInv'
      BY <1>1, ReceiveKeepsIInv
<1>2. ASSUME NEW h \in Handlers, Step(h)
      PROVE  IInv'
      BY <1>2, HandlerStepKeepsIInv
<1>3. ASSUME NEW h \in Handlers, Die(h)
      PROVE  IInv'
      BY <1>3, DieKeepsIInv
<1>4. CASE UNCHANGED vars
      BY <1>4 DEF vars, rows, handlers, outside, IInv, TypeInv, RowsTyped, HandlersTyped,
                  RowInv, MoneyMatchesPayment, ShippedIsPaid, CancelledMoneyIsSettled,
                  WithStatus, Now, OneClaim, HoldsClaim, HandlerInv, ClaimInv, OpenInv,
                  VersionMatches
<1> QED BY <1>1, <1>2, <1>3, <1>4 DEF Next

\* The invariant holds of an order just placed.
LEMMA InitIsSound == Init => IInv
<1> SUFFICES ASSUME Init PROVE IInv
    OBVIOUS
<1>1. TypeInv
      BY PlacedIsSound DEF Init, TypeInv, RowsTyped, HandlersTyped, Snapshot
<1>2. RowInv
      BY DEF Init, Placed, RowInv, MoneyMatchesPayment, ShippedIsPaid,
             CancelledMoneyIsSettled, WithStatus, CountsTowardShipped, Now
<1>3. \A h \in Handlers : pc[h] = "idle" /\ ~paid[h]
      BY DEF Init
<1> QED BY <1>1, <1>2, <1>3 DEF IInv, OneClaim, HoldsClaim, HandlerInv, ClaimInv, OpenInv

\* Every reachable state satisfies the invariant.
THEOREM Invariance == Spec => []IInv
BY InitIsSound, NextKeepsIInv, PTL DEF Spec

\* Whatever is answered, lost or tried again: the buyer is charged at most
\* once, only under a claim, and what is called captured was charged.
THEOREM MoneyAlwaysMatches == Spec => []MoneyMatchesPayment
<1>1. IInv => MoneyMatchesPayment
      BY DEF IInv, RowInv
<1> QED BY <1>1, Invariance, PTL

\* Payment row and order agree on the capture, and no parcel leaves before it.
THEOREM ShippedIsAlwaysPaid == Spec => []ShippedIsPaid
<1>1. IInv => ShippedIsPaid
      BY DEF IInv, RowInv
<1> QED BY <1>1, Invariance, PTL

\* The money of a cancelled order is void or marked for refund, for good.
THEOREM CancelledMoneyStaysSettled == Spec => []CancelledMoneyIsSettled
<1>1. IInv => CancelledMoneyIsSettled
      BY DEF IInv, RowInv
<1> QED BY <1>1, Invariance, PTL

\* Charge, payment row, payment axis, parcels and cancellation always agree.
THEOREM MoneyStaysRight == Spec => []MoneyIsRight
<1>1. MoneyMatchesPayment /\ ShippedIsPaid /\ CancelledMoneyIsSettled => MoneyIsRight
      BY DEF MoneyIsRight
<1> QED BY <1>1, MoneyAlwaysMatches, ShippedIsAlwaysPaid, CancelledMoneyStaysSettled, PTL

\* Of the commits, only Cancel Order cancels an order.
LEMMA OnlyCancelOrderCancels ==
    ASSUME IInv, [Next]_vars, order.status # "cancelled", order'.status = "cancelled"
    PROVE  \E h \in Handlers : CommitCancelOrder(h)
<1>1. order' # order
      OBVIOUS
<1>2. ASSUME NEW h \in Handlers, Step(h)
      PROVE  CommitCancelOrder(h)
      <2>1. \/ CommitCapture(h) \/ CommitShip(h) \/ CommitDeliver(h)
            \/ CommitCancelLine(h) \/ CommitCancelOrder(h)
            BY <1>1, <1>2 DEF Step, Claim, RefuseClaim, ChargeApproved, ChargeDeclined,
               ReleaseClaim, PlanFulfillment, InsertFulfillment, Open, Refuse,
               RefuseCancelOrder, Retry, Exhaust, ReleaseAllocation, CommitSale, rows
      <2>2. VersionMatches(h) /\ pc[h] = "open" =>
                seen[h].order = order /\ order \in OrderRow
            BY CommitFacts DEF IInv, TypeInv, RowsTyped
      <2>3. CASE CommitCapture(h)
            BY <2>2, <2>3 DEF CommitCapture, Committing, OrderRow
      <2>4. CASE CommitShip(h)
            BY <2>2, <2>4 DEF CommitShip, Committing, OrderRow
      <2>5. CASE CommitDeliver(h)
            <3>1. CASE DeliversOrder(h)
                  <4>1. order' = [seen[h].order EXCEPT !.status = "delivered",
                                                       !.fulfillmentStatus = "delivered",
                                                       !.version = @ + 1]
                        /\ seen[h].order \in OrderRow
                        BY <2>2, <2>5, <3>1 DEF CommitDeliver, Committing
                  <4> QED BY <4>1 DEF OrderRow
            <3>2. CASE ~DeliversOrder(h)
                  BY <1>1, <2>5, <3>2 DEF CommitDeliver
            <3> QED BY <3>1, <3>2
      <2>6. CASE CommitCancelLine(h)
            BY <2>2, <2>6 DEF CommitCancelLine, Committing, OrderRow
      <2> QED BY <2>1, <2>3, <2>4, <2>5, <2>6
<1>3. \A h \in Handlers : ~Die(h) /\ \A p \in Payloads : ~Receive(h, p)
      BY <1>1 DEF Die, Receive, BeginCapture, BeginShip, BeginDeliver, BeginCreate,
                  BeginCancelOrder, BeginCancelLine, Begin, rows
<1>4. ~UNCHANGED vars
      BY <1>1 DEF vars, rows
<1> QED BY <1>2, <1>3, <1>4 DEF Next

\* An order with a parcel on its way is never cancelled, also not one whose
\* parcel was planned and shipped while the cancellation ran.
THEOREM CancelAlwaysSparesShipped == Spec => CancelSparesShipped
<1>1. IInv /\ [Next]_vars =>
          [order.status # "cancelled" /\ order'.status = "cancelled" =>
              ~HasShippedFulfillment(Now, Fulfillments)]_vars
      BY OnlyCancelOrderCancels, CommitCancelOrderKeepsIInv
<1> QED BY <1>1, Invariance, PTL DEF Spec, CancelSparesShipped

-----------------------------------------------------------------------------
(* Sums of units. *)

\* The units of one member are as many as it has.
LEMMA UnitsOfOne ==
    ASSUME NEW x, NEW q \in Nat
    PROVE  IsFiniteSet({x} \X (1 .. q)) /\ Cardinality({x} \X (1 .. q)) = q
<1>1. IsFiniteSet(1 .. q) /\ Cardinality(1 .. q) = IF 1 > q THEN 0 ELSE q - 1 + 1
      BY FS_Interval
<1>2. IsFiniteSet({x}) /\ Cardinality({x}) = 1
      BY FS_Singleton
<1>3. IsFiniteSet(1 .. q) /\ Cardinality(1 .. q) = q
      BY <1>1
<1>4. /\ IsFiniteSet({x} \X (1 .. q))
      /\ Cardinality({x} \X (1 .. q)) = Cardinality({x}) * Cardinality(1 .. q)
      BY <1>2, <1>3, FS_Product
<1> QED BY <1>2, <1>3, <1>4

\* A sum over finitely many members is a number.
LEMMA TogetherIsNat ==
    ASSUME NEW S, IsFiniteSet(S), NEW u, \A x \in S : u[x] \in Nat
    PROVE  /\ IsFiniteSet(UNION {{x} \X (1 .. u[x]) : x \in S})
           /\ Together(u, S) \in Nat
<1> DEFINE f == [x \in S |-> {x} \X (1 .. u[x])]
           T == {{x} \X (1 .. u[x]) : x \in S}
<1>1. f \in Surjection(S, T)
      BY DEF Surjection
<1>2. IsFiniteSet(T)
      <2> HIDE DEF f, T
      <2> QED BY <1>1, FS_Surjection
<1>3. ASSUME NEW t \in T PROVE IsFiniteSet(t)
      <2>1. PICK x \in S : t = {x} \X (1 .. u[x])
            BY <1>3
      <2> QED BY <2>1, UnitsOfOne
<1>4. IsFiniteSet(UNION T)
      <2> HIDE DEF T
      <2> QED BY <1>2, <1>3, FS_UNION
<1> QED BY <1>4, FS_CardinalityType DEF Together

\* Only the members count.
LEMMA TogetherAgrees ==
    ASSUME NEW S, NEW u, NEW v, \A x \in S : u[x] = v[x]
    PROVE  Together(u, S) = Together(v, S)
<1>1. {{x} \X (1 .. u[x]) : x \in S} = {{x} \X (1 .. v[x]) : x \in S}
      OBVIOUS
<1> QED BY <1>1 DEF Together

\* Another member adds what it has.
LEMMA TogetherAdds ==
    ASSUME NEW S, IsFiniteSet(S), NEW u, NEW x, x \notin S, \A y \in S \cup {x} : u[y] \in Nat
    PROVE  Together(u, S \cup {x}) = Together(u, S) + u[x]
<1> DEFINE A == UNION {{y} \X (1 .. u[y]) : y \in S}
           B == {x} \X (1 .. u[x])
<1>1. UNION {{y} \X (1 .. u[y]) : y \in S \cup {x}} = A \cup B
      OBVIOUS
<1>2. A \cap B = {}
      OBVIOUS
<1>3. IsFiniteSet(A) /\ Cardinality(A) \in Nat
      BY TogetherIsNat DEF Together
<1>4. IsFiniteSet(B) /\ Cardinality(B) = u[x] /\ u[x] \in Nat
      BY UnitsOfOne
<1>5. Cardinality(A \cap B) = 0
      BY <1>2, FS_EmptySet
<1>6. Cardinality(A \cup B) = Cardinality(A) + Cardinality(B) - Cardinality(A \cap B)
      <2> HIDE DEF A, B
      <2> QED BY <1>3, <1>4, FS_Union
<1>7. Together(u, S \cup {x}) = Cardinality(A \cup B) /\ Together(u, S) = Cardinality(A)
      BY <1>1 DEF Together
<1> HIDE DEF A, B
<1> QED BY <1>3, <1>4, <1>5, <1>6, <1>7

LEMMA TogetherOfNone ==
    ASSUME NEW u
    PROVE  Together(u, {}) = 0
<1>1. UNION {{y} \X (1 .. u[y]) : y \in {}} = {}
      OBVIOUS
<1> QED BY <1>1, FS_EmptySet DEF Together

\* What one member has, set apart.
LEMMA TogetherSplits ==
    ASSUME NEW S, IsFiniteSet(S), NEW u, NEW x, \A y \in S : u[y] \in Nat
    PROVE  /\ Together(u, S \ {x}) \in Nat /\ Together(u, S) \in Nat
           /\ x \in S => Together(u, S) = Together(u, S \ {x}) + u[x]
           /\ x \notin S => Together(u, S) = Together(u, S \ {x})
<1>1. IsFiniteSet(S \ {x})
      BY FS_Subset
<1>2. Together(u, S \ {x}) \in Nat /\ Together(u, S) \in Nat
      BY <1>1, TogetherIsNat
<1>3. ASSUME x \in S
      PROVE  Together(u, S) = Together(u, S \ {x}) + u[x]
      <2>1. S = (S \ {x}) \cup {x}
            BY <1>3
      <2>2. Together(u, (S \ {x}) \cup {x}) = Together(u, S \ {x}) + u[x]
            BY <1>1, <1>3, TogetherAdds
      <2> QED BY <2>1, <2>2
<1>4. x \notin S => S = S \ {x}
      OBVIOUS
<1> QED BY <1>2, <1>3, <1>4

\* The sum moves with the member that changes.
LEMMA TogetherMoves ==
    ASSUME NEW S, NEW T, IsFiniteSet(S), IsFiniteSet(T), NEW u, NEW v, NEW x,
           \A y \in S : u[y] \in Nat, \A y \in T : v[y] \in Nat,
           S \ {x} = T \ {x}, \A y \in S \ {x} : u[y] = v[y]
    PROVE  /\ Together(u, S) \in Nat /\ Together(v, T) \in Nat
           /\ x \notin T => Together(v, T) <= Together(u, S)
           /\ x \in T /\ x \notin S => Together(v, T) = Together(u, S) + v[x]
           /\ x \in S /\ x \notin T => Together(u, S) = Together(v, T) + u[x]
           /\ x \notin S /\ x \notin T => Together(v, T) = Together(u, S)
<1>1. Together(u, S \ {x}) = Together(v, T \ {x})
      BY TogetherAgrees
<1>2. /\ Together(u, S \ {x}) \in Nat /\ Together(u, S) \in Nat
      /\ x \in S => Together(u, S) = Together(u, S \ {x}) + u[x]
      /\ x \notin S => Together(u, S) = Together(u, S \ {x})
      BY TogetherSplits
<1>3. /\ Together(v, T \ {x}) \in Nat /\ Together(v, T) \in Nat
      /\ x \in T => Together(v, T) = Together(v, T \ {x}) + v[x]
      /\ x \notin T => Together(v, T) = Together(v, T \ {x})
      BY TogetherSplits
<1>4. x \in S => u[x] \in Nat
      OBVIOUS
<1> QED BY <1>1, <1>2, <1>3, <1>4

-----------------------------------------------------------------------------
(* The units: what the roll-up says, what is given back and what is sold.  *)
(* UInv rests on IInv.  It adds that a ship alone holds the lock of a      *)
(* fulfillment that is still pending, and that a snapshot whose version is *)
(* the order's shows the lines as they are, and the parcels with the units *)
(* they have.                                                              *)

\* The kinds that lock a fulfillment.
Locks(h) == pc[h] = "open" /\ req[h].kind \in {"ship", "deliver"}

UnitsTyped ==
    /\ due \in [Handlers -> Units]
    /\ released \in [{"order-cancelled", "line-cancelled"} -> Units]
    /\ sold \in Units
    /\ \A l \in Lines : line[l].cancelled <= Quantity[l]

\* What an open transaction has seen of the units.
SnapshotInv(h) ==
    pc[h] = "open" =>
        /\ VersionMatches(h) => seen[h].line = line
        /\ \A f \in Fulfillments : seen[h].fulfillment[f].status # "none" =>
              /\ fulfillment[f].status # "none"
              /\ fulfillment[f].quantity = seen[h].fulfillment[f].quantity
        /\ \A f \in Fulfillments : seen[h].fulfillment[f].status \in CountsTowardShipped =>
              fulfillment[f].status \in CountsTowardShipped
        /\ req[h].kind = "ship" =>
              /\ seen[h].fulfillment[req[h].fulfillment].status = "pending"
              /\ fulfillment[req[h].fulfillment].status = "pending"
        /\ req[h].kind = "deliver" /\ DeliversOrder(h) =>
              seen[h].order.status # "cancelled"
        /\ req[h].kind = "cancelOrder" => seen[h].order.status = "pending"
        /\ req[h].kind = "cancelLine" =>
              \A l \in Lines : req[h].units[l] > 0 => req[h].units[l] <= Active(seen[h], l)

\* A cancellation, and nothing else, gives back units, and an order's no more
\* than it has.
DueInv(h) ==
    /\ pc[h] \in {"ready", "open"} /\ req[h].kind = "cancelOrder" =>
           \A l \in Lines : due[h][l] <= Quantity[l]
    /\ pc[h] = "release" => req[h].kind \in {"cancelOrder", "cancelLine"}

OneLock == \A h, k \in Handlers :
    Locks(h) /\ Locks(k) /\ req[h].fulfillment = req[k].fulfillment => h = k

\* Until the order is cancelled nothing is given back on its account.
CancelInv ==
    order.status # "cancelled" =>
        /\ released["order-cancelled"] = NoUnits
        /\ Releasing("cancelOrder") = {}

UInv ==
    /\ UnitsTyped
    /\ RollUpIsTrue
    /\ StockMovesOnce
    /\ CancelInv
    /\ OneLock
    /\ \A h \in Handlers : SnapshotInv(h) /\ DueInv(h)

-----------------------------------------------------------------------------
(* Rows and sums under a step. *)

\* The parcels that have left, and the units of a line in them.
Away(F) == {f \in Fulfillments : F[f].status \in CountsTowardShipped}
AwayUnits(F, l) == Together([f \in Away(F) |-> F[f].quantity[l]], Away(F))

LEMMA ShippedIsAway ==
    /\ \A s, l : Shipped(s, l) = AwayUnits(s.fulfillment, l)
    /\ \A l : Shipped(Now, l) = AwayUnits(fulfillment, l)
    /\ \A l : Shipped(Now, l)' = AwayUnits(fulfillment', l)
    /\ WithStatus(Now, CountsTowardShipped) = Away(fulfillment)
    /\ WithStatus(Now, CountsTowardShipped)' = Away(fulfillment')
    /\ \A l : Active(Now, l) = Quantity[l] - line[l].cancelled
    /\ \A l : Active(Now, l)' = Quantity[l] - line'[l].cancelled
BY DEF Shipped, UnitsIn, WithStatus, Now, Away, AwayUnits, Active

LEMMA FulfillmentsFinite == IsFiniteSet(Fulfillments)
<1>1. 1 \in Int /\ MaxFulfillments \in Int
      BY OrderBudgets
<1> QED BY <1>1, FS_Interval DEF Fulfillments

LEMMA AwayIsNat ==
    ASSUME NEW F \in [Fulfillments -> FulfillmentRow], NEW l \in Lines
    PROVE  /\ IsFiniteSet(Away(F)) /\ AwayUnits(F, l) \in Nat
           /\ \A f \in Fulfillments : F[f].quantity[l] \in Nat
<1>1. IsFiniteSet(Away(F))
      BY FulfillmentsFinite, FS_Subset DEF Away
<1>2. \A f \in Fulfillments : F[f].quantity[l] \in Nat
      BY DEF FulfillmentRow, Units
<1> DEFINE u == [f \in Away(F) |-> F[f].quantity[l]]
<1>3. \A f \in Away(F) : u[f] \in Nat
      BY <1>2 DEF Away
<1>4. Together(u, Away(F)) \in Nat
      <2> HIDE DEF u
      <2> QED BY <1>1, <1>3, TogetherIsNat
<1> QED BY <1>1, <1>2, <1>4 DEF AwayUnits

\* The units away are the same if the parcels away are.
LEMMA AwaySame ==
    ASSUME NEW F, NEW G, Away(F) = Away(G), NEW l,
           \A f \in Away(F) : F[f].quantity = G[f].quantity
    PROVE  AwayUnits(F, l) = AwayUnits(G, l)
<1>1. [f \in Away(F) |-> F[f].quantity[l]] = [f \in Away(G) |-> G[f].quantity[l]]
      OBVIOUS
<1> QED BY <1>1 DEF AwayUnits

\* A parcel that leaves adds its units.
LEMMA AwayAdds ==
    ASSUME NEW F \in [Fulfillments -> FulfillmentRow],
           NEW G \in [Fulfillments -> FulfillmentRow],
           NEW f \in Fulfillments, f \notin Away(F), Away(G) = Away(F) \cup {f},
           \A g \in Away(G) : G[g].quantity = F[g].quantity, NEW l \in Lines
    PROVE  AwayUnits(G, l) = AwayUnits(F, l) + F[f].quantity[l]
<1> DEFINE u == [g \in Away(G) |-> G[g].quantity[l]]
           v == [g \in Away(F) |-> F[g].quantity[l]]
<1>1. \A g \in Away(F) \cup {f} : u[g] \in Nat
      BY AwayIsNat DEF Away
<1>2. u[f] = F[f].quantity[l] /\ \A g \in Away(F) : u[g] = v[g]
      OBVIOUS
<1>3. IsFiniteSet(Away(F))
      BY AwayIsNat
<1> HIDE DEF u, v
<1>4. Together(u, Away(F) \cup {f}) = Together(u, Away(F)) + u[f]
      BY <1>1, <1>3, TogetherAdds
<1>5. Together(u, Away(F)) = Together(v, Away(F))
      BY <1>2, TogetherAgrees
<1>6. AwayUnits(G, l) = Together(u, Away(F) \cup {f}) /\ AwayUnits(F, l) = Together(v, Away(F))
      BY DEF AwayUnits, u, v
<1> QED BY <1>2, <1>4, <1>5, <1>6

\* The step is h's; nobody else moves.
Bystanders(h) ==
    \A k \in Handlers \ {h} :
        /\ pc'[k] = pc[k] /\ req'[k] = req[k] /\ seen'[k] = seen[k]
        /\ due'[k] = due[k]

\* A row that is there keeps its units and, once away, stays away; a step that
\* changes the order or its lines moves the version; a parcel that another ship
\* has locked stays pending.
UnitsStep(h) ==
    /\ \A f \in Fulfillments :
          /\ fulfillment[f].status # "none" =>
                 /\ fulfillment'[f].status # "none"
                 /\ fulfillment'[f].quantity = fulfillment[f].quantity
          /\ fulfillment[f].status \in CountsTowardShipped =>
                 fulfillment'[f].status \in CountsTowardShipped
          /\ fulfillment[f].status = "pending" /\ fulfillment'[f].status # "pending" =>
                 \A k \in Handlers \ {h} : Locks(k) => req[k].fulfillment # f
    /\ \/ order' = order /\ line' = line
       \/ order'.version = order.version + 1

\* Such a step keeps the invariant if the rows and h keep their parts of it.
LEMMA StepKeepsUInv ==
    ASSUME IInv, IInv', UInv, NEW h \in Handlers, UnitsTyped', RollUpIsTrue',
           StockMovesOnce', CancelInv', Bystanders(h), UnitsStep(h),
           SnapshotInv(h)', DueInv(h)',
           Locks(h)' => \A k \in Handlers \ {h} :
                            Locks(k) => req[k].fulfillment # req'[h].fulfillment
    PROVE  UInv'
<1>1. ASSUME NEW k \in Handlers \ {h}
      PROVE  SnapshotInv(k)' /\ DueInv(k)' /\ (Locks(k)' <=> Locks(k)) /\ req'[k] = req[k]
      <2>1. /\ pc'[k] = pc[k] /\ req'[k] = req[k] /\ seen'[k] = seen[k] /\ due'[k] = due[k]
            BY <1>1 DEF Bystanders
      <2>2. SnapshotInv(k) /\ DueInv(k) /\ OpenInv(k)
            BY <1>1 DEF UInv, IInv, HandlerInv
      <2>3. (Locks(k)' <=> Locks(k)) /\ DueInv(k)'
            BY <2>1, <2>2 DEF Locks, DueInv
      <2>4. SnapshotInv(k)'
            <3> SUFFICES ASSUME pc[k] = "open" PROVE SnapshotInv(k)'
                BY <2>1 DEF SnapshotInv
            <3>1. order.version \in Nat /\ seen[k].order.version <= order.version
                  /\ seen[k].order.version \in Nat
                  <4>1. order \in OrderRow /\ seen[k] \in Snapshot
                        BY <1>1 DEF IInv, TypeInv, RowsTyped, HandlersTyped
                  <4> QED BY <2>2, <4>1 DEF OpenInv, OrderRow, Snapshot
            <3>2. VersionMatches(k)' => seen'[k].line = line'
                  BY <2>1, <2>2, <3>1 DEF SnapshotInv, VersionMatches, UnitsStep
            <3>3. \A f \in Fulfillments : seen[k].fulfillment[f].status # "none" =>
                        /\ fulfillment'[f].status # "none"
                        /\ fulfillment'[f].quantity = seen[k].fulfillment[f].quantity
                  BY <2>2 DEF SnapshotInv, UnitsStep
            <3>4. \A f \in Fulfillments :
                     seen[k].fulfillment[f].status \in CountsTowardShipped =>
                         fulfillment'[f].status \in CountsTowardShipped
                  BY <2>2 DEF SnapshotInv, UnitsStep
            <3>5. ASSUME req[k].kind = "ship"
                  PROVE  fulfillment'[req[k].fulfillment].status = "pending"
                  <4>1. req[k].fulfillment \in Fulfillments /\ Locks(k)
                        /\ fulfillment[req[k].fulfillment].status = "pending"
                        BY <1>1, <2>2, <3>5, NamesFulfillment DEF Locks, SnapshotInv
                  <4> QED BY <1>1, <4>1 DEF UnitsStep
            <3>6. DeliversOrder(k)' <=> DeliversOrder(k)
                  BY <2>1 DEF DeliversOrder, AfterDeliver
            <3>7. \A l \in Lines : Active(seen[k], l)' = Active(seen[k], l)
                  BY <2>1 DEF Active
            <3> QED BY <2>1, <2>2, <3>2, <3>3, <3>4, <3>5, <3>6, <3>7 DEF SnapshotInv
      <2> QED BY <2>1, <2>3, <2>4
<1>2. OneLock'
      BY <1>1 DEF UInv, OneLock
<1>3. \A k \in Handlers : SnapshotInv(k)' /\ DueInv(k)'
      BY <1>1
<1> QED BY <1>2, <1>3 DEF UInv

\* The handlers that have a call under way, apart from h, stay the same.
LEMMA OthersCall ==
    ASSUME NEW h \in Handlers, Bystanders(h)
    PROVE  /\ \A kind : Releasing(kind)' \ {h} = Releasing(kind) \ {h}
           /\ Selling' \ {h} = Selling \ {h}
           /\ \A l : DueOf(l)' = [k \in Handlers |-> due'[k][l]]
           /\ \A kind : Releasing(kind) \in SUBSET Handlers /\ Releasing(kind)' \in SUBSET Handlers
           /\ Selling \in SUBSET Handlers /\ Selling' \in SUBSET Handlers
BY DEF Bystanders, Releasing, Selling, DueOf

\* The sum over the releases under way, and over the sales.
LEMMA ReleasingMoves ==
    ASSUME NEW h \in Handlers, Bystanders(h), due \in [Handlers -> Units],
           due' \in [Handlers -> Units], NEW kind, NEW l \in Lines
    PROVE  /\ Together(DueOf(l), Releasing(kind)) \in Nat
           /\ Together(DueOf(l)', Releasing(kind)') \in Nat
           /\ h \notin Releasing(kind)' =>
                 Together(DueOf(l)', Releasing(kind)') <= Together(DueOf(l), Releasing(kind))
           /\ h \in Releasing(kind)' /\ h \notin Releasing(kind) =>
                 Together(DueOf(l)', Releasing(kind)')
                    = Together(DueOf(l), Releasing(kind)) + due'[h][l]
           /\ h \in Releasing(kind) /\ h \notin Releasing(kind)' =>
                 Together(DueOf(l), Releasing(kind))
                    = Together(DueOf(l)', Releasing(kind)') + due[h][l]
<1> DEFINE S == Releasing(kind)
           T == Releasing(kind)'
<1>1. /\ S \in SUBSET Handlers /\ T \in SUBSET Handlers /\ S \ {h} = T \ {h}
      /\ DueOf(l)' = [k \in Handlers |-> due'[k][l]]
      BY OthersCall
<1> HIDE DEF S, T
<1>2. /\ Together(DueOf(l), S) \in Nat /\ Together(DueOf(l)', T) \in Nat
      /\ h \notin T => Together(DueOf(l)', T) <= Together(DueOf(l), S)
      /\ h \in T /\ h \notin S =>
            Together(DueOf(l)', T) = Together(DueOf(l), S) + due'[h][l]
      /\ h \in S /\ h \notin T =>
            Together(DueOf(l), S) = Together(DueOf(l)', T) + due[h][l]
      <2>1. \A x \in Handlers : DueOf(l)[x] = due[x][l] /\ DueOf(l)'[x] = due'[x][l]
            BY <1>1 DEF DueOf
      <2> DEFINE u == DueOf(l)
                 v == DueOf(l)'
      <2>2. /\ \A x \in S : u[x] \in Nat
            /\ \A x \in T : v[x] \in Nat
            /\ u[h] = due[h][l] /\ v[h] = due'[h][l]
            BY <1>1, <2>1 DEF Units
      <2>3. \A x \in S \ {h} : u[x] = v[x]
            BY <1>1, <2>1 DEF Bystanders
      <2>4. IsFiniteSet(S) /\ IsFiniteSet(T)
            BY <1>1, OrderBudgets, FS_Subset
      <2>5. S \ {h} = T \ {h}
            BY <1>1
      <2> HIDE DEF u, v
      <2>6. /\ Together(u, S) \in Nat /\ Together(v, T) \in Nat
            /\ h \notin T => Together(v, T) <= Together(u, S)
            /\ h \in T /\ h \notin S => Together(v, T) = Together(u, S) + v[h]
            /\ h \in S /\ h \notin T => Together(u, S) = Together(v, T) + u[h]
            BY <2>2, <2>3, <2>4, <2>5, TogetherMoves
      <2> QED BY <2>2, <2>6 DEF u, v
<1> QED BY <1>2 DEF S, T

LEMMA SellingMoves ==
    ASSUME NEW h \in Handlers, Bystanders(h), due \in [Handlers -> Units],
           due' \in [Handlers -> Units], NEW l \in Lines
    PROVE  /\ Together(DueOf(l), Selling) \in Nat
           /\ Together(DueOf(l)', Selling') \in Nat
           /\ h \notin Selling' =>
                 Together(DueOf(l)', Selling') <= Together(DueOf(l), Selling)
           /\ h \in Selling' /\ h \notin Selling =>
                 Together(DueOf(l)', Selling') = Together(DueOf(l), Selling) + due'[h][l]
           /\ h \in Selling /\ h \notin Selling' =>
                 Together(DueOf(l), Selling) = Together(DueOf(l)', Selling') + due[h][l]
           /\ due[h][l] \in Nat /\ due'[h][l] \in Nat
<1> DEFINE S == Selling
           T == Selling'
<1>1. /\ S \in SUBSET Handlers /\ T \in SUBSET Handlers /\ S \ {h} = T \ {h}
      /\ DueOf(l)' = [k \in Handlers |-> due'[k][l]]
      BY OthersCall
<1> HIDE DEF S, T
<1>2. /\ Together(DueOf(l), S) \in Nat /\ Together(DueOf(l)', T) \in Nat
      /\ h \notin T => Together(DueOf(l)', T) <= Together(DueOf(l), S)
      /\ h \in T /\ h \notin S =>
            Together(DueOf(l)', T) = Together(DueOf(l), S) + due'[h][l]
      /\ h \in S /\ h \notin T =>
            Together(DueOf(l), S) = Together(DueOf(l)', T) + due[h][l]
      /\ due[h][l] \in Nat /\ due'[h][l] \in Nat
      <2>1. \A x \in Handlers : DueOf(l)[x] = due[x][l] /\ DueOf(l)'[x] = due'[x][l]
            BY <1>1 DEF DueOf
      <2> DEFINE u == DueOf(l)
                 v == DueOf(l)'
      <2>2. /\ \A x \in S : u[x] \in Nat
            /\ \A x \in T : v[x] \in Nat
            /\ u[h] = due[h][l] /\ v[h] = due'[h][l]
            BY <1>1, <2>1 DEF Units
      <2>3. \A x \in S \ {h} : u[x] = v[x]
            BY <1>1, <2>1 DEF Bystanders
      <2>4. IsFiniteSet(S) /\ IsFiniteSet(T)
            BY <1>1, OrderBudgets, FS_Subset
      <2>5. S \ {h} = T \ {h}
            BY <1>1
      <2> HIDE DEF u, v
      <2>6. /\ Together(u, S) \in Nat /\ Together(v, T) \in Nat
            /\ h \notin T => Together(v, T) <= Together(u, S)
            /\ h \in T /\ h \notin S => Together(v, T) = Together(u, S) + v[h]
            /\ h \in S /\ h \notin T => Together(u, S) = Together(v, T) + u[h]
            BY <2>2, <2>3, <2>4, <2>5, TogetherMoves
      <2>7. due[h][l] \in Nat /\ due'[h][l] \in Nat
            BY DEF Units
      <2> QED BY <2>2, <2>6, <2>7 DEF u, v
<1> QED BY <1>2 DEF S, T

\* A step of h that leaves no call under way keeps the sums.
LEMMA QuietSums ==
    ASSUME IInv, IInv', UInv, NEW h \in Handlers, Bystanders(h), UnitsTyped',
           pc'[h] \notin {"release", "sale"}, released' = released, sold' = sold,
           \A l \in Lines : /\ line'[l].cancelled >= line[l].cancelled
                            /\ AwayUnits(fulfillment', l) >= AwayUnits(fulfillment, l),
           order'.status # "cancelled" => order.status # "cancelled"
    PROVE  StockMovesOnce' /\ CancelInv'
<1>1. /\ due \in [Handlers -> Units] /\ due' \in [Handlers -> Units]
      /\ \A l \in Lines : /\ released["line-cancelled"][l] \in Nat
                          /\ released["order-cancelled"][l] \in Nat
                          /\ sold[l] \in Nat
                          /\ line[l].cancelled \in Nat /\ line'[l].cancelled \in Nat
                          /\ Quantity[l] \in Nat
                          /\ AwayUnits(fulfillment, l) \in Nat
                          /\ AwayUnits(fulfillment', l) \in Nat
      <2>1. /\ due \in [Handlers -> Units] /\ due' \in [Handlers -> Units]
            /\ released \in [{"order-cancelled", "line-cancelled"} -> Units]
            /\ sold \in Units
            BY DEF UInv, UnitsTyped
      <2>2. /\ line \in [Lines -> LineRow] /\ line' \in [Lines -> LineRow]
            /\ fulfillment \in [Fulfillments -> FulfillmentRow]
            /\ fulfillment' \in [Fulfillments -> FulfillmentRow]
            BY DEF IInv, TypeInv, RowsTyped
      <2> QED BY <2>1, <2>2, AwayIsNat, OrderedUnits DEF Units, LineRow
<1>2. /\ h \notin Selling' /\ \A kind : h \notin Releasing(kind)'
      BY DEF Selling, Releasing
<1>3. ASSUME NEW l \in Lines
      PROVE  /\ released'["line-cancelled"][l] + Together(DueOf(l)', Releasing("cancelLine")')
                   <= line'[l].cancelled
             /\ released'["order-cancelled"][l] + Together(DueOf(l)', Releasing("cancelOrder")')
                   <= Quantity[l]
             /\ sold'[l] + Together(DueOf(l)', Selling') <= AwayUnits(fulfillment', l)
      <2>1. /\ released["line-cancelled"][l] + Together(DueOf(l), Releasing("cancelLine"))
                  <= line[l].cancelled
            /\ released["order-cancelled"][l] + Together(DueOf(l), Releasing("cancelOrder"))
                  <= Quantity[l]
            /\ sold[l] + Together(DueOf(l), Selling) <= AwayUnits(fulfillment, l)
            BY ShippedIsAway DEF UInv, StockMovesOnce, EachCancellationReleasesOnce, SoldWasShipped
      <2>2. /\ Together(DueOf(l), Releasing("cancelLine")) \in Nat
            /\ Together(DueOf(l)', Releasing("cancelLine")') \in Nat
            /\ Together(DueOf(l)', Releasing("cancelLine")')
                  <= Together(DueOf(l), Releasing("cancelLine"))
            BY <1>1, <1>2, ReleasingMoves, SellingMoves
      <2>3. /\ Together(DueOf(l), Releasing("cancelOrder")) \in Nat
            /\ Together(DueOf(l)', Releasing("cancelOrder")') \in Nat
            /\ Together(DueOf(l)', Releasing("cancelOrder")')
                  <= Together(DueOf(l), Releasing("cancelOrder"))
            BY <1>1, <1>2, ReleasingMoves, SellingMoves
      <2>4. /\ Together(DueOf(l), Selling) \in Nat /\ Together(DueOf(l)', Selling') \in Nat
            /\ Together(DueOf(l)', Selling') <= Together(DueOf(l), Selling)
            BY <1>1, <1>2, ReleasingMoves, SellingMoves
      <2>5. /\ released' = released /\ sold' = sold
            /\ line'[l].cancelled >= line[l].cancelled
            /\ AwayUnits(fulfillment', l) >= AwayUnits(fulfillment, l)
            OBVIOUS
      <2> QED BY <1>1, <2>1, <2>2, <2>3, <2>4, <2>5
<1>4. StockMovesOnce'
      BY <1>3, ShippedIsAway DEF StockMovesOnce, EachCancellationReleasesOnce, SoldWasShipped
<1>5. CancelInv'
      <2>1. \A kind : Releasing(kind)' \subseteq Releasing(kind)
            BY <1>2, OthersCall
      <2> QED BY <2>1 DEF UInv, CancelInv
<1> QED BY <1>4, <1>5

\* The roll-up stays true while the parcels away are the same, and lines only
\* lose units.
LEMMA RollUpStays ==
    ASSUME IInv, IInv', RollUpIsTrue,
           Away(fulfillment') = Away(fulfillment),
           \A f \in Away(fulfillment) : fulfillment'[f].quantity = fulfillment[f].quantity,
           \A l \in Lines : /\ line'[l].cancelled >= line[l].cancelled
                            /\ line'[l].status = "shipped" => line[l].status = "shipped",
           \/ order'.fulfillmentStatus = order.fulfillmentStatus
           \/ order'.fulfillmentStatus = "delivered" /\ Away(fulfillment) # {}
    PROVE  /\ RollUpIsTrue'
           /\ \A l \in Lines : AwayUnits(fulfillment', l) = AwayUnits(fulfillment, l)
<1>1. \A l \in Lines : AwayUnits(fulfillment', l) = AwayUnits(fulfillment, l)
      BY AwaySame
<1>2. \A l \in Lines : /\ line[l].cancelled \in Nat /\ line'[l].cancelled \in Nat
                       /\ Quantity[l] \in Nat /\ AwayUnits(fulfillment, l) \in Nat
      <2>1. /\ line \in [Lines -> LineRow] /\ line' \in [Lines -> LineRow]
            /\ fulfillment \in [Fulfillments -> FulfillmentRow]
            BY DEF IInv, TypeInv, RowsTyped
      <2> QED BY <2>1, AwayIsNat, OrderedUnits DEF LineRow
<1>3. \A l \in Lines : Shipped(Now, l) >= Active(Now, l)
                          => Shipped(Now, l)' >= Active(Now, l)'
      BY <1>1, <1>2, ShippedIsAway
<1>4. /\ order.fulfillmentStatus = "unfulfilled" <=> Away(fulfillment) = {}
      /\ order.fulfillmentStatus = "shipped" =>
            \A l \in Lines : Shipped(Now, l) >= Active(Now, l)
      /\ \A l \in Lines : line[l].status = "shipped" => Shipped(Now, l) >= Active(Now, l)
      BY ShippedIsAway DEF RollUpIsTrue
<1>5. /\ order'.fulfillmentStatus = "unfulfilled" <=> Away(fulfillment') = {}
      /\ order'.fulfillmentStatus = "shipped" =>
            \A l \in Lines : Shipped(Now, l)' >= Active(Now, l)'
      /\ \A l \in Lines : line'[l].status = "shipped" => Shipped(Now, l)' >= Active(Now, l)'
      BY <1>3, <1>4
<1> QED BY <1>1, <1>5, ShippedIsAway DEF RollUpIsTrue

-----------------------------------------------------------------------------
(* The steps that leave the rows of the order alone. *)

\* A line never loses more units than were ordered.
LEMMA DueFacts ==
    ASSUME IInv, UInv
    PROVE  /\ NoUnits \in Units /\ \A l \in Lines : NoUnits[l] = 0
           /\ \A l \in Lines : /\ line[l].cancelled \in Nat /\ Quantity[l] \in Nat
                               /\ line[l].cancelled <= Quantity[l]
BY OrderedUnits DEF NoUnits, Units, UInv, UnitsTyped, IInv, TypeInv, RowsTyped, LineRow

\* Nothing moves but h itself, which has no call under way afterwards.
LEMMA StillKeepsUInv ==
    ASSUME IInv, IInv', UInv, NEW h \in Handlers, Bystanders(h),
           order' = order, line' = line, fulfillment' = fulfillment,
           released' = released, sold' = sold, due' \in [Handlers -> Units],
           pc'[h] \notin {"release", "sale"}, SnapshotInv(h)', DueInv(h)',
           Locks(h)' => \A k \in Handlers \ {h} :
                            Locks(k) => req[k].fulfillment # req'[h].fulfillment
    PROVE  UInv'
<1>1. UnitsTyped'
      BY DEF UInv, UnitsTyped
<1>2. \A l \in Lines : /\ line'[l].cancelled >= line[l].cancelled
                       /\ AwayUnits(fulfillment', l) >= AwayUnits(fulfillment, l)
      <2>1. /\ line \in [Lines -> LineRow] /\ fulfillment \in [Fulfillments -> FulfillmentRow]
            BY DEF IInv, TypeInv, RowsTyped
      <2>2. \A l \in Lines : line[l].cancelled \in Nat /\ AwayUnits(fulfillment, l) \in Nat
            BY <2>1, AwayIsNat DEF LineRow
      <2> QED BY <2>2
<1>3. StockMovesOnce' /\ CancelInv'
      BY <1>1, <1>2, QuietSums
<1>4. RollUpIsTrue'
      BY <1>2, RollUpStays DEF UInv
<1>5. UnitsStep(h)
      BY DEF UnitsStep
<1> QED BY <1>1, <1>3, <1>4, <1>5, StepKeepsUInv

\* A request that ends.
LEMMA EndFacts ==
    ASSUME IInv, UInv, NEW h \in Handlers, End(h)
    PROVE  /\ Bystanders(h) /\ due' \in [Handlers -> Units] /\ pc'[h] = "idle"
           /\ SnapshotInv(h)' /\ DueInv(h)' /\ ~Locks(h)'
<1>1. /\ pc' = [pc EXCEPT ![h] = "idle"] /\ req' = [req EXCEPT ![h] = NoRequest]
      /\ seen' = [seen EXCEPT ![h] = Placed] /\ due' = [due EXCEPT ![h] = NoUnits]
      BY DEF End
<1>2. pc'[h] = "idle" /\ Bystanders(h)
      BY <1>1 DEF Bystanders, IInv, TypeInv, HandlersTyped, UInv, UnitsTyped
<1>3. due' \in [Handlers -> Units]
      BY <1>1 DEF UInv, UnitsTyped, Units, NoUnits
<1> QED BY <1>2, <1>3 DEF SnapshotInv, DueInv, Locks

LEMMA AnswerKeepsUInv ==
    ASSUME IInv, IInv', UInv, NEW h \in Handlers, End(h), order' = order, line' = line,
           fulfillment' = fulfillment, released' = released, sold' = sold
    PROVE  UInv'
<1>1. pc'[h] \notin {"release", "sale"}
      BY EndFacts
<1> QED BY <1>1, EndFacts, StillKeepsUInv

\* The handler moves on to a point outside a transaction.
LEMMA GotoKeepsUInv ==
    ASSUME IInv, IInv', UInv, NEW h \in Handlers, NEW label,
           pc' = [pc EXCEPT ![h] = label], req' = req, due' = due,
           \/ seen' = seen
           \/ seen' = [seen EXCEPT ![h] = Placed],
           order' = order, line' = line, fulfillment' = fulfillment,
           released' = released, sold' = sold,
           label \notin {"release", "sale", "open"},
           label = "ready" => pc[h] = "open" \/ req[h].kind # "cancelOrder"
    PROVE  UInv'
<1>1. pc'[h] = label /\ Bystanders(h)
      BY DEF Bystanders, IInv, TypeInv, HandlersTyped
<1>2. due' \in [Handlers -> Units]
      BY DEF UInv, UnitsTyped
<1>3. SnapshotInv(h)' /\ ~Locks(h)'
      BY <1>1 DEF SnapshotInv, Locks
<1>4. DueInv(h)'
      BY <1>1 DEF DueInv, UInv
<1>5. pc'[h] \notin {"release", "sale"}
      BY <1>1
<1> QED BY <1>1, <1>2, <1>3, <1>4, <1>5, StillKeepsUInv

\* A request arrives; a cancellation means to give back what is active.
LEMMA ReceiveKeepsUInv ==
    ASSUME IInv, IInv', UInv, NEW h \in Handlers, NEW p \in Payloads, Receive(h, p)
    PROVE  UInv'
<1> DEFINE active == [l \in Lines |-> Active(Now, l)]
<1>1. active \in Units /\ NoUnits \in Units /\ \A l \in Lines : active[l] <= Quantity[l]
      <2>1. \A l \in Lines : Active(Now, l) \in Nat /\ Active(Now, l) <= Quantity[l]
            BY DueFacts, ShippedIsAway
      <2> QED BY <2>1 DEF Units, NoUnits
<1> HIDE DEF active
<1>2. PICK label \in {"claim", "ready", "plan"}, read \in {Placed, Now}, units \in {NoUnits, active} :
         /\ Begin(h, p, label, read, units)
      <2>1. CASE BeginCapture(h, p)
            BY <2>1 DEF BeginCapture
      <2>2. CASE BeginShip(h, p)
            BY <2>2 DEF BeginShip
      <2>3. CASE BeginDeliver(h, p)
            BY <2>3 DEF BeginDeliver
      <2>4. CASE BeginCreate(h, p)
            BY <2>4 DEF BeginCreate
      <2>5. CASE BeginCancelOrder(h, p)
            BY <2>5 DEF BeginCancelOrder, active
      <2>6. CASE BeginCancelLine(h, p)
            BY <2>6 DEF BeginCancelLine
      <2> QED BY <2>1, <2>2, <2>3, <2>4, <2>5, <2>6 DEF Receive
<1>3. /\ pc' = [pc EXCEPT ![h] = label] /\ req' = [req EXCEPT ![h] = p]
      /\ seen' = [seen EXCEPT ![h] = read] /\ due' = [due EXCEPT ![h] = units]
      /\ order' = order /\ line' = line /\ fulfillment' = fulfillment
      /\ released' = released /\ sold' = sold
      BY <1>2 DEF Begin, rows, outside
<1>4. pc'[h] = label /\ due'[h] = units /\ Bystanders(h)
      BY <1>3 DEF Bystanders, IInv, TypeInv, HandlersTyped, UInv, UnitsTyped
<1>5. due' \in [Handlers -> Units]
      BY <1>1, <1>3 DEF UInv, UnitsTyped
<1>6. SnapshotInv(h)' /\ ~Locks(h)' /\ pc'[h] \notin {"release", "sale"}
      BY <1>4 DEF SnapshotInv, Locks
<1>7. DueInv(h)'
      <2>1. \A l \in Lines : units[l] <= Quantity[l]
            BY <1>1, DueFacts
      <2> QED BY <1>4, <2>1 DEF DueInv
<1> QED BY <1>3, <1>4, <1>5, <1>6, <1>7, StillKeepsUInv

\* A transaction opens and sees the rows as they are; a ship or a deliver gets
\* the lock only if nobody has it.
LEMMA OpenKeepsUInv ==
    ASSUME IInv, IInv', UInv, NEW h \in Handlers, Open(h)
    PROVE  UInv'
<1>1. /\ pc[h] = "ready" /\ Allowed(h, Now)
      /\ req[h].kind \in {"ship", "deliver"} => ~Locked(req[h].fulfillment)
      /\ pc' = [pc EXCEPT ![h] = "open"] /\ seen' = [seen EXCEPT ![h] = Now]
      /\ req' = req /\ due' = due
      /\ order' = order /\ line' = line /\ fulfillment' = fulfillment
      /\ released' = released /\ sold' = sold
      BY DEF Open, CanOpen, outside, rows
<1>2. pc'[h] = "open" /\ seen'[h] = Now /\ Bystanders(h)
      BY <1>1 DEF Bystanders, IInv, TypeInv, HandlersTyped
<1>3. due' \in [Handlers -> Units] /\ DueInv(h)'
      BY <1>1, <1>2 DEF UInv, UnitsTyped, DueInv
<1>4. Locks(h)' => \A k \in Handlers \ {h} :
                       Locks(k) => req[k].fulfillment # req'[h].fulfillment
      BY <1>1 DEF Locks, Locked
<1>5. /\ Now.line = line /\ Now.order = order /\ Now.fulfillment = fulfillment
      BY DEF Now
<1>6. req[h].kind = "ship" => fulfillment[req[h].fulfillment].status = "pending"
      BY <1>1, <1>5 DEF Allowed, CanShip
<1>7. req[h].kind = "cancelOrder" => order.status = "pending"
      BY <1>1, <1>5 DEF Allowed, CanCancelOrder
<1>8. req[h].kind = "deliver" /\ EveryFulfillmentDelivered(AfterDeliver(h, Now)) =>
          order.status # "cancelled"
      BY <1>1, <1>5 DEF Allowed, CanDeliver
<1>9. ASSUME req[h].kind = "cancelLine", NEW l \in Lines, req[h].units[l] > 0
      PROVE  req[h].units[l] <= Active(Now, l)
      <2>1. req[h].units[l] <= Active(Now, l) - Planned(Now, l)
            BY <1>1, <1>9 DEF Allowed, CanCancelLine
      <2>2. Planned(Now, l) \in Nat
            <3> DEFINE S == WithStatus(Now, CountsTowardFulfilled)
                       u == [f \in S |-> Now.fulfillment[f].quantity[l]]
            <3>1. IsFiniteSet(S)
                  BY FulfillmentsFinite, FS_Subset DEF WithStatus
            <3>2. \A f \in S : u[f] \in Nat
                  BY <1>5 DEF WithStatus, IInv, TypeInv, RowsTyped, FulfillmentRow, Units
            <3>3. Planned(Now, l) = Together(u, S)
                  BY DEF Planned, UnitsIn
            <3> HIDE DEF S, u
            <3> QED BY <3>1, <3>2, <3>3, TogetherIsNat
      <2>3. req[h].units[l] \in Nat /\ Active(Now, l) \in Int
            <3>1. req[h].units \in Units
                  BY OrderPayloads DEF IInv, TypeInv, HandlersTyped, Request, NoRequest,
                                       NoUnits, Units
            <3> QED BY <3>1, DueFacts, ShippedIsAway DEF Units
      <2> QED BY <2>1, <2>2, <2>3
<1>10. SnapshotInv(h)'
      <2>1. DeliversOrder(h)' <=> EveryFulfillmentDelivered(AfterDeliver(h, Now))
            BY <1>1, <1>2 DEF DeliversOrder, AfterDeliver
      <2>2. \A l \in Lines : Active(seen[h], l)' = Active(Now, l)
            BY <1>2, <1>5 DEF Active
      <2> QED BY <1>1, <1>2, <1>5, <1>6, <1>7, <1>8, <1>9, <2>1, <2>2 DEF SnapshotInv
<1>11. pc'[h] \notin {"release", "sale"}
      BY <1>2
<1> QED BY <1>1, <1>2, <1>3, <1>4, <1>10, <1>11, StillKeepsUInv

-----------------------------------------------------------------------------
(* The steps that write them. *)

\* A new parcel is pending: it has not left.
LEMMA InsertKeepsUInv ==
    ASSUME IInv, IInv', UInv, NEW h \in Handlers, InsertFulfillment(h)
    PROVE  UInv'
<1>1. PICK f \in Fulfillments :
         /\ fulfillment[f].status = "none"
         /\ fulfillment' = [fulfillment EXCEPT ![f] =
                               [status |-> "pending", quantity |-> req[h].units]]
      BY DEF InsertFulfillment
<1>2. /\ order' = order /\ line' = line /\ released' = released /\ sold' = sold /\ End(h)
      BY DEF InsertFulfillment, outside
<1>3. /\ Bystanders(h) /\ due' \in [Handlers -> Units] /\ pc'[h] = "idle"
      /\ SnapshotInv(h)' /\ DueInv(h)' /\ ~Locks(h)'
      BY <1>2, EndFacts
<1>4. UnitsTyped'
      BY <1>2, <1>3 DEF UInv, UnitsTyped
<1>5. /\ fulfillment'[f].status = "pending"
      /\ \A g \in Fulfillments : g # f => fulfillment'[g] = fulfillment[g]
      BY <1>1 DEF IInv, TypeInv, RowsTyped
<1>6. /\ Away(fulfillment') = Away(fulfillment)
      /\ \A g \in Away(fulfillment) : fulfillment'[g] = fulfillment[g]
      BY <1>1, <1>5 DEF Away, CountsTowardShipped
<1>7. UnitsStep(h)
      BY <1>1, <1>2, <1>5 DEF UnitsStep, CountsTowardShipped
<1>8. \A l \in Lines : line'[l].cancelled >= line[l].cancelled
      BY <1>2, DueFacts
<1>9. /\ RollUpIsTrue'
      /\ \A l \in Lines : AwayUnits(fulfillment', l) = AwayUnits(fulfillment, l)
      BY <1>2, <1>6, <1>8, RollUpStays DEF UInv
<1>10. \A l \in Lines : AwayUnits(fulfillment', l) >= AwayUnits(fulfillment, l)
      <2>1. fulfillment \in [Fulfillments -> FulfillmentRow]
            BY DEF IInv, TypeInv, RowsTyped
      <2>2. \A l \in Lines : AwayUnits(fulfillment, l) \in Nat
            BY <2>1, AwayIsNat
      <2> QED BY <1>9, <2>2
<1>11. StockMovesOnce' /\ CancelInv'
      BY <1>2, <1>3, <1>4, <1>8, <1>10, QuietSums
<1> QED BY <1>3, <1>4, <1>7, <1>9, <1>11, StepKeepsUInv

\* The capture changes the payment axis only.
LEMMA CommitCaptureKeepsUInv ==
    ASSUME IInv, IInv', UInv, NEW h \in Handlers, CommitCapture(h)
    PROVE  UInv'
<1>1. /\ pc[h] = "open" /\ VersionMatches(h) /\ End(h)
      /\ order' = [seen[h].order EXCEPT !.paymentStatus = "captured", !.version = @ + 1]
      /\ line' = line /\ fulfillment' = fulfillment /\ released' = released /\ sold' = sold
      BY DEF CommitCapture, Committing, outside
<1>2. /\ order'.version = order.version + 1 /\ order'.status = order.status
      /\ order'.fulfillmentStatus = order.fulfillmentStatus
      <2>1. order' = [order EXCEPT !.paymentStatus = "captured", !.version = @ + 1]
            BY <1>1, CommitFacts
      <2> QED BY <2>1 DEF IInv, TypeInv, RowsTyped, OrderRow
<1>3. /\ Bystanders(h) /\ due' \in [Handlers -> Units] /\ pc'[h] = "idle"
      /\ SnapshotInv(h)' /\ DueInv(h)' /\ ~Locks(h)'
      BY <1>1, EndFacts
<1>4. UnitsTyped'
      BY <1>1, <1>3 DEF UInv, UnitsTyped
<1>5. \A l \in Lines : /\ line'[l].cancelled >= line[l].cancelled
                       /\ AwayUnits(fulfillment', l) >= AwayUnits(fulfillment, l)
      <2>1. fulfillment \in [Fulfillments -> FulfillmentRow]
            BY DEF IInv, TypeInv, RowsTyped
      <2>2. \A l \in Lines : AwayUnits(fulfillment, l) \in Nat
            BY <2>1, AwayIsNat
      <2> QED BY <1>1, <2>2, DueFacts
<1>6. RollUpIsTrue'
      BY <1>1, <1>2, <1>5, RollUpStays DEF UInv
<1>7. StockMovesOnce' /\ CancelInv'
      BY <1>1, <1>2, <1>3, <1>4, <1>5, QuietSums
<1>8. UnitsStep(h)
      BY <1>1, <1>2 DEF UnitsStep
<1> QED BY <1>3, <1>4, <1>6, <1>7, <1>8, StepKeepsUInv

\* What was delivered had left before.
LEMMA CommitDeliverKeepsUInv ==
    ASSUME IInv, IInv', UInv, NEW h \in Handlers, CommitDeliver(h)
    PROVE  UInv'
<1> DEFINE f == req[h].fulfillment
<1>1. /\ pc[h] = "open" /\ req[h].kind = "deliver" /\ End(h)
      /\ fulfillment' = [fulfillment EXCEPT ![f].status = "delivered"]
      /\ \/ /\ VersionMatches(h) /\ DeliversOrder(h)
            /\ order' = [seen[h].order EXCEPT !.status = "delivered",
                                              !.fulfillmentStatus = "delivered",
                                              !.version = @ + 1]
         \/ order' = order
      /\ line' = line /\ released' = released /\ sold' = sold
      BY DEF CommitDeliver, Committing, outside
<1>2. f \in Fulfillments /\ fulfillment[f].status \in CountsTowardShipped
      BY <1>1, NamesFulfillment DEF IInv, HandlerInv, OpenInv
<1>3. /\ \/ order' = order
         \/ /\ order'.version = order.version + 1 /\ order'.status = "delivered"
            /\ order'.fulfillmentStatus = "delivered" /\ order.status # "cancelled"
      <2>1. CASE VersionMatches(h) /\ DeliversOrder(h) /\ order' = [seen[h].order EXCEPT
                    !.status = "delivered", !.fulfillmentStatus = "delivered",
                    !.version = @ + 1]
            <3>1. seen[h].order = order /\ order.status # "cancelled"
                  BY <1>1, <2>1, CommitFacts DEF UInv, SnapshotInv
            <3>2. order \in OrderRow
                  BY DEF IInv, TypeInv, RowsTyped
            <3> QED BY <2>1, <3>1, <3>2 DEF OrderRow
      <2> QED BY <1>1, <2>1
<1>4. /\ Bystanders(h) /\ due' \in [Handlers -> Units] /\ pc'[h] = "idle"
      /\ SnapshotInv(h)' /\ DueInv(h)' /\ ~Locks(h)'
      BY <1>1, EndFacts
<1>5. UnitsTyped'
      BY <1>1, <1>4 DEF UInv, UnitsTyped
<1>6. /\ fulfillment'[f].status = "delivered"
      /\ fulfillment'[f].quantity = fulfillment[f].quantity
      /\ \A g \in Fulfillments : g # f => fulfillment'[g] = fulfillment[g]
      BY <1>1, <1>2 DEF IInv, TypeInv, RowsTyped, FulfillmentRow
<1> HIDE DEF f
<1>7. /\ Away(fulfillment') = Away(fulfillment) /\ Away(fulfillment) # {}
      /\ \A g \in Away(fulfillment) : fulfillment'[g].quantity = fulfillment[g].quantity
      BY <1>2, <1>6 DEF Away, CountsTowardShipped
<1>8. \A l \in Lines : line'[l].cancelled >= line[l].cancelled
      BY <1>1, DueFacts
<1>9. /\ RollUpIsTrue'
      /\ \A l \in Lines : AwayUnits(fulfillment', l) = AwayUnits(fulfillment, l)
      BY <1>1, <1>3, <1>7, <1>8, RollUpStays DEF UInv
<1>10. \A l \in Lines : AwayUnits(fulfillment', l) >= AwayUnits(fulfillment, l)
      <2>1. fulfillment \in [Fulfillments -> FulfillmentRow]
            BY DEF IInv, TypeInv, RowsTyped
      <2>2. \A l \in Lines : AwayUnits(fulfillment, l) \in Nat
            BY <2>1, AwayIsNat
      <2> QED BY <1>9, <2>2
<1>11. StockMovesOnce' /\ CancelInv'
      BY <1>1, <1>3, <1>4, <1>5, <1>8, <1>10, QuietSums
<1>12. UnitsStep(h)
      BY <1>1, <1>2, <1>3, <1>6 DEF UnitsStep, CountsTowardShipped
<1> QED BY <1>4, <1>5, <1>9, <1>11, <1>12, StepKeepsUInv

\* The call to the inventory service follows; the transaction is over.
LEMMA CallFacts ==
    ASSUME IInv, UInv, NEW h \in Handlers, NEW label \in {"release", "sale"},
           NEW units \in Units, CallInventory(h, label, units),
           label = "release" => req[h].kind \in {"cancelOrder", "cancelLine"}
    PROVE  /\ Bystanders(h) /\ due' \in [Handlers -> Units] /\ pc'[h] = label
           /\ due'[h] = units /\ req' = req
           /\ SnapshotInv(h)' /\ DueInv(h)' /\ ~Locks(h)'
<1>1. /\ pc' = [pc EXCEPT ![h] = label] /\ req' = req
      /\ seen' = [seen EXCEPT ![h] = Placed] /\ due' = [due EXCEPT ![h] = units]
      BY DEF CallInventory
<1>2. pc'[h] = label /\ due'[h] = units /\ Bystanders(h)
      BY <1>1 DEF Bystanders, IInv, TypeInv, HandlersTyped, UInv, UnitsTyped
<1>3. due' \in [Handlers -> Units]
      BY <1>1 DEF UInv, UnitsTyped
<1> QED BY <1>1, <1>2, <1>3 DEF SnapshotInv, DueInv, Locks

\* The numbers that the sums are compared with.
LEMMA Numbers ==
    ASSUME IInv, UInv, NEW l \in Lines
    PROVE  /\ released["line-cancelled"][l] \in Nat /\ released["order-cancelled"][l] \in Nat
           /\ sold[l] \in Nat /\ line[l].cancelled \in Nat /\ Quantity[l] \in Nat
           /\ AwayUnits(fulfillment, l) \in Nat
           /\ released["line-cancelled"][l] + Together(DueOf(l), Releasing("cancelLine"))
                 <= line[l].cancelled
           /\ released["order-cancelled"][l] + Together(DueOf(l), Releasing("cancelOrder"))
                 <= Quantity[l]
           /\ sold[l] + Together(DueOf(l), Selling) <= AwayUnits(fulfillment, l)
<1>1. /\ released \in [{"order-cancelled", "line-cancelled"} -> Units] /\ sold \in Units
      BY DEF UInv, UnitsTyped
<1>2. /\ line \in [Lines -> LineRow] /\ fulfillment \in [Fulfillments -> FulfillmentRow]
      BY DEF IInv, TypeInv, RowsTyped
<1>3. /\ released["line-cancelled"][l] \in Nat /\ released["order-cancelled"][l] \in Nat
      /\ sold[l] \in Nat /\ line[l].cancelled \in Nat /\ Quantity[l] \in Nat
      /\ AwayUnits(fulfillment, l) \in Nat
      BY <1>1, <1>2, AwayIsNat, OrderedUnits DEF Units, LineRow
<1> QED BY <1>3, ShippedIsAway
        DEF UInv, StockMovesOnce, EachCancellationReleasesOnce, SoldWasShipped

\* The lines a ship writes: a line is called shipped if it is, or was before.
LEMMA AdvanceTells ==
    ASSUME NEW s, NEW l \in Lines, s.line[l] \in LineRow
    PROVE  /\ AdvanceLine(s, l).cancelled = s.line[l].cancelled
           /\ AdvanceLine(s, l).status = "shipped" =>
                 \/ s.line[l].status = "shipped"
                 \/ Shipped(s, l) >= Active(s, l)
<1> DEFINE row == s.line[l]
           units == Shipped(s, l)
           active == Active(s, l)
<1>1. \/ AdvanceLine(s, l) = row
      \/ AdvanceLine(s, l) = [row EXCEPT !.status = "shipped"] /\ units >= active
      \/ AdvanceLine(s, l) = [row EXCEPT !.status = "partially-shipped"]
      BY DEF AdvanceLine
<1>2. row \in LineRow
      OBVIOUS
<1> HIDE DEF row, units, active
<1>3. /\ AdvanceLine(s, l).cancelled = row.cancelled
      /\ AdvanceLine(s, l).status = "shipped" => row.status = "shipped" \/ units >= active
      BY <1>1, <1>2 DEF LineRow
<1> QED BY <1>3 DEF row, units, active

\* A ship: the parcel was pending under its lock, so its units are new.
LEMMA CommitShipKeepsUInv ==
    ASSUME IInv, IInv', UInv, NEW h \in Handlers, CommitShip(h)
    PROVE  UInv'
<1> DEFINE f == req[h].fulfillment
           after == AfterShip(h, seen[h])
<1>1. /\ pc[h] = "open" /\ req[h].kind = "ship" /\ VersionMatches(h)
      /\ fulfillment' = [fulfillment EXCEPT ![f].status = "shipped"]
      /\ order' = [seen[h].order EXCEPT
                      !.paymentStatus = IF paid[h] THEN "captured" ELSE @,
                      !.fulfillmentStatus = RollUp(after),
                      !.version = @ + 1]
      /\ line' = [l \in Lines |-> AdvanceLine(after, l)]
      /\ CallInventory(h, "sale", fulfillment[f].quantity)
      /\ released' = released /\ sold' = sold
      BY DEF CommitShip, Committing, outside
<1>2. /\ f \in Fulfillments /\ fulfillment[f] \in FulfillmentRow
      /\ fulfillment[f].status = "pending"
      /\ seen[h].fulfillment[f].status = "pending"
      /\ seen[h].line = line /\ seen[h] \in Snapshot
      BY <1>1, NamesFulfillment
         DEF IInv, TypeInv, RowsTyped, HandlersTyped, UInv, SnapshotInv
<1>3. fulfillment[f].quantity \in Units
      BY <1>2 DEF FulfillmentRow
<1>4. /\ Bystanders(h) /\ due' \in [Handlers -> Units] /\ pc'[h] = "sale"
      /\ due'[h] = fulfillment[f].quantity /\ req' = req
      /\ SnapshotInv(h)' /\ DueInv(h)' /\ ~Locks(h)'
      BY <1>1, <1>3, CallFacts
<1>5. /\ fulfillment'[f].status = "shipped"
      /\ fulfillment'[f].quantity = fulfillment[f].quantity
      /\ \A g \in Fulfillments : g # f => fulfillment'[g] = fulfillment[g]
      BY <1>1, <1>2 DEF IInv, TypeInv, RowsTyped, FulfillmentRow
<1>6. /\ Away(fulfillment') = Away(fulfillment) \cup {f} /\ f \notin Away(fulfillment)
      /\ \A g \in Away(fulfillment') : fulfillment'[g].quantity = fulfillment[g].quantity
      BY <1>2, <1>5 DEF Away, CountsTowardShipped
<1>7. \A l \in Lines :
         AwayUnits(fulfillment', l) = AwayUnits(fulfillment, l) + fulfillment[f].quantity[l]
      <2>1. /\ fulfillment \in [Fulfillments -> FulfillmentRow]
            /\ fulfillment' \in [Fulfillments -> FulfillmentRow]
            BY DEF IInv, TypeInv, RowsTyped
      <2> HIDE DEF f
      <2> QED BY <1>2, <1>6, <2>1, AwayAdds
<1>8. after.line = line
      BY <1>2 DEF AfterShip, With, Snapshot
<1>9. /\ Away(after.fulfillment) = Away(fulfillment')
      /\ \A g \in Away(fulfillment') :
            after.fulfillment[g].quantity = fulfillment'[g].quantity
      <2>1. /\ after.fulfillment = [seen[h].fulfillment EXCEPT ![f].status = "shipped"]
            /\ seen[h].fulfillment \in [Fulfillments -> FulfillmentRow]
            BY <1>2 DEF AfterShip, With, Snapshot
      <2>2. /\ after.fulfillment[f].status = "shipped"
            /\ after.fulfillment[f].quantity = seen[h].fulfillment[f].quantity
            /\ \A g \in Fulfillments : g # f =>
                   after.fulfillment[g] = seen[h].fulfillment[g]
            BY <1>2, <2>1 DEF FulfillmentRow
      <2>3. \A g \in Fulfillments :
               /\ seen[h].fulfillment[g].status \in CountsTowardShipped
                     <=> fulfillment[g].status \in CountsTowardShipped
               /\ seen[h].fulfillment[g].status # "none" =>
                     fulfillment[g].quantity = seen[h].fulfillment[g].quantity
            BY <1>1, CommitFacts DEF UInv, SnapshotInv
      <2> HIDE DEF after, f
      <2> QED BY <1>2, <1>5, <2>2, <2>3 DEF Away, CountsTowardShipped
<1>10. \A l \in Lines : /\ Shipped(after, l) = AwayUnits(fulfillment', l)
                        /\ Active(after, l) = Active(Now, l)
      <2> HIDE DEF after
      <2>1. \A l \in Lines : AwayUnits(after.fulfillment, l) = AwayUnits(fulfillment', l)
            BY <1>9, AwaySame
      <2> QED BY <1>8, <2>1, ShippedIsAway DEF Active
<1>11. \A l \in Lines :
          /\ line'[l].cancelled = line[l].cancelled
          /\ line'[l].status = "shipped" =>
                \/ line[l].status = "shipped"
                \/ Shipped(after, l) >= Active(after, l)
      <2>1. \A l \in Lines : line[l] \in LineRow
            BY DEF IInv, TypeInv, RowsTyped
      <2> HIDE DEF after
      <2> QED BY <1>1, <1>8, <2>1, AdvanceTells
<1>12. /\ order'.version = order.version + 1 /\ order'.status = order.status
       /\ order'.fulfillmentStatus = RollUp(after)
      <2> HIDE DEF after
      <2>1. order' = [order EXCEPT !.paymentStatus = IF paid[h] THEN "captured" ELSE @,
                                   !.fulfillmentStatus = RollUp(after),
                                   !.version = @ + 1]
            BY <1>1, CommitFacts
      <2>2. order \in OrderRow
            BY DEF IInv, TypeInv, RowsTyped
      <2>3. DOMAIN order = {"status", "paymentStatus", "fulfillmentStatus", "version"}
            BY <2>2 DEF OrderRow
      <2> QED BY <2>1, <2>3
<1> HIDE DEF f, after
<1>13. UnitsTyped'
      BY <1>1, <1>4, <1>11 DEF UInv, UnitsTyped
<1>14. \A l \in Lines : Shipped(Now, l) >= Active(Now, l) =>
                           Shipped(Now, l)' >= Active(Now, l)'
      <2> SUFFICES ASSUME NEW l \in Lines, Shipped(Now, l) >= Active(Now, l)
                   PROVE  Shipped(Now, l)' >= Active(Now, l)'
            OBVIOUS
      <2>1. /\ AwayUnits(fulfillment, l) \in Nat /\ fulfillment[f].quantity[l] \in Nat
            /\ line[l].cancelled \in Nat /\ Quantity[l] \in Nat
            BY <1>3, Numbers DEF Units
      <2> QED BY <1>7, <1>11, <2>1, ShippedIsAway
<1>15. \A l \in Lines : Shipped(after, l) >= Active(after, l) =>
                           Shipped(Now, l)' >= Active(Now, l)'
      BY <1>10, <1>11, ShippedIsAway
<1>16. RollUpIsTrue'
      <2>1. order'.fulfillmentStatus = "shipped" =>
               \A l \in Lines : Shipped(Now, l)' >= Active(Now, l)'
            <3> SUFFICES ASSUME RollUp(after) = "shipped", NEW l \in Lines
                         PROVE  Shipped(Now, l)' >= Active(Now, l)'
                  BY <1>12
            <3>1. Active(after, l) = 0 \/ Shipped(after, l) >= Active(after, l)
                  BY DEF RollUp
            <3>2. Shipped(after, l) \in Nat
                  <4>1. fulfillment' \in [Fulfillments -> FulfillmentRow]
                        BY DEF IInv, TypeInv, RowsTyped
                  <4> QED BY <1>10, <4>1, AwayIsNat
            <3> QED BY <1>15, <3>1, <3>2
      <2>2. \A l \in Lines : line'[l].status = "shipped" =>
               Shipped(Now, l)' >= Active(Now, l)'
            BY <1>11, <1>14, <1>15 DEF UInv, RollUpIsTrue
      <2>3. order'.fulfillmentStatus # "unfulfilled" /\ Away(fulfillment') # {}
            BY <1>6, <1>12 DEF RollUp
      <2> QED BY <2>1, <2>2, <2>3, ShippedIsAway DEF RollUpIsTrue
<1>17. /\ h \notin Selling /\ h \in Selling'
       /\ h \notin Releasing("cancelLine") /\ h \notin Releasing("cancelLine")'
       /\ h \notin Releasing("cancelOrder") /\ h \notin Releasing("cancelOrder")'
      BY <1>1, <1>4 DEF Selling, Releasing
<1>18. due \in [Handlers -> Units]
      BY DEF UInv, UnitsTyped
<1>19. ASSUME NEW l \in Lines
       PROVE  /\ released'["line-cancelled"][l] + Together(DueOf(l)', Releasing("cancelLine")')
                    <= line'[l].cancelled
              /\ released'["order-cancelled"][l] + Together(DueOf(l)', Releasing("cancelOrder")')
                    <= Quantity[l]
              /\ sold'[l] + Together(DueOf(l)', Selling') <= AwayUnits(fulfillment', l)
      <2>1. /\ Together(DueOf(l)', Releasing("cancelLine")') \in Nat
            /\ Together(DueOf(l), Releasing("cancelLine")) \in Nat
            /\ Together(DueOf(l)', Releasing("cancelLine")')
                  <= Together(DueOf(l), Releasing("cancelLine"))
            BY <1>4, <1>17, <1>18, ReleasingMoves, SellingMoves
      <2>2. /\ Together(DueOf(l)', Releasing("cancelOrder")') \in Nat
            /\ Together(DueOf(l), Releasing("cancelOrder")) \in Nat
            /\ Together(DueOf(l)', Releasing("cancelOrder")')
                  <= Together(DueOf(l), Releasing("cancelOrder"))
            BY <1>4, <1>17, <1>18, ReleasingMoves, SellingMoves
      <2>3. /\ Together(DueOf(l), Selling) \in Nat /\ Together(DueOf(l)', Selling') \in Nat
            /\ Together(DueOf(l)', Selling') = Together(DueOf(l), Selling) + due'[h][l]
            /\ due'[h][l] \in Nat
            BY <1>4, <1>17, <1>18, ReleasingMoves, SellingMoves
      <2>4. /\ due'[h][l] = fulfillment[f].quantity[l]
            /\ line'[l].cancelled = line[l].cancelled
            /\ AwayUnits(fulfillment', l)
                  = AwayUnits(fulfillment, l) + fulfillment[f].quantity[l]
            BY <1>4, <1>7, <1>11
      <2>5. released' = released /\ sold' = sold
            BY <1>1
      <2> QED BY <2>1, <2>2, <2>3, <2>4, <2>5, Numbers
<1>20. StockMovesOnce'
      BY <1>19, ShippedIsAway DEF StockMovesOnce, EachCancellationReleasesOnce, SoldWasShipped
<1>21. CancelInv'
      <2>1. Releasing("cancelOrder")' = Releasing("cancelOrder")
            <3>1. Releasing("cancelOrder")' \ {h} = Releasing("cancelOrder") \ {h}
                  BY <1>4, OthersCall
            <3> QED BY <1>17, <3>1
      <2> QED BY <1>1, <1>12, <2>1 DEF UInv, CancelInv
<1>22. UnitsStep(h)
      <2>1. \A k \in Handlers \ {h} : Locks(k) => req[k].fulfillment # f
            BY <1>1 DEF UInv, OneLock, Locks, f
      <2> QED BY <1>2, <1>5, <1>12, <2>1 DEF UnitsStep, CountsTowardShipped
<1> QED BY <1>4, <1>13, <1>16, <1>20, <1>21, <1>22, StepKeepsUInv

\* A cancellation cancels what is pending and not locked; what it gives back
\* is the first that is given back on account of the order.
LEMMA CommitCancelOrderKeepsUInv ==
    ASSUME IInv, IInv', UInv, NEW h \in Handlers, CommitCancelOrder(h)
    PROVE  UInv'
<1>1. /\ pc[h] = "open" /\ req[h].kind = "cancelOrder" /\ VersionMatches(h)
      /\ \A f \in ReRead(h) : ~Locked(f)
      /\ order' = [seen[h].order EXCEPT !.status = "cancelled", !.version = @ + 1]
      /\ fulfillment' = [g \in Fulfillments |->
                            IF g \in ReRead(h) /\ fulfillment[g].status = "pending"
                            THEN [fulfillment[g] EXCEPT !.status = "cancelled"]
                            ELSE fulfillment[g]]
      /\ End(h) \/ CallInventory(h, "release", due[h])
      /\ line' = line /\ released' = released /\ sold' = sold
      BY DEF CommitCancelOrder, RowsFree, Committing, outside
<1>2. /\ due \in [Handlers -> Units] /\ due[h] \in Units
      /\ order.status = "pending" /\ \A l \in Lines : due[h][l] <= Quantity[l]
      BY <1>1, CommitFacts DEF UInv, UnitsTyped, SnapshotInv, DueInv
<1>3. /\ order'.version = order.version + 1 /\ order'.status = "cancelled"
      /\ order'.fulfillmentStatus = order.fulfillmentStatus
      <2>1. order' = [order EXCEPT !.status = "cancelled", !.version = @ + 1]
            BY <1>1, CommitFacts
      <2> QED BY <2>1 DEF IInv, TypeInv, RowsTyped, OrderRow
<1>4. /\ Bystanders(h) /\ due' \in [Handlers -> Units]
      /\ SnapshotInv(h)' /\ DueInv(h)' /\ ~Locks(h)'
      /\ \/ pc'[h] = "idle"
         \/ pc'[h] = "release" /\ due'[h] = due[h] /\ req' = req
      BY <1>1, <1>2, EndFacts, CallFacts
<1>5. UnitsTyped'
      BY <1>1, <1>4 DEF UInv, UnitsTyped
<1>6. \A g \in Fulfillments :
         \/ fulfillment'[g] = fulfillment[g]
         \/ /\ g \in ReRead(h) /\ fulfillment[g].status = "pending"
            /\ fulfillment'[g].status = "cancelled"
            /\ fulfillment'[g].quantity = fulfillment[g].quantity
      <2> SUFFICES ASSUME NEW g \in Fulfillments,
                          g \in ReRead(h) /\ fulfillment[g].status = "pending"
                   PROVE  /\ fulfillment'[g].status = "cancelled"
                          /\ fulfillment'[g].quantity = fulfillment[g].quantity
            BY <1>1
      <2>1. fulfillment[g] \in FulfillmentRow
            BY DEF IInv, TypeInv, RowsTyped
      <2>2. fulfillment'[g] = [fulfillment[g] EXCEPT !.status = "cancelled"]
            BY <1>1
      <2> QED BY <2>1, <2>2 DEF FulfillmentRow
<1>7. /\ Away(fulfillment') = Away(fulfillment)
      /\ \A g \in Away(fulfillment) : fulfillment'[g].quantity = fulfillment[g].quantity
      BY <1>6 DEF Away, CountsTowardShipped
<1>8. \A l \in Lines : line'[l].cancelled >= line[l].cancelled
      BY <1>1, DueFacts
<1>9. /\ RollUpIsTrue'
      /\ \A l \in Lines : AwayUnits(fulfillment', l) = AwayUnits(fulfillment, l)
      BY <1>1, <1>3, <1>7, <1>8, RollUpStays DEF UInv
<1>10. UnitsStep(h)
      <2>1. \A g \in ReRead(h) : \A k \in Handlers \ {h} : Locks(k) => req[k].fulfillment # g
            BY <1>1 DEF Locked, Locks
      <2> QED BY <1>3, <1>6, <2>1 DEF UnitsStep, CountsTowardShipped
<1>11. StockMovesOnce' /\ CancelInv'
      <2>1. CASE pc'[h] = "idle"
            <3>1. \A l \in Lines : AwayUnits(fulfillment', l) >= AwayUnits(fulfillment, l)
                  BY <1>9, Numbers
            <3>2. pc'[h] \notin {"release", "sale"}
                  BY <2>1
            <3> QED BY <1>1, <1>3, <1>4, <1>5, <1>8, <3>1, <3>2, QuietSums
      <2>2. CASE pc'[h] = "release" /\ due'[h] = due[h] /\ req' = req
            <3>1. /\ h \notin Selling /\ h \notin Selling'
                  /\ h \notin Releasing("cancelLine") /\ h \notin Releasing("cancelLine")'
                  /\ h \in Releasing("cancelOrder")' /\ Releasing("cancelOrder") = {}
                  /\ released["order-cancelled"] = NoUnits
                  BY <1>1, <1>2, <2>2 DEF Selling, Releasing, UInv, CancelInv
            <3>2. ASSUME NEW l \in Lines
                  PROVE  /\ released'["line-cancelled"][l]
                               + Together(DueOf(l)', Releasing("cancelLine")') <= line'[l].cancelled
                         /\ released'["order-cancelled"][l]
                               + Together(DueOf(l)', Releasing("cancelOrder")') <= Quantity[l]
                         /\ sold'[l] + Together(DueOf(l)', Selling') <= AwayUnits(fulfillment', l)
                  <4>1. /\ Together(DueOf(l)', Releasing("cancelLine")') \in Nat
                        /\ Together(DueOf(l), Releasing("cancelLine")) \in Nat
                        /\ Together(DueOf(l)', Releasing("cancelLine")')
                              <= Together(DueOf(l), Releasing("cancelLine"))
                        BY <1>2, <1>4, <3>1, ReleasingMoves, SellingMoves
                  <4>2. /\ Together(DueOf(l)', Selling') \in Nat
                        /\ Together(DueOf(l), Selling) \in Nat
                        /\ Together(DueOf(l)', Selling') <= Together(DueOf(l), Selling)
                        BY <1>2, <1>4, <3>1, ReleasingMoves, SellingMoves
                  <4>3. h \notin Releasing("cancelOrder") /\ h \in Releasing("cancelOrder")'
                        BY <2>2, <3>1, <1>1 DEF Releasing
                  <4>4. Together(DueOf(l)', Releasing("cancelOrder")')
                           = Together(DueOf(l), Releasing("cancelOrder")) + due'[h][l]
                        BY <1>2, <1>4, <4>3, ReleasingMoves
                  <4>5. Together(DueOf(l), Releasing("cancelOrder")) = 0
                        BY <3>1, TogetherOfNone
                  <4>6. released["order-cancelled"][l] = 0
                        BY <3>1, DueFacts
                  <4>7. /\ due'[h][l] <= Quantity[l] /\ due'[h][l] \in Nat
                        BY <1>2, <2>2 DEF Units
                  <4> QED BY <1>1, <1>9, <4>1, <4>2, <4>4, <4>5, <4>6, <4>7, Numbers
            <3>3. StockMovesOnce'
                  BY <3>2, ShippedIsAway
                     DEF StockMovesOnce, EachCancellationReleasesOnce, SoldWasShipped
            <3>4. CancelInv'
                  BY <1>3 DEF CancelInv
            <3> QED BY <3>3, <3>4
      <2> QED BY <1>4, <2>1, <2>2
<1> QED BY <1>4, <1>5, <1>9, <1>10, <1>11, StepKeepsUInv

\* Cancelled units are units the line still has; they are to be given back.
LEMMA CommitCancelLineKeepsUInv ==
    ASSUME IInv, IInv', UInv, NEW h \in Handlers, CommitCancelLine(h)
    PROVE  UInv'
<1>1. /\ pc[h] = "open" /\ req[h].kind = "cancelLine" /\ VersionMatches(h)
      /\ line' = [l \in Lines |->
                   LET left == Active(seen[h], l) - req[h].units[l] IN
                   [status |-> IF req[h].units[l] > 0 /\ left = 0 THEN "cancelled"
                               ELSE seen[h].line[l].status,
                    cancelled |-> seen[h].line[l].cancelled + req[h].units[l]]]
      /\ order' = [seen[h].order EXCEPT !.version = @ + 1]
      /\ CallInventory(h, "release", req[h].units)
      /\ fulfillment' = fulfillment /\ released' = released /\ sold' = sold
      BY DEF CommitCancelLine, Committing, outside
<1>2. /\ seen[h].line = line
      /\ \A l \in Lines : req[h].units[l] > 0 => req[h].units[l] <= Active(seen[h], l)
      BY <1>1 DEF UInv, SnapshotInv
<1>3. req[h].units \in Units
      BY OrderPayloads DEF IInv, TypeInv, HandlersTyped, Request, NoRequest, NoUnits, Units
<1>4. /\ Bystanders(h) /\ due' \in [Handlers -> Units] /\ pc'[h] = "release"
      /\ due'[h] = req[h].units /\ req' = req
      /\ SnapshotInv(h)' /\ DueInv(h)' /\ ~Locks(h)'
      BY <1>1, <1>3, CallFacts
<1>5. /\ order'.version = order.version + 1 /\ order'.status = order.status
      /\ order'.fulfillmentStatus = order.fulfillmentStatus
      <2>1. order' = [order EXCEPT !.version = @ + 1]
            BY <1>1, CommitFacts
      <2> QED BY <2>1 DEF IInv, TypeInv, RowsTyped, OrderRow
<1>6. \A l \in Lines :
         /\ line'[l].cancelled = line[l].cancelled + req[h].units[l]
         /\ line'[l].status = "shipped" => line[l].status = "shipped"
         /\ req[h].units[l] \in Nat
         /\ line'[l].cancelled <= Quantity[l]
      <2> SUFFICES ASSUME NEW l \in Lines
                   PROVE  /\ line'[l].cancelled = line[l].cancelled + req[h].units[l]
                          /\ line'[l].status = "shipped" => line[l].status = "shipped"
                          /\ req[h].units[l] \in Nat
                          /\ line'[l].cancelled <= Quantity[l]
            OBVIOUS
      <2>1. /\ line'[l].cancelled = line[l].cancelled + req[h].units[l]
            /\ line'[l].status = "shipped" => line[l].status = "shipped"
            BY <1>1, <1>2
      <2>2. req[h].units[l] \in Nat
            BY <1>3 DEF Units
      <2>3. Active(seen[h], l) = Quantity[l] - line[l].cancelled
            BY <1>2 DEF Active
      <2> QED BY <1>2, <2>1, <2>2, <2>3, DueFacts
<1>7. UnitsTyped'
      BY <1>1, <1>4, <1>6 DEF UInv, UnitsTyped
<1>8. \A l \in Lines : line'[l].cancelled >= line[l].cancelled
      BY <1>6, DueFacts
<1>9. /\ RollUpIsTrue'
      /\ \A l \in Lines : AwayUnits(fulfillment', l) = AwayUnits(fulfillment, l)
      BY <1>1, <1>5, <1>6, <1>8, RollUpStays DEF UInv
<1>10. UnitsStep(h)
      BY <1>1, <1>5 DEF UnitsStep
<1>11. /\ h \notin Selling /\ h \notin Selling'
       /\ h \notin Releasing("cancelOrder") /\ h \notin Releasing("cancelOrder")'
       /\ h \notin Releasing("cancelLine") /\ h \in Releasing("cancelLine")'
      BY <1>1, <1>4 DEF Selling, Releasing
<1>12. due \in [Handlers -> Units]
      BY DEF UInv, UnitsTyped
<1>13. ASSUME NEW l \in Lines
       PROVE  /\ released'["line-cancelled"][l] + Together(DueOf(l)', Releasing("cancelLine")')
                    <= line'[l].cancelled
              /\ released'["order-cancelled"][l] + Together(DueOf(l)', Releasing("cancelOrder")')
                    <= Quantity[l]
              /\ sold'[l] + Together(DueOf(l)', Selling') <= AwayUnits(fulfillment', l)
      <2>1. /\ Together(DueOf(l), Releasing("cancelLine")) \in Nat
            /\ Together(DueOf(l)', Releasing("cancelLine")')
                  = Together(DueOf(l), Releasing("cancelLine")) + due'[h][l]
            BY <1>4, <1>11, <1>12, ReleasingMoves, SellingMoves
      <2>2. /\ Together(DueOf(l)', Releasing("cancelOrder")') \in Nat
            /\ Together(DueOf(l), Releasing("cancelOrder")) \in Nat
            /\ Together(DueOf(l)', Releasing("cancelOrder")')
                  <= Together(DueOf(l), Releasing("cancelOrder"))
            BY <1>4, <1>11, <1>12, ReleasingMoves, SellingMoves
      <2>3. /\ Together(DueOf(l), Selling) \in Nat /\ Together(DueOf(l)', Selling') \in Nat
            /\ Together(DueOf(l)', Selling') <= Together(DueOf(l), Selling)
            BY <1>4, <1>11, <1>12, ReleasingMoves, SellingMoves
      <2>4. /\ due'[h][l] = req[h].units[l] /\ req[h].units[l] \in Nat
            /\ line'[l].cancelled = line[l].cancelled + req[h].units[l]
            /\ AwayUnits(fulfillment', l) = AwayUnits(fulfillment, l)
            BY <1>4, <1>6, <1>9
      <2>5. released' = released /\ sold' = sold
            BY <1>1
      <2> QED BY <2>1, <2>2, <2>3, <2>4, <2>5, Numbers
<1>14. StockMovesOnce'
      BY <1>13, ShippedIsAway DEF StockMovesOnce, EachCancellationReleasesOnce, SoldWasShipped
<1>15. CancelInv'
      <2>1. Releasing("cancelOrder")' = Releasing("cancelOrder")
            <3>1. Releasing("cancelOrder")' \ {h} = Releasing("cancelOrder") \ {h}
                  BY <1>4, OthersCall
            <3> QED BY <1>11, <3>1
      <2> QED BY <1>1, <1>5, <2>1 DEF UInv, CancelInv
<1> QED BY <1>4, <1>7, <1>9, <1>10, <1>14, <1>15, StepKeepsUInv

\* What was due is given back: it moves from what is due to what was released.
LEMMA ReleaseKeepsUInv ==
    ASSUME IInv, IInv', UInv, NEW h \in Handlers, ReleaseAllocation(h)
    PROVE  UInv'
<1>1. /\ pc[h] = "release" /\ End(h)
      /\ released' = [released EXCEPT ![Reason(h)] = Add(@, due[h])]
      /\ order' = order /\ line' = line /\ fulfillment' = fulfillment /\ sold' = sold
      BY DEF ReleaseAllocation, rows
<1>2. /\ Bystanders(h) /\ due' \in [Handlers -> Units] /\ pc'[h] = "idle"
      /\ SnapshotInv(h)' /\ DueInv(h)' /\ ~Locks(h)'
      BY <1>1, EndFacts
<1>3. /\ due \in [Handlers -> Units]
      /\ released \in [{"order-cancelled", "line-cancelled"} -> Units]
      BY DEF UInv, UnitsTyped
<1>4. Reason(h) \in {"order-cancelled", "line-cancelled"}
      BY DEF Reason
<1>5. \A l \in Lines : Add(released[Reason(h)], due[h])[l] = released[Reason(h)][l] + due[h][l]
      BY DEF Add
<1>6. Add(released[Reason(h)], due[h]) \in Units
      BY <1>3, <1>4 DEF Add, Units
<1>7. /\ released'[Reason(h)] = Add(released[Reason(h)], due[h])
      /\ \A reason \in {"order-cancelled", "line-cancelled"} :
            reason # Reason(h) => released'[reason] = released[reason]
      /\ released' \in [{"order-cancelled", "line-cancelled"} -> Units]
      BY <1>1, <1>3, <1>4, <1>6
<1>8. UnitsTyped'
      BY <1>1, <1>2, <1>7 DEF UInv, UnitsTyped
<1>9. \A l \in Lines : line'[l].cancelled >= line[l].cancelled
      BY <1>1, DueFacts
<1>10. RollUpIsTrue'
      BY <1>1, <1>9, RollUpStays DEF UInv
<1>11. UnitsStep(h)
      BY <1>1 DEF UnitsStep
<1>12. /\ h \notin Selling /\ h \notin Selling'
       /\ h \notin Releasing("cancelLine")' /\ h \notin Releasing("cancelOrder")'
       /\ h \in Releasing("cancelLine") => req[h].kind = "cancelLine"
       /\ h \in Releasing("cancelOrder") <=> req[h].kind = "cancelOrder"
      BY <1>1, <1>2 DEF Selling, Releasing
<1>13. ASSUME NEW l \in Lines
       PROVE  /\ released'["line-cancelled"][l] + Together(DueOf(l)', Releasing("cancelLine")')
                    <= line'[l].cancelled
              /\ released'["order-cancelled"][l] + Together(DueOf(l)', Releasing("cancelOrder")')
                    <= Quantity[l]
              /\ sold'[l] + Together(DueOf(l)', Selling') <= AwayUnits(fulfillment', l)
      <2>1. /\ Together(DueOf(l)', Releasing("cancelLine")') \in Nat
            /\ Together(DueOf(l), Releasing("cancelLine")) \in Nat
            /\ Together(DueOf(l)', Releasing("cancelLine")')
                  <= Together(DueOf(l), Releasing("cancelLine"))
            /\ h \in Releasing("cancelLine") =>
                  Together(DueOf(l), Releasing("cancelLine"))
                     = Together(DueOf(l)', Releasing("cancelLine")') + due[h][l]
            BY <1>2, <1>3, <1>12, ReleasingMoves, SellingMoves
      <2>2. /\ Together(DueOf(l)', Releasing("cancelOrder")') \in Nat
            /\ Together(DueOf(l), Releasing("cancelOrder")) \in Nat
            /\ Together(DueOf(l)', Releasing("cancelOrder")')
                  <= Together(DueOf(l), Releasing("cancelOrder"))
            /\ h \in Releasing("cancelOrder") =>
                  Together(DueOf(l), Releasing("cancelOrder"))
                     = Together(DueOf(l)', Releasing("cancelOrder")') + due[h][l]
            BY <1>2, <1>3, <1>12, ReleasingMoves, SellingMoves
      <2>3. /\ Together(DueOf(l), Selling) \in Nat /\ Together(DueOf(l)', Selling') \in Nat
            /\ Together(DueOf(l)', Selling') <= Together(DueOf(l), Selling)
            BY <1>2, <1>3, <1>12, ReleasingMoves, SellingMoves
      <2>4. due[h][l] \in Nat
            BY <1>3 DEF Units
      <2>5. CASE req[h].kind = "cancelOrder"
            <3>1. Reason(h) = "order-cancelled" /\ h \in Releasing("cancelOrder")
                  BY <1>12, <2>5 DEF Reason
            <3>2. /\ released'["order-cancelled"][l] = released["order-cancelled"][l] + due[h][l]
                  /\ released'["line-cancelled"][l] = released["line-cancelled"][l]
                  BY <1>5, <1>7, <3>1
            <3> QED BY <1>1, <2>1, <2>2, <2>3, <2>4, <3>1, <3>2, Numbers
      <2>6. CASE req[h].kind # "cancelOrder"
            <3>1. Reason(h) = "line-cancelled" /\ h \in Releasing("cancelLine")
                  BY <1>1, <2>6 DEF Reason, Releasing, UInv, DueInv
            <3>2. /\ released'["line-cancelled"][l] = released["line-cancelled"][l] + due[h][l]
                  /\ released'["order-cancelled"][l] = released["order-cancelled"][l]
                  BY <1>5, <1>7, <3>1
            <3> QED BY <1>1, <2>1, <2>2, <2>3, <2>4, <3>1, <3>2, Numbers
      <2> QED BY <2>5, <2>6
<1>14. StockMovesOnce'
      BY <1>13, ShippedIsAway DEF StockMovesOnce, EachCancellationReleasesOnce, SoldWasShipped
<1>15. CancelInv'
      <2> SUFFICES ASSUME order.status # "cancelled"
                   PROVE  /\ released'["order-cancelled"] = NoUnits
                          /\ Releasing("cancelOrder")' = {}
            BY <1>1 DEF CancelInv
      <2>1. released["order-cancelled"] = NoUnits /\ Releasing("cancelOrder") = {}
            BY DEF UInv, CancelInv
      <2>2. Releasing("cancelOrder")' = {}
            <3>1. Releasing("cancelOrder")' \ {h} = Releasing("cancelOrder") \ {h}
                  BY <1>2, OthersCall
            <3> QED BY <1>12, <2>1, <3>1
      <2>3. Reason(h) # "order-cancelled"
            BY <1>12, <2>1 DEF Reason
      <2> QED BY <1>7, <2>1, <2>2, <2>3
<1> QED BY <1>2, <1>8, <1>10, <1>11, <1>14, <1>15, StepKeepsUInv

\* The units of a shipped parcel are sold: due before, sold now.
LEMMA CommitSaleKeepsUInv ==
    ASSUME IInv, IInv', UInv, NEW h \in Handlers, CommitSale(h)
    PROVE  UInv'
<1>1. /\ pc[h] = "sale" /\ End(h) /\ sold' = Add(sold, due[h])
      /\ order' = order /\ line' = line /\ fulfillment' = fulfillment
      /\ released' = released
      BY DEF CommitSale, rows
<1>2. /\ Bystanders(h) /\ due' \in [Handlers -> Units] /\ pc'[h] = "idle"
      /\ SnapshotInv(h)' /\ DueInv(h)' /\ ~Locks(h)'
      BY <1>1, EndFacts
<1>3. due \in [Handlers -> Units] /\ sold \in Units
      BY DEF UInv, UnitsTyped
<1>4. sold' \in Units /\ \A l \in Lines : sold'[l] = sold[l] + due[h][l]
      BY <1>1, <1>3 DEF Add, Units
<1>5. UnitsTyped'
      BY <1>1, <1>2, <1>4 DEF UInv, UnitsTyped
<1>6. \A l \in Lines : line'[l].cancelled >= line[l].cancelled
      BY <1>1, DueFacts
<1>7. RollUpIsTrue'
      BY <1>1, <1>6, RollUpStays DEF UInv
<1>8. UnitsStep(h)
      BY <1>1 DEF UnitsStep
<1>9. /\ h \in Selling /\ h \notin Selling'
      /\ h \notin Releasing("cancelLine") /\ h \notin Releasing("cancelLine")'
      /\ h \notin Releasing("cancelOrder") /\ h \notin Releasing("cancelOrder")'
      BY <1>1, <1>2 DEF Selling, Releasing
<1>10. ASSUME NEW l \in Lines
       PROVE  /\ released'["line-cancelled"][l] + Together(DueOf(l)', Releasing("cancelLine")')
                    <= line'[l].cancelled
              /\ released'["order-cancelled"][l] + Together(DueOf(l)', Releasing("cancelOrder")')
                    <= Quantity[l]
              /\ sold'[l] + Together(DueOf(l)', Selling') <= AwayUnits(fulfillment', l)
      <2>1. /\ Together(DueOf(l)', Releasing("cancelLine")') \in Nat
            /\ Together(DueOf(l), Releasing("cancelLine")) \in Nat
            /\ Together(DueOf(l)', Releasing("cancelLine")')
                  <= Together(DueOf(l), Releasing("cancelLine"))
            BY <1>2, <1>3, <1>9, ReleasingMoves, SellingMoves
      <2>2. /\ Together(DueOf(l)', Releasing("cancelOrder")') \in Nat
            /\ Together(DueOf(l), Releasing("cancelOrder")) \in Nat
            /\ Together(DueOf(l)', Releasing("cancelOrder")')
                  <= Together(DueOf(l), Releasing("cancelOrder"))
            BY <1>2, <1>3, <1>9, ReleasingMoves, SellingMoves
      <2>3. /\ Together(DueOf(l), Selling) \in Nat /\ Together(DueOf(l)', Selling') \in Nat
            /\ Together(DueOf(l), Selling) = Together(DueOf(l)', Selling') + due[h][l]
            /\ due[h][l] \in Nat
            BY <1>2, <1>3, <1>9, ReleasingMoves, SellingMoves
      <2> QED BY <1>1, <1>4, <2>1, <2>2, <2>3, Numbers
<1>11. StockMovesOnce'
      BY <1>10, ShippedIsAway DEF StockMovesOnce, EachCancellationReleasesOnce, SoldWasShipped
<1>12. CancelInv'
      <2>1. Releasing("cancelOrder")' = Releasing("cancelOrder")
            <3>1. Releasing("cancelOrder")' \ {h} = Releasing("cancelOrder") \ {h}
                  BY <1>2, OthersCall
            <3> QED BY <1>9, <3>1
      <2> QED BY <1>1, <2>1 DEF UInv, CancelInv
<1> QED BY <1>2, <1>5, <1>7, <1>8, <1>11, <1>12, StepKeepsUInv

-----------------------------------------------------------------------------
(* Every step keeps the units. *)

LEMMA NextKeepsUInv ==
    ASSUME IInv, IInv', UInv, [Next]_vars
    PROVE  UInv'
<1>1. ASSUME NEW h \in Handlers, NEW p \in Payloads, Receive(h, p)
      PROVE  UInv'
      BY <1>1, ReceiveKeepsUInv
<1>2. ASSUME NEW h \in Handlers, Step(h)
      PROVE  UInv'
      <2>1. CASE Claim(h) \/ ChargeDeclined(h)
            <3>1. PICK label \in {"charge", "declined"} :
                     pc' = [pc EXCEPT ![h] = label] /\ req' = req /\ due' = due /\ seen' = seen
                  BY <2>1 DEF Claim, ChargeDeclined, Goto
            <3>2. /\ order' = order /\ line' = line /\ fulfillment' = fulfillment
                  /\ released' = released /\ sold' = sold
                  BY <2>1 DEF Claim, ChargeDeclined, rows, outside
            <3> QED BY <3>1, <3>2, GotoKeepsUInv
      <2>2. CASE ChargeApproved(h)
            <3>1. req[h].kind # "cancelOrder"
                  BY <2>2 DEF ChargeApproved, IInv, HandlerInv, ClaimInv
            <3> QED BY <2>2, <3>1, GotoKeepsUInv DEF ChargeApproved, rows
      <2>3. CASE PlanFulfillment(h)
            <3>1. /\ order' = order /\ line' = line /\ fulfillment' = fulfillment
                  /\ released' = released /\ sold' = sold
                  BY <2>3 DEF PlanFulfillment, rows, outside
            <3>2. \/ End(h)
                  \/ pc' = [pc EXCEPT ![h] = "insert"] /\ req' = req /\ due' = due /\ seen' = seen
                  BY <2>3 DEF PlanFulfillment, Goto
            <3> QED BY <3>1, <3>2, GotoKeepsUInv, AnswerKeepsUInv
      <2>4. CASE InsertFulfillment(h)
            BY <2>4, InsertKeepsUInv
      <2>5. CASE Open(h)
            BY <2>5, OpenKeepsUInv
      <2>6. CASE CommitCapture(h)
            BY <2>6, CommitCaptureKeepsUInv
      <2>7. CASE CommitShip(h)
            BY <2>7, CommitShipKeepsUInv
      <2>8. CASE CommitDeliver(h)
            BY <2>8, CommitDeliverKeepsUInv
      <2>9. CASE CommitCancelOrder(h)
            BY <2>9, CommitCancelOrderKeepsUInv
      <2>10. CASE CommitCancelLine(h)
            BY <2>10, CommitCancelLineKeepsUInv
      <2>11. CASE Retry(h)
            <3>1. /\ pc[h] = "open" /\ pc' = [pc EXCEPT ![h] = "ready"] /\ req' = req
                  /\ due' = due /\ seen' = [seen EXCEPT ![h] = Placed]
                  /\ order' = order /\ line' = line /\ fulfillment' = fulfillment
                  /\ released' = released /\ sold' = sold
                  BY <2>11 DEF Retry, Conflict, Committing, RowsFree, rows, outside
            <3> QED BY <3>1, GotoKeepsUInv
      <2>12. CASE RefuseClaim(h) \/ ReleaseClaim(h) \/ Refuse(h) \/ RefuseCancelOrder(h)
                  \/ Exhaust(h)
            <3>1. /\ End(h) /\ order' = order /\ line' = line /\ fulfillment' = fulfillment
                  /\ released' = released /\ sold' = sold
                  BY <2>12 DEF RefuseClaim, ReleaseClaim, Refuse, RefuseCancelOrder, Exhaust,
                               rows, outside
            <3> QED BY <3>1, AnswerKeepsUInv
      <2>13. CASE ReleaseAllocation(h)
            BY <2>13, ReleaseKeepsUInv
      <2>14. CASE CommitSale(h)
            BY <2>14, CommitSaleKeepsUInv
      <2> QED BY <1>2, <2>1, <2>2, <2>3, <2>4, <2>5, <2>6, <2>7, <2>8, <2>9, <2>10, <2>11,
                 <2>12, <2>13, <2>14 DEF Step
<1>3. ASSUME NEW h \in Handlers, Die(h)
      PROVE  UInv'
      <2>1. /\ End(h) /\ order' = order /\ line' = line /\ fulfillment' = fulfillment
            /\ released' = released /\ sold' = sold
            BY <1>3 DEF Die, rows
      <2> QED BY <2>1, AnswerKeepsUInv
<1>4. CASE UNCHANGED vars
      <2>1. /\ order' = order /\ line' = line /\ payment' = payment
            /\ fulfillment' = fulfillment /\ pc' = pc /\ req' = req /\ seen' = seen
            /\ due' = due /\ released' = released /\ sold' = sold
            BY <1>4 DEF vars, rows, handlers, outside
      <2>2. UnitsTyped' /\ RollUpIsTrue' /\ CancelInv' /\ OneLock'
            BY <2>1 DEF UInv, UnitsTyped, RollUpIsTrue, WithStatus, Now, Shipped, UnitsIn,
                        Active, CancelInv, Releasing, OneLock, Locks
      <2>3. StockMovesOnce'
            BY <2>1 DEF UInv, StockMovesOnce, EachCancellationReleasesOnce, SoldWasShipped,
                        Releasing, Selling, DueOf, Shipped, UnitsIn, WithStatus, Now
      <2>4. \A h \in Handlers : SnapshotInv(h)' /\ DueInv(h)'
            BY <2>1 DEF UInv, SnapshotInv, DueInv, VersionMatches, DeliversOrder,
                        AfterDeliver, Active
      <2> QED BY <2>2, <2>3, <2>4 DEF UInv
<1> QED BY <1>1, <1>2, <1>3, <1>4 DEF Next

\* An order just placed has no parcel and nothing to give back.
LEMMA InitKeepsUnits == Init => UInv
<1> SUFFICES ASSUME Init PROVE UInv
    OBVIOUS
<1>1. /\ \A h \in Handlers : pc[h] = "idle" /\ due[h] = NoUnits
      /\ \A l \in Lines : line[l] = [status |-> "allocated", cancelled |-> 0]
      /\ Away(fulfillment) = {} /\ order.fulfillmentStatus = "unfulfilled"
      /\ released["order-cancelled"] = NoUnits /\ released["line-cancelled"] = NoUnits
      /\ sold = NoUnits
      BY DEF Init, Placed, Away, CountsTowardShipped
<1>2. UnitsTyped
      BY <1>1, OrderedUnits DEF Init, UnitsTyped, Units, NoUnits
<1>3. RollUpIsTrue
      BY <1>1, ShippedIsAway DEF RollUpIsTrue
<1>4. Selling = {} /\ \A kind : Releasing(kind) = {}
      BY <1>1 DEF Selling, Releasing
<1>5. \A l \in Lines : AwayUnits(fulfillment, l) \in Nat
      BY InitIsSound, AwayIsNat DEF IInv, TypeInv, RowsTyped
<1>6. StockMovesOnce
      <2>1. \A l \in Lines : /\ Together(DueOf(l), Selling) = 0
                             /\ \A kind : Together(DueOf(l), Releasing(kind)) = 0
            BY <1>4, TogetherOfNone
      <2>2. \A l \in Lines : NoUnits[l] = 0 /\ Quantity[l] \in Nat
            BY OrderedUnits DEF NoUnits
      <2> QED BY <1>1, <1>5, <2>1, <2>2, ShippedIsAway
              DEF StockMovesOnce, EachCancellationReleasesOnce, SoldWasShipped
<1>7. CancelInv /\ OneLock /\ \A h \in Handlers : SnapshotInv(h) /\ DueInv(h)
      BY <1>1, <1>4 DEF CancelInv, OneLock, Locks, SnapshotInv, DueInv
<1> QED BY <1>2, <1>3, <1>6, <1>7 DEF UInv

\* The units invariant holds of every order, whatever its lines and requests.
THEOREM UnitsInvariance == Spec => []UInv
<1>1. IInv /\ IInv' /\ UInv /\ [Next]_vars => UInv'
      BY NextKeepsUInv
<1> QED BY <1>1, InitKeepsUnits, Invariance, PTL DEF Spec

\* What the order and its lines say of the parcels is true of the parcels,
\* although it is computed from a snapshot while other requests commit.
THEOREM RollUpStaysTrue == Spec => []RollUpIsTrue
<1>1. UInv => RollUpIsTrue
      BY DEF UInv
<1> QED BY <1>1, UnitsInvariance, PTL

\* The inventory is never asked to give back more than was cancelled, nor to
\* sell more than was shipped, whichever requests race, die or are refused.
THEOREM StockAlwaysMovesOnce == Spec => []StockMovesOnce
<1>1. UInv => StockMovesOnce
      BY DEF UInv
<1> QED BY <1>1, UnitsInvariance, PTL

=============================================================================
