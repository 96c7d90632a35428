-------------------------------- MODULE Cart --------------------------------
(***************************************************************************)
(* The carts of the retail service and the stock they hold.  A cart row    *)
(* carries a version; its lines are written in the same transaction, after *)
(* an UPDATE of the row that expects the version the cart was read with.   *)
(* The stock of a line is held in the inventory service by a call made     *)
(* BEFORE that transaction, to the absolute quantity the line should reach *)
(* (add, change), or given back by a call made AFTER it (remove); nothing  *)
(* undoes the call when the save fails.  What a call does is an operation  *)
(* of StockService, which takes effect at one instant.                     *)
(*                                                                         *)
(* Two writers pass by the version check: a claim re-points the owner, and *)
(* the erasure of a customer abandons his carts.  Both move the version.   *)
(* The third, Place Order, is in the module Checkout: it keeps the row of  *)
(* the cart locked until its own transaction ends.                         *)
(*                                                                         *)
(* A level is a variant at the default location: holds carry no location.  *)
(***************************************************************************)
EXTENDS StockDomain, Bags

CONSTANTS
    SeedOnHand,     \* on-hand quantity per variant
    Customers,      \* registered customers and guests
    Editors,        \* concurrent handlers of cart requests
    FirstOwner,     \* cart -> its owner at the start, None: not created yet
    FirstLines,     \* cart -> its lines at the start, all held
    CartRequests,   \* the requests callers send
    MaxAttempts,    \* OCC_RETRY_ATTEMPTS
    MaxRequests,    \* bound: requests sent over a run
    MaxFaults       \* bound: lost answers, dead requests and lapsed holds

CartRow == [status : {"none", "active", "converted", "abandoned"},
            version : Nat, owner : Customers \cup {None}]
LineRow == [id : Nat, quantity : Nat]
NoLine == [id |-> 0, quantity |-> 0]

FirstStock == {x \in Carts \X Levels : FirstLines[x[1]][x[2]] # NoLine}

ASSUME CartConstants ==
    /\ SeedOnHand \in [Levels -> Nat]
    /\ FirstOwner \in [Carts -> Customers \cup {None}]
    /\ FirstLines \in [Carts -> [Levels -> LineRow]]
    /\ None \notin Customers \cup Levels \cup Carts
    /\ MaxAttempts \in Nat \ {0} /\ MaxRequests \in Nat /\ MaxFaults \in Nat

ASSUME FirstLinesNumbered ==
    \A x \in FirstStock :
        LET first == FirstLines[x[1]][x[2]]
        IN  /\ FirstOwner[x[1]] # None
            /\ first.quantity > 0
            /\ first.id \in 1 .. Cardinality(FirstStock)
            /\ \A y \in FirstStock \ {x} : FirstLines[y[1]][y[2]].id # first.id

\* An add names a variant, a change and a removal an existing line by its id; an
\* expected version of 0 is a request without If-Match.
CartRequest == [kind : {"none", "add", "change", "remove", "claim"},
                cart : Carts \cup {None}, customer : Customers \cup {None},
                variant : Levels \cup {None}, line : Nat, quantity : Nat,
                expected : Nat, newCustomer : Customers \cup {None}]
NoRequest == [kind |-> "none", cart |-> None, customer |-> None, variant |-> None,
              line |-> 0, quantity |-> 0, expected |-> 0, newCustomer |-> None]

ASSUME ValidCartRequests ==
    \A r \in CartRequests :
        /\ r \in CartRequest
        /\ r.kind # "none" /\ r.cart \in Carts /\ r.customer \in Customers
        /\ r.kind = "add" => r.variant \in Levels
        /\ r.kind \in {"add", "change"} => r.quantity > 0
        /\ r.kind \in {"change", "remove"} => r.line > 0
        /\ r.kind = "claim" => r.newCustomer \in Customers

-----------------------------------------------------------------------------
VARIABLES
    level,      \* stock_level, in the inventory service
    hold,       \* reservation rows
    ledger,     \* stock_movement
    cart,       \* the cart rows: status, version, owner
    lines,      \* cart_line: cart -> variant -> id and quantity
    lastLine,   \* cart_line.id given out last
    locked,     \* carts whose row a place transaction has written
    pc,         \* editor -> where its request is
    req,        \* editor -> the request
    attempt,    \* editor -> number of the current attempt
    seen,       \* editor -> the cart as the current attempt loaded it
    due,        \* editor -> the variant whose hold it changed or has to release
    strayed,    \* <<cart, variant>> whose hold a request left as it was
    sent,       \* requests sent so far
    faults      \* lost answers, dead requests, lapsed holds so far

stock == <<level, hold, ledger>>
tables == <<cart, lines, lastLine>>
editors == <<pc, req, attempt, seen, due>>
cartVars == <<stock, tables, locked, editors, strayed, sent, faults>>

Stock == INSTANCE StockService WITH Payloads <- {}

CartView == [row : CartRow, lines : [Levels -> LineRow]]

Load(c) == [row |-> cart[c], lines |-> lines[c]]

NoView == [row |-> [status |-> "none", version |-> 0, owner |-> None],
           lines |-> [l \in Levels |-> NoLine]]

\* The stock of the lines at the start is held.
CartInit ==
    /\ hold = [l \in Levels |-> [c \in Carts |->
                  IF FirstLines[c][l] = NoLine THEN NoHold
                  ELSE [status |-> "active", quantity |-> FirstLines[c][l].quantity]]]
    /\ level = [l \in Levels |-> [InitialAt(SeedOnHand[l]) EXCEPT
                                     !.reserved = Cardinality(HeldUnits(hold[l]))]]
    /\ ledger = [l \in Levels |-> EmptyBag]
    /\ cart = [c \in Carts |->
                  IF FirstOwner[c] = None
                  THEN NoView.row
                  ELSE [status |-> "active", owner |-> FirstOwner[c],
                        version |-> 1 + Cardinality({x \in FirstStock : x[1] = c})]]
    /\ lines = FirstLines
    /\ lastLine = Cardinality(FirstStock)
    /\ locked = {}
    /\ pc = [e \in Editors |-> "idle"]
    /\ req = [e \in Editors |-> NoRequest]
    /\ attempt = [e \in Editors |-> 0]
    /\ seen = [e \in Editors |-> NoView]
    /\ due = [e \in Editors |-> None]
    /\ strayed = {}
    /\ sent = 0
    /\ faults = 0

-----------------------------------------------------------------------------
(* How a request begins and ends. *)

Goto(e, label) ==
    /\ pc' = [pc EXCEPT ![e] = label]
    /\ UNCHANGED <<req, attempt, seen, due>>

\* The request ends; what the handler kept in memory is gone.
End(e) ==
    /\ pc' = [pc EXCEPT ![e] = "idle"]
    /\ req' = [req EXCEPT ![e] = NoRequest]
    /\ attempt' = [attempt EXCEPT ![e] = 0]
    /\ seen' = [seen EXCEPT ![e] = NoView]
    /\ due' = [due EXCEPT ![e] = None]

\* The holds that keep, from here on, a quantity no save has confirmed.
Straying(e, ls) == strayed \cup {<<req[e].cart, l>> : l \in ls \ {None}}

\* The request fails: nothing undoes the holds it changed.
Fail(e, ls) ==
    /\ End(e)
    /\ strayed' = Straying(e, ls)

Receive(e, r) ==
    /\ pc[e] = "idle"
    /\ r \in CartRequests
    /\ sent < MaxRequests
    /\ sent' = sent + 1
    /\ pc' = [pc EXCEPT ![e] = IF r.kind = "claim" THEN "check" ELSE "load"]
    /\ req' = [req EXCEPT ![e] = r]
    /\ attempt' = [attempt EXCEPT ![e] = 1]
    /\ UNCHANGED <<seen, due, stock, tables, locked, strayed, faults>>

\* CreateCartUseCase, in one insert.
CreateCart(c, customer) ==
    /\ cart[c].status = "none"
    /\ sent < MaxRequests
    /\ sent' = sent + 1
    /\ cart' = [cart EXCEPT ![c] =
                   [status |-> "active", version |-> 1, owner |-> customer]]
    /\ UNCHANGED <<stock, lines, lastLine, locked, editors, strayed, faults>>

-----------------------------------------------------------------------------
(* Load: loadOwnedCart, assertCartVersion and the look-up of the line.     *)

LineNamed(view, id) == {l \in Levels : id > 0 /\ view.lines[l].id = id}

\* The variant a request is about, on the cart it loaded.
VariantOf(r, view) ==
    IF r.kind = "add" THEN r.variant
    ELSE CHOOSE l \in Levels : view.lines[l].id = r.line

\* A removal finds its cart inactive here, an add or a change only after
\* the call to the inventory.
Loadable(r, view) ==
    /\ view.row.status # "none"
    /\ view.row.owner = r.customer
    /\ r.expected # 0 => r.expected = view.row.version
    /\ r.kind \in {"change", "remove"} => LineNamed(view, r.line) # {}
    /\ r.kind = "remove" => view.row.status = "active"

LoadCart(e) ==
    /\ pc[e] = "load"
    /\ Loadable(req[e], Load(req[e].cart))
    /\ seen' = [seen EXCEPT ![e] = Load(req[e].cart)]
    /\ pc' = [pc EXCEPT ![e] = IF req[e].kind = "remove" THEN "save" ELSE "reserve"]
    /\ UNCHANGED <<req, attempt, due, stock, tables, locked, strayed, sent, faults>>

RefuseLoad(e) ==
    /\ pc[e] = "load"
    /\ ~Loadable(req[e], Load(req[e].cart))
    /\ Fail(e, {due[e]})
    /\ UNCHANGED <<stock, tables, locked, sent, faults>>

-----------------------------------------------------------------------------
(* The call that holds the stock (CartInventoryRabbitmqAdapter).           *)

\* A request of the inventory service.
StockRequest(kind, c, quantities, ref, key) ==
    [kind |-> kind, cart |-> c, lines |-> quantities, ids |-> {}, now |-> 0,
     ref |-> ref, key |-> key]

Refuses(o) == ~Accepts(o, Stock!Rows)

\* Mutant of Target: a delta instead of the absolute quantity.
TargetDelta(r, view) == r.quantity

\* The absolute quantity the hold should have.
Target(r, view) ==
    IF r.kind = "add" THEN view.lines[r.variant].quantity + r.quantity
    ELSE r.quantity

ReserveOf(e) ==
    LET variant == VariantOf(req[e], seen[e])
    IN  StockRequest("reserve", req[e].cart,
                     [l \in Levels |-> IF l = variant THEN Target(req[e], seen[e]) ELSE 0],
                     None, None)

\* The cart refuses the edit only now (assertActive), after the hold.
ReserveLine(e) ==
    LET variant == VariantOf(req[e], seen[e]) IN
    /\ pc[e] = "reserve"
    /\ Stock!ReserveStock(ReserveOf(e))
    /\ IF seen[e].row.status = "active"
       THEN /\ pc' = [pc EXCEPT ![e] = "save"]
            /\ due' = [due EXCEPT ![e] = variant]
            /\ UNCHANGED <<req, attempt, seen, strayed>>
       ELSE Fail(e, {variant, due[e]})
    /\ UNCHANGED <<tables, locked, sent, faults>>

RefuseReserve(e) ==
    /\ pc[e] = "reserve"
    /\ Refuses(ReserveOf(e))
    /\ Fail(e, {due[e]})
    /\ UNCHANGED <<stock, tables, locked, sent, faults>>

\* The call took effect and its answer was lost.
LoseReserveAnswer(e) ==
    /\ pc[e] = "reserve"
    /\ faults < MaxFaults
    /\ faults' = faults + 1
    /\ Stock!ReserveStock(ReserveOf(e))
    /\ Fail(e, {VariantOf(req[e], seen[e]), due[e]})
    /\ UNCHANGED <<tables, locked, sent>>

-----------------------------------------------------------------------------
(* Save: CartTypeormRepository.save, one transaction that waits for the    *)
(* lock of the row.                                                        *)

\* The line the aggregate holds after the edit.
Edited(r, view, newId) ==
    CASE r.kind = "add" ->
             IF view.lines[r.variant] = NoLine
             THEN [id |-> newId, quantity |-> r.quantity]
             ELSE [view.lines[r.variant] EXCEPT !.quantity = @ + r.quantity]
      [] r.kind = "change" -> [id |-> r.line, quantity |-> r.quantity]
      [] OTHER -> NoLine

VersionMatches(e) == cart[req[e].cart].version = seen[e].row.version

CanSave(e) == pc[e] = "save" /\ req[e].cart \notin locked

\* The row is written with the columns of the aggregate, and its lines.
SaveCart(e) ==
    LET c == req[e].cart
        variant == VariantOf(req[e], seen[e])
        after == Edited(req[e], seen[e], lastLine + 1)
    IN  /\ CanSave(e)
        /\ VersionMatches(e)
        /\ cart' = [cart EXCEPT ![c] = [seen[e].row EXCEPT !.version = @ + 1]]
        /\ lines' = [lines EXCEPT ![c] = [seen[e].lines EXCEPT ![variant] = after]]
        /\ lastLine' = IF after.id = lastLine + 1 THEN after.id ELSE lastLine
        /\ IF req[e].kind = "remove"
           THEN /\ pc' = [pc EXCEPT ![e] = "release"]
                /\ due' = [due EXCEPT ![e] = variant]
                /\ seen' = [seen EXCEPT ![e] = NoView]
                /\ UNCHANGED <<req, attempt>>
           ELSE End(e)
        /\ UNCHANGED <<stock, locked, strayed, sent, faults>>

\* One attempt when the caller named the version it expects.
Budget(r) == IF r.expected = 0 THEN MaxAttempts ELSE 1

RetrySave(e) ==
    /\ CanSave(e)
    /\ ~VersionMatches(e)
    /\ attempt[e] < Budget(req[e])
    /\ pc' = [pc EXCEPT ![e] = "load"]
    /\ attempt' = [attempt EXCEPT ![e] = @ + 1]
    /\ seen' = [seen EXCEPT ![e] = NoView]
    /\ UNCHANGED <<req, due, stock, tables, locked, strayed, sent, faults>>

ExhaustSave(e) ==
    /\ CanSave(e)
    /\ ~VersionMatches(e)
    /\ attempt[e] >= Budget(req[e])
    /\ Fail(e, {due[e]})
    /\ UNCHANGED <<stock, tables, locked, sent, faults>>

-----------------------------------------------------------------------------
(* The release after a removal: by cart and variant, once, best effort.    *)

HeldIds(c, l) == {id \in {<<c, l>>} : hold[l][c].status = "active"}

ReleaseLine(e) ==
    /\ pc[e] = "release"
    /\ IF HeldIds(req[e].cart, due[e]) = {} THEN UNCHANGED stock
       ELSE Stock!ReleaseHolds(HeldIds(req[e].cart, due[e]))
    /\ End(e)
    /\ UNCHANGED <<tables, locked, strayed, sent, faults>>

-----------------------------------------------------------------------------
(* Claim: the ownership is checked by a read, the UPDATE looks at neither  *)
(* the previous owner nor the status.                                      *)

CheckClaim(e) ==
    /\ pc[e] = "check"
    /\ IF Loadable(req[e], Load(req[e].cart)) THEN Goto(e, "claim") ELSE End(e)
    /\ UNCHANGED <<stock, tables, locked, strayed, sent, faults>>

\* Mutant of Reassign: the version stays.
ReassignOnly(c, customer) == cart' = [cart EXCEPT ![c].owner = customer]

\* TypeORM adds version = version + 1 to the UPDATE.
Reassign(c, customer) ==
    cart' = [cart EXCEPT ![c].owner = customer, ![c].version = @ + 1]

ClaimCart(e) ==
    /\ pc[e] = "claim"
    /\ req[e].cart \notin locked
    /\ Reassign(req[e].cart, req[e].newCustomer)
    /\ End(e)
    /\ UNCHANGED <<stock, lines, lastLine, locked, strayed, sent, faults>>

-----------------------------------------------------------------------------
(* What happens to carts and holds from outside.                           *)

\* CustomerErasureWriterAdapter.persistErasure, in one statement.
EraseCustomer(customer) ==
    LET his == {c \in Carts : cart[c].owner = customer /\ cart[c].status = "active"}
    IN  /\ his # {}
        /\ his \cap locked = {}
        /\ sent < MaxRequests
        /\ sent' = sent + 1
        /\ cart' = [c \in Carts |->
                       IF c \in his
                       THEN [cart[c] EXCEPT !.status = "abandoned", !.version = @ + 1]
                       ELSE cart[c]]
        /\ UNCHANGED <<stock, lines, lastLine, locked, editors, strayed, faults>>

\* The reservation sweep expires a hold.
Lapse(c, l) ==
    /\ faults < MaxFaults
    /\ faults' = faults + 1
    /\ hold[l][c].status = "active"
    /\ Stock!LapseHolds({<<c, l>>})
    /\ UNCHANGED <<tables, locked, editors, strayed, sent>>

\* A call, a query or the process fails between two steps; a failed release
\* is logged and the request goes on, which comes to the same.
Die(e) ==
    /\ pc[e] # "idle"
    /\ faults < MaxFaults
    /\ faults' = faults + 1
    /\ Fail(e, {due[e]})
    /\ UNCHANGED <<stock, tables, locked, sent>>

CartNext ==
    \/ \E e \in Editors :
          \/ \E r \in CartRequests : Receive(e, r)
          \/ LoadCart(e)
          \/ RefuseLoad(e)
          \/ ReserveLine(e)
          \/ RefuseReserve(e)
          \/ LoseReserveAnswer(e)
          \/ SaveCart(e)
          \/ RetrySave(e)
          \/ ExhaustSave(e)
          \/ ReleaseLine(e)
          \/ CheckClaim(e)
          \/ ClaimCart(e)
          \/ Die(e)
    \/ \E customer \in Customers :
          \/ \E c \in Carts : CreateCart(c, customer)
          \/ EraseCustomer(customer)
    \/ \E c \in Carts, l \in Levels : Lapse(c, l)

-----------------------------------------------------------------------------
(* Properties. *)

\* The next state of the lines of cart c is what editor e asked for, applied
\* to the lines they have now.
AppliesTo(e, c) ==
    LET r == req[e]
        now == Load(c)
    IN  /\ pc[e] = "save" /\ r.cart = c
        /\ cart[c].status = "active" /\ cart[c].owner = r.customer
        /\ \E l \in Levels :
              /\ r.kind = "add" => l = r.variant
              /\ r.kind # "add" => now.lines[l].id = r.line
              /\ lines'[c] = [lines[c] EXCEPT ![l] = Edited(r, now, lastLine')]

EditIsCurrent ==
    \A c \in Carts : lines'[c] # lines[c] => \E e \in Editors : AppliesTo(e, c)

\* No edit is lost or applied to a cart that has moved on: lines change only
\* by one request, applied to the lines as they are now (two adds of a
\* variant add up), on a cart that is active and owned by the caller now.
\* The checks of owner and status are made on an earlier read; the version is
\* what carries them to the save, so every writer of the cart has to move it,
\* the raw UPDATE of Place Order and the erasure and the claim included.
EditsAreCurrent == [][EditIsCurrent]_<<lines>>

\* A hold that is active holds what the line of its cart says, unless a
\* request on that variant is under way, or has failed and left it as it was
\* (docs/reference/retail-cart.md, Holding stock).  Attempts and requests
\* overtake each other between the call that reserves and the save.
HoldsMatchLines ==
    \A c \in Carts, l \in Levels :
        \/ <<c, l>> \in strayed
        \/ \E e \in Editors : req[e].cart = c /\ due[e] = l
        \/ hold[l][c].status = "active" =>
               hold[l][c].quantity = lines[c][l].quantity

=============================================================================
