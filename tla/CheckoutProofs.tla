--------------------------- MODULE CheckoutProofs ---------------------------
(***************************************************************************)
(* Carts and places, for any number of carts, customers, handlers,         *)
(* requests, retries and failures.                                         *)
(*                                                                         *)
(* The argument has four sides.  CInv is about the editors: the version of *)
(* a cart moves with everything that is written to it, so an editor that   *)
(* finds the version it loaded finds the cart it loaded (SeenInv).  PInv   *)
(* is about the placers: the row of a cart has one writer until it commits *)
(* (OneWriter), who holds an order id nobody else has; and payments, keys  *)
(* and answers are only added to.  What the inventory answers does not     *)
(* matter for either.                                                      *)
(*                                                                         *)
(* HInv is about the holds: until the cart moves on, a hold is what the    *)
(* save will make of its line, unless somebody else has to settle it.      *)
(* OInv is about the allocations: from the insert of an order to the end   *)
(* of its authorization one placer owns it, and knows its ledger rows.     *)
(***************************************************************************)
EXTENDS Checkout, FiniteSetTheorems, TLAPS

Labels == {"idle", "load", "reserve", "save", "release", "check", "claim"}

CartTypes ==
    /\ cart \in [Carts -> CartRow]
    /\ lines \in [Carts -> [Levels -> LineRow]]
    /\ lastLine \in Nat
    /\ pc \in [Editors -> Labels]
    /\ req \in [Editors -> CartRequests \cup {NoRequest}]
    /\ seen \in [Editors -> CartView]

\* A cart that is not created has version 0.
FreshInv == \A c \in Carts : cart[c].status = "none" => cart[c].version = 0

\* What an editor has loaded is not ahead of the cart, and is the cart if the
\* version is the same.
SeenInv(e) ==
    /\ pc[e] # "idle" => req[e] \in CartRequests
    /\ pc[e] \in {"load", "reserve", "save"} => req[e].kind # "claim"
    /\ pc[e] \in {"reserve", "save"} =>
           /\ seen[e].row.version <= cart[req[e].cart].version
           /\ seen[e].row.version = cart[req[e].cart].version =>
                  seen[e] = Load(req[e].cart)
           /\ seen[e].row.owner = req[e].customer
           /\ req[e].kind # "add" => LineNamed(seen[e], req[e].line) # {}
    /\ pc[e] = "save" => seen[e].row.status = "active"
    /\ pc[e] = "claim" => cart[req[e].cart].status # "none"

CInv ==
    /\ CartTypes
    /\ FreshInv
    /\ \A e \in Editors : SeenInv(e)

Stages == {"idle", "header", "lines", "convert", "allocate", "commit", "rollback",
           "authorize", "declined", "fail", "resolve", "store"}

PlaceTypes ==
    /\ locked \subseteq Carts
    /\ orders \in [OrderIds -> OrderRow]
    /\ payment \in [OrderIds -> {"none", "authorized", "voided"}]
    /\ lastOrder \in 0 .. MaxOrders
    /\ keys \in [Keys -> KeyRow]
    /\ stage \in [Placers -> Stages]
    /\ place \in [Placers -> PlaceRequests \cup {NoPlace}]
    /\ cut \in [Placers -> [Levels -> Nat]]
    /\ mine \in [Placers -> 0 .. MaxOrders]
    /\ answers \subseteq [request : PlaceRequests, order : OrderIds]

InTransaction(p) == stage[p] \in {"allocate", "commit"}

PlaceInv(p) ==
    /\ stage[p] # "idle" => place[p] \in PlaceRequests
    /\ InTransaction(p) =>
           /\ place[p].cart \in locked
           /\ cart[place[p].cart].status = "active"
           /\ mine[p] \in 1 .. lastOrder
           /\ orders[mine[p]].status = "none"
    /\ stage[p] \in {"authorize", "declined", "fail", "store"} => mine[p] \in OrderIds
    /\ stage[p] = "store" => payment[mine[p]] # "none"

\* Two open transactions write neither the same cart nor the same order.
OneWriter ==
    \A p, q \in Placers :
        InTransaction(p) /\ InTransaction(q)
        /\ (place[p].cart = place[q].cart \/ mine[p] = mine[q]) => p = q

OrdersInv == \A o \in OrderIds : orders[o].status # "none" => o <= lastOrder

KeysInv ==
    \A k \in Keys : keys[k] # NoKey =>
        keys[k].order \in OrderIds /\ payment[keys[k].order] # "none"

AnswersInv ==
    \A a \in answers :
        keys[a.request.key] # NoKey /\ a.order = keys[a.request.key].order

PInv ==
    /\ PlaceTypes
    /\ \A p \in Placers : PlaceInv(p)
    /\ OneWriter
    /\ OrdersInv
    /\ OneOrderPerCart
    /\ KeysInv
    /\ AnswersInv

IInv == CInv /\ PInv

-----------------------------------------------------------------------------
(* Steps, as each side sees them. *)

\* Whatever is written to a cart moves its version.
VersionsMove ==
    \A c \in Carts :
        \/ cart'[c] = cart[c] /\ lines'[c] = lines[c]
        \/ cart'[c].version > cart[c].version /\ cart'[c].status # "none"

EditorRests(e) == pc'[e] = pc[e] /\ req'[e] = req[e] /\ seen'[e] = seen[e]

\* The carts change and some editors stay as they are, or one editor moves.
LEMMA StepKeepsCInv ==
    ASSUME CInv, CartTypes', VersionsMove,
           \A e \in Editors : EditorRests(e) \/ SeenInv(e)'
    PROVE  CInv'
<1>1. FreshInv'
    BY DEF CInv, FreshInv, VersionsMove, CartTypes, CartRow
<1>2. ASSUME NEW e \in Editors PROVE SeenInv(e)'
    <2>1. CASE SeenInv(e)'
        BY <2>1
    <2>2. CASE EditorRests(e)
        <3>1. SeenInv(e) /\ req[e] \in CartRequests \cup {NoRequest}
            BY DEF CInv, CartTypes
        <3>2. CASE pc[e] \notin {"reserve", "save"}
            <4>1. pc[e] = "claim" => cart'[req[e].cart].status # "none"
                <5>1. pc[e] = "claim" => /\ req[e].cart \in Carts
                                         /\ cart[req[e].cart].status # "none"
                    BY <3>1, ValidCartRequests DEF SeenInv
                <5> QED BY <5>1 DEF VersionsMove
            <4> QED BY <2>2, <3>1, <3>2, <4>1 DEF SeenInv, EditorRests
        <3>3. CASE pc[e] \in {"reserve", "save"}
            <4> DEFINE c == req[e].cart
            <4>1. c \in Carts
                BY <3>1, <3>3, ValidCartRequests DEF SeenInv
            <4>2. /\ cart[c].version \in Nat /\ cart'[c].version \in Nat
                  /\ seen[e].row.version \in Nat
                BY <4>1 DEF CInv, CartTypes, CartRow, CartView
            <4>3. \/ cart'[c] = cart[c] /\ lines'[c] = lines[c]
                  \/ cart'[c].version > cart[c].version
                BY <4>1 DEF VersionsMove
            <4>4. /\ seen[e].row.version <= cart[c].version
                  /\ seen[e].row.version = cart[c].version => seen[e] = Load(c)
                BY <3>1, <3>3 DEF SeenInv
            <4>5. /\ seen'[e].row.version <= cart'[req'[e].cart].version
                  /\ seen'[e].row.version = cart'[req'[e].cart].version =>
                         seen'[e] = Load(req[e].cart)'
                BY <2>2, <4>2, <4>3, <4>4 DEF Load, EditorRests
            <4> QED BY <2>2, <3>1, <3>3, <4>5 DEF SeenInv, EditorRests, LineNamed
        <3> QED BY <3>2, <3>3
    <2> QED BY <1>2, <2>1, <2>2
<1> QED BY <1>1, <1>2 DEF CInv

PlacerRests(p) ==
    /\ stage'[p] = stage[p] /\ place'[p] = place[p] /\ mine'[p] = mine[p]
    /\ InTransaction(p) => place[p].cart \in locked'

\* The placer moves without opening a transaction.
PlacerMoves(p) ==
    /\ PlaceInv(p)'
    /\ InTransaction(p)' => /\ InTransaction(p)
                            /\ place'[p] = place[p] /\ mine'[p] = mine[p]

\* No cart is converted, and none that is locked stops being active.
StatusesKept ==
    /\ \A c \in Carts : cart'[c].status = "converted" <=> cart[c].status = "converted"
    /\ \A c \in locked : cart[c].status = "active" => cart'[c].status = "active"

OrdersStay ==
    \A o \in OrderIds :
        /\ orders'[o].status = "none" <=> orders[o].status = "none"
        /\ orders'[o].cart = orders[o].cart
        /\ payment[o] # "none" => payment'[o] # "none"

\* Every step that neither converts a cart nor stores a key.
LEMMA StepKeepsPInv ==
    ASSUME PInv, PlaceTypes', StatusesKept, OrdersStay,
           lastOrder' = lastOrder, keys' = keys,
           \A a \in answers' : \/ a \in answers
                               \/ /\ keys[a.request.key] # NoKey
                                  /\ a.order = keys[a.request.key].order,
           \A p \in Placers : PlacerRests(p) \/ PlacerMoves(p)
    PROVE  PInv'
<1>1. ASSUME NEW p \in Placers PROVE PlaceInv(p)'
    <2>1. CASE PlacerMoves(p)
        BY <2>1 DEF PlacerMoves
    <2>2. CASE PlacerRests(p)
        <3>1. PlaceInv(p)
            BY DEF PInv
        <3>2. InTransaction(p) => /\ cart'[place[p].cart].status = "active"
                                  /\ mine[p] \in OrderIds
                                  /\ orders'[mine[p]].status = "none"
            BY <3>1, PlaceConstants
               DEF PlaceInv, StatusesKept, OrdersStay, PInv, PlaceTypes, OrderIds
        <3>3. stage[p] = "store" => payment'[mine[p]] # "none"
            BY <3>1 DEF PlaceInv, OrdersStay
        <3> QED BY <2>2, <3>1, <3>2, <3>3 DEF PlaceInv, PlacerRests, InTransaction
    <2> QED BY <1>1, <2>1, <2>2
<1>2. OneWriter'
    <2>1. ASSUME NEW p \in Placers, InTransaction(p)'
          PROVE  InTransaction(p) /\ place'[p] = place[p] /\ mine'[p] = mine[p]
        BY <2>1 DEF PlacerRests, PlacerMoves, InTransaction
    <2> QED BY <2>1 DEF OneWriter, PInv
<1>3. OrdersInv'
    BY DEF OrdersInv, OrdersStay, PInv
<1>4. \A c \in Carts : OrdersOf(c)' = OrdersOf(c)
    BY DEF OrdersOf, OrdersStay
<1>5. OneOrderPerCart'
    BY <1>4 DEF OneOrderPerCart, PInv, StatusesKept
<1>6. KeysInv'
    BY DEF KeysInv, PInv, OrdersStay
<1>7. AnswersInv'
    BY DEF AnswersInv, PInv
<1> QED BY <1>1, <1>2, <1>3, <1>5, <1>6, <1>7 DEF PInv

\* A step of the editors leaves the places alone.
LEMMA CartStepKeepsPInv ==
    ASSUME PInv, StatusesKept, UNCHANGED <<placeVars, locked>>
    PROVE  PInv'
<1>1. PlaceTypes'
    BY DEF PInv, PlaceTypes, placeVars, placers, orderTables, afterwards
<1>2. OrdersStay
    BY DEF OrdersStay, placeVars, orderTables
<1>3. \A p \in Placers : PlacerRests(p)
    BY DEF PInv, PlaceInv, PlacerRests, placeVars, placers
<1> QED BY <1>1, <1>2, <1>3, StepKeepsPInv DEF placeVars, orderTables, afterwards

\* A step of the places that writes no cart leaves the editors alone.
LEMMA PlaceStepKeepsCInv ==
    ASSUME CInv, UNCHANGED <<tables, editors>>
    PROVE  CInv'
<1>1. CartTypes' /\ VersionsMove /\ \A e \in Editors : EditorRests(e)
    BY DEF CInv, CartTypes, VersionsMove, EditorRests, tables, editors
<1> QED BY <1>1, StepKeepsCInv

-----------------------------------------------------------------------------
(* The steps of the editors. *)

OthersRest(e) == \A f \in Editors \ {e} : EditorRests(f)

\* A request ends, the tables stay.
LEMMA EndKeepsCInv ==
    ASSUME CInv, NEW e \in Editors, End(e), UNCHANGED tables
    PROVE  CInv'
<1>1. NoView \in CartView
    BY DEF NoView, CartView, CartRow, LineRow, NoLine
<1>2. CartTypes'
    BY <1>1 DEF CInv, CartTypes, End, tables, Labels
<1>3. SeenInv(e)'
    BY DEF SeenInv, End, CInv, CartTypes
<1>4. OthersRest(e)
    BY DEF OthersRest, EditorRests, End, CInv, CartTypes
<1>5. VersionsMove
    BY DEF VersionsMove, tables
<1> QED BY <1>2, <1>3, <1>4, <1>5, StepKeepsCInv DEF OthersRest

LEMMA FailKeepsCInv ==
    ASSUME CInv, NEW e \in Editors, NEW ls, Fail(e, ls), UNCHANGED tables
    PROVE  CInv'
BY EndKeepsCInv DEF Fail

\* A request moves on with what it has loaded, the tables stay.
LEMMA EditorStepKeepsCInv ==
    ASSUME CInv, NEW e \in Editors, UNCHANGED tables,
           NEW label \in Labels, pc' = [pc EXCEPT ![e] = label],
           NEW r \in CartRequests \cup {NoRequest}, req' = [req EXCEPT ![e] = r],
           NEW view \in CartView, seen' = [seen EXCEPT ![e] = view],
           SeenInv(e)'
    PROVE  CInv'
<1>1. CartTypes'
    BY DEF CInv, CartTypes, tables
<1>2. OthersRest(e)
    BY DEF OthersRest, EditorRests, CInv, CartTypes
<1>3. VersionsMove
    BY DEF VersionsMove, tables
<1> QED BY <1>1, <1>2, <1>3, StepKeepsCInv DEF OthersRest

LEMMA ReceiveKeepsCInv ==
    ASSUME CInv, NEW e \in Editors, NEW r, Receive(e, r)
    PROVE  CInv'
<1> DEFINE label == IF r.kind = "claim" THEN "check" ELSE "load"
<1>1. /\ UNCHANGED <<tables, seen>>
      /\ pc' = [pc EXCEPT ![e] = label]
      /\ req' = [req EXCEPT ![e] = r]
      /\ r \in CartRequests
    BY DEF Receive
<1>2. label \in Labels
    BY DEF Labels
<1>3. seen[e] \in CartView /\ seen' = [seen EXCEPT ![e] = seen[e]]
    BY <1>1 DEF CInv, CartTypes
<1>4. pc'[e] = label /\ req'[e] = r
    BY <1>1 DEF CInv, CartTypes
<1>5. SeenInv(e)'
    BY <1>1, <1>4 DEF SeenInv
<1> HIDE DEF label
<1> QED BY <1>1, <1>2, <1>3, <1>5, EditorStepKeepsCInv

LEMMA LoadCartKeepsCInv ==
    ASSUME CInv, NEW e \in Editors, LoadCart(e)
    PROVE  CInv'
<1> DEFINE c == req[e].cart
           label == IF req[e].kind = "remove" THEN "save" ELSE "reserve"
<1>1. /\ UNCHANGED <<tables, req>>
      /\ pc[e] = "load"
      /\ pc' = [pc EXCEPT ![e] = label]
      /\ seen' = [seen EXCEPT ![e] = Load(c)]
    BY DEF LoadCart
<1>2. SeenInv(e) /\ req[e] \in CartRequests /\ req[e].kind # "claim"
    BY <1>1 DEF CInv, SeenInv
<1>3. c \in Carts
    BY <1>2, ValidCartRequests
<1>4. Load(c) \in CartView /\ label \in Labels
    BY <1>3 DEF Load, CartView, CInv, CartTypes, Labels
<1>5. req' = [req EXCEPT ![e] = req[e]]
    BY <1>1 DEF CInv, CartTypes
<1>6. pc'[e] = label /\ seen'[e] = Load(c) /\ req'[e] = req[e]
    BY <1>1 DEF CInv, CartTypes
<1>7. SeenInv(e)'
    <2>1. Loadable(req[e], Load(c))
        BY DEF LoadCart
    <2>2. /\ Load(c).row = cart[c] /\ Load(c)' = Load(c)
          /\ cart[c].version \in Nat /\ cart' = cart
        BY <1>1, <1>3 DEF Load, tables, CInv, CartTypes, CartRow
    <2>3. req[e].kind \in {"add", "change", "remove"}
        BY <1>2, ValidCartRequests DEF CartRequest
    <2>4. /\ Load(c).row.owner = req[e].customer
          /\ req[e].kind # "add" => LineNamed(Load(c), req[e].line) # {}
          /\ req[e].kind = "remove" => Load(c).row.status = "active"
        BY <2>1, <2>3 DEF Loadable
    <2>5. label \in {"save", "reserve"} /\ (label = "save" => req[e].kind = "remove")
        OBVIOUS
    <2> HIDE DEF label
    <2> QED BY <1>2, <1>6, <2>2, <2>4, <2>5 DEF SeenInv, LineNamed
<1> HIDE DEF label
<1> QED BY <1>1, <1>2, <1>4, <1>5, <1>7, EditorStepKeepsCInv

LEMMA ReserveLineKeepsCInv ==
    ASSUME CInv, NEW e \in Editors, ReserveLine(e)
    PROVE  CInv'
<1>1. UNCHANGED tables /\ pc[e] = "reserve"
    BY DEF ReserveLine
<1>2. CASE seen[e].row.status = "active"
    <2>1. pc' = [pc EXCEPT ![e] = "save"] /\ UNCHANGED <<req, seen>>
        BY <1>2 DEF ReserveLine
    <2>2. /\ req[e] \in CartRequests \cup {NoRequest}
          /\ seen[e] \in CartView
          /\ req' = [req EXCEPT ![e] = req[e]]
          /\ seen' = [seen EXCEPT ![e] = seen[e]]
          /\ pc'[e] = "save"
        BY <2>1 DEF CInv, CartTypes
    <2>3. SeenInv(e)
        BY DEF CInv
    <2>4. SeenInv(e)'
        BY <1>1, <1>2, <2>1, <2>2, <2>3 DEF SeenInv, Load, LineNamed, tables
    <2>5. "save" \in Labels
        BY DEF Labels
    <2> QED BY <1>1, <2>1, <2>2, <2>4, <2>5, EditorStepKeepsCInv
<1>3. CASE seen[e].row.status # "active"
    BY <1>1, <1>3, FailKeepsCInv DEF ReserveLine
<1> QED BY <1>2, <1>3

LEMMA RetrySaveKeepsCInv ==
    ASSUME CInv, NEW e \in Editors, RetrySave(e)
    PROVE  CInv'
<1>1. /\ UNCHANGED <<tables, req>>
      /\ pc[e] = "save"
      /\ pc' = [pc EXCEPT ![e] = "load"]
      /\ seen' = [seen EXCEPT ![e] = NoView]
    BY DEF RetrySave, CanSave
<1>2. NoView \in CartView /\ "load" \in Labels
    BY DEF NoView, CartView, CartRow, LineRow, NoLine, Labels
<1>3. /\ req[e] \in CartRequests \cup {NoRequest}
      /\ req' = [req EXCEPT ![e] = req[e]]
      /\ pc'[e] = "load" /\ req'[e] = req[e]
    BY <1>1 DEF CInv, CartTypes
<1>4. SeenInv(e)'
    BY <1>1, <1>3 DEF SeenInv, CInv
<1> QED BY <1>1, <1>2, <1>3, <1>4, EditorStepKeepsCInv

LEMMA CheckClaimKeepsCInv ==
    ASSUME CInv, NEW e \in Editors, CheckClaim(e)
    PROVE  CInv'
<1>1. UNCHANGED tables /\ pc[e] = "check"
    BY DEF CheckClaim
<1>2. CASE Loadable(req[e], Load(req[e].cart))
    <2>1. pc' = [pc EXCEPT ![e] = "claim"] /\ UNCHANGED <<req, seen>>
        BY <1>2 DEF CheckClaim, Goto
    <2>2. /\ req[e] \in CartRequests \cup {NoRequest}
          /\ seen[e] \in CartView
          /\ req' = [req EXCEPT ![e] = req[e]]
          /\ seen' = [seen EXCEPT ![e] = seen[e]]
          /\ pc'[e] = "claim" /\ req'[e] = req[e]
        BY <2>1 DEF CInv, CartTypes
    <2>3. req[e] \in CartRequests
        BY <1>1 DEF CInv, SeenInv
    <2>4. cart[req[e].cart].status # "none"
        BY <1>2 DEF Loadable, Load
    <2>5. SeenInv(e)'
        BY <1>1, <2>2, <2>3, <2>4 DEF SeenInv, tables
    <2>6. "claim" \in Labels
        BY DEF Labels
    <2> QED BY <1>1, <2>1, <2>2, <2>5, <2>6, EditorStepKeepsCInv
<1>3. CASE ~Loadable(req[e], Load(req[e].cart))
    BY <1>1, <1>3, EndKeepsCInv DEF CheckClaim
<1> QED BY <1>2, <1>3

\* The variant a loaded request is about, and the line it makes of it.
LEMMA EditFacts ==
    ASSUME NEW r \in CartRequests, NEW view \in CartView, NEW id \in Nat,
           r.kind # "claim",
           r.kind # "add" => LineNamed(view, r.line) # {}
    PROVE  /\ VariantOf(r, view) \in Levels
           /\ r.kind = "add" => VariantOf(r, view) = r.variant
           /\ r.kind # "add" => view.lines[VariantOf(r, view)].id = r.line
           /\ Edited(r, view, id) \in LineRow
<1>1. /\ r \in CartRequest
      /\ r.kind \in {"add", "change", "remove"}
      /\ r.kind = "add" => r.variant \in Levels
      /\ r.line \in Nat /\ r.quantity \in Nat
    BY ValidCartRequests DEF CartRequest
<1>2. CASE r.kind = "add"
    <2>1. view.lines[r.variant] \in LineRow
        BY <1>1, <1>2 DEF CartView
    <2>2. [view.lines[r.variant] EXCEPT !.quantity = @ + r.quantity] \in LineRow
        BY <1>1, <2>1 DEF LineRow
    <2>3. [id |-> id, quantity |-> r.quantity] \in LineRow
        BY <1>1 DEF LineRow
    <2> QED BY <1>1, <1>2, <2>2, <2>3 DEF VariantOf, Edited
<1>3. CASE r.kind # "add"
    <2>1. PICK l \in Levels : view.lines[l].id = r.line
        BY <1>3 DEF LineNamed
    <2>2. /\ VariantOf(r, view) \in Levels
          /\ view.lines[VariantOf(r, view)].id = r.line
        BY <1>3, <2>1 DEF VariantOf
    <2>3. [id |-> r.line, quantity |-> r.quantity] \in LineRow /\ NoLine \in LineRow
        BY <1>1 DEF LineRow, NoLine
    <2>4. Edited(r, view, id) \in LineRow
        BY <1>1, <1>3, <2>3 DEF Edited
    <2> QED BY <1>3, <2>2, <2>4
<1> QED BY <1>2, <1>3

\* What a save finds: the cart it loaded, active and its caller's.
LEMMA SaveFacts ==
    ASSUME CInv, NEW e \in Editors, CanSave(e), VersionMatches(e)
    PROVE  /\ req[e] \in CartRequests /\ req[e].kind # "claim"
           /\ req[e].cart \in Carts
           /\ seen[e] = Load(req[e].cart) /\ seen[e] \in CartView
           /\ cart[req[e].cart].status = "active"
           /\ cart[req[e].cart].owner = req[e].customer
           /\ req[e].kind # "add" => LineNamed(seen[e], req[e].line) # {}
<1>1. SeenInv(e) /\ pc[e] = "save" /\ seen[e] \in CartView
    BY DEF CInv, CartTypes, CanSave
<1>2. req[e] \in CartRequests /\ req[e].kind # "claim" /\ req[e].cart \in Carts
    BY <1>1, ValidCartRequests DEF SeenInv
<1>3. /\ seen[e] = Load(req[e].cart)
      /\ seen[e].row.status = "active" /\ seen[e].row.owner = req[e].customer
      /\ req[e].kind # "add" => LineNamed(seen[e], req[e].line) # {}
    BY <1>1 DEF SeenInv, VersionMatches
<1> QED BY <1>1, <1>2, <1>3 DEF Load

\* The rows of the carts after one cart is written.
LEMMA CartRowStep ==
    ASSUME CInv, NEW c \in Carts, NEW row \in CartRow,
           cart' = [cart EXCEPT ![c] = row],
           row.version > cart[c].version, row.status # "none",
           \A d \in Carts \ {c} : lines'[d] = lines[d]
    PROVE  cart' \in [Carts -> CartRow] /\ VersionsMove
BY DEF VersionsMove, CInv, CartTypes

LEMMA SaveCartKeepsCInv ==
    ASSUME CInv, NEW e \in Editors, SaveCart(e)
    PROVE  CInv' /\ VersionsMove
<1> DEFINE c == req[e].cart
           variant == VariantOf(req[e], seen[e])
           after == Edited(req[e], seen[e], lastLine + 1)
           row == [seen[e].row EXCEPT !.version = @ + 1]
           linesOf == [seen[e].lines EXCEPT ![variant] = after]
<1>1. /\ CanSave(e) /\ VersionMatches(e)
      /\ cart' = [cart EXCEPT ![c] = row]
      /\ lines' = [lines EXCEPT ![c] = linesOf]
      /\ lastLine' = IF after.id = lastLine + 1 THEN after.id ELSE lastLine
    BY DEF SaveCart
<1>2. /\ req[e] \in CartRequests /\ req[e].kind # "claim"
      /\ c \in Carts
      /\ seen[e] = Load(c) /\ seen[e] \in CartView
      /\ cart[c].status = "active"
      /\ req[e].kind # "add" => LineNamed(seen[e], req[e].line) # {}
    BY <1>1, SaveFacts
<1>3. lastLine \in Nat /\ lastLine + 1 \in Nat
    BY DEF CInv, CartTypes
<1>4. after \in LineRow
    BY <1>2, <1>3, EditFacts
<1>5. row \in CartRow /\ row.version > cart[c].version /\ row.status = "active"
    BY <1>2 DEF Load, CInv, CartTypes, CartRow
<1>6. linesOf \in [Levels -> LineRow]
    BY <1>2, <1>4 DEF CartView
<1>7. lastLine' \in Nat
    BY <1>1, <1>3
<1> HIDE DEF row, linesOf, after
<1>8. /\ lines' \in [Carts -> [Levels -> LineRow]]
      /\ \A d \in Carts \ {c} : lines'[d] = lines[d]
    BY <1>1, <1>6 DEF CInv, CartTypes
<1>9. cart' \in [Carts -> CartRow] /\ VersionsMove
    BY <1>1, <1>2, <1>5, <1>8, CartRowStep
<1>10. CASE End(e)
    <2>1. NoView \in CartView
        BY DEF NoView, CartView, CartRow, LineRow, NoLine
    <2>2. CartTypes'
        BY <1>7, <1>8, <1>9, <1>10, <2>1 DEF CInv, CartTypes, End, Labels
    <2>3. SeenInv(e)' /\ OthersRest(e)
        BY <1>10 DEF SeenInv, End, CInv, CartTypes, OthersRest, EditorRests
    <2> QED BY <1>9, <2>2, <2>3, StepKeepsCInv DEF OthersRest
<1>11. CASE /\ pc' = [pc EXCEPT ![e] = "release"]
            /\ seen' = [seen EXCEPT ![e] = NoView]
            /\ UNCHANGED req
    <2>1. NoView \in CartView
        BY DEF NoView, CartView, CartRow, LineRow, NoLine
    <2>2. CartTypes'
        BY <1>7, <1>8, <1>9, <1>11, <2>1 DEF CInv, CartTypes, Labels
    <2>3. SeenInv(e)' /\ OthersRest(e)
        BY <1>2, <1>11 DEF SeenInv, CInv, CartTypes, OthersRest, EditorRests
    <2> QED BY <1>9, <2>2, <2>3, StepKeepsCInv DEF OthersRest
<1> QED BY <1>9, <1>10, <1>11 DEF SaveCart

LEMMA ClaimCartKeepsCInv ==
    ASSUME CInv, NEW e \in Editors, ClaimCart(e)
    PROVE  CInv' /\ VersionsMove
<1> DEFINE c == req[e].cart
           owned == [cart[c] EXCEPT !.owner = req[e].newCustomer]
           row == [owned EXCEPT !.version = @ + 1]
<1>1. /\ pc[e] = "claim" /\ End(e)
      /\ Reassign(c, req[e].newCustomer)
      /\ UNCHANGED <<lines, lastLine>>
    BY DEF ClaimCart
<1>2. req[e] \in CartRequests /\ c \in Carts
    BY <1>1, ValidCartRequests DEF CInv, SeenInv
<1>3. cart[c] \in CartRow /\ cart[c].version \in Nat
    BY <1>2 DEF CInv, CartTypes, CartRow
<1>4. req[e].newCustomer \in Customers \cup {None}
    BY <1>2, ValidCartRequests DEF CartRequest
<1>5. /\ owned \in CartRow /\ owned.version = cart[c].version
      /\ owned.status = cart[c].status
    BY <1>3, <1>4 DEF CartRow
<1> HIDE DEF owned
<1>6. /\ row \in CartRow /\ row.version = cart[c].version + 1
      /\ row.status = cart[c].status
    BY <1>3, <1>5 DEF CartRow
<1>7. cart' = [cart EXCEPT ![c] = row]
    BY <1>1, <1>2 DEF Reassign, owned, CInv, CartTypes, CartRow
<1> HIDE DEF row
<1>8. cart[c].status # "none"
    BY <1>1 DEF CInv, SeenInv
<1>9. cart' \in [Carts -> CartRow] /\ VersionsMove
    <2>1. /\ row.version > cart[c].version /\ row.status # "none"
          /\ \A d \in Carts \ {c} : lines'[d] = lines[d]
        BY <1>1, <1>3, <1>6, <1>8
    <2> HIDE DEF c
    <2> QED BY <1>2, <1>6, <1>7, <2>1, CartRowStep
<1>10. NoView \in CartView
    BY DEF NoView, CartView, CartRow, LineRow, NoLine
<1>11. CartTypes'
    BY <1>1, <1>9, <1>10 DEF CInv, CartTypes, End, Labels
<1>12. SeenInv(e)' /\ OthersRest(e)
    BY <1>1 DEF SeenInv, End, CInv, CartTypes, OthersRest, EditorRests
<1> QED BY <1>9, <1>11, <1>12, StepKeepsCInv DEF OthersRest

\* The editors rest while carts are created, abandoned or converted.
LEMMA CartsStepKeepsCInv ==
    ASSUME CInv, cart' \in [Carts -> CartRow], UNCHANGED <<lines, lastLine, editors>>,
           VersionsMove
    PROVE  CInv'
<1>1. CartTypes' /\ \A e \in Editors : EditorRests(e)
    BY DEF CInv, CartTypes, EditorRests, editors
<1> QED BY <1>1, StepKeepsCInv

LEMMA CreateCartKeepsCInv ==
    ASSUME CInv, NEW c \in Carts, NEW customer \in Customers, CreateCart(c, customer)
    PROVE  CInv' /\ VersionsMove
<1> DEFINE row == [status |-> "active", version |-> 1, owner |-> customer]
<1>1. /\ cart' = [cart EXCEPT ![c] = row] /\ UNCHANGED <<lines, lastLine, editors>>
      /\ cart[c].status = "none"
    BY DEF CreateCart
<1>2. row \in CartRow /\ row.status # "none" /\ row.version > cart[c].version
    BY <1>1 DEF CartRow, CInv, FreshInv
<1> HIDE DEF row
<1> QED BY <1>1, <1>2, CartRowStep, CartsStepKeepsCInv

LEMMA EraseCustomerKeepsCInv ==
    ASSUME CInv, NEW customer \in Customers, EraseCustomer(customer)
    PROVE  CInv' /\ VersionsMove
<1> DEFINE his == {c \in Carts : cart[c].owner = customer /\ cart[c].status = "active"}
           abandoned(c) == [cart[c] EXCEPT !.status = "abandoned"]
           row(c) == [abandoned(c) EXCEPT !.version = @ + 1]
<1>1. UNCHANGED <<lines, lastLine, editors>>
    BY DEF EraseCustomer
<1>2. ASSUME NEW c \in Carts
      PROVE  /\ abandoned(c) \in CartRow
             /\ abandoned(c).status = "abandoned"
             /\ abandoned(c).version = cart[c].version /\ cart[c].version \in Nat
    BY DEF CInv, CartTypes, CartRow
<1> HIDE DEF abandoned
<1>3. ASSUME NEW c \in Carts
      PROVE  /\ row(c) \in CartRow /\ row(c).status = "abandoned"
             /\ row(c).version > cart[c].version
    BY <1>2 DEF CartRow
<1>4. ASSUME NEW c \in Carts
      PROVE  row(c) = [cart[c] EXCEPT !.status = "abandoned", !.version = @ + 1]
    BY <1>2 DEF abandoned, CInv, CartTypes, CartRow
<1> HIDE DEF row
<1>5. cart' = [c \in Carts |-> IF c \in his THEN row(c) ELSE cart[c]]
    BY <1>4 DEF EraseCustomer
<1> HIDE DEF his
<1>6. cart' \in [Carts -> CartRow]
    BY <1>3, <1>5 DEF CInv, CartTypes
<1>7. VersionsMove
    BY <1>1, <1>3, <1>5 DEF VersionsMove
<1> QED BY <1>1, <1>6, <1>7, CartsStepKeepsCInv

LEMMA CartNextKeepsCInv ==
    ASSUME CInv, CartNext
    PROVE  CInv'
<1>1. ASSUME NEW e \in Editors, NEW r \in CartRequests, Receive(e, r)
      PROVE  CInv'
    BY <1>1, ReceiveKeepsCInv
<1>2. ASSUME NEW e \in Editors,
             \/ RefuseLoad(e) \/ RefuseReserve(e) \/ LoseReserveAnswer(e)
             \/ ExhaustSave(e) \/ Die(e)
      PROVE  CInv'
    <2>1. UNCHANGED tables /\ \E ls \in {{due[e]}, {VariantOf(req[e], seen[e]), due[e]}} :
              Fail(e, ls)
        BY <1>2 DEF RefuseLoad, RefuseReserve, LoseReserveAnswer, ExhaustSave, Die
    <2> QED BY <2>1, FailKeepsCInv
<1>3. ASSUME NEW e \in Editors, ReleaseLine(e)
      PROVE  CInv'
    BY <1>3, EndKeepsCInv DEF ReleaseLine
<1>4. ASSUME NEW customer \in Customers, NEW c \in Carts, CreateCart(c, customer)
      PROVE  CInv'
    BY <1>4, CreateCartKeepsCInv
<1>5. ASSUME NEW customer \in Customers, EraseCustomer(customer)
      PROVE  CInv'
    BY <1>5, EraseCustomerKeepsCInv
<1>6. ASSUME NEW c \in Carts, NEW l \in Levels, Lapse(c, l)
      PROVE  CInv'
    BY <1>6, PlaceStepKeepsCInv DEF Lapse
<1> QED BY <1>1, <1>2, <1>3, <1>4, <1>5, <1>6, LoadCartKeepsCInv, ReserveLineKeepsCInv,
           SaveCartKeepsCInv, RetrySaveKeepsCInv, CheckClaimKeepsCInv, ClaimCartKeepsCInv
        DEF CartNext

\* No step of an edit converts a cart, nor writes the row of one that is locked,
\* unless the row stays active.
LEMMA CartNextKeepsStatuses ==
    ASSUME CInv, locked \subseteq Carts, CartNext
    PROVE  StatusesKept /\ UNCHANGED locked
<1>1. ASSUME UNCHANGED <<tables, locked>>
      PROVE  StatusesKept /\ UNCHANGED locked
    BY <1>1 DEF StatusesKept, tables
<1>2. ASSUME NEW e \in Editors, SaveCart(e)
      PROVE  StatusesKept /\ UNCHANGED locked
    <2> DEFINE c == req[e].cart
               row == [seen[e].row EXCEPT !.version = @ + 1]
    <2>1. /\ CanSave(e) /\ VersionMatches(e)
          /\ cart' = [cart EXCEPT ![c] = row] /\ UNCHANGED locked
        BY <1>2 DEF SaveCart
    <2>2. seen[e] = Load(c) /\ seen[e] \in CartView /\ cart[c].status = "active"
        BY <2>1, SaveFacts
    <2>3. row.status = "active"
        BY <2>2 DEF Load, CartView, CartRow
    <2> HIDE DEF row
    <2> QED BY <2>1, <2>2, <2>3 DEF StatusesKept, CInv, CartTypes
<1>3. ASSUME NEW e \in Editors, ClaimCart(e)
      PROVE  StatusesKept /\ UNCHANGED locked
    <2>1. \A c \in Carts : cart'[c].status = cart[c].status
        BY <1>3 DEF ClaimCart, Reassign, CInv, CartTypes, CartRow
    <2>2. req[e].cart \notin locked /\ UNCHANGED locked
        BY <1>3 DEF ClaimCart
    <2>3. \A c \in locked : cart'[c] = cart[c]
        BY <1>3, <2>2 DEF ClaimCart, Reassign, CInv, CartTypes
    <2> QED BY <2>1, <2>2, <2>3 DEF StatusesKept
<1>4. ASSUME NEW customer \in Customers, NEW c \in Carts, CreateCart(c, customer)
      PROVE  StatusesKept /\ UNCHANGED locked
    BY <1>4 DEF CreateCart, StatusesKept, CInv, CartTypes
<1>5. ASSUME NEW customer \in Customers, EraseCustomer(customer)
      PROVE  StatusesKept /\ UNCHANGED locked
    <2> DEFINE his == {c \in Carts : cart[c].owner = customer /\ cart[c].status = "active"}
    <2>1. ASSUME NEW c \in Carts \ his PROVE cart'[c] = cart[c]
        BY <1>5, <2>1 DEF EraseCustomer
    <2>2. ASSUME NEW c \in his PROVE cart'[c].status = "abandoned" /\ cart[c].status = "active"
        BY <1>5, <2>2 DEF EraseCustomer, CInv, CartTypes, CartRow
    <2>3. his \cap locked = {} /\ UNCHANGED locked
        BY <1>5 DEF EraseCustomer
    <2>4. ASSUME NEW c \in locked, cart[c].status = "active" PROVE cart'[c].status = "active"
        BY <1>5, <2>3, <2>4 DEF EraseCustomer
    <2> QED BY <2>1, <2>2, <2>3, <2>4 DEF StatusesKept
<1>6. ASSUME NEW e \in Editors,
             \/ \E r \in CartRequests : Receive(e, r)
             \/ LoadCart(e) \/ RefuseLoad(e) \/ ReserveLine(e) \/ RefuseReserve(e)
             \/ LoseReserveAnswer(e) \/ RetrySave(e) \/ ExhaustSave(e)
             \/ ReleaseLine(e) \/ CheckClaim(e) \/ Die(e)
      PROVE  UNCHANGED <<tables, locked>>
    BY <1>6 DEF Receive, LoadCart, RefuseLoad, ReserveLine, RefuseReserve,
                LoseReserveAnswer, RetrySave, ExhaustSave, ReleaseLine, CheckClaim, Die
<1>7. ASSUME NEW c \in Carts, NEW l \in Levels, Lapse(c, l)
      PROVE  UNCHANGED <<tables, locked>>
    BY <1>7 DEF Lapse
<1> QED BY <1>1, <1>2, <1>3, <1>4, <1>5, <1>6, <1>7 DEF CartNext

-----------------------------------------------------------------------------
(* The steps of the placers. *)

OtherPlacersRest(p) ==
    \A q \in Placers \ {p} : stage'[q] = stage[q] /\ place'[q] = place[q] /\ mine'[q] = mine[q]

\* Whoever else is in a transaction keeps its lock when p's ends.
LocksRemain(p) ==
    /\ locked' \subseteq Carts
    /\ \A q \in Placers \ {p} : InTransaction(q) => place[q].cart \in locked'

LEMMA LockLeft ==
    ASSUME PInv, NEW p \in Placers,
           \/ UNCHANGED locked
           \/ InTransaction(p) /\ Unlock(p)
    PROVE  LocksRemain(p)
BY DEF LocksRemain, Unlock, PInv, PlaceTypes, PlaceInv, OneWriter

LEMMA EndPlaceFacts ==
    ASSUME PlaceTypes, NEW p \in Placers, EndPlace(p)
    PROVE  /\ stage' \in [Placers -> Stages]
           /\ place' \in [Placers -> PlaceRequests \cup {NoPlace}]
           /\ cut' \in [Placers -> [Levels -> Nat]]
           /\ mine' \in [Placers -> 0 .. MaxOrders]
           /\ PlacerMoves(p) /\ OtherPlacersRest(p)
<1>1. NoCut \in [Levels -> Nat] /\ 0 \in 0 .. MaxOrders /\ "idle" \in Stages
    BY PlaceConstants DEF NoCut, Stages
<1>2. /\ stage' \in [Placers -> Stages]
      /\ place' \in [Placers -> PlaceRequests \cup {NoPlace}]
      /\ cut' \in [Placers -> [Levels -> Nat]]
      /\ mine' \in [Placers -> 0 .. MaxOrders]
    BY <1>1 DEF PlaceTypes, EndPlace
<1>3. stage'[p] = "idle" /\ OtherPlacersRest(p)
    BY DEF PlaceTypes, EndPlace, OtherPlacersRest
<1> QED BY <1>2, <1>3 DEF PlacerMoves, PlaceInv, InTransaction

LEMMA MoveToFacts ==
    ASSUME PlaceTypes, NEW p \in Placers, NEW label \in Stages, MoveTo(p, label)
    PROVE  /\ stage' \in [Placers -> Stages]
           /\ place' \in [Placers -> PlaceRequests \cup {NoPlace}]
           /\ cut' \in [Placers -> [Levels -> Nat]]
           /\ mine' \in [Placers -> 0 .. MaxOrders]
           /\ stage'[p] = label /\ place'[p] = place[p] /\ mine'[p] = mine[p]
           /\ OtherPlacersRest(p)
BY DEF PlaceTypes, MoveTo, OtherPlacersRest

\* A placer moves, perhaps out of its transaction; orders may be marked.
LEMMA PlacerStepKeepsPInv ==
    ASSUME PInv, NEW p \in Placers,
           UNCHANGED <<cart, keys, lastOrder, answers>>,
           LocksRemain(p), OrdersStay,
           orders' \in [OrderIds -> OrderRow],
           payment' \in [OrderIds -> {"none", "authorized", "voided"}],
           stage' \in [Placers -> Stages],
           place' \in [Placers -> PlaceRequests \cup {NoPlace}],
           cut' \in [Placers -> [Levels -> Nat]],
           mine' \in [Placers -> 0 .. MaxOrders],
           PlacerMoves(p), OtherPlacersRest(p)
    PROVE  PInv'
<1>1. PlaceTypes'
    BY DEF PInv, PlaceTypes, LocksRemain
<1>2. StatusesKept
    BY DEF StatusesKept
<1>3. \A q \in Placers : PlacerRests(q) \/ PlacerMoves(q)
    BY DEF OtherPlacersRest, LocksRemain, PlacerRests
<1> QED BY <1>1, <1>2, <1>3, StepKeepsPInv

\* A place ends, or moves, and writes no order.
LEMMA EndPlaceKeepsPInv ==
    ASSUME PInv, NEW p \in Placers, EndPlace(p),
           UNCHANGED <<cart, orderTables, answers>>,
           UNCHANGED locked \/ (InTransaction(p) /\ Unlock(p))
    PROVE  PInv'
<1>1. LocksRemain(p) /\ PlaceTypes
    BY LockLeft DEF PInv
<1>2. /\ OrdersStay /\ UNCHANGED <<keys, lastOrder>>
      /\ orders' \in [OrderIds -> OrderRow]
      /\ payment' \in [OrderIds -> {"none", "authorized", "voided"}]
    BY <1>1 DEF OrdersStay, orderTables, PlaceTypes
<1> QED BY <1>1, <1>2, EndPlaceFacts, PlacerStepKeepsPInv

LEMMA MoveKeepsPInv ==
    ASSUME PInv, NEW p \in Placers, NEW label \in Stages, MoveTo(p, label),
           UNCHANGED <<cart, orderTables, answers>>,
           UNCHANGED locked \/ (InTransaction(p) /\ Unlock(p)),
           stage[p] # "idle",
           label \in {"allocate", "commit"} => InTransaction(p) /\ UNCHANGED locked,
           label \in {"authorize", "declined", "fail", "store"} => mine[p] \in OrderIds,
           label = "store" => payment[mine[p]] # "none"
    PROVE  PInv'
<1>1. LocksRemain(p) /\ PlaceTypes /\ PlaceInv(p)
    BY LockLeft DEF PInv
<1>2. /\ OrdersStay /\ UNCHANGED <<keys, lastOrder, orders, payment>>
      /\ orders' \in [OrderIds -> OrderRow]
      /\ payment' \in [OrderIds -> {"none", "authorized", "voided"}]
    BY <1>1 DEF OrdersStay, orderTables, PlaceTypes
<1>3. stage'[p] = label /\ place'[p] = place[p] /\ mine'[p] = mine[p]
    BY <1>1, MoveToFacts
<1>4. PlacerMoves(p)
    BY <1>1, <1>2, <1>3 DEF PlacerMoves, PlaceInv, InTransaction
<1> QED BY <1>1, <1>2, <1>4, MoveToFacts, PlacerStepKeepsPInv

\* The steps up to the place transaction.
LEMMA ReplayKeepsPInv ==
    ASSUME PInv, NEW r, Replay(r)
    PROVE  PInv'
<1>1. /\ UNCHANGED <<cart, locked, orders, payment, lastOrder, keys, stage, place, cut, mine>>
      /\ r \in PlaceRequests /\ keys[r.key] # NoKey
      /\ answers' = answers \cup {[request |-> r, order |-> keys[r.key].order]}
    BY DEF Replay, Answer, cartVars, tables, orderTables, placers
<1>2. keys[r.key].order \in OrderIds
    BY <1>1, PlaceConstants DEF PInv, KeysInv, PlaceRequest
<1>3. PlaceTypes'
    BY <1>1, <1>2 DEF PInv, PlaceTypes
<1>4. StatusesKept /\ OrdersStay /\ \A p \in Placers : PlacerRests(p)
    BY <1>1 DEF StatusesKept, OrdersStay, PlacerRests, PInv, PlaceInv
<1> QED BY <1>1, <1>3, <1>4, StepKeepsPInv

LEMMA BeginPlaceKeepsPInv ==
    ASSUME PInv, NEW p \in Placers, NEW r, BeginPlace(p, r)
    PROVE  PInv'
<1>1. /\ UNCHANGED <<cart, locked, orders, payment, lastOrder, keys, answers, cut, mine>>
      /\ r \in PlaceRequests
      /\ stage' = [stage EXCEPT ![p] = "header"]
      /\ place' = [place EXCEPT ![p] = r]
    BY DEF BeginPlace, tables, orderTables, afterwards
<1>2. /\ PlaceTypes /\ LocksRemain(p) /\ OrdersStay
      /\ orders' \in [OrderIds -> OrderRow]
      /\ payment' \in [OrderIds -> {"none", "authorized", "voided"}]
    BY <1>1, LockLeft DEF PInv, PlaceTypes, OrdersStay
<1>3. /\ stage' \in [Placers -> Stages]
      /\ place' \in [Placers -> PlaceRequests \cup {NoPlace}]
      /\ cut' \in [Placers -> [Levels -> Nat]]
      /\ mine' \in [Placers -> 0 .. MaxOrders]
      /\ stage'[p] = "header" /\ place'[p] = r
      /\ OtherPlacersRest(p)
    BY <1>1, <1>2 DEF PlaceTypes, OtherPlacersRest, Stages
<1>4. PlacerMoves(p)
    BY <1>1, <1>3 DEF PlacerMoves, PlaceInv, InTransaction
<1> QED BY <1>1, <1>2, <1>3, <1>4, PlacerStepKeepsPInv

LEMMA ReadHeaderKeepsPInv ==
    ASSUME CartTypes, PInv, NEW p \in Placers, ReadHeader(p)
    PROVE  PInv'
<1>1. stage[p] = "header" /\ UNCHANGED <<cart, orderTables, answers, locked>>
    BY DEF ReadHeader, cartVars, tables, afterwards
<1>2. EndPlace(p) \/ \E label \in {"resolve", "lines"} : MoveTo(p, label)
    <2> DEFINE row == cart[place[p].cart]
    <2>1. PlaceInv(p) /\ place[p] \in PlaceRequests
        BY <1>1 DEF PInv, PlaceInv
    <2>2. row.status \in {"none", "active", "converted", "abandoned"}
        BY <2>1, PlaceConstants DEF CartTypes, CartRow, PlaceRequest
    <2> QED BY <2>2 DEF ReadHeader
<1> QED BY <1>1, <1>2, EndPlaceKeepsPInv, MoveKeepsPInv DEF Stages

LEMMA ReadLinesKeepsPInv ==
    ASSUME CartTypes, PInv, NEW p \in Placers, ReadLines(p)
    PROVE  PInv'
<1>1. stage[p] = "lines" /\ UNCHANGED <<cart, orderTables, answers, locked>>
    BY DEF ReadLines, cartVars, tables, afterwards
<1>2. CASE EndPlace(p)
    BY <1>1, <1>2, EndPlaceKeepsPInv
<1>3. CASE /\ cut' = [cut EXCEPT ![p] = Quantities(place[p].cart)]
           /\ stage' = [stage EXCEPT ![p] = "convert"]
           /\ UNCHANGED <<place, mine>>
    <2>1. PlaceInv(p) /\ PlaceTypes /\ place[p] \in PlaceRequests
        BY <1>1 DEF PInv, PlaceInv
    <2>2. Quantities(place[p].cart) \in [Levels -> Nat]
        BY <2>1, PlaceConstants DEF Quantities, CartTypes, LineRow, PlaceRequest
    <2>3. /\ stage' \in [Placers -> Stages] /\ cut' \in [Placers -> [Levels -> Nat]]
          /\ stage'[p] = "convert"
          /\ place' \in [Placers -> PlaceRequests \cup {NoPlace}]
          /\ mine' \in [Placers -> 0 .. MaxOrders]
          /\ OtherPlacersRest(p)
        BY <1>3, <2>1, <2>2 DEF PlaceTypes, OtherPlacersRest, Stages
    <2>4. PlacerMoves(p)
        BY <1>3, <2>1, <2>3 DEF PlacerMoves, PlaceInv, InTransaction
    <2>5. /\ LocksRemain(p) /\ OrdersStay
          /\ orders' \in [OrderIds -> OrderRow]
          /\ payment' \in [OrderIds -> {"none", "authorized", "voided"}]
          /\ UNCHANGED <<lastOrder, keys>>
        BY <1>1, <2>1, LockLeft DEF PlaceTypes, OrdersStay, orderTables
    <2> QED BY <1>1, <2>3, <2>4, <2>5, PlacerStepKeepsPInv
<1> QED BY <1>2, <1>3 DEF ReadLines

\* The placer has an order id of its own, and the row of an active cart.
LEMMA ConvertKeepsPInv ==
    ASSUME PInv, NEW p \in Placers, Convert(p)
    PROVE  PInv'
<1> DEFINE c == place[p].cart
<1>1. /\ stage[p] = "convert" /\ c \notin locked /\ lastOrder < MaxOrders
      /\ lastOrder' = lastOrder + 1
      /\ UNCHANGED <<cart, orders, payment, keys, answers>>
    BY DEF Convert, edits, tables, afterwards
<1>2. PlaceTypes /\ PlaceInv(p) /\ place[p] \in PlaceRequests /\ c \in Carts
    BY <1>1, PlaceConstants DEF PInv, PlaceInv, PlaceRequest
<1>3. lastOrder \in Nat /\ lastOrder' \in OrderIds /\ lastOrder' \in 0 .. MaxOrders
    BY <1>1, <1>2, PlaceConstants DEF PlaceTypes, OrderIds
<1>4. orders[lastOrder'].status = "none"
    BY <1>1, <1>3 DEF PInv, OrdersInv, OrderIds
<1>5. /\ OrdersInv' /\ OneOrderPerCart' /\ KeysInv' /\ AnswersInv'
    <2>1. OrdersInv'
        BY <1>1, <1>3 DEF PInv, OrdersInv, OrderIds
    <2>2. \A d \in Carts : OrdersOf(d)' = OrdersOf(d)
        BY <1>1 DEF OrdersOf
    <2> QED BY <1>1, <2>1, <2>2 DEF PInv, OneOrderPerCart, KeysInv, AnswersInv
<1>6. CASE Convertible(c)
    <2>1. /\ locked' = locked \cup {c}
          /\ mine' = [mine EXCEPT ![p] = lastOrder']
          /\ stage' = [stage EXCEPT ![p] = "allocate"]
          /\ UNCHANGED <<place, cut>>
        BY <1>1, <1>6 DEF Convert
    <2>2. PlaceTypes'
        BY <1>1, <1>2, <1>3, <2>1 DEF PlaceTypes, Stages
    <2>3. stage'[p] = "allocate" /\ mine'[p] = lastOrder' /\ place'[p] = place[p]
        BY <1>2, <2>1 DEF PlaceTypes
    <2>4. ASSUME NEW q \in Placers \ {p}
          PROVE  stage'[q] = stage[q] /\ mine'[q] = mine[q] /\ place'[q] = place[q]
        BY <1>2, <2>1 DEF PlaceTypes
    <2>5. ASSUME NEW q \in Placers PROVE PlaceInv(q)'
        <3>1. CASE q = p
            BY <1>1, <1>2, <1>3, <1>4, <1>6, <2>1, <2>3, <3>1
               DEF PlaceInv, InTransaction, Convertible, OrderIds
        <3>2. CASE q # p
            <4>1. PlaceInv(q)
                BY DEF PInv
            <4>2. 1 .. lastOrder \subseteq 1 .. lastOrder'
                BY <1>1, <1>3
            <4> QED BY <1>1, <2>1, <2>4, <3>2, <4>1, <4>2 DEF PlaceInv, InTransaction
        <3> QED BY <3>1, <3>2
    <2>6. ASSUME NEW q \in Placers \ {p}, InTransaction(q)
          PROVE  place[q].cart # c /\ mine[q] # lastOrder'
        BY <1>1, <1>3, <2>6 DEF PInv, PlaceInv
    <2>7. OneWriter'
        BY <2>3, <2>4, <2>6 DEF OneWriter, PInv, InTransaction
    <2> QED BY <1>5, <2>2, <2>5, <2>7 DEF PInv
<1>7. CASE ~Convertible(c)
    <2>1. EndPlace(p) /\ UNCHANGED locked
        BY <1>1, <1>7 DEF Convert
    <2>2. /\ stage' \in [Placers -> Stages]
          /\ place' \in [Placers -> PlaceRequests \cup {NoPlace}]
          /\ cut' \in [Placers -> [Levels -> Nat]]
          /\ mine' \in [Placers -> 0 .. MaxOrders]
          /\ PlacerMoves(p) /\ OtherPlacersRest(p)
        BY <1>2, <2>1, EndPlaceFacts
    <2>3. PlaceTypes'
        BY <1>1, <1>2, <1>3, <2>1, <2>2 DEF PlaceTypes
    <2>4. stage'[p] = "idle"
        BY <1>2, <2>1 DEF EndPlace, PlaceTypes
    <2>5. ASSUME NEW q \in Placers PROVE PlaceInv(q)'
        <3>1. CASE q = p
            BY <2>2, <3>1 DEF PlacerMoves
        <3>2. CASE q # p
            <4>1. PlaceInv(q)
                BY DEF PInv
            <4>2. 1 .. lastOrder \subseteq 1 .. lastOrder'
                BY <1>1, <1>3
            <4> QED BY <1>1, <2>1, <2>2, <3>2, <4>1, <4>2
                    DEF PlaceInv, InTransaction, OtherPlacersRest
        <3> QED BY <3>1, <3>2
    <2>6. OneWriter'
        BY <2>2, <2>4 DEF OneWriter, PInv, InTransaction, OtherPlacersRest
    <2> QED BY <1>5, <2>3, <2>5, <2>6 DEF PInv
<1> QED BY <1>6, <1>7

\* The order appears and the cart is converted, in one step.
LEMMA CommitPlaceKeepsIInv ==
    ASSUME CInv, PInv, NEW p \in Placers, CommitPlace(p)
    PROVE  CInv' /\ VersionsMove /\ PInv'
<1> DEFINE c == place[p].cart
           o == mine[p]
           inserted == [status |-> "pending", paymentStatus |-> "none", cart |-> c,
                        customer |-> place[p].customer, lines |-> cut[p]]
           marked == [cart[c] EXCEPT !.status = "converted"]
           row == [marked EXCEPT !.version = @ + 1]
<1>1. /\ stage[p] = "commit" /\ Unlock(p) /\ MoveTo(p, "authorize")
      /\ orders' = [orders EXCEPT ![o] = inserted]
      /\ MarkConverted(c)
      /\ UNCHANGED <<lines, lastLine, editors, payment, lastOrder, keys, answers>>
    BY DEF CommitPlace, afterwards
<1>2. PlaceTypes /\ PlaceInv(p) /\ InTransaction(p)
    BY <1>1 DEF PInv, InTransaction
<1>3. /\ place[p] \in PlaceRequests
      /\ c \in Carts /\ place[p].customer \in Customers
    BY <1>1, <1>2, PlaceConstants DEF PlaceInv, PlaceRequest
<1>4. /\ cart[c].status = "active" /\ orders[o].status = "none"
      /\ o \in OrderIds /\ o <= lastOrder
    BY <1>2, PlaceConstants DEF PlaceInv, PlaceTypes, OrderIds
<1>5. inserted \in OrderRow
    BY <1>2, <1>3 DEF OrderRow, PlaceTypes
<1>6. /\ marked \in CartRow /\ marked.version = cart[c].version
      /\ marked.status = "converted" /\ cart[c].version \in Nat
    BY <1>3 DEF CInv, CartTypes, CartRow
<1>7. row = [cart[c] EXCEPT !.status = "converted", !.version = @ + 1]
    BY <1>3, <1>6 DEF CInv, CartTypes, CartRow
<1>8. cart' = [cart EXCEPT ![c] = row]
    BY <1>1, <1>3, <1>7 DEF MarkConverted, CInv, CartTypes, CartRow
<1> HIDE DEF marked
<1>9. row \in CartRow /\ row.status = "converted" /\ row.version > cart[c].version
    BY <1>6 DEF CartRow
<1> HIDE DEF row
<1>10. CInv' /\ VersionsMove
    <2>1. row.status # "none" /\ \A d \in Carts \ {c} : lines'[d] = lines[d]
        BY <1>1, <1>9
    <2> HIDE DEF c
    <2>2. cart' \in [Carts -> CartRow] /\ VersionsMove
        BY <1>3, <1>8, <1>9, <2>1, CartRowStep
    <2> QED BY <1>1, <2>2, CartsStepKeepsCInv
<1>11. cart'[c] = row /\ \A d \in Carts \ {c} : cart'[d] = cart[d]
    BY <1>3, <1>8 DEF CInv, CartTypes
<1>12. orders'[o] = inserted /\ \A q \in OrderIds \ {o} : orders'[q] = orders[q]
    BY <1>1, <1>2, <1>4 DEF PlaceTypes
<1>13. /\ stage' \in [Placers -> Stages]
       /\ place' \in [Placers -> PlaceRequests \cup {NoPlace}]
       /\ cut' \in [Placers -> [Levels -> Nat]]
       /\ mine' \in [Placers -> 0 .. MaxOrders]
       /\ stage'[p] = "authorize" /\ place'[p] = place[p] /\ mine'[p] = mine[p]
       /\ OtherPlacersRest(p) /\ LocksRemain(p)
    <2>1. "authorize" \in Stages
        BY DEF Stages
    <2> QED BY <1>1, <1>2, <2>1, MoveToFacts, LockLeft
<1>14. PlaceTypes'
    BY <1>1, <1>2, <1>5, <1>13 DEF PlaceTypes, LocksRemain
<1>15. ASSUME NEW q \in Placers PROVE PlaceInv(q)'
    <2>1. CASE q = p
        BY <1>2, <1>4, <1>13, <2>1 DEF PlaceInv, InTransaction
    <2>2. CASE q # p
        <3>1. PlaceInv(q) /\ stage'[q] = stage[q] /\ place'[q] = place[q] /\ mine'[q] = mine[q]
            BY <1>13, <2>2 DEF PInv, OtherPlacersRest
        <3>2. ASSUME InTransaction(q)
              PROVE  /\ place[q].cart \in locked'
                     /\ cart'[place[q].cart].status = "active"
                     /\ orders'[mine[q]].status = "none"
            <4>1. place[q].cart # c /\ mine[q] # o
                BY <1>2, <2>2, <3>2 DEF PInv, OneWriter
            <4>2. place[q].cart \in Carts /\ mine[q] \in OrderIds
                BY <1>2, <3>1, <3>2, PlaceConstants DEF PlaceInv, PlaceTypes, OrderIds
            <4>3. place[q].cart \in locked'
                BY <1>13, <2>2, <3>2 DEF LocksRemain
            <4> QED BY <1>11, <1>12, <3>1, <3>2, <4>1, <4>2, <4>3 DEF PlaceInv
        <3> QED BY <1>1, <3>1, <3>2 DEF PlaceInv, InTransaction
    <2> QED BY <2>1, <2>2
<1>16. OneWriter'
    BY <1>13 DEF OneWriter, PInv, InTransaction, OtherPlacersRest
<1>17. OrdersInv'
    BY <1>1, <1>4, <1>12 DEF OrdersInv, PInv
<1>18. OneOrderPerCart'
    <2>1. OrdersOf(c) = {}
        BY <1>3, <1>4 DEF PInv, OneOrderPerCart
    <2> DEFINE After(d) == {q \in OrderIds : orders'[q].status # "none" /\ orders'[q].cart = d}
    <2>2. \A d \in Carts : OrdersOf(d)' = After(d)
        BY DEF OrdersOf
    <2>3. ASSUME NEW q \in OrderIds PROVE q \in After(c) <=> q = o
        <3>1. orders'[o].status = "pending" /\ orders'[o].cart = c
            BY <1>12
        <3>2. q # o => orders'[q] = orders[q] /\ q \notin OrdersOf(c)
            BY <1>12, <2>1
        <3> QED BY <3>1, <3>2 DEF OrdersOf
    <2>4. After(c) = {o}
        BY <1>4, <2>3
    <2>5. ASSUME NEW d \in Carts \ {c} PROVE After(d) = OrdersOf(d)
        BY <1>4, <1>12 DEF OrdersOf
    <2> HIDE DEF After
    <2>6. ASSUME NEW d \in Carts
          PROVE  /\ \A q, r \in After(d) : q = r
                 /\ cart'[d].status = "converted" <=> After(d) # {}
        <3>1. CASE d = c
            BY <1>9, <1>11, <2>4, <3>1
        <3>2. CASE d # c
            BY <1>11, <2>5, <3>2 DEF PInv, OneOrderPerCart
        <3> QED BY <3>1, <3>2
    <2> QED BY <2>2, <2>6 DEF OneOrderPerCart
<1>19. KeysInv' /\ AnswersInv'
    BY <1>1 DEF KeysInv, AnswersInv, PInv
<1> QED BY <1>10, <1>14, <1>15, <1>16, <1>17, <1>18, <1>19 DEF PInv

LEMMA AllocateKeepsPInv ==
    ASSUME PInv, NEW p \in Placers,
           AllocateCut(p) \/ RefuseAllocate(p) \/ LoseAllocateAnswer(p) \/ LoseCommit(p)
    PROVE  PInv'
<1>1. /\ InTransaction(p) /\ stage[p] # "idle"
      /\ UNCHANGED <<cart, orderTables, answers>>
    BY DEF AllocateCut, RefuseAllocate, LoseAllocateAnswer, LoseCommit, InTransaction,
           edits, editsButFaults, tables, afterwards
<1>2. \/ MoveTo(p, "commit") /\ UNCHANGED locked
      \/ EndPlace(p) /\ Unlock(p)
      \/ MoveTo(p, "rollback") /\ Unlock(p)
    BY DEF AllocateCut, RefuseAllocate, LoseAllocateAnswer, LoseCommit
<1> QED BY <1>1, <1>2, EndPlaceKeepsPInv, MoveKeepsPInv DEF Stages

LEMMA CompensateKeepsPInv ==
    ASSUME PInv, NEW p \in Placers,
           Rollback(p) \/ ReleaseDeclined(p) \/ LoseReleaseDeclined(p) \/ Decline(p)
    PROVE  PInv'
<1>1. /\ stage[p] \in {"rollback", "declined", "authorize"}
      /\ UNCHANGED <<cart, orderTables, answers, locked>>
    BY DEF Rollback, ReleaseDeclined, LoseReleaseDeclined, Decline, edits, editsButFaults,
           tables, cartVars, afterwards
<1>2. \/ EndPlace(p)
      \/ /\ MoveTo(p, "fail") \/ MoveTo(p, "declined")
         /\ stage[p] \in {"declined", "authorize"}
    BY DEF Rollback, ReleaseDeclined, LoseReleaseDeclined, Decline
<1>3. stage[p] \in {"declined", "authorize"} => mine[p] \in OrderIds
    BY DEF PInv, PlaceInv
<1> QED BY <1>1, <1>2, <1>3, EndPlaceKeepsPInv, MoveKeepsPInv DEF Stages

LEMMA DiePlaceKeepsPInv ==
    ASSUME PInv, NEW p \in Placers, DiePlace(p)
    PROVE  PInv'
<1>1. /\ EndPlace(p) /\ UNCHANGED <<cart, orderTables, answers>>
      /\ UNCHANGED locked \/ (InTransaction(p) /\ Unlock(p))
    BY DEF DiePlace, InTransaction, editsButFaults, tables
<1> QED BY <1>1, EndPlaceKeepsPInv

LEMMA ReleaseCancelledKeepsPInv ==
    ASSUME PInv, NEW o \in OrderIds, ReleaseCancelled(o)
    PROVE  PInv'
<1>1. UNCHANGED <<cart, locked, orders, payment, lastOrder, keys, stage, place, cut, mine,
                  answers>>
    BY DEF ReleaseCancelled, edits, tables, orderTables, placers
<1>2. /\ PlaceTypes' /\ StatusesKept /\ OrdersStay
      /\ \A p \in Placers : PlacerRests(p)
    BY <1>1 DEF PInv, PlaceTypes, StatusesKept, OrdersStay, PlacerRests, PlaceInv
<1> QED BY <1>1, <1>2, StepKeepsPInv

LEMMA FailOrderKeepsPInv ==
    ASSUME PInv, NEW p \in Placers, FailOrder(p)
    PROVE  PInv'
<1> DEFINE o == mine[p]
           failed == [orders[o] EXCEPT !.paymentStatus = "failed"]
           row == [failed EXCEPT !.status = "cancelled"]
<1>1. /\ stage[p] = "fail" /\ EndPlace(p)
      /\ UNCHANGED <<cart, locked, payment, lastOrder, keys, answers>>
    BY DEF FailOrder, cartVars, tables, afterwards
<1>2. PlaceTypes /\ o \in OrderIds /\ LocksRemain(p)
    BY <1>1, LockLeft DEF PInv, PlaceInv
<1>3. orders[o] \in OrderRow
    BY <1>2 DEF PlaceTypes
<1> HIDE DEF o
<1>4. /\ failed \in OrderRow /\ failed.cart = orders[o].cart
      /\ failed.status = orders[o].status
    BY <1>3 DEF OrderRow
<1>5. row = [orders[o] EXCEPT !.paymentStatus = "failed", !.status = "cancelled"]
    BY <1>3 DEF OrderRow
<1> HIDE DEF failed
<1>6. /\ row \in OrderRow /\ row.cart = orders[o].cart /\ row.status = "cancelled"
    BY <1>4 DEF OrderRow
<1>7. \/ orders' = orders
      \/ /\ orders[o].status = "pending"
         /\ orders' = [orders EXCEPT ![o].paymentStatus = "failed",
                                     ![o].status = "cancelled"]
    BY DEF FailOrder, o
<1>8. \/ orders' = orders
      \/ orders[o].status = "pending" /\ orders' = [orders EXCEPT ![o] = row]
    BY <1>2, <1>5, <1>7 DEF PlaceTypes, OrderRow
<1> HIDE DEF row
<1>9. /\ orders' \in [OrderIds -> OrderRow]
      /\ payment' \in [OrderIds -> {"none", "authorized", "voided"}]
    BY <1>1, <1>2, <1>6, <1>8 DEF PlaceTypes
<1>10. OrdersStay
    BY <1>1, <1>2, <1>6, <1>8 DEF OrdersStay, PlaceTypes
<1> QED BY <1>1, <1>2, <1>9, <1>10, EndPlaceFacts, PlacerStepKeepsPInv

LEMMA AuthorizeKeepsPInv ==
    ASSUME PInv, NEW p \in Placers, Authorize(p)
    PROVE  PInv'
<1> DEFINE o == mine[p]
           row == [orders[o] EXCEPT !.paymentStatus = "authorized"]
<1>1. /\ stage[p] = "authorize" /\ MoveTo(p, "store")
      /\ payment' = [payment EXCEPT ![o] = "authorized"]
      /\ orders' = [orders EXCEPT ![o] = row]
      /\ UNCHANGED <<cart, locked, lastOrder, keys, answers>>
    BY DEF Authorize, cartVars, tables, afterwards
<1>2. PlaceTypes /\ PlaceInv(p) /\ o \in OrderIds /\ LocksRemain(p)
    BY <1>1, LockLeft DEF PInv, PlaceInv
<1>3. row \in OrderRow /\ row.cart = orders[o].cart /\ row.status = orders[o].status
    <2>1. orders[o] \in OrderRow
        BY <1>2 DEF PlaceTypes
    <2> HIDE DEF o
    <2> QED BY <2>1 DEF OrderRow
<1> HIDE DEF row
<1>4. /\ orders' \in [OrderIds -> OrderRow]
      /\ payment' \in [OrderIds -> {"none", "authorized", "voided"}]
      /\ payment'[o] = "authorized"
    BY <1>1, <1>2, <1>3 DEF PlaceTypes
<1>5. OrdersStay
    BY <1>1, <1>2, <1>3 DEF OrdersStay, PlaceTypes
<1>6. /\ stage' \in [Placers -> Stages]
      /\ place' \in [Placers -> PlaceRequests \cup {NoPlace}]
      /\ cut' \in [Placers -> [Levels -> Nat]]
      /\ mine' \in [Placers -> 0 .. MaxOrders]
      /\ stage'[p] = "store" /\ place'[p] = place[p] /\ mine'[p] = o
      /\ OtherPlacersRest(p)
    <2>1. "store" \in Stages
        BY DEF Stages
    <2> QED BY <1>1, <1>2, <2>1, MoveToFacts
<1>7. PlacerMoves(p)
    BY <1>1, <1>2, <1>4, <1>6 DEF PlacerMoves, PlaceInv, InTransaction
<1> QED BY <1>1, <1>2, <1>4, <1>5, <1>6, <1>7, PlacerStepKeepsPInv

LEMMA ResolveKeepsPInv ==
    ASSUME PInv, NEW p \in Placers, Resolve(p)
    PROVE  PInv'
<1> DEFINE found == OrdersOf(place[p].cart)
           latest == CHOOSE o \in found : \A q \in found : q <= o
<1>1. stage[p] = "resolve" /\ UNCHANGED <<cart, orderTables, answers, locked>>
    BY DEF Resolve, cartVars, tables, afterwards
<1>2. PlaceTypes /\ PlaceInv(p) /\ place[p] \in PlaceRequests /\ place[p].cart \in Carts
    BY <1>1, PlaceConstants DEF PInv, PlaceInv, PlaceRequest
<1>3. CASE found # {} /\ Resolvable(latest)
    <2>1. PICK o \in found : TRUE
        BY <1>3
    <2>2. \A q \in found : q = o
        BY <1>2, <2>1 DEF PInv, OneOrderPerCart
    <2>3. found \subseteq Nat
        BY DEF OrdersOf, OrderIds
    <2>4. o \in found /\ \A q \in found : q <= o
        BY <2>1, <2>2, <2>3
    <2>5. latest \in found
        BY <2>4
    <2> HIDE DEF latest
    <2>6. latest \in OrderIds /\ payment[latest] # "none"
        BY <1>3, <2>5 DEF OrdersOf, Resolvable
    <2>7. mine' = [mine EXCEPT ![p] = latest] /\ stage' = [stage EXCEPT ![p] = "store"]
          /\ UNCHANGED <<place, cut>>
        BY <1>3 DEF Resolve, latest
    <2>8. latest \in 0 .. MaxOrders
        BY <2>6, PlaceConstants DEF OrderIds
    <2>9. /\ stage' \in [Placers -> Stages]
          /\ place' \in [Placers -> PlaceRequests \cup {NoPlace}]
          /\ cut' \in [Placers -> [Levels -> Nat]]
          /\ mine' \in [Placers -> 0 .. MaxOrders]
          /\ stage'[p] = "store" /\ mine'[p] = latest /\ place'[p] = place[p]
          /\ OtherPlacersRest(p)
        BY <1>2, <2>7, <2>8 DEF PlaceTypes, OtherPlacersRest, Stages
    <2>10. /\ LocksRemain(p) /\ OrdersStay
           /\ orders' \in [OrderIds -> OrderRow]
           /\ payment' \in [OrderIds -> {"none", "authorized", "voided"}]
           /\ UNCHANGED <<lastOrder, keys, payment>>
        BY <1>1, <1>2, LockLeft DEF PlaceTypes, OrdersStay, orderTables
    <2>11. PlacerMoves(p)
        BY <1>2, <2>6, <2>9, <2>10 DEF PlacerMoves, PlaceInv, InTransaction
    <2> QED BY <1>1, <2>9, <2>10, <2>11, PlacerStepKeepsPInv
<1>4. CASE ~(found # {} /\ Resolvable(latest))
    BY <1>1, <1>4, EndPlaceKeepsPInv DEF Resolve
<1> QED BY <1>3, <1>4

\* Whoever stores first under a key decides; nothing stored is changed.
LEMMA StoreKeyKeepsPInv ==
    ASSUME PInv, NEW p \in Placers, StoreKey(p)
    PROVE  PInv'
<1> DEFINE r == place[p]
           o == mine[p]
           row == [cart |-> r.cart, body |-> r.body, order |-> o]
<1>1. /\ stage[p] = "store" /\ EndPlace(p)
      /\ keys' = IF keys[r.key] = NoKey THEN [keys EXCEPT ![r.key] = row] ELSE keys
      /\ answers' = answers \cup {[request |-> r, order |-> keys'[r.key].order]}
      /\ UNCHANGED <<cart, locked, orders, payment, lastOrder>>
    BY DEF StoreKey, Answer, Told, cartVars, tables
<1>2. /\ PlaceTypes /\ r \in PlaceRequests /\ r.key \in Keys /\ r.cart \in Carts
      /\ r.body \in Bodies /\ o \in OrderIds /\ payment[o] # "none"
    BY <1>1, PlaceConstants DEF PInv, PlaceInv, PlaceRequest
<1>3. row \in KeyRow /\ row # NoKey
    BY <1>2, CartConstants, PlaceConstants DEF KeyRow, NoKey, OrderIds
<1>4. /\ keys' \in [Keys -> KeyRow] /\ keys'[r.key] # NoKey
      /\ keys'[r.key] \in {keys[r.key], row}
      /\ \A k \in Keys : keys[k] # NoKey => keys'[k] = keys[k]
      /\ \A k \in Keys \ {r.key} : keys'[k] = keys[k]
    BY <1>1, <1>2, <1>3 DEF PlaceTypes
<1>5. KeysInv'
    <2>1. ASSUME NEW k \in Keys, keys'[k] # NoKey
          PROVE  keys'[k].order \in OrderIds /\ payment[keys'[k].order] # "none"
        <3>1. CASE keys'[k] = keys[k]
            BY <2>1, <3>1 DEF PInv, KeysInv
        <3>2. CASE keys'[k] # keys[k]
            <4>1. keys'[k] = row
                BY <1>4, <3>2
            <4> QED BY <1>2, <4>1
        <3> QED BY <3>1, <3>2
    <2> QED BY <1>1, <2>1 DEF KeysInv
<1>6. \A a \in answers : a.request.key \in Keys
    BY <1>2, PlaceConstants DEF PlaceTypes, PlaceRequest
<1> HIDE DEF row
<1>7. AnswersInv'
    BY <1>1, <1>4, <1>6 DEF AnswersInv, PInv
<1>8. PlaceTypes'
    <2>1. keys'[r.key].order \in OrderIds
        BY <1>2, <1>4, <1>5 DEF KeysInv
    <2>2. answers' \subseteq [request : PlaceRequests, order : OrderIds]
        BY <1>1, <1>2, <2>1 DEF PlaceTypes
    <2> QED BY <1>1, <1>2, <1>4, <2>2, EndPlaceFacts DEF PlaceTypes
<1>9. PlacerMoves(p) /\ OtherPlacersRest(p) /\ stage'[p] = "idle"
    BY <1>1, <1>2, EndPlaceFacts DEF EndPlace, PlaceTypes
<1>10. ASSUME NEW q \in Placers PROVE PlaceInv(q)'
    <2>1. CASE q = p
        BY <1>9, <2>1 DEF PlacerMoves
    <2>2. CASE q # p
        <3>1. PlaceInv(q) /\ stage'[q] = stage[q] /\ place'[q] = place[q] /\ mine'[q] = mine[q]
            BY <1>9, <2>2 DEF PInv, OtherPlacersRest
        <3> QED BY <1>1, <3>1 DEF PlaceInv, InTransaction
    <2> QED BY <2>1, <2>2
<1>11. OneWriter'
    BY <1>9 DEF OneWriter, PInv, InTransaction, OtherPlacersRest
<1>12. \A c \in Carts : OrdersOf(c)' = OrdersOf(c)
    BY <1>1 DEF OrdersOf
<1>13. OrdersInv' /\ OneOrderPerCart'
    BY <1>1, <1>12 DEF OrdersInv, OneOrderPerCart, PInv
<1> QED BY <1>5, <1>7, <1>8, <1>10, <1>11, <1>13 DEF PInv

LEMMA CancelOrderKeepsPInv ==
    ASSUME PInv, NEW o \in OrderIds, CancelOrder(o)
    PROVE  PInv'
<1> DEFINE row == [orders[o] EXCEPT !.status = "cancelled"]
<1>1. /\ orders[o].status = "pending"
      /\ orders' = [orders EXCEPT ![o] = row]
      /\ payment' = [payment EXCEPT ![o] = IF @ = "authorized" THEN "voided" ELSE @]
      /\ UNCHANGED <<cart, locked, lastOrder, keys, stage, place, cut, mine, answers>>
    BY DEF CancelOrder, tables, placers
<1>2. PlaceTypes
    BY DEF PInv
<1>3. row \in OrderRow /\ row.cart = orders[o].cart /\ row.status = "cancelled"
    BY <1>2 DEF PlaceTypes, OrderRow
<1> HIDE DEF row
<1>4. PlaceTypes'
    BY <1>1, <1>2, <1>3 DEF PlaceTypes
<1>5. OrdersStay
    BY <1>1, <1>2, <1>3 DEF OrdersStay, PlaceTypes
<1>6. StatusesKept /\ \A p \in Placers : PlacerRests(p)
    BY <1>1 DEF StatusesKept, PlacerRests, PInv, PlaceInv
<1> QED BY <1>1, <1>4, <1>5, <1>6, StepKeepsPInv

-----------------------------------------------------------------------------
(* The invariant. *)

LEMMA InitIsSound == Init => IInv
<1> SUFFICES ASSUME Init PROVE IInv
    OBVIOUS
<1>1. /\ cart \in [Carts -> CartRow] /\ FreshInv
      /\ \A c \in Carts : cart[c].status # "converted"
    <2> DEFINE row(c) == IF FirstOwner[c] = None THEN NoView.row
                         ELSE [status |-> "active", owner |-> FirstOwner[c],
                               version |-> 1 + Cardinality({x \in FirstStock : x[1] = c})]
    <2>1. cart = [c \in Carts |-> row(c)]
        BY DEF Init, CartInit
    <2>2. ASSUME NEW c \in Carts
          PROVE  1 + Cardinality({x \in FirstStock : x[1] = c}) \in Nat
        <3>1. IsFiniteSet(Carts \X Levels)
            BY FiniteTables, FS_Product
        <3>2. {x \in FirstStock : x[1] = c} \subseteq Carts \X Levels
            BY DEF FirstStock
        <3>3. IsFiniteSet({x \in FirstStock : x[1] = c})
            BY <3>1, <3>2, FS_Subset
        <3> QED BY <3>3, FS_CardinalityType
    <2>3. ASSUME NEW c \in Carts
          PROVE  /\ row(c) \in CartRow /\ row(c).status # "converted"
                 /\ row(c).status = "none" => row(c).version = 0
        BY <2>2, CartConstants DEF NoView, CartRow
    <2> HIDE DEF row
    <2> QED BY <2>1, <2>3 DEF FreshInv
<1>2. lastLine \in Nat
    <2>1. IsFiniteSet(Carts \X Levels) /\ FirstStock \subseteq Carts \X Levels
        BY FiniteTables, FS_Product DEF FirstStock
    <2> QED BY <2>1, FS_Subset, FS_CardinalityType DEF Init, CartInit
<1>3. NoView \in CartView
    BY DEF NoView, CartView, CartRow, LineRow, NoLine
<1>4. CartTypes
    BY <1>1, <1>2, <1>3, CartConstants DEF CartTypes, Init, CartInit, Labels
<1>5. CInv
    BY <1>1, <1>4 DEF CInv, SeenInv, Init, CartInit
<1>6. PlaceTypes
    <2>1. NoOrder \in OrderRow /\ NoKey \in KeyRow /\ NoCut \in [Levels -> Nat]
        BY DEF NoOrder, OrderRow, NoKey, KeyRow, NoCut
    <2> QED BY <2>1, PlaceConstants DEF PlaceTypes, Init, CartInit, Stages
<1>7. \A p \in Placers : PlaceInv(p) /\ ~InTransaction(p)
    BY DEF PlaceInv, InTransaction, Init
<1>8. OneWriter
    BY <1>7 DEF OneWriter
<1>9. OrdersInv
    BY DEF OrdersInv, Init, NoOrder
<1>10. OneOrderPerCart
    <2>1. \A c \in Carts : OrdersOf(c) = {}
        BY DEF OrdersOf, Init, NoOrder
    <2> QED BY <1>1, <2>1 DEF OneOrderPerCart
<1>11. KeysInv /\ AnswersInv
    BY DEF KeysInv, AnswersInv, Init
<1> QED BY <1>5, <1>6, <1>7, <1>8, <1>9, <1>10, <1>11 DEF IInv, PInv

LEMMA PlaceNextKeepsIInv ==
    ASSUME IInv, PlaceNext
    PROVE  IInv'
<1> USE DEF IInv
<1>1. ASSUME NEW p \in Placers, CommitPlace(p)
      PROVE  IInv'
    BY <1>1, CommitPlaceKeepsIInv
<1>2. CASE \/ \E r \in PlaceRequests : Replay(r)
           \/ \E p \in Placers :
                 \/ \E r \in PlaceRequests : BeginPlace(p, r)
                 \/ ReadHeader(p) \/ ReadLines(p) \/ Convert(p)
                 \/ AllocateCut(p) \/ RefuseAllocate(p) \/ LoseAllocateAnswer(p)
                 \/ LoseCommit(p)
                 \/ Rollback(p) \/ ReleaseDeclined(p) \/ LoseReleaseDeclined(p)
                 \/ FailOrder(p) \/ Authorize(p) \/ Decline(p) \/ Resolve(p)
                 \/ StoreKey(p) \/ DiePlace(p)
           \/ \E o \in OrderIds : CancelOrder(o) \/ ReleaseCancelled(o)
    <2>1. PInv'
        BY <1>2, ReplayKeepsPInv, BeginPlaceKeepsPInv, ReadHeaderKeepsPInv,
           ReadLinesKeepsPInv, ConvertKeepsPInv, AllocateKeepsPInv, CompensateKeepsPInv,
           FailOrderKeepsPInv, AuthorizeKeepsPInv, ResolveKeepsPInv, StoreKeyKeepsPInv,
           DiePlaceKeepsPInv, CancelOrderKeepsPInv, ReleaseCancelledKeepsPInv, SMTT(40)
        DEF CInv
    <2>2. UNCHANGED <<tables, editors>>
        BY <1>2, ZenonT(60) DEF Replay, BeginPlace, ReadHeader, ReadLines, Convert, AllocateCut,
                    RefuseAllocate, LoseAllocateAnswer, LoseCommit, Rollback,
                    ReleaseDeclined, LoseReleaseDeclined, FailOrder, Authorize, Decline,
                    Resolve, StoreKey, DiePlace, CancelOrder, ReleaseCancelled,
                    cartVars, edits, editsButFaults
    <2> QED BY <2>1, <2>2, PlaceStepKeepsCInv
<1> QED BY <1>1, <1>2 DEF PlaceNext

LEMMA NextKeepsIInv == IInv /\ [Next]_vars => IInv'
<1> SUFFICES ASSUME IInv, [Next]_vars PROVE IInv'
    OBVIOUS
<1>1. CASE CartNext /\ UNCHANGED placeVars
    <2>1. CInv /\ PInv /\ locked \subseteq Carts
        BY DEF IInv, PInv, PlaceTypes
    <2>2. CInv' /\ StatusesKept /\ UNCHANGED locked
        BY <1>1, <2>1, CartNextKeepsCInv, CartNextKeepsStatuses
    <2> QED BY <1>1, <2>1, <2>2, CartStepKeepsPInv DEF IInv
<1>2. CASE PlaceNext
    BY <1>2, PlaceNextKeepsIInv
<1>3. CASE UNCHANGED vars
    <2>1. UNCHANGED <<tables, editors>> /\ UNCHANGED <<placeVars, locked>> /\ UNCHANGED cart
        BY <1>3 DEF vars, cartVars, tables
    <2>2. StatusesKept
        BY <2>1 DEF StatusesKept
    <2> QED BY <2>1, <2>2, CartStepKeepsPInv, PlaceStepKeepsCInv DEF IInv
<1> QED BY <1>1, <1>2, <1>3 DEF Next

\* In every reachable state the two sides of the argument hold together.
THEOREM Invariance == Spec => []IInv
BY InitIsSound, NextKeepsIInv, PTL DEF Spec

-----------------------------------------------------------------------------
(* What follows. *)

\* A cart becomes at most one order, and has one exactly when it is converted,
\* however many places, under however many keys, race for it, and whichever of
\* them fail at whichever point.
THEOREM OneOrderPerCartHolds == Spec => []OneOrderPerCart
<1>1. IInv => OneOrderPerCart
    BY DEF IInv, PInv
<1> QED BY <1>1, Invariance, PTL

\* Whoever is answered with an order is answered with one that has a payment.
THEOREM AnsweredOrdersArePaid == Spec => []AnsweredOrderIsPaid
<1>1. IInv => AnsweredOrderIsPaid
    BY PlaceConstants DEF IInv, PInv, PlaceTypes, KeysInv, AnswersInv, AnsweredOrderIsPaid,
                          PlaceRequest
<1> QED BY <1>1, Invariance, PTL

\* Two answers under one idempotency key name the same order.
THEOREM KeysAnswerOneOrder == Spec => []KeyAnswersOneOrder
<1>1. IInv => KeyAnswersOneOrder
    BY DEF IInv, PInv, AnswersInv, KeyAnswersOneOrder
<1> QED BY <1>1, Invariance, PTL

\* The lines change only by one save, which found the cart it loaded.
LEMMA NextEditsCurrent == IInv /\ [Next]_vars => [EditIsCurrent]_<<lines>>
<1> SUFFICES ASSUME IInv, [Next]_vars, lines' # lines PROVE EditIsCurrent
    BY SMTT(40)
<1>1. PICK e \in Editors : SaveCart(e)
    BY ZenonT(60) DEF Next, vars, cartVars, tables, edits, editsButFaults, stock,
           CartNext, Receive, LoadCart, RefuseLoad, ReserveLine, RefuseReserve,
           LoseReserveAnswer, RetrySave, ExhaustSave, ReleaseLine, CheckClaim, ClaimCart,
           Die, CreateCart, EraseCustomer, Lapse,
           PlaceNext, Replay, BeginPlace, ReadHeader, ReadLines, Convert, AllocateCut,
           RefuseAllocate, LoseAllocateAnswer, CommitPlace, LoseCommit, Rollback,
           ReleaseDeclined, LoseReleaseDeclined, FailOrder, Authorize, Decline,
           Resolve, StoreKey, DiePlace, CancelOrder, ReleaseCancelled
<1> DEFINE c == req[e].cart
           variant == VariantOf(req[e], seen[e])
           after == Edited(req[e], seen[e], lastLine + 1)
           linesOf == [seen[e].lines EXCEPT ![variant] = after]
<1>2. /\ CanSave(e) /\ VersionMatches(e)
      /\ lines' = [lines EXCEPT ![c] = linesOf]
      /\ lastLine' = IF after.id = lastLine + 1 THEN after.id ELSE lastLine
    BY <1>1 DEF SaveCart
<1>3. /\ req[e] \in CartRequests /\ req[e].kind # "claim"
      /\ c \in Carts
      /\ seen[e] = Load(c) /\ seen[e] \in CartView
      /\ cart[c].status = "active" /\ cart[c].owner = req[e].customer
      /\ req[e].kind # "add" => LineNamed(seen[e], req[e].line) # {}
      /\ pc[e] = "save"
    BY <1>2, SaveFacts DEF IInv, CanSave
<1>4. lastLine \in Nat /\ lastLine + 1 \in Nat
    BY DEF IInv, CInv, CartTypes
<1>5. /\ variant \in Levels
      /\ req[e].kind = "add" => variant = req[e].variant
      /\ req[e].kind # "add" => seen[e].lines[variant].id = req[e].line
    BY <1>3, <1>4, EditFacts
<1>6. after = Edited(req[e], seen[e], lastLine')
    <2>1. CASE req[e].kind = "add" /\ seen[e].lines[req[e].variant] = NoLine
        <3>1. after = [id |-> lastLine + 1, quantity |-> req[e].quantity]
            BY <2>1 DEF Edited
        <3> HIDE DEF after
        <3>2. lastLine' = lastLine + 1
            BY <1>2, <3>1
        <3> QED BY <3>2 DEF after
    <2>2. CASE ~(req[e].kind = "add" /\ seen[e].lines[req[e].variant] = NoLine)
        BY <2>2 DEF Edited
    <2> QED BY <2>1, <2>2
<1>7. lines'[c] = [lines[c] EXCEPT ![variant] = Edited(req[e], Load(c), lastLine')]
    <2>1. seen[e].lines = lines[c]
        BY <1>3 DEF Load
    <2>2. lines'[c] = linesOf
        BY <1>2, <1>3 DEF IInv, CInv, CartTypes
    <2> QED BY <1>3, <1>6, <2>1, <2>2
<1>8. AppliesTo(e, c)
    <2> HIDE DEF variant
    <2> QED BY <1>3, <1>5, <1>7 DEF AppliesTo
<1>9. \A d \in Carts : lines'[d] # lines[d] => d = c
    BY <1>2 DEF IInv, CInv, CartTypes
<1> QED BY <1>8, <1>9 DEF EditIsCurrent

\* No edit is lost, and none is applied to a cart that has moved on, whichever
\* claims, erasures, places and other edits run beside it.
THEOREM EditsStayCurrent == Spec => EditsAreCurrent
<1>1. IInv /\ [Next]_vars => [EditIsCurrent]_<<lines>>
    BY NextEditsCurrent
<1> QED BY <1>1, Invariance, PTL DEF Spec, EditsAreCurrent

-----------------------------------------------------------------------------
(* The holds behind the lines.                                             *)

\* Somebody is expected to settle the hold of cart c at level l: nobody, or
\* editor e.
Owed(e, c, l) == <<c, l>> \in strayed \/ (req[e].cart = c /\ due[e] = l)
OwedByOthers(e, c, l) ==
    \/ <<c, l>> \in strayed
    \/ \E f \in Editors \ {e} : req[f].cart = c /\ due[f] = l

HoldTypes ==
    /\ hold \in [Levels -> [Carts -> HoldRow]]
    /\ due \in [Editors -> Levels \cup {None}]

\* A line keeps its id, and no other line of the cart ever has it.
Numbered ==
    \A c \in Carts, l \in Levels :
        /\ lines[c][l].id <= lastLine
        /\ \A k \in Levels : lines[c][l].id > 0 /\ lines[c][l].id = lines[c][k].id => l = k

\* A line an editor has loaded is, if it is still there, the line of that variant.
SeenLines(e) ==
    pc[e] \in {"reserve", "save"} =>
        \A l \in Levels :
            /\ seen[e].lines[l].id <= lastLine
            /\ \A k \in Levels :
                  seen[e].lines[l].id > 0 /\ seen[e].lines[l].id \in
                      {seen[e].lines[k].id, lines[req[e].cart][k].id} => l = k

\* What an editor has to settle is the hold of the one line its request is about,
\* in every attempt.
DueInv(e) ==
    /\ pc[e] = "reserve" => req[e].kind # "remove"
    /\ due[e] # None =>
        /\ pc[e] \in {"load", "reserve", "save", "release"}
        /\ req[e].kind = "add" => due[e] = req[e].variant
        /\ req[e].kind = "change" =>
               /\ req[e].line <= lastLine
               /\ \A l \in Levels : lines[req[e].cart][l].id = req[e].line => l = due[e]
               /\ pc[e] \in {"reserve", "save"} =>
                      \A l \in Levels : seen[e].lines[l].id = req[e].line => l = due[e]
        /\ req[e].kind = "remove" => pc[e] = "release"

Reserving(e) == pc[e] = "save" /\ req[e].kind # "remove"

\* Until the cart moves on, the hold is what the save will make of the line,
\* unless somebody else is expected to settle it.
HeldInv(e) ==
    Reserving(e) =>
        LET c == req[e].cart
            l == due[e]
        IN  /\ l = VariantOf(req[e], seen[e])
            /\ seen[e].row.version = cart[c].version =>
                   \/ OwedByOthers(e, c, l)
                   \/ hold[l][c].status = "active" =>
                          hold[l][c].quantity = Target(req[e], seen[e])

HInv ==
    /\ HoldTypes
    /\ Numbered
    /\ \A e \in Editors : SeenLines(e) /\ DueInv(e) /\ HeldInv(e)
    /\ HoldsMatchLines

-----------------------------------------------------------------------------
Rests(e) == EditorRests(e) /\ due'[e] = due[e]

\* A hold ends or stays as it is.
Dropped(c, l) == hold'[l][c] = hold[l][c] \/ hold'[l][c].status # "active"

\* Whoever rests is still right about the cart, if its version is the same.
LEMMA SameVersion ==
    ASSUME CInv, VersionsMove, CartTypes', NEW e \in Editors, EditorRests(e), Reserving(e),
           seen'[e].row.version = cart'[req[e].cart].version
    PROVE  /\ req[e].cart \in Carts
           /\ seen[e].row.version = cart[req[e].cart].version
           /\ lines'[req[e].cart] = lines[req[e].cart]
<1> DEFINE c == req[e].cart
<1>1. SeenInv(e) /\ req[e] \in CartRequests
    BY DEF CInv, SeenInv, Reserving
<1>2. c \in Carts
    BY <1>1, ValidCartRequests
<1>3. seen[e].row.version <= cart[c].version
    BY <1>1 DEF SeenInv, Reserving
<1>4. seen[e].row.version \in Nat /\ cart[c].version \in Nat /\ cart'[c].version \in Nat
    BY <1>2 DEF CInv, CartTypes, CartRow, CartView
<1>5. seen[e].row.version = cart'[c].version
    BY DEF EditorRests
<1>6. cart'[c] = cart[c] /\ lines'[c] = lines[c]
    BY <1>2, <1>3, <1>4, <1>5 DEF VersionsMove
<1> QED BY <1>2, <1>5, <1>6

\* The editors rest, and holds only end.
LEMMA QuietStepKeepsHInv ==
    ASSUME CInv, HInv, CartTypes', VersionsMove,
           \A e \in Editors : Rests(e), UNCHANGED <<lines, lastLine, strayed>>,
           HoldTypes', \A c \in Carts, l \in Levels : Dropped(c, l)
    PROVE  HInv'
<1>1. Numbered'
    BY DEF HInv, Numbered
<1>2. ASSUME NEW e \in Editors PROVE SeenLines(e)' /\ DueInv(e)'
    BY SMTT(40) DEF HInv, SeenLines, DueInv, Rests, EditorRests
<1>3. ASSUME NEW e \in Editors PROVE HeldInv(e)'
    <2> SUFFICES ASSUME Reserving(e)' PROVE HeldInv(e)'
        BY DEF HeldInv
    <2> DEFINE c == req[e].cart
               l == due[e]
    <2>1. Reserving(e) /\ HeldInv(e) /\ EditorRests(e)
        BY DEF HInv, Reserving, Rests, EditorRests
    <2>2. c \in Carts /\ l \in Levels
        <3>1. SeenInv(e) /\ req[e] \in CartRequests /\ seen[e] \in CartView
            BY <2>1 DEF CInv, CartTypes, SeenInv, Reserving
        <3>2. req[e].kind # "claim" /\ (req[e].kind # "add" => LineNamed(seen[e], req[e].line) # {})
            BY <2>1, <3>1 DEF SeenInv, Reserving
        <3> QED BY <2>1, <3>1, <3>2, EditFacts, ValidCartRequests DEF HeldInv
    <2>3. req'[e] = req[e] /\ seen'[e] = seen[e] /\ due'[e] = due[e]
        BY DEF Rests, EditorRests
    <2>4. OwedByOthers(e, c, l) => OwedByOthers(e, c, l)'
        BY DEF OwedByOthers, Rests, EditorRests
    <2>5. CASE (seen[e].row.version = cart[c].version)'
        <3>1. seen[e].row.version = cart[c].version
            BY <2>1, <2>5, SameVersion DEF Rests, EditorRests
        <3>2. Dropped(c, l)
            BY <2>2
        <3> HIDE DEF c, l
        <3>3. OwedByOthers(e, c, l)' \/ (hold'[l][c].status = "active" =>
                  hold'[l][c].quantity = Target(req[e], seen[e]))
            BY <2>1, <2>4, <3>1, <3>2 DEF HeldInv, Dropped, c, l
        <3> QED BY <2>1, <2>3, <3>3 DEF HeldInv, c, l
    <2>6. CASE ~(seen[e].row.version = cart[c].version)'
        BY <2>1, <2>3, <2>6 DEF HeldInv
    <2> QED BY <2>5, <2>6
<1>4. ASSUME NEW c \in Carts, NEW l \in Levels
      PROVE  \/ <<c, l>> \in strayed'
             \/ \E e \in Editors : req'[e].cart = c /\ due'[e] = l
             \/ hold'[l][c].status = "active" => hold'[l][c].quantity = lines'[c][l].quantity
    <2>1. \/ <<c, l>> \in strayed
          \/ \E e \in Editors : req[e].cart = c /\ due[e] = l
          \/ hold[l][c].status = "active" => hold[l][c].quantity = lines[c][l].quantity
        BY DEF HInv, HoldsMatchLines
    <2>2. Dropped(c, l)
        OBVIOUS
    <2> QED BY <2>1, <2>2 DEF Dropped, Rests, EditorRests
<1>5. HoldsMatchLines'
    BY <1>4 DEF HoldsMatchLines
<1> QED BY <1>1, <1>2, <1>3, <1>5 DEF HInv

\* What the save of an editor at rest relies on.
LEMMA RestingSave ==
    ASSUME CInv, HInv, NEW e \in Editors, Rests(e), Reserving(e)
    PROVE  /\ req[e] \in CartRequests /\ req[e].kind \in {"add", "change"}
           /\ req[e].cart \in Carts /\ due[e] \in Levels
           /\ due[e] = VariantOf(req[e], seen[e])
           /\ req'[e] = req[e] /\ seen'[e] = seen[e] /\ due'[e] = due[e] /\ pc'[e] = pc[e]
<1>1. SeenInv(e) /\ req[e] \in CartRequests /\ seen[e] \in CartView
    BY DEF CInv, CartTypes, SeenInv, Reserving
<1>2. req[e].kind # "claim" /\ (req[e].kind # "add" => LineNamed(seen[e], req[e].line) # {})
    BY <1>1 DEF SeenInv, Reserving
<1>3. req[e].kind \in {"add", "change"} /\ req[e].cart \in Carts
    BY <1>1, <1>2, ValidCartRequests DEF CartRequest, Reserving
<1>4. due[e] = VariantOf(req[e], seen[e])
    BY DEF HInv, HeldInv
<1> QED BY <1>1, <1>2, <1>3, <1>4, EditFacts DEF Rests, EditorRests

\* One editor moves, and saves nothing; the others rest.
LEMMA EditorStepKeepsHInv ==
    ASSUME CInv, HInv, CartTypes', VersionsMove, NEW e \in Editors,
           \A f \in Editors \ {e} : Rests(f),
           UNCHANGED <<lines, lastLine>>, strayed \subseteq strayed', HoldTypes',
           \A c \in Carts, l \in Levels : Dropped(c, l) \/ Owed(e, c, l)',
           \A c \in Carts, l \in Levels :
               req[e].cart = c /\ due[e] = l => Owed(e, c, l)' \/ hold'[l][c].status # "active",
           SeenLines(e)', DueInv(e)', HeldInv(e)'
    PROVE  HInv'
<1>1. Numbered'
    BY DEF HInv, Numbered
<1>2. ASSUME NEW f \in Editors PROVE SeenLines(f)' /\ DueInv(f)'
    <2>1. CASE f # e
        <3>1. /\ SeenLines(f) /\ DueInv(f)
              /\ pc'[f] = pc[f] /\ req'[f] = req[f] /\ seen'[f] = seen[f] /\ due'[f] = due[f]
            BY <2>1, Zenon DEF HInv, Rests, EditorRests
        <3>2. lines' = lines /\ lastLine' = lastLine
            OBVIOUS
        <3>3. SeenLines(f)'
            BY <3>1, <3>2, Zenon DEF SeenLines
        <3>4. DueInv(f)'
            BY <3>1, <3>2, Zenon DEF DueInv
        <3> QED BY <3>3, <3>4
    <2> QED BY <2>1
<1>3. ASSUME NEW f \in Editors \ {e} PROVE HeldInv(f)'
    <2> SUFFICES ASSUME Reserving(f)' PROVE HeldInv(f)'
        BY DEF HeldInv
    <2> DEFINE c == req[f].cart
               l == due[f]
    <2>1. Reserving(f) /\ HeldInv(f) /\ Rests(f) /\ EditorRests(f)
        BY DEF HInv, Reserving, Rests, EditorRests
    <2>2. /\ c \in Carts /\ l \in Levels /\ l = VariantOf(req[f], seen[f])
          /\ req'[f] = req[f] /\ seen'[f] = seen[f] /\ due'[f] = due[f]
        BY <2>1, RestingSave
    <2>3. Owed(e, c, l)' => OwedByOthers(f, c, l)'
        BY DEF Owed, OwedByOthers
    <2>4. OwedByOthers(f, c, l) => OwedByOthers(f, c, l)' \/ hold'[l][c].status # "active"
        <3>1. CASE req[e].cart = c /\ due[e] = l
            BY <2>2, <2>3, <3>1
        <3>2. CASE ~(req[e].cart = c /\ due[e] = l)
            BY <2>2, <3>2 DEF OwedByOthers, Rests, EditorRests
        <3> QED BY <3>1, <3>2
    <2>5. ASSUME (seen[f].row.version = cart[c].version)'
          PROVE  OwedByOthers(f, c, l)' \/ (hold'[l][c].status = "active" =>
                  hold'[l][c].quantity = Target(req[f], seen[f]))
        <3>1. seen[f].row.version = cart[c].version
            BY <2>1, <2>2, <2>5, SameVersion
        <3>2. Dropped(c, l) \/ Owed(e, c, l)'
            BY <2>2
        <3> HIDE DEF c, l
        <3> QED BY <2>1, <2>3, <2>4, <3>1, <3>2 DEF HeldInv, Dropped, c, l
    <2> QED BY <2>2, <2>5 DEF HeldInv
<1>4. ASSUME NEW c \in Carts, NEW l \in Levels
      PROVE  \/ <<c, l>> \in strayed'
             \/ \E f \in Editors : req'[f].cart = c /\ due'[f] = l
             \/ hold'[l][c].status = "active" => hold'[l][c].quantity = lines'[c][l].quantity
    <2>1. \/ <<c, l>> \in strayed
          \/ \E f \in Editors : req[f].cart = c /\ due[f] = l
          \/ hold[l][c].status = "active" => hold[l][c].quantity = lines[c][l].quantity
        BY DEF HInv, HoldsMatchLines
    <2>2. Dropped(c, l) \/ Owed(e, c, l)'
        OBVIOUS
    <2>3. (req[e].cart = c /\ due[e] = l) => Owed(e, c, l)' \/ hold'[l][c].status # "active"
        OBVIOUS
    <2> QED BY <2>1, <2>2, <2>3 DEF Owed, Dropped, Rests, EditorRests
<1>5. HoldsMatchLines'
    BY <1>4 DEF HoldsMatchLines
<1> QED BY <1>1, <1>2, <1>3, <1>5 DEF HInv

\* A request ends, and with it what it owed, unless somebody is told.
LEMMA EndKeepsHInv ==
    ASSUME CInv, HInv, CInv', NEW e \in Editors, End(e), VersionsMove,
           UNCHANGED <<lines, lastLine>>, strayed \subseteq strayed',
           hold' \in [Levels -> [Carts -> HoldRow]],
           \A c \in Carts, l \in Levels : Dropped(c, l) \/ <<c, l>> \in strayed',
           \A c \in Carts, l \in Levels :
               req[e].cart = c /\ due[e] = l =>
                   <<c, l>> \in strayed' \/ hold'[l][c].status # "active"
    PROVE  HInv'
<1>1. /\ pc \in [Editors -> Labels] /\ req \in [Editors -> CartRequests \cup {NoRequest}]
      /\ seen \in [Editors -> CartView] /\ due \in [Editors -> Levels \cup {None}]
    BY DEF CInv, CartTypes, HInv, HoldTypes
<1>2. pc'[e] = "idle" /\ due'[e] = None /\ \A f \in Editors \ {e} : Rests(f)
    BY <1>1 DEF End, Rests, EditorRests
<1>3. CartTypes' /\ HoldTypes'
    BY <1>1 DEF CInv, HoldTypes, End
<1>4. SeenLines(e)' /\ DueInv(e)' /\ HeldInv(e)'
    BY <1>2 DEF SeenLines, DueInv, HeldInv, Reserving
<1>5. \A c \in Carts, l \in Levels : <<c, l>> \in strayed' => Owed(e, c, l)'
    BY DEF Owed
<1> QED BY <1>2, <1>3, <1>4, <1>5, EditorStepKeepsHInv

LEMMA TablesRest ==
    ASSUME UNCHANGED tables
    PROVE  VersionsMove /\ UNCHANGED <<cart, lines, lastLine>>
BY DEF VersionsMove, tables

LEMMA HoldsRest ==
    ASSUME HInv, UNCHANGED hold
    PROVE  /\ hold' \in [Levels -> [Carts -> HoldRow]]
           /\ \A c \in Carts, l \in Levels : Dropped(c, l)
BY DEF Dropped, HInv, HoldTypes

\* A request fails, with the holds as they are.
LEMMA FailKeepsHInv ==
    ASSUME CInv, HInv, CInv', NEW e \in Editors, Fail(e, {due[e]}), UNCHANGED tables,
           UNCHANGED hold
    PROVE  HInv'
<1>1. End(e) /\ strayed' = strayed \cup {<<req[e].cart, l>> : l \in {due[e]} \ {None}}
    BY DEF Fail, Straying
<1>2. \A c \in Carts, l \in Levels : req[e].cart = c /\ due[e] = l => <<c, l>> \in strayed'
    BY <1>1, CartConstants
<1> QED BY <1>1, <1>2, TablesRest, HoldsRest, EndKeepsHInv

\* An editor that owes nothing ends.
LEMMA QuietEndKeepsHInv ==
    ASSUME CInv, HInv, CInv', NEW e \in Editors, End(e), pc[e] \in {"check", "claim"},
           VersionsMove, UNCHANGED <<lines, lastLine, strayed, hold>>
    PROVE  HInv'
<1>1. due[e] = None
    BY DEF HInv, DueInv
<1> QED BY <1>1, CartConstants, HoldsRest, EndKeepsHInv

LEMMA CheckClaimKeepsHInv ==
    ASSUME CInv, HInv, CInv', NEW e \in Editors, CheckClaim(e)
    PROVE  HInv'
<1>1. /\ pc[e] = "check" /\ UNCHANGED <<tables, strayed, hold>>
    BY DEF CheckClaim, stock
<1>2. CASE End(e)
    BY <1>1, <1>2, TablesRest, QuietEndKeepsHInv
<1>3. CASE Goto(e, "claim")
    <2>1. pc \in [Editors -> Labels] /\ due[e] = None /\ HoldTypes /\ CartTypes'
        BY <1>1 DEF HInv, DueInv, CInv, CartTypes
    <2>2. /\ pc'[e] = "claim" /\ due'[e] = None /\ UNCHANGED <<req, seen, due>>
          /\ \A f \in Editors \ {e} : Rests(f)
        BY <1>3, <2>1 DEF Goto, Rests, EditorRests
    <2>3. SeenLines(e)' /\ DueInv(e)' /\ HeldInv(e)'
        BY <2>2 DEF SeenLines, DueInv, HeldInv, Reserving
    <2>4. HoldTypes'
        BY <1>1, <2>1, <2>2 DEF HoldTypes
    <2>5. \A c \in Carts, l \in Levels : due[e] # l
        BY <2>1, CartConstants
    <2> QED BY <1>1, <2>1, <2>2, <2>3, <2>4, <2>5, TablesRest, HoldsRest, EditorStepKeepsHInv
<1> QED BY <1>2, <1>3 DEF CheckClaim

LEMMA ReceiveKeepsHInv ==
    ASSUME CInv, HInv, CInv', NEW e \in Editors, NEW r \in CartRequests, Receive(e, r)
    PROVE  HInv'
<1> DEFINE label == IF r.kind = "claim" THEN "check" ELSE "load"
<1>1. /\ pc[e] = "idle" /\ UNCHANGED <<tables, seen, due, strayed, hold>>
      /\ pc' = [pc EXCEPT ![e] = label] /\ req' = [req EXCEPT ![e] = r]
    BY DEF Receive, stock
<1>2. /\ pc \in [Editors -> Labels] /\ req \in [Editors -> CartRequests \cup {NoRequest}]
      /\ due[e] = None /\ HoldTypes /\ CartTypes'
    BY <1>1 DEF HInv, DueInv, CInv, CartTypes
<1>3. label \in {"check", "load"}
    OBVIOUS
<1> HIDE DEF label
<1>4. /\ pc'[e] \in {"check", "load"} /\ due'[e] = None
      /\ \A f \in Editors \ {e} : Rests(f)
    BY <1>1, <1>2, <1>3 DEF Rests, EditorRests
<1>5. SeenLines(e)' /\ DueInv(e)' /\ HeldInv(e)'
    BY <1>4 DEF SeenLines, DueInv, HeldInv, Reserving
<1>6. HoldTypes'
    BY <1>1, <1>2 DEF HoldTypes
<1>7. \A c \in Carts, l \in Levels : due[e] # l
    BY <1>2, CartConstants
<1> QED BY <1>1, <1>2, <1>4, <1>5, <1>6, <1>7, TablesRest, HoldsRest, EditorStepKeepsHInv

LEMMA LoadCartKeepsHInv ==
    ASSUME CInv, HInv, CInv', NEW e \in Editors, LoadCart(e)
    PROVE  HInv'
<1> DEFINE c == req[e].cart
           label == IF req[e].kind = "remove" THEN "save" ELSE "reserve"
<1>1. /\ pc[e] = "load" /\ UNCHANGED <<tables, req, due, strayed, hold>>
      /\ pc' = [pc EXCEPT ![e] = label] /\ seen' = [seen EXCEPT ![e] = Load(c)]
    BY DEF LoadCart, stock
<1>2. /\ pc \in [Editors -> Labels] /\ seen \in [Editors -> CartView]
      /\ HoldTypes /\ CartTypes' /\ DueInv(e)
      /\ req[e] \in CartRequests
    BY <1>1 DEF HInv, CInv, CartTypes, SeenInv
<1>3. c \in Carts
    BY <1>2, ValidCartRequests
<1>4. /\ label \in {"save", "reserve"}
      /\ label = "reserve" <=> req[e].kind # "remove"
    OBVIOUS
<1> HIDE DEF label
<1>5. /\ pc'[e] = label /\ seen'[e] = Load(c) /\ req'[e] = req[e] /\ due'[e] = due[e]
      /\ \A f \in Editors \ {e} : Rests(f)
    BY <1>1, <1>2 DEF Rests, EditorRests
<1>6. SeenLines(e)'
    <2>1. lines' = lines /\ lastLine' = lastLine /\ Load(c).lines = lines[c]
        BY <1>1 DEF tables, Load
    <2> QED BY <1>3, <1>5, <2>1 DEF SeenLines, HInv, Numbered
<1>7. DueInv(e)'
    <2>1. lines' = lines /\ lastLine' = lastLine
        BY <1>1 DEF tables
    <2>2. seen'[e].lines = lines[c]
        BY <1>5 DEF Load
    <2> QED BY <1>1, <1>2, <1>4, <1>5, <2>1, <2>2 DEF DueInv
<1>8. HeldInv(e)'
    BY <1>4, <1>5 DEF HeldInv, Reserving
<1>9. HoldTypes'
    BY <1>1, <1>2 DEF HoldTypes
<1>10. \A d \in Carts, l \in Levels : req[e].cart = d /\ due[e] = l => Owed(e, d, l)'
    BY <1>5 DEF Owed
<1> HIDE DEF c
<1> QED BY <1>1, <1>2, <1>5, <1>6, <1>7, <1>8, <1>9, <1>10, TablesRest, HoldsRest,
           EditorStepKeepsHInv

LEMMA RetrySaveKeepsHInv ==
    ASSUME CInv, HInv, CInv', NEW e \in Editors, RetrySave(e)
    PROVE  HInv'
<1>1. /\ pc[e] = "save" /\ UNCHANGED <<tables, req, due, strayed, hold>>
      /\ pc' = [pc EXCEPT ![e] = "load"] /\ seen' = [seen EXCEPT ![e] = NoView]
    BY DEF RetrySave, CanSave, stock
<1>2. /\ pc \in [Editors -> Labels] /\ seen \in [Editors -> CartView]
      /\ HoldTypes /\ CartTypes' /\ DueInv(e)
    BY <1>1 DEF HInv, CInv, CartTypes
<1>3. /\ pc'[e] = "load" /\ req'[e] = req[e] /\ due'[e] = due[e]
      /\ \A f \in Editors \ {e} : Rests(f)
    BY <1>1, <1>2 DEF Rests, EditorRests
<1>4. SeenLines(e)' /\ HeldInv(e)'
    BY <1>3 DEF SeenLines, HeldInv, Reserving
<1>5. DueInv(e)'
    <2>1. lines' = lines /\ lastLine' = lastLine
        BY <1>1 DEF tables
    <2> QED BY <1>1, <1>2, <1>3, <2>1 DEF DueInv
<1>6. HoldTypes'
    BY <1>1, <1>2 DEF HoldTypes
<1>7. \A d \in Carts, l \in Levels : req[e].cart = d /\ due[e] = l => Owed(e, d, l)'
    BY <1>3 DEF Owed
<1> QED BY <1>1, <1>2, <1>3, <1>4, <1>5, <1>6, <1>7, TablesRest, HoldsRest,
           EditorStepKeepsHInv

-----------------------------------------------------------------------------
(* What the calls to the inventory do to the holds.                        *)

\* Rows change their status, to one that is not active.
LEMMA StatusFacts ==
    ASSUME HInv, NEW ids, NEW status \in {"released", "expired", "committed"},
           Stock!SetStatus(ids, status)
    PROVE  /\ hold' \in [Levels -> [Carts -> HoldRow]]
           /\ \A c \in Carts, l \in Levels :
                 /\ Dropped(c, l)
                 /\ <<c, l>> \in ids => hold'[l][c].status # "active"
<1>1. hold \in [Levels -> [Carts -> HoldRow]]
    BY DEF HInv, HoldTypes
<1> DEFINE row(l, c) == [hold[l][c] EXCEPT !.status = status]
           after(l, c) == IF <<c, l>> \in ids THEN row(l, c) ELSE hold[l][c]
<1>2. ASSUME NEW l \in Levels, NEW c \in Carts
      PROVE  row(l, c) \in HoldRow /\ row(l, c).status = status
    BY <1>1 DEF HoldRow, HoldStatus
<1>3. hold' = [l \in Levels |-> [c \in Carts |-> after(l, c)]]
    BY DEF Stock!SetStatus
<1>4. ASSUME NEW l \in Levels, NEW c \in Carts
      PROVE  /\ after(l, c) \in HoldRow
             /\ after(l, c) = hold[l][c] \/ after(l, c).status # "active"
             /\ <<c, l>> \in ids => after(l, c).status # "active"
    BY <1>1, <1>2
<1> HIDE DEF after
<1> QED BY <1>3, <1>4 DEF Dropped

\* A line that is to be reserved, and what the hold is then.
LEMMA ReserveFacts ==
    ASSUME CInv, HInv, NEW e \in Editors, pc[e] = "reserve"
    PROVE  /\ req[e] \in CartRequests /\ req[e].cart \in Carts
           /\ req[e].kind \in {"add", "change"} /\ SeenLines(e) /\ DueInv(e)
           /\ VariantOf(req[e], seen[e]) \in Levels
           /\ req[e].kind = "add" => VariantOf(req[e], seen[e]) = req[e].variant
           /\ req[e].kind # "add" => seen[e].lines[VariantOf(req[e], seen[e])].id = req[e].line
<1>1. SeenInv(e) /\ req[e] \in CartRequests /\ seen[e] \in CartView
    BY DEF CInv, CartTypes, SeenInv
<1>2. req[e].kind # "claim" /\ (req[e].kind # "add" => LineNamed(seen[e], req[e].line) # {})
    BY <1>1 DEF SeenInv
<1>3. req[e].kind \in {"add", "change", "remove"} /\ req[e].cart \in Carts
    BY <1>1, <1>2, ValidCartRequests DEF CartRequest
<1>4. SeenLines(e) /\ DueInv(e)
    BY DEF HInv
<1>5. req[e].kind # "remove"
    BY <1>4 DEF DueInv
<1> QED BY <1>1, <1>2, <1>3, <1>4, <1>5, EditFacts

LEMMA ReservedHold ==
    ASSUME CInv, HInv, NEW e \in Editors, pc[e] = "reserve",
           Stock!ReserveStock(ReserveOf(e))
    PROVE  LET c == req[e].cart
               l == VariantOf(req[e], seen[e])
           IN  /\ hold' \in [Levels -> [Carts -> HoldRow]]
               /\ hold'[l][c].quantity = Target(req[e], seen[e])
               /\ \A d \in Carts, k \in Levels : hold'[k][d] = hold[k][d] \/ (d = c /\ k = l)
<1> DEFINE c == req[e].cart
           l == VariantOf(req[e], seen[e])
           q == Target(req[e], seen[e])
           o == ReserveOf(e)
           row == [status |-> "active", quantity |-> o.lines[l]]
<1>1. /\ req[e] \in CartRequests /\ c \in Carts /\ l \in Levels
      /\ req[e].kind \in {"add", "change"}
      /\ req[e].kind = "add" => l = req[e].variant
      /\ hold \in [Levels -> [Carts -> HoldRow]]
    BY ReserveFacts DEF HInv, HoldTypes
<1>2. q \in Nat /\ q > 0
    <2>1. req[e].quantity \in Nat /\ req[e].quantity > 0
        BY <1>1, ValidCartRequests DEF CartRequest
    <2>2. seen[e].lines[l].quantity \in Nat
        BY <1>1 DEF CInv, CartTypes, CartView, LineRow
    <2> QED BY <1>1, <2>1, <2>2 DEF Target
<1>3. o.lines = [k \in Levels |-> IF k = l THEN q ELSE 0] /\ o.cart = c
    BY DEF ReserveOf, StockRequest
<1> HIDE DEF l, q, o
<1>4. Lines(o) = {l} /\ o.lines[l] = q
    BY <1>1, <1>2, <1>3 DEF Lines
<1>5. hold' = [k \in Levels |-> IF k \in Lines(o)
                                THEN [hold[k] EXCEPT ![o.cart] =
                                         [status |-> "active", quantity |-> o.lines[k]]]
                                ELSE hold[k]]
    BY DEF Stock!ReserveStock, Stock!Lines, Lines, o
<1>6. hold' = [hold EXCEPT ![l] = [hold[l] EXCEPT ![c] = row]]
    BY <1>1, <1>3, <1>4, <1>5
<1>7. row \in HoldRow /\ row.quantity = q
    BY <1>2, <1>4 DEF HoldRow, HoldStatus
<1> HIDE DEF row, c
<1>8. /\ hold' \in [Levels -> [Carts -> HoldRow]]
      /\ hold'[l][c].quantity = q
      /\ \A d \in Carts, k \in Levels : hold'[k][d] = hold[k][d] \/ (d = c /\ k = l)
    BY <1>1, <1>6, <1>7
<1> QED BY <1>8 DEF c, l, q

LEMMA ReserveLineKeepsHInv ==
    ASSUME CInv, HInv, CInv', NEW e \in Editors, ReserveLine(e) \/ LoseReserveAnswer(e)
    PROVE  HInv'
<1> DEFINE c == req[e].cart
           l == VariantOf(req[e], seen[e])
           ls == {l, due[e]}
<1>1. pc[e] = "reserve" /\ UNCHANGED tables /\ Stock!ReserveStock(ReserveOf(e))
    BY DEF ReserveLine, LoseReserveAnswer
<1>2. /\ hold' \in [Levels -> [Carts -> HoldRow]]
      /\ hold'[l][c].quantity = Target(req[e], seen[e])
      /\ \A d \in Carts, k \in Levels : hold'[k][d] = hold[k][d] \/ (d = c /\ k = l)
    BY <1>1, ReservedHold
<1>3. /\ req[e] \in CartRequests /\ c \in Carts /\ l \in Levels
      /\ req[e].kind \in {"add", "change"}
      /\ req[e].kind = "add" => l = req[e].variant
      /\ req[e].kind # "add" => seen[e].lines[l].id = req[e].line
      /\ SeenLines(e) /\ DueInv(e)
    BY <1>1, ReserveFacts
<1>4. l # None
    BY <1>3, CartConstants
<1>5. CASE Fail(e, ls)
    <2>1. End(e) /\ strayed' = strayed \cup {<<c, k>> : k \in ls \ {None}}
        BY <1>5 DEF Fail, Straying
    <2>2. <<c, l>> \in strayed' /\ strayed \subseteq strayed'
        BY <1>4, <2>1
    <2>3. \A d \in Carts, k \in Levels : c = d /\ due[e] = k => <<d, k>> \in strayed'
        BY <2>1, CartConstants
    <2>4. \A d \in Carts, k \in Levels : Dropped(d, k) \/ <<d, k>> \in strayed'
        BY <1>2, <2>2 DEF Dropped
    <2> QED BY <1>1, <1>2, <2>1, <2>2, <2>3, <2>4, TablesRest, EndKeepsHInv
<1>6. CASE /\ pc' = [pc EXCEPT ![e] = "save"] /\ due' = [due EXCEPT ![e] = l]
           /\ UNCHANGED <<req, seen, strayed>>
    <2> HIDE DEF l
    <2>1. /\ pc \in [Editors -> Labels] /\ due \in [Editors -> Levels \cup {None}]
          /\ CartTypes'
        BY DEF HInv, HoldTypes, CInv, CartTypes
    <2>2. /\ pc'[e] = "save" /\ due'[e] = l /\ req'[e] = req[e] /\ seen'[e] = seen[e]
          /\ \A f \in Editors \ {e} : Rests(f)
        BY <1>6, <2>1 DEF Rests, EditorRests
    <2>3. lines' = lines /\ lastLine' = lastLine /\ VersionsMove
        BY <1>1, TablesRest
    <2>4. SeenLines(e)'
        BY <1>1, <1>3, <2>2, <2>3 DEF SeenLines
    <2>5. req[e].kind # "add" =>
              /\ req[e].line <= lastLine
              /\ \A k \in Levels : lines[c][k].id = req[e].line => k = l
        <3>1. req[e].kind # "add" => req[e].line > 0
            BY <1>3, ValidCartRequests
        <3> QED BY <1>1, <1>3, <3>1 DEF SeenLines
    <2>11. req[e].kind # "add" =>
               \A k \in Levels : seen[e].lines[k].id = req[e].line => k = l
        <3>1. req[e].kind # "add" => req[e].line > 0
            BY <1>3, ValidCartRequests
        <3> QED BY <1>1, <1>3, <3>1 DEF SeenLines
    <2>6. DueInv(e)'
        BY <1>3, <2>2, <2>3, <2>5, <2>11 DEF DueInv
    <2>7. HeldInv(e)'
        BY <1>2, <2>2 DEF HeldInv, l
    <2>8. HoldTypes'
        BY <1>2, <1>3, <1>6, <2>1 DEF HoldTypes
    <2>9. \A d \in Carts, k \in Levels : Dropped(d, k) \/ Owed(e, d, k)'
        BY <1>2, <2>2 DEF Owed, Dropped
    <2>10. ASSUME NEW d \in Carts, NEW k \in Levels, c = d, due[e] = k
           PROVE  Owed(e, d, k)'
        <3>1. due[e] # None
            BY <2>10, CartConstants
        <3>2. k = l
            BY <1>1, <1>3, <2>10, <3>1 DEF DueInv
        <3> QED BY <2>2, <2>10, <3>2 DEF Owed
    <2> QED BY <1>6, <2>1, <2>2, <2>3, <2>4, <2>6, <2>7, <2>8, <2>9, <2>10, EditorStepKeepsHInv
<1> QED BY <1>5, <1>6 DEF ReserveLine, LoseReserveAnswer

\* The line a save writes keeps its id, gets the next one, or goes; it has the
\* quantity that was reserved.
LEMMA WrittenLine ==
    ASSUME CInv, HInv, NEW e \in Editors, CanSave(e), VersionMatches(e)
    PROVE  LET c == req[e].cart
               l == VariantOf(req[e], seen[e])
               after == Edited(req[e], seen[e], lastLine + 1)
           IN  /\ c \in Carts /\ l \in Levels /\ req[e].kind \in {"add", "change", "remove"}
               /\ seen[e].lines = lines[c]
               /\ seen[e].row.version = cart[c].version
               /\ after.id \in {lines[c][l].id, lastLine + 1, 0}
               /\ after.id = lastLine + 1 => req[e].kind # "remove"
               /\ req[e].kind # "remove" => after.quantity = Target(req[e], seen[e])
<1> DEFINE c == req[e].cart
           l == VariantOf(req[e], seen[e])
           after == Edited(req[e], seen[e], lastLine + 1)
<1>1. /\ req[e] \in CartRequests /\ req[e].kind # "claim" /\ c \in Carts
      /\ seen[e] = Load(c) /\ seen[e] \in CartView
      /\ req[e].kind # "add" => LineNamed(seen[e], req[e].line) # {}
    BY SaveFacts
<1>2. lastLine \in Nat /\ lastLine + 1 \in Nat /\ lastLine + 1 # 0
    BY DEF CInv, CartTypes
<1>3. /\ l \in Levels
      /\ req[e].kind = "add" => l = req[e].variant
      /\ req[e].kind # "add" => seen[e].lines[l].id = req[e].line
    BY <1>1, <1>2, EditFacts
<1>4. req[e].kind \in {"add", "change", "remove"} /\ req[e].quantity \in Nat
    BY <1>1, ValidCartRequests DEF CartRequest
<1>5. seen[e].lines = lines[c] /\ seen[e].row.version = cart[c].version
    BY <1>1 DEF Load
<1>6. seen[e].lines[l] \in LineRow
    BY <1>1, <1>3 DEF CartView
<1>7. CASE req[e].kind = "add"
    <2>1. CASE seen[e].lines[l] = NoLine
        <3>1. after = [id |-> lastLine + 1, quantity |-> req[e].quantity]
            BY <1>3, <1>7, <2>1 DEF Edited
        <3>2. Target(req[e], seen[e]) = req[e].quantity
            BY <1>3, <1>4, <1>7, <2>1 DEF Target, NoLine
        <3> HIDE DEF after
        <3>3. after.id = lastLine + 1 /\ after.quantity = Target(req[e], seen[e])
            BY <3>1, <3>2
        <3> QED BY <1>1, <1>3, <1>4, <1>5, <1>7, <3>3 DEF after
    <2>2. CASE seen[e].lines[l] # NoLine
        <3>1. after = [seen[e].lines[l] EXCEPT !.quantity = @ + req[e].quantity]
            BY <1>3, <1>7, <2>2 DEF Edited
        <3>2. Target(req[e], seen[e]) = seen[e].lines[l].quantity + req[e].quantity
            BY <1>3, <1>7 DEF Target
        <3> HIDE DEF after
        <3>3. after.id = seen[e].lines[l].id /\ after.quantity = Target(req[e], seen[e])
            BY <1>6, <3>1, <3>2 DEF LineRow
        <3> QED BY <1>1, <1>3, <1>4, <1>5, <1>7, <3>3 DEF after
    <2> QED BY <2>1, <2>2
<1>8. CASE req[e].kind = "change"
    <2>1. after = [id |-> req[e].line, quantity |-> req[e].quantity]
        BY <1>8 DEF Edited
    <2>2. Target(req[e], seen[e]) = req[e].quantity
        BY <1>8 DEF Target
    <2> HIDE DEF after
    <2>3. after.id = lines[c][l].id /\ after.quantity = Target(req[e], seen[e])
        BY <1>3, <1>5, <1>8, <2>1, <2>2
    <2> QED BY <1>1, <1>3, <1>4, <1>5, <1>8, <2>3 DEF after
<1>9. CASE req[e].kind = "remove"
    <2>1. after.id = 0
        BY <1>9 DEF Edited, NoLine
    <2> HIDE DEF after
    <2> QED BY <1>1, <1>2, <1>3, <1>4, <1>5, <1>9, <2>1 DEF after
<1> QED BY <1>4, <1>7, <1>8, <1>9

\* What the lines are after a save.
LEMMA SavedLines ==
    ASSUME CInv, HInv, NEW e \in Editors, SaveCart(e)
    PROVE  LET c == req[e].cart
               l == VariantOf(req[e], seen[e])
           IN  /\ c \in Carts /\ l \in Levels /\ req[e].kind \in {"add", "change", "remove"}
               /\ seen[e].row.version = cart[c].version
               /\ cart' # cart => cart'[c].version = cart[c].version + 1
               /\ lastLine \in Nat /\ lastLine' \in {lastLine, lastLine + 1}
               /\ \A d \in Carts, k \in Levels :
                     /\ lines[d][k].id \in Nat
                     /\ (d = c /\ k = l) \/ lines'[d][k] = lines[d][k]
               /\ \/ lines'[c][l].id \in {lines[c][l].id, 0}
                  \/ lines'[c][l].id = lastLine + 1 /\ lastLine' = lastLine + 1
               /\ req[e].kind # "remove" =>
                      lines'[c][l].quantity = Target(req[e], seen[e])
<1> DEFINE c == req[e].cart
           l == VariantOf(req[e], seen[e])
           after == Edited(req[e], seen[e], lastLine + 1)
           linesOf == [seen[e].lines EXCEPT ![l] = after]
           row == [seen[e].row EXCEPT !.version = @ + 1]
<1>1. /\ CanSave(e) /\ VersionMatches(e)
      /\ cart' = [cart EXCEPT ![c] = row]
      /\ lines' = [lines EXCEPT ![c] = linesOf]
      /\ lastLine' = IF after.id = lastLine + 1 THEN after.id ELSE lastLine
    BY DEF SaveCart
<1>2. /\ c \in Carts /\ l \in Levels /\ req[e].kind \in {"add", "change", "remove"}
      /\ seen[e].lines = lines[c]
      /\ seen[e].row.version = cart[c].version
      /\ after.id \in {lines[c][l].id, lastLine + 1, 0}
      /\ req[e].kind # "remove" => after.quantity = Target(req[e], seen[e])
    BY <1>1, WrittenLine
<1>3. /\ lines \in [Carts -> [Levels -> LineRow]] /\ cart \in [Carts -> CartRow]
      /\ lastLine \in Nat /\ seen[e] \in CartView
    BY DEF CInv, CartTypes
<1>4. row.version = cart[c].version + 1
    BY <1>2, <1>3 DEF CartView, CartRow
<1> HIDE DEF l, after, row
<1>5. linesOf[l] = after /\ \A k \in Levels \ {l} : linesOf[k] = lines[c][k]
    BY <1>2, <1>3
<1> HIDE DEF linesOf, c
<1>6. cart'[c].version = cart[c].version + 1
    BY <1>1, <1>2, <1>3, <1>4
<1>7. lines'[c] = linesOf /\ \A d \in Carts \ {c} : lines'[d] = lines[d]
    BY <1>1, <1>2, <1>3
<1>8. \A d \in Carts, k \in Levels :
          /\ lines[d][k].id \in Nat
          /\ (d = c /\ k = l) \/ lines'[d][k] = lines[d][k]
    BY <1>3, <1>5, <1>7 DEF LineRow
<1>9. lines'[c][l] = after
    BY <1>5, <1>7
<1>10. \/ after.id \in {lines[c][l].id, 0} /\ lastLine' \in {lastLine, lastLine + 1}
       \/ after.id = lastLine + 1 /\ lastLine' = lastLine + 1
    BY <1>1, <1>2
<1> QED BY <1>2, <1>3, <1>6, <1>8, <1>9, <1>10 DEF c, l

LEMMA SaveCartKeepsHInv ==
    ASSUME CInv, HInv, CInv', NEW e \in Editors, SaveCart(e), VersionsMove
    PROVE  HInv'
<1> DEFINE c == req[e].cart
           l == VariantOf(req[e], seen[e])
<1>1. /\ c \in Carts /\ l \in Levels /\ req[e].kind \in {"add", "change", "remove"}
      /\ seen[e].row.version = cart[c].version
      /\ lastLine \in Nat /\ lastLine' \in {lastLine, lastLine + 1}
      /\ \A d \in Carts, k \in Levels :
            /\ lines[d][k].id \in Nat
            /\ (d = c /\ k = l) \/ lines'[d][k] = lines[d][k]
      /\ \/ lines'[c][l].id \in {lines[c][l].id, 0}
         \/ lines'[c][l].id = lastLine + 1 /\ lastLine' = lastLine + 1
      /\ req[e].kind # "remove" => lines'[c][l].quantity = Target(req[e], seen[e])
    BY SavedLines
<1>2. pc[e] = "save" /\ UNCHANGED <<strayed, hold>> /\ DueInv(e) /\ HeldInv(e)
    BY DEF SaveCart, CanSave, stock, HInv
<1>3. /\ pc \in [Editors -> Labels] /\ req \in [Editors -> CartRequests \cup {NoRequest}]
      /\ seen \in [Editors -> CartView] /\ due \in [Editors -> Levels \cup {None}]
      /\ hold \in [Levels -> [Carts -> HoldRow]]
    BY DEF CInv, CartTypes, HInv, HoldTypes
<1>4. \/ req[e].kind # "remove" /\ End(e)
      \/ /\ req[e].kind = "remove"
         /\ pc' = [pc EXCEPT ![e] = "release"] /\ due' = [due EXCEPT ![e] = l]
         /\ seen' = [seen EXCEPT ![e] = NoView] /\ UNCHANGED req
    BY DEF SaveCart
<1>5. cart'[c].version # cart[c].version
    <2>1. cart'[c] = [seen[e].row EXCEPT !.version = @ + 1]
        BY <1>1 DEF SaveCart, CInv, CartTypes
    <2> QED BY <1>1, <1>3, <2>1 DEF CartView, CartRow, CInv, CartTypes
<1> HIDE DEF l
<1>6. \A f \in Editors \ {e} : Rests(f)
    BY <1>3, <1>4 DEF End, Rests, EditorRests
<1>7. HoldTypes'
    BY <1>1, <1>2, <1>3, <1>4 DEF HoldTypes, End
\* The ids.
<1>8. \A d \in Carts, k \in Levels :
         \/ lines'[d][k].id \in {lines[d][k].id, 0}
         \/ lines'[d][k].id = lastLine + 1 /\ lastLine' = lastLine + 1 /\ d = c /\ k = l
    BY <1>1
<1>9. Numbered'
    BY <1>1, <1>8 DEF HInv, Numbered
<1>10. ASSUME NEW f \in Editors \ {e}
       PROVE  SeenLines(f)' /\ DueInv(f)' /\ HeldInv(f)'
    <2>1. SeenLines(f) /\ DueInv(f) /\ HeldInv(f) /\ Rests(f) /\ EditorRests(f)
        BY <1>6 DEF HInv, Rests
    <2>2. pc[f] # "idle" => req[f] \in CartRequests /\ req[f].cart \in Carts
        BY ValidCartRequests DEF CInv, SeenInv
    <2>3. SeenLines(f)'
        <3> SUFFICES ASSUME pc[f] \in {"reserve", "save"}, NEW k \in Levels, NEW j \in Levels
                     PROVE  /\ seen[f].lines[k].id <= lastLine'
                            /\ seen[f].lines[k].id > 0 /\ seen[f].lines[k].id \in
                                   {seen[f].lines[j].id, lines'[req[f].cart][j].id} => k = j
            BY <2>1 DEF SeenLines, EditorRests
        <3>1. seen[f].lines[k].id \in Nat /\ seen[f].lines[k].id <= lastLine
            BY <1>3, <2>1 DEF SeenLines, CartView, LineRow
        <3>2. seen[f].lines[k].id <= lastLine'
            BY <1>1, <3>1
        <3>3. ASSUME seen[f].lines[k].id > 0,
                     seen[f].lines[k].id = lines'[req[f].cart][j].id
              PROVE  seen[f].lines[k].id = lines[req[f].cart][j].id
            <4>1. \/ lines'[req[f].cart][j].id \in {lines[req[f].cart][j].id, 0}
                  \/ lines'[req[f].cart][j].id = lastLine + 1
                BY <1>8, <2>2
            <4> QED BY <1>1, <3>1, <3>3, <4>1
        <3> QED BY <2>1, <3>2, <3>3, SMTT(40) DEF SeenLines
    <2>4. DueInv(f)'
        <3>1. CASE due[f] # None /\ req[f].kind = "change"
            <4>1. req[f].line \in Nat /\ req[f].line > 0 /\ req[f].cart \in Carts
                BY <2>1, <2>2, <3>1, ValidCartRequests DEF DueInv, CartRequest
            <4>2. req[f].line <= lastLine'
                BY <1>1, <2>1, <3>1, <4>1 DEF DueInv
            <4>3. ASSUME NEW k \in Levels, lines'[req[f].cart][k].id = req[f].line
                  PROVE  k = due[f]
                <5>1. lines[req[f].cart][k].id = req[f].line
                    BY <1>1, <1>8, <2>1, <3>1, <4>1, <4>3 DEF DueInv
                <5> QED BY <2>1, <3>1, <5>1 DEF DueInv
            <4> QED BY <2>1, <3>1, <4>2, <4>3 DEF DueInv, Rests, EditorRests
        <3>2. CASE ~(due[f] # None /\ req[f].kind = "change")
            BY <2>1, <3>2 DEF DueInv, Rests, EditorRests
        <3> QED BY <3>1, <3>2
    <2>5. HeldInv(f)'
        <3> SUFFICES ASSUME Reserving(f)' PROVE HeldInv(f)'
            BY DEF HeldInv
        <3> DEFINE d == req[f].cart
                   k == due[f]
        <3>1. Reserving(f)
            BY <2>1 DEF Reserving, EditorRests
        <3>2. /\ d \in Carts /\ k \in Levels /\ k = VariantOf(req[f], seen[f])
              /\ req'[f] = req[f] /\ seen'[f] = seen[f] /\ due'[f] = due[f]
            BY <2>1, <3>1, RestingSave
        <3>3. ASSUME (seen[f].row.version = cart[d].version)'
              PROVE  OwedByOthers(f, d, k)' \/ (hold'[k][d].status = "active" =>
                         hold'[k][d].quantity = Target(req[f], seen[f]))
            <4>1. CartTypes'
                BY DEF CInv
            <4>2. seen[f].row.version = cart[d].version
                BY <2>1, <3>1, <3>2, <3>3, <4>1, SameVersion
            <4>3. d # c
                BY <1>5, <3>2, <3>3, <4>2
            <4>4. OwedByOthers(f, d, k) => OwedByOthers(f, d, k)'
                BY <1>2, <1>6, <4>3 DEF OwedByOthers, Rests, EditorRests
            <4> HIDE DEF d, k
            <4> QED BY <1>2, <2>1, <3>1, <4>2, <4>4 DEF HeldInv, d, k
        <3> QED BY <3>2, <3>3 DEF HeldInv
    <2> QED BY <2>3, <2>4, <2>5
<1>11. SeenLines(e)' /\ DueInv(e)' /\ HeldInv(e)'
    <2>1. CASE End(e)
        <3>1. pc'[e] = "idle" /\ due'[e] = None
            BY <1>3, <2>1 DEF End
        <3> QED BY <3>1 DEF SeenLines, DueInv, HeldInv, Reserving
    <2>2. CASE ~End(e)
        <3>1. pc'[e] = "release" /\ req'[e].kind = "remove"
            BY <1>3, <1>4, <2>2
        <3> QED BY <3>1 DEF SeenLines, DueInv, HeldInv, Reserving
    <2> QED BY <2>1, <2>2
\* The holds.
<1>12. ASSUME NEW d \in Carts, NEW k \in Levels
       PROVE  \/ <<d, k>> \in strayed'
              \/ \E f \in Editors : req'[f].cart = d /\ due'[f] = k
              \/ hold'[k][d].status = "active" => hold'[k][d].quantity = lines'[d][k].quantity
    <2>1. CASE d = c /\ k = l /\ req[e].kind = "remove"
        <3>1. req'[e].cart = c /\ due'[e] = l
            BY <1>3, <1>4, <2>1
        <3> QED BY <2>1, <3>1
    <2>2. CASE d = c /\ k = l /\ req[e].kind # "remove"
        <3>1. Reserving(e)
            BY <1>2, <2>2 DEF Reserving
        <3>2. \/ OwedByOthers(e, c, l)
              \/ hold[l][c].status = "active" => hold[l][c].quantity = Target(req[e], seen[e])
            BY <1>1, <1>2, <3>1 DEF HeldInv, l
        <3>3. CASE OwedByOthers(e, c, l)
            BY <1>2, <1>6, <2>2, <3>3 DEF OwedByOthers, Rests, EditorRests
        <3>4. CASE hold[l][c].status = "active" =>
                       hold[l][c].quantity = Target(req[e], seen[e])
            BY <1>1, <1>2, <2>2, <3>4
        <3> QED BY <3>2, <3>3, <3>4
    <2>3. CASE ~(d = c /\ k = l)
        <3>1. lines'[d][k] = lines[d][k] /\ hold' = hold /\ strayed' = strayed
            BY <1>1, <1>2, <2>3
        <3>2. ~(req[e].cart = d /\ due[e] = k)
            <4>1. CASE req[e].kind = "remove"
                BY <1>2, <4>1, CartConstants DEF DueInv
            <4>2. CASE req[e].kind # "remove"
                BY <1>2, <2>3, <4>2 DEF HeldInv, Reserving, l
            <4> QED BY <4>1, <4>2
        <3>3. \/ <<d, k>> \in strayed
              \/ \E f \in Editors : req[f].cart = d /\ due[f] = k
              \/ hold[k][d].status = "active" => hold[k][d].quantity = lines[d][k].quantity
            BY DEF HInv, HoldsMatchLines
        <3> QED BY <1>6, <3>1, <3>2, <3>3 DEF Rests, EditorRests
    <2> QED BY <2>1, <2>2, <2>3
<1>13. HoldsMatchLines'
    BY <1>12 DEF HoldsMatchLines
<1> QED BY <1>7, <1>9, <1>10, <1>11, <1>13 DEF HInv

LEMMA ReleaseLineKeepsHInv ==
    ASSUME CInv, HInv, CInv', NEW e \in Editors, ReleaseLine(e)
    PROVE  HInv'
<1> DEFINE ids == HeldIds(req[e].cart, due[e])
<1>1. End(e) /\ UNCHANGED <<tables, strayed>>
    BY DEF ReleaseLine
<1>2. CASE ids = {}
    <2>1. UNCHANGED hold
        BY <1>2 DEF ReleaseLine, stock
    <2>2. hold'[due[e]][req[e].cart].status # "active"
        BY <1>2, <2>1 DEF HeldIds
    <2> QED BY <1>1, <2>1, <2>2, TablesRest, HoldsRest, EndKeepsHInv
<1>3. CASE ids # {}
    <2>1. ids = {<<req[e].cart, due[e]>>} /\ Stock!SetStatus(ids, "released")
        BY <1>3 DEF ReleaseLine, HeldIds, Stock!ReleaseHolds, Stock!FreeHolds
    <2>2. <<req[e].cart, due[e]>> \in ids
        BY <2>1
    <2> HIDE DEF ids
    <2>3. /\ hold' \in [Levels -> [Carts -> HoldRow]]
          /\ \A c \in Carts, l \in Levels :
                /\ Dropped(c, l)
                /\ <<c, l>> \in ids => hold'[l][c].status # "active"
        BY <2>1, StatusFacts
    <2> QED BY <1>1, <2>2, <2>3, TablesRest, EndKeepsHInv
<1> QED BY <1>2, <1>3

\* The holds end by themselves, the editors rest.
LEMMA QuietHoldsKeepHInv ==
    ASSUME CInv, HInv, CInv', VersionsMove,
           UNCHANGED <<lines, lastLine, editors, strayed>>,
           hold' \in [Levels -> [Carts -> HoldRow]],
           \A c \in Carts, l \in Levels : Dropped(c, l)
    PROVE  HInv'
<1>1. CartTypes' /\ HoldTypes' /\ \A e \in Editors : Rests(e)
    BY DEF CInv, HInv, HoldTypes, Rests, EditorRests, editors
<1> QED BY <1>1, QuietStepKeepsHInv

LEMMA CartNextKeepsHInv ==
    ASSUME CInv, HInv, CInv', CartNext
    PROVE  HInv'
<1>1. ASSUME NEW e \in Editors,
             \/ RefuseLoad(e) \/ RefuseReserve(e) \/ ExhaustSave(e) \/ Die(e)
      PROVE  HInv'
    <2>1. Fail(e, {due[e]}) /\ UNCHANGED tables /\ UNCHANGED hold
        BY <1>1 DEF RefuseLoad, RefuseReserve, ExhaustSave, Die, stock
    <2> QED BY <2>1, FailKeepsHInv
<1>2. ASSUME NEW e \in Editors, ClaimCart(e)
      PROVE  HInv'
    <2>1. End(e) /\ pc[e] = "claim" /\ UNCHANGED <<lines, lastLine, strayed, hold>>
        BY <1>2 DEF ClaimCart, stock
    <2> QED BY <1>2, <2>1, ClaimCartKeepsCInv, QuietEndKeepsHInv
<1>3. ASSUME NEW customer \in Customers,
             EraseCustomer(customer) \/ \E c \in Carts : CreateCart(c, customer)
      PROVE  HInv'
    <2>1. UNCHANGED <<lines, lastLine, editors, strayed>> /\ UNCHANGED hold
        BY <1>3 DEF EraseCustomer, CreateCart, stock
    <2>2. VersionsMove
        BY <1>3, EraseCustomerKeepsCInv, CreateCartKeepsCInv
    <2> QED BY <2>1, <2>2, HoldsRest, QuietHoldsKeepHInv
<1>4. ASSUME NEW c \in Carts, NEW l \in Levels, Lapse(c, l)
      PROVE  HInv'
    <2>1. UNCHANGED <<tables, editors, strayed>> /\ Stock!SetStatus({<<c, l>>}, "expired")
        BY <1>4 DEF Lapse, Stock!LapseHolds, Stock!FreeHolds
    <2>2. /\ hold' \in [Levels -> [Carts -> HoldRow]]
          /\ \A d \in Carts, k \in Levels : Dropped(d, k)
        BY <2>1, StatusFacts
    <2> QED BY <2>1, <2>2, TablesRest, QuietHoldsKeepHInv
<1>5. ASSUME NEW e \in Editors, SaveCart(e)
      PROVE  HInv'
    BY <1>5, SaveCartKeepsCInv, SaveCartKeepsHInv
<1> QED BY <1>1, <1>2, <1>3, <1>4, <1>5, ReceiveKeepsHInv, LoadCartKeepsHInv,
           ReserveLineKeepsHInv, RetrySaveKeepsHInv, ReleaseLineKeepsHInv, CheckClaimKeepsHInv
        DEF CartNext

\* The places end holds and convert carts, nothing else.
LEMMA PlaceNextKeepsHInv ==
    ASSUME IInv, HInv, CInv', PlaceNext
    PROVE  HInv'
<1>1. CInv
    BY DEF IInv
<1>2. VersionsMove /\ UNCHANGED <<lines, lastLine, editors, strayed>>
    <2>1. ASSUME NEW p \in Placers, CommitPlace(p)
          PROVE  VersionsMove /\ UNCHANGED <<lines, lastLine, editors, strayed>>
        <3>1. CInv /\ PInv
            BY DEF IInv
        <3> QED BY <2>1, <3>1, CommitPlaceKeepsIInv DEF CommitPlace
    <2>2. CASE ~\E p \in Placers : CommitPlace(p)
        <3>1. UNCHANGED <<tables, editors, strayed>>
            BY <2>2, ZenonT(60) DEF PlaceNext, Replay, BeginPlace, ReadHeader, ReadLines, Convert,
                        AllocateCut, RefuseAllocate, LoseAllocateAnswer, LoseCommit, Rollback,
                        ReleaseDeclined, LoseReleaseDeclined, FailOrder, Authorize, Decline,
                        Resolve, StoreKey, DiePlace, CancelOrder, ReleaseCancelled,
                        cartVars, edits, editsButFaults
        <3> QED BY <3>1, TablesRest
    <2> QED BY <2>1, <2>2
<1>3. \/ UNCHANGED hold
      \/ \E ids : Stock!SetStatus(ids, "committed")
    BY ZenonT(60) DEF PlaceNext, Replay, BeginPlace, ReadHeader, ReadLines, Convert,
           AllocateCut, RefuseAllocate, LoseAllocateAnswer, CommitPlace, LoseCommit, Rollback,
           ReleaseDeclined, LoseReleaseDeclined, FailOrder, Authorize, Decline,
           Resolve, StoreKey, DiePlace, CancelOrder, ReleaseCancelled,
           cartVars, stock, Stock!AllocateStock, Stock!CancelAllocation
<1>4. /\ hold' \in [Levels -> [Carts -> HoldRow]]
      /\ \A d \in Carts, k \in Levels : Dropped(d, k)
    BY <1>3, HoldsRest, StatusFacts
<1> QED BY <1>1, <1>2, <1>4, QuietHoldsKeepHInv

LEMMA InitHolds == Init => HInv
<1> SUFFICES ASSUME Init PROVE HInv
    OBVIOUS
<1> DEFINE row(l, c) == IF FirstLines[c][l] = NoLine THEN NoHold
                        ELSE [status |-> "active", quantity |-> FirstLines[c][l].quantity]
<1>1. /\ hold = [l \in Levels |-> [c \in Carts |-> row(l, c)]]
      /\ lines = FirstLines /\ lastLine = Cardinality(FirstStock)
      /\ pc = [e \in Editors |-> "idle"] /\ due = [e \in Editors |-> None]
    BY DEF Init, CartInit
<1>2. FirstLines \in [Carts -> [Levels -> LineRow]]
    BY CartConstants
<1>3. ASSUME NEW l \in Levels, NEW c \in Carts
      PROVE  /\ row(l, c) \in HoldRow
             /\ row(l, c).status = "active" => row(l, c).quantity = FirstLines[c][l].quantity
    <2>1. FirstLines[c][l].quantity \in Nat
        BY <1>2 DEF LineRow
    <2> QED BY <2>1 DEF NoHold, HoldRow, HoldStatus
<1> HIDE DEF row
<1>4. HoldTypes
    BY <1>1, <1>3 DEF HoldTypes
<1>5. Cardinality(FirstStock) \in Nat
    <2>1. IsFiniteSet(Carts \X Levels) /\ FirstStock \subseteq Carts \X Levels
        BY FiniteTables, FS_Product DEF FirstStock
    <2> QED BY <2>1, FS_Subset, FS_CardinalityType
<1>6. Numbered
    <2>1. ASSUME NEW c \in Carts, NEW l \in Levels
          PROVE  FirstLines[c][l].id <= Cardinality(FirstStock)
        <3>1. CASE FirstLines[c][l] = NoLine
            BY <1>5, <3>1 DEF NoLine
        <3>2. CASE FirstLines[c][l] # NoLine
            <4>1. <<c, l>> \in FirstStock
                BY <3>2 DEF FirstStock
            <4> QED BY <1>5, <4>1, FirstLinesNumbered
        <3> QED BY <3>1, <3>2
    <2>2. ASSUME NEW c \in Carts, NEW l \in Levels, NEW k \in Levels,
                 FirstLines[c][l].id > 0, FirstLines[c][l].id = FirstLines[c][k].id
          PROVE  l = k
        <3>1. FirstLines[c][l] # NoLine /\ FirstLines[c][k] # NoLine
            BY <2>2 DEF NoLine
        <3>2. <<c, l>> \in FirstStock /\ <<c, k>> \in FirstStock
            BY <3>1 DEF FirstStock
        <3> QED BY <2>2, <3>2, FirstLinesNumbered
    <2> QED BY <1>1, <2>1, <2>2 DEF Numbered
<1>7. \A e \in Editors : SeenLines(e) /\ DueInv(e) /\ HeldInv(e)
    BY <1>1 DEF SeenLines, DueInv, HeldInv, Reserving
<1>8. HoldsMatchLines
    BY <1>1, <1>3 DEF HoldsMatchLines
<1> QED BY <1>4, <1>6, <1>7, <1>8 DEF HInv

LEMMA NextKeepsHInv == IInv /\ HInv /\ [Next]_vars => HInv'
<1> SUFFICES ASSUME IInv, HInv, [Next]_vars PROVE HInv'
    OBVIOUS
<1>1. CInv /\ CInv'
    BY NextKeepsIInv DEF IInv
<1>2. CASE CartNext
    BY <1>1, <1>2, CartNextKeepsHInv
<1>3. CASE PlaceNext
    BY <1>1, <1>3, PlaceNextKeepsHInv
<1>4. CASE UNCHANGED vars
    <2>1. UNCHANGED <<tables, editors, strayed, hold>>
        BY <1>4 DEF vars, cartVars, stock
    <2> QED BY <1>1, <2>1, TablesRest, HoldsRest, QuietHoldsKeepHInv
<1> QED BY <1>2, <1>3, <1>4 DEF Next

\* A hold that is active holds what the line of its cart says, however requests
\* and their attempts overtake each other between the call and the save.
THEOREM HoldsStayBehindLines == Spec => []HoldsMatchLines
<1>1. HInv => HoldsMatchLines
    BY DEF HInv
<1>2. IInv /\ HInv /\ [Next]_vars => (IInv /\ HInv)'
    BY NextKeepsIInv, NextKeepsHInv
<1>3. Init => IInv /\ HInv
    BY InitIsSound, InitHolds
<1> QED BY <1>1, <1>2, <1>3, PTL DEF Spec

-----------------------------------------------------------------------------
(* The stock behind the orders.                                            *)

LedgerTypes ==
    \A l \in Levels :
        /\ "allocated" \in DOMAIN level[l] /\ level[l].allocated \in Int
        /\ \A m \in BagToSet(ledger[l]) :
              /\ ledger[l][m] \in Nat \ {0}
              /\ m.type = "allocation" => m.ref \in OrderIds

Allocs(l, o) == {m \in RowsOf(l, o) : m.type = "allocation"}
Releases(l, o) == {m \in RowsOf(l, o) : m.type = "release"}

\* The order takes q units of a level, in one row.
Taken(o, q) == IF q = 0 THEN {} ELSE {Movement("allocation", -q, o, None)}

Unused(o) == \A l \in Levels : RowsOf(l, o) = {}
Allocated(o, q) == \A l \in Levels : Allocs(l, o) = Taken(o, q[l])
Untouched(o, q) ==
    \A l \in Levels :
        RowsOf(l, o) = Taken(o, q[l]) /\ \A m \in RowsOf(l, o) : ledger[l][m] = 1

\* Somebody will see to the allocation of order o at level l, or has.
AccountedAt(l, o) ==
    \/ orders[o].status = "pending"
    \/ \E p \in Placers : mine[p] = o /\ stage[p] \in {"commit", "rollback"}
    \/ Releases(l, o) # {}
    \/ o \in releasing \cup orphans

\* From the insert of an order to the end of its authorization.
Unplaced == {"allocate", "commit", "rollback"}
Unpaid == {"authorize", "declined", "fail"}
Owner(p) == stage[p] \in Unplaced \cup Unpaid

\* The order of an owner has not been placed, or has been, with the quantities
\* the owner read, and is not paid.
OwnerInv(p) ==
    /\ Owner(p) => mine[p] \in 1 .. lastOrder
    /\ stage[p] \in Unplaced => orders[mine[p]].status = "none"
    /\ stage[p] \in Unpaid =>
           /\ orders[mine[p]].status # "none"
           /\ orders[mine[p]].paymentStatus = "none"
           /\ orders[mine[p]].lines = cut[p]

OneOwner == \A p, q \in Placers : Owner(p) /\ Owner(q) /\ mine[p] = mine[q] => p = q

ReleasingInv == releasing \subseteq {o \in OrderIds : orders[o].status = "cancelled"}

\* What its owner knows of the rows of order o.
OwnedRows(p, o) ==
    /\ stage[p] = "allocate" => Unused(o)
    /\ \/ stage[p] \in {"commit", "rollback"}
       \/ stage[p] \in {"authorize", "declined"} /\ orders[o].status = "pending"
       => Untouched(o, cut[p])
    /\ stage[p] = "fail" =>
           \A l \in Levels : Allocs(l, o) # {} =>
               Releases(l, o) # {} \/ o \in releasing \cup orphans

AccountInv(o) ==
    /\ o > lastOrder => Unused(o)
    /\ orders[o].status # "none" => Allocated(o, orders[o].lines)
    /\ o \in Paid => Untouched(o, orders[o].lines)
    /\ \A l \in Levels : Allocs(l, o) # {} => AccountedAt(l, o)
    /\ \A p \in Placers : mine[p] = o => OwnedRows(p, o)

\* The units of the orders that have given nothing back, one element per unit.
OwnedBy(l, o) ==
    UNION {1 .. -m.quantity : m \in IF Releases(l, o) = {} THEN Allocs(l, o) ELSE {}}
Owned(l) == UNION {{o} \X OwnedBy(l, o) : o \in OrderIds}

SumInv ==
    (\A o \in OrderIds : ~ReleasedTwice(o)) =>
        \A l \in Levels : IsFiniteSet(Owned(l)) /\ Cardinality(Owned(l)) <= level[l].allocated

OInv ==
    /\ LedgerTypes
    /\ \A p \in Placers : OwnerInv(p)
    /\ OneOwner
    /\ ReleasingInv
    /\ \A o \in OrderIds : AccountInv(o)
    /\ SumInv

-----------------------------------------------------------------------------
(* What the calls to the inventory do to its counters and its ledger.      *)

LEMMA BagAppend ==
    ASSUME NEW B, NEW S, NEW m, \A n \in BagToSet(B) : B[n] \in Nat \ {0}
    PROVE  LET C == B (+) SetToBag(S)
           IN  /\ BagToSet(C) = BagToSet(B) \cup S
               /\ m \in BagToSet(B) => C[m] = IF m \in S THEN B[m] + 1 ELSE B[m]
               /\ m \notin BagToSet(B) /\ m \in S => C[m] = 1
BY DEF (+), SetToBag, BagToSet

LEMMA StockAppends ==
    ASSUME NEW W, NEW movements
    PROVE  Stock!AppendRows(W, movements)
             <=> ledger' = [l \in Levels |-> IF l \in W THEN ledger[l] (+) SetToBag(movements[l])
                                                        ELSE ledger[l]]
<1>1. \A B, C : Stock!(+)(B, C) = B (+) C
    BY DEF Stock!(+), (+)
<1>2. \A S : Stock!SetToBag(S) = SetToBag(S)
    BY DEF Stock!SetToBag, SetToBag
<1> QED BY <1>1, <1>2 DEF Stock!AppendRows

\* Rows of level l that are new, or are there once more.
Appended(l, S) ==
    /\ BagToSet(ledger'[l]) = BagToSet(ledger[l]) \cup S
    /\ \A m \in BagToSet(ledger'[l]) :
          /\ ledger'[l][m] \in Nat \ {0}
          /\ m \in BagToSet(ledger[l]) =>
                ledger'[l][m] = IF m \in S THEN ledger[l][m] + 1 ELSE ledger[l][m]
          /\ m \notin BagToSet(ledger[l]) => ledger'[l][m] = 1

LEMMA AppendFacts ==
    ASSUME LedgerTypes, NEW W, NEW movements, NEW l \in Levels,
           ledger' = [k \in Levels |-> IF k \in W THEN ledger[k] (+) SetToBag(movements[k])
                                                  ELSE ledger[k]]
    PROVE  Appended(l, IF l \in W THEN movements[l] ELSE {})
<1>1. \A n \in BagToSet(ledger[l]) : ledger[l][n] \in Nat \ {0}
    BY DEF LedgerTypes
<1>2. CASE l \notin W
    <2>1. ledger'[l] = ledger[l]
        BY <1>2
    <2> QED BY <1>1, <1>2, <2>1 DEF Appended
<1>3. CASE l \in W
    <2> DEFINE B == ledger[l]
               S == movements[l]
               C == B (+) SetToBag(S)
    <2>1. ledger'[l] = C
        BY <1>3
    <2>2. BagToSet(C) = BagToSet(B) \cup S
        BY <1>1, BagAppend
    <2>3. ASSUME NEW m
          PROVE  /\ m \in BagToSet(B) => C[m] = IF m \in S THEN B[m] + 1 ELSE B[m]
                 /\ m \notin BagToSet(B) /\ m \in S => C[m] = 1
        BY <1>1, BagAppend
    <2> HIDE DEF C
    <2>4. \A m \in BagToSet(C) : C[m] \in Nat \ {0}
        BY <1>1, <2>2, <2>3
    <2> QED BY <1>3, <2>1, <2>2, <2>3, <2>4 DEF Appended
<1> QED BY <1>2, <1>3

\* The counter of allocated units moves by d.
Counted(l, d) ==
    /\ "allocated" \in DOMAIN level'[l]
    /\ level'[l].allocated = level[l].allocated + d

\* The calls: order o takes the quantities q, order o gives them back, or nothing
\* happens to the allocated units and the new rows belong to carts.
Takes(o, q) == \A l \in Levels : Counted(l, q[l]) /\ Appended(l, Taken(o, q[l]))
Given(o, q, key) == IF q = 0 THEN {} ELSE {Movement("release", -q, o, key)}
Gives(o, q, key) ==
    \A l \in Levels : Counted(l, -q[l]) /\ Appended(l, Given(o, q[l], key))
StockRests ==
    \A l \in Levels :
        /\ Counted(l, 0)
        /\ \E S : Appended(l, S) /\ \A m \in S : m.type = "release" /\ m.ref \in Carts

LEMMA AllocateEffect ==
    ASSUME LedgerTypes, NEW o, o.lines \in [Levels -> Nat], Stock!AllocateStock(o)
    PROVE  Takes(o.ref, o.lines)
<1> SUFFICES ASSUME NEW l \in Levels
             PROVE  Counted(l, o.lines[l]) /\ Appended(l, Taken(o.ref, o.lines[l]))
    BY DEF Takes
<1> DEFINE q == o.lines[l]
           row == Stock!AllocateRow(Stock!Rows, o, l)
<1>1. Stock!Lines(o) = {k \in Levels : o.lines[k] # 0}
    BY DEF Stock!Lines
<1>2. level'[l] = IF q # 0 THEN row ELSE level[l]
    BY <1>1 DEF Stock!AllocateStock, Stock!WriteRows
<1>3. q \in Nat /\ "allocated" \in DOMAIN level[l] /\ level[l].allocated \in Int
    BY DEF LedgerTypes
<1>4. "allocated" \in DOMAIN row /\ row.allocated = level[l].allocated + q
    BY <1>3 DEF Stock!AllocateRow, Stock!Rows, Stock!AllocateFromReserved, Stock!AllocateDirect,
                Stock!ReleaseReserved
<1> HIDE DEF row
<1>5. Counted(l, q)
    BY <1>2, <1>3, <1>4 DEF Counted
<1>6. Appended(l, IF l \in Stock!Lines(o)
                  THEN [k \in Levels |-> Stock!LineMovements(o, k)][l] ELSE {})
    BY StockAppends, AppendFacts DEF Stock!AllocateStock
<1>7. o.kind = "allocate"
    BY DEF Stock!AllocateStock
<1>8. Stock!LineMovements(o, l) = {Movement("allocation", -q, o.ref, None)}
    BY <1>7 DEF Stock!LineMovements, Stock!Movement, Movement
<1> QED BY <1>1, <1>5, <1>6, <1>8 DEF Taken

LEMMA CancelEffect ==
    ASSUME LedgerTypes, NEW o, o.lines \in [Levels -> Nat], Stock!CancelAllocation(o)
    PROVE  Gives(o.ref, o.lines, o.key)
<1> SUFFICES ASSUME NEW l \in Levels
             PROVE  Counted(l, -o.lines[l]) /\ Appended(l, Given(o.ref, o.lines[l], o.key))
    BY DEF Gives
<1> DEFINE q == o.lines[l]
           row == Stock!ReleaseAllocated(level[l], q)
<1>1. Stock!Lines(o) = {k \in Levels : o.lines[k] # 0}
    BY DEF Stock!Lines
<1>2. level'[l] = IF q # 0 THEN row ELSE level[l]
    BY <1>1 DEF Stock!CancelAllocation, Stock!WriteRows
<1>3. q \in Nat /\ "allocated" \in DOMAIN level[l] /\ level[l].allocated \in Int
    BY DEF LedgerTypes
<1>4. "allocated" \in DOMAIN row /\ row.allocated = level[l].allocated - q
    BY <1>3 DEF Stock!ReleaseAllocated
<1> HIDE DEF row
<1>5. Counted(l, -q)
    BY <1>2, <1>3, <1>4 DEF Counted
<1>6. Appended(l, IF l \in Stock!Lines(o)
                  THEN [k \in Levels |-> Stock!LineMovements(o, k)][l] ELSE {})
    BY StockAppends, AppendFacts DEF Stock!CancelAllocation
<1>7. o.kind = "cancel"
    BY DEF Stock!CancelAllocation
<1>8. Stock!LineMovements(o, l) = {Movement("release", -q, o.ref, o.key)}
    BY <1>7 DEF Stock!LineMovements, Stock!Movement, Movement
<1> QED BY <1>1, <1>5, <1>6, <1>8 DEF Given

\* The other calls move no allocated unit, and their rows refer to carts.
LEMMA ReserveEffect ==
    ASSUME LedgerTypes, NEW o, Stock!ReserveStock(o)
    PROVE  StockRests
<1> SUFFICES ASSUME NEW l \in Levels
             PROVE  Counted(l, 0) /\ Appended(l, {})
    BY DEF StockRests
<1>1. "allocated" \in DOMAIN level[l] /\ level[l].allocated \in Int /\ ledger' = ledger
    BY DEF LedgerTypes, Stock!ReserveStock
<1> DEFINE row == Stock!ReserveRow(Stock!Rows, o, l)
<1>2. level'[l] = row \/ level'[l] = level[l]
    BY DEF Stock!ReserveStock, Stock!WriteRows
<1>3. "allocated" \in DOMAIN row /\ row.allocated = level[l].allocated
    BY <1>1 DEF Stock!ReserveRow, Stock!Rows, Stock!Reserve, Stock!ReleaseReserved
<1> HIDE DEF row
<1>4. Counted(l, 0)
    BY <1>1, <1>2, <1>3 DEF Counted
<1>5. Appended(l, {})
    BY <1>1 DEF Appended, LedgerTypes
<1> QED BY <1>4, <1>5

LEMMA FreeEffect ==
    ASSUME LedgerTypes, NEW ids, NEW status, Stock!FreeHolds(ids, status)
    PROVE  StockRests
<1> SUFFICES ASSUME NEW l \in Levels
             PROVE  /\ Counted(l, 0)
                    /\ \E S : Appended(l, S) /\ \A m \in S : m.type = "release" /\ m.ref \in Carts
    BY DEF StockRests
<1>1. "allocated" \in DOMAIN level[l] /\ level[l].allocated \in Int
    BY DEF LedgerTypes
<1> DEFINE row == Stock!FreeRow(Stock!Rows, ids, l)
<1>2. level'[l] = row \/ level'[l] = level[l]
    BY DEF Stock!FreeHolds, Stock!WriteRows
<1>3. "allocated" \in DOMAIN row /\ row.allocated = level[l].allocated
    BY <1>1 DEF Stock!FreeRow, Stock!Rows, Stock!ReleaseReserved
<1> HIDE DEF row
<1>4. Counted(l, 0)
    BY <1>1, <1>2, <1>3 DEF Counted
<1> DEFINE rows(k) == Stock!FreeMovements(Stock!Rows, ids, k)
           S == IF l \in Stock!LevelsOf(ids) THEN [k \in Levels |-> rows(k)][l] ELSE {}
<1>5. Appended(l, S)
    BY StockAppends, AppendFacts DEF Stock!FreeHolds
<1>6. \A m \in rows(l) : m.type = "release" /\ m.ref \in Carts
    <2> SUFFICES ASSUME NEW m \in rows(l) PROVE m.type = "release" /\ m.ref \in Carts
        OBVIOUS
    <2>1. PICK c \in Stock!CartsAt(ids, l) :
              m = Stock!Movement("release", -Stock!Rows.hold[l][c].quantity, c, None)
        BY DEF Stock!FreeMovements
    <2>2. c \in Carts
        BY DEF Stock!CartsAt
    <2> QED BY <2>1, <2>2 DEF Stock!Movement
<1> HIDE DEF rows
<1>7. \A m \in S : m.type = "release" /\ m.ref \in Carts
    BY <1>6
<1> QED BY <1>4, <1>5, <1>7

LEMMA NothingHappens ==
    ASSUME LedgerTypes, UNCHANGED stock
    PROVE  StockRests
<1> SUFFICES ASSUME NEW l \in Levels
             PROVE  Counted(l, 0) /\ Appended(l, {})
    BY DEF StockRests
<1>1. "allocated" \in DOMAIN level[l] /\ level[l].allocated \in Int
    BY DEF LedgerTypes
<1>2. level' = level /\ ledger' = ledger
    BY DEF stock
<1> QED BY <1>1, <1>2 DEF Counted, Appended, LedgerTypes

\* The rows of order o stay as they are.
RowsRest(o) ==
    \A l \in Levels :
        /\ RowsOf(l, o)' = RowsOf(l, o)
        /\ \A m \in RowsOf(l, o) : ledger'[l][m] = ledger[l][m]

LEMMA RowsAppended ==
    ASSUME LedgerTypes, NEW l \in Levels, NEW S, Appended(l, S), NEW o
    PROVE  /\ RowsOf(l, o)' = RowsOf(l, o) \cup {m \in S : m.ref = o}
           /\ \A m \in RowsOf(l, o) :
                 ledger'[l][m] = IF m \in S THEN ledger[l][m] + 1 ELSE ledger[l][m]
           /\ \A m \in S : m \notin RowsOf(l, o) /\ m.ref = o => ledger'[l][m] = 1
BY DEF Appended, RowsOf

LEMMA OthersAppended ==
    ASSUME LedgerTypes, NEW l \in Levels, NEW S, Appended(l, S), NEW o,
           \A m \in S : m.ref # o
    PROVE  /\ RowsOf(l, o)' = RowsOf(l, o)
           /\ \A m \in RowsOf(l, o) : ledger'[l][m] = ledger[l][m]
<1>1. {m \in S : m.ref = o} = {}
    OBVIOUS
<1>2. \A m \in RowsOf(l, o) : m \notin S
    BY DEF RowsOf
<1>3. /\ RowsOf(l, o)' = RowsOf(l, o) \cup {m \in S : m.ref = o}
      /\ \A m \in RowsOf(l, o) :
            ledger'[l][m] = IF m \in S THEN ledger[l][m] + 1 ELSE ledger[l][m]
    BY RowsAppended
<1> QED BY <1>1, <1>2, <1>3

LEMMA TypesAppended ==
    ASSUME LedgerTypes, NEW l \in Levels, NEW S, Appended(l, S), NEW d \in Int, Counted(l, d),
           \A m \in S : m.type = "allocation" => m.ref \in OrderIds
    PROVE  /\ "allocated" \in DOMAIN level'[l] /\ level'[l].allocated \in Int
           /\ \A m \in BagToSet(ledger'[l]) :
                 /\ ledger'[l][m] \in Nat \ {0}
                 /\ m.type = "allocation" => m.ref \in OrderIds
<1>1. level[l].allocated \in Int /\ level'[l].allocated = level[l].allocated + d
    BY DEF LedgerTypes, Counted
<1>2. level'[l].allocated \in Int
    BY <1>1
<1>3. \A m \in BagToSet(ledger[l]) : m.type = "allocation" => m.ref \in OrderIds
    BY DEF LedgerTypes
<1> QED BY <1>2, <1>3 DEF Counted, Appended

LEMMA RestEffect ==
    ASSUME LedgerTypes, StockRests
    PROVE  LedgerTypes' /\ \A o \in OrderIds : RowsRest(o)
<1>1. ASSUME NEW l \in Levels
      PROVE  /\ "allocated" \in DOMAIN level'[l] /\ level'[l].allocated \in Int
             /\ \A m \in BagToSet(ledger'[l]) :
                   /\ ledger'[l][m] \in Nat \ {0}
                   /\ m.type = "allocation" => m.ref \in OrderIds
             /\ \A o \in OrderIds :
                   /\ RowsOf(l, o)' = RowsOf(l, o)
                   /\ \A m \in RowsOf(l, o) : ledger'[l][m] = ledger[l][m]
    <2>1. PICK S : Appended(l, S) /\ \A m \in S : m.type = "release" /\ m.ref \in Carts
        BY DEF StockRests
    <2>2. Counted(l, 0)
        BY DEF StockRests
    <2>3. \A m \in S : m.type # "allocation"
        BY <2>1
    <2>4. \A o \in OrderIds : \A m \in S : m.ref # o
        BY <2>1, CartsAreNoOrders
    <2>5. Appended(l, S)
        BY <2>1
    <2>6. /\ "allocated" \in DOMAIN level'[l] /\ level'[l].allocated \in Int
          /\ \A m \in BagToSet(ledger'[l]) :
                   /\ ledger'[l][m] \in Nat \ {0}
                   /\ m.type = "allocation" => m.ref \in OrderIds
        BY <2>2, <2>3, <2>5, TypesAppended
    <2> QED BY <2>4, <2>5, <2>6, OthersAppended
<1>2. LedgerTypes'
    BY <1>1 DEF LedgerTypes
<1> QED BY <1>1, <1>2 DEF RowsRest

LEMMA TakesEffect ==
    ASSUME LedgerTypes, NEW o \in OrderIds, NEW q \in [Levels -> Nat], Takes(o, q)
    PROVE  /\ LedgerTypes' /\ \A r \in OrderIds \ {o} : RowsRest(r)
           /\ Unused(o) => Untouched(o, q)'
<1>1. ASSUME NEW l \in Levels
      PROVE  /\ "allocated" \in DOMAIN level'[l] /\ level'[l].allocated \in Int
             /\ \A m \in BagToSet(ledger'[l]) :
                   /\ ledger'[l][m] \in Nat \ {0}
                   /\ m.type = "allocation" => m.ref \in OrderIds
             /\ \A r \in OrderIds \ {o} :
                   /\ RowsOf(l, r)' = RowsOf(l, r)
                   /\ \A m \in RowsOf(l, r) : ledger'[l][m] = ledger[l][m]
             /\ RowsOf(l, o) = {} =>
                   /\ RowsOf(l, o)' = Taken(o, q[l])
                   /\ \A m \in Taken(o, q[l]) : ledger'[l][m] = 1
    <2> DEFINE S == Taken(o, q[l])
    <2>1. Counted(l, q[l]) /\ Appended(l, S) /\ q[l] \in Int
        BY DEF Takes
    <2>2. \A m \in S : m.ref = o
        BY DEF Taken, Movement
    <2> HIDE DEF S
    <2>3. /\ "allocated" \in DOMAIN level'[l] /\ level'[l].allocated \in Int
          /\ \A m \in BagToSet(ledger'[l]) :
                   /\ ledger'[l][m] \in Nat \ {0}
                   /\ m.type = "allocation" => m.ref \in OrderIds
        BY <2>1, <2>2, TypesAppended
    <2>4. \A r \in OrderIds \ {o} :
                   /\ RowsOf(l, r)' = RowsOf(l, r)
                   /\ \A m \in RowsOf(l, r) : ledger'[l][m] = ledger[l][m]
        BY <2>1, <2>2, OthersAppended
    <2>5. RowsOf(l, o) = {} => RowsOf(l, o)' = S /\ \A m \in S : ledger'[l][m] = 1
        <3>1. /\ RowsOf(l, o)' = RowsOf(l, o) \cup {m \in S : m.ref = o}
              /\ \A m \in S : m \notin RowsOf(l, o) /\ m.ref = o => ledger'[l][m] = 1
            BY <2>1, RowsAppended
        <3>2. {m \in S : m.ref = o} = S
            BY <2>2
        <3> QED BY <2>2, <3>1, <3>2
    <2> QED BY <2>3, <2>4, <2>5 DEF S
<1>2. LedgerTypes'
    BY <1>1 DEF LedgerTypes
<1>3. \A r \in OrderIds \ {o} : RowsRest(r)
    BY <1>1 DEF RowsRest
<1>4. Unused(o) => Untouched(o, q)'
    BY <1>1 DEF Unused, Untouched
<1> QED BY <1>2, <1>3, <1>4

LEMMA GivesEffect ==
    ASSUME LedgerTypes, NEW o \in OrderIds, NEW q \in [Levels -> Nat], NEW key,
           Gives(o, q, key)
    PROVE  /\ LedgerTypes' /\ \A r \in OrderIds \ {o} : RowsRest(r)
           /\ \A l \in Levels :
                 /\ Allocs(l, o)' = Allocs(l, o)
                 /\ Releases(l, o)' = Releases(l, o) \cup Given(o, q[l], key)
                 /\ \A m \in Releases(l, o) :
                       ledger'[l][m] = IF m \in Given(o, q[l], key) THEN ledger[l][m] + 1
                                                                    ELSE ledger[l][m]
<1>1. ASSUME NEW l \in Levels
      PROVE  /\ "allocated" \in DOMAIN level'[l] /\ level'[l].allocated \in Int
             /\ \A m \in BagToSet(ledger'[l]) :
                   /\ ledger'[l][m] \in Nat \ {0}
                   /\ m.type = "allocation" => m.ref \in OrderIds
             /\ \A r \in OrderIds \ {o} :
                   /\ RowsOf(l, r)' = RowsOf(l, r)
                   /\ \A m \in RowsOf(l, r) : ledger'[l][m] = ledger[l][m]
             /\ Allocs(l, o)' = Allocs(l, o)
             /\ Releases(l, o)' = Releases(l, o) \cup Given(o, q[l], key)
             /\ \A m \in Releases(l, o) :
                       ledger'[l][m] = IF m \in Given(o, q[l], key) THEN ledger[l][m] + 1
                                                                    ELSE ledger[l][m]
    <2> DEFINE S == Given(o, q[l], key)
    <2>1. Counted(l, -q[l]) /\ Appended(l, S) /\ -q[l] \in Int
        BY DEF Gives
    <2>2. \A m \in S : m.ref = o /\ m.type = "release"
        BY DEF Given, Movement
    <2> HIDE DEF S
    <2>3. /\ "allocated" \in DOMAIN level'[l] /\ level'[l].allocated \in Int
          /\ \A m \in BagToSet(ledger'[l]) :
                   /\ ledger'[l][m] \in Nat \ {0}
                   /\ m.type = "allocation" => m.ref \in OrderIds
        BY <2>1, <2>2, TypesAppended
    <2>4. \A r \in OrderIds \ {o} :
                   /\ RowsOf(l, r)' = RowsOf(l, r)
                   /\ \A m \in RowsOf(l, r) : ledger'[l][m] = ledger[l][m]
        BY <2>1, <2>2, OthersAppended
    <2>5. RowsOf(l, o)' = RowsOf(l, o) \cup S
        BY <2>1, <2>2, RowsAppended
    <2>6. Allocs(l, o)' = Allocs(l, o) /\ Releases(l, o)' = Releases(l, o) \cup S
        BY <2>2, <2>5 DEF Allocs, Releases
    <2>7. \A m \in Releases(l, o) :
              ledger'[l][m] = IF m \in S THEN ledger[l][m] + 1 ELSE ledger[l][m]
        BY <2>1, RowsAppended DEF Releases
    <2> QED BY <2>3, <2>4, <2>6, <2>7 DEF S
<1>2. LedgerTypes'
    BY <1>1 DEF LedgerTypes
<1>3. \A r \in OrderIds \ {o} : RowsRest(r)
    BY <1>1 DEF RowsRest
<1> QED BY <1>1, <1>2, <1>3

\* Rows that rest tell the same.
LEMMA RestingRows ==
    ASSUME NEW o, RowsRest(o)
    PROVE  /\ \A l \in Levels : Allocs(l, o)' = Allocs(l, o) /\ Releases(l, o)' = Releases(l, o)
           /\ Unused(o) => Unused(o)'
           /\ \A q : /\ Allocated(o, q) => Allocated(o, q)'
                     /\ Untouched(o, q) => Untouched(o, q)'
<1>1. \A l \in Levels : RowsOf(l, o)' = RowsOf(l, o)
    BY DEF RowsRest
<1>2. \A l \in Levels : Allocs(l, o)' = Allocs(l, o) /\ Releases(l, o)' = Releases(l, o)
    BY <1>1 DEF Allocs, Releases
<1>3. Unused(o) => Unused(o)'
    BY <1>1 DEF Unused
<1>4. ASSUME NEW q, Allocated(o, q) PROVE Allocated(o, q)'
    BY <1>2, <1>4 DEF Allocated
<1>5. ASSUME NEW q, Untouched(o, q) PROVE Untouched(o, q)'
    BY <1>1, <1>5 DEF Untouched, RowsRest
<1> QED BY <1>2, <1>3, <1>4, <1>5

LEMMA UntouchedRows ==
    ASSUME NEW o, NEW q, Untouched(o, q)
    PROVE  \A l \in Levels : Allocs(l, o) = Taken(o, q[l]) /\ Releases(l, o) = {}
BY DEF Untouched, Allocs, Releases, Taken, Movement

LEMMA UnusedRows ==
    ASSUME NEW o, Unused(o)
    PROVE  \A l \in Levels : Allocs(l, o) = {} /\ Releases(l, o) = {}
BY DEF Unused, Allocs, Releases

-----------------------------------------------------------------------------
(* The units the orders own, against the counter.                          *)

LEMMA UnitsOfOne ==
    ASSUME NEW o, NEW q \in Nat
    PROVE  IsFiniteSet({o} \X (1 .. q)) /\ Cardinality({o} \X (1 .. q)) = q
<1>1. IsFiniteSet({o}) /\ Cardinality({o}) = 1
    BY FS_Singleton
<1>2. IsFiniteSet(1 .. q) /\ Cardinality(1 .. q) = q
    BY FS_Interval
<1>3. Cardinality({o} \X (1 .. q)) = Cardinality({o}) * Cardinality(1 .. q)
    BY <1>1, <1>2, FS_Product
<1> QED BY <1>1, <1>2, <1>3, FS_Product

LEMMA UnitsTaken ==
    ASSUME NEW o, NEW q \in Nat
    PROVE  UNION {1 .. -m.quantity : m \in Taken(o, q)} = 1 .. q
<1>1. CASE q = 0
    BY <1>1 DEF Taken
<1>2. CASE q # 0
    <2> DEFINE m == Movement("allocation", -q, o, None)
    <2>1. m.quantity = -q
        BY DEF Movement
    <2>2. Taken(o, q) = {m}
        BY <1>2 DEF Taken
    <2> HIDE DEF m
    <2>3. 1 .. -m.quantity = 1 .. q
        BY <2>1
    <2> QED BY <2>2, <2>3
<1> QED BY <1>1, <1>2

LEMMA OwnedByTaken ==
    ASSUME NEW l, NEW o, NEW q \in Nat, Allocs(l, o) = Taken(o, q), Releases(l, o) = {}
    PROVE  OwnedBy(l, o) = 1 .. q
BY UnitsTaken DEF OwnedBy

LEMMA OwnedByNobody ==
    ASSUME NEW l, NEW o, Releases(l, o) # {} \/ Allocs(l, o) = {}
    PROVE  OwnedBy(l, o) = {}
BY DEF OwnedBy

\* The units of one order join the others, or leave them.
LEMMA OwnedSplit ==
    ASSUME NEW l, NEW o \in OrderIds
    PROVE  LET rest == UNION {{r} \X OwnedBy(l, r) : r \in OrderIds \ {o}}
           IN  /\ Owned(l) = rest \cup ({o} \X OwnedBy(l, o))
               /\ rest \cap ({o} \X OwnedBy(l, o)) = {}
BY DEF Owned

LEMMA SameOwned ==
    ASSUME NEW l, \A r \in OrderIds : Allocs(l, r)' = Allocs(l, r) /\ Releases(l, r)' = Releases(l, r)
    PROVE  Owned(l)' = Owned(l)
<1>1. \A r \in OrderIds : OwnedBy(l, r)' = OwnedBy(l, r)
    BY DEF OwnedBy
<1> QED BY <1>1 DEF Owned

LEMMA TwiceStays ==
    ASSUME NEW o, RowsRest(o)
    PROVE  ReleasedTwice(o) => ReleasedTwice(o)'
BY DEF RowsRest, ReleasedTwice

LEMMA RestKeepsSum ==
    ASSUME LedgerTypes, SumInv, StockRests
    PROVE  SumInv'
<1> SUFFICES ASSUME \A o \in OrderIds : ~ReleasedTwice(o)', NEW l \in Levels
             PROVE  IsFiniteSet(Owned(l)') /\ Cardinality(Owned(l)') <= level'[l].allocated
    BY DEF SumInv
<1>1. \A o \in OrderIds : RowsRest(o)
    BY RestEffect
<1>2. \A o \in OrderIds : ~ReleasedTwice(o)
    BY <1>1, TwiceStays
<1>3. Owned(l)' = Owned(l)
    BY <1>1, RestingRows, SameOwned
<1>4. level'[l].allocated = level[l].allocated
    BY DEF StockRests, Counted, LedgerTypes
<1> QED BY <1>2, <1>3, <1>4 DEF SumInv

LEMMA TakesKeepsSum ==
    ASSUME LedgerTypes, SumInv, NEW o \in OrderIds, NEW q \in [Levels -> Nat], Takes(o, q),
           Unused(o)
    PROVE  SumInv'
<1> SUFFICES ASSUME \A r \in OrderIds : ~ReleasedTwice(r)', NEW l \in Levels
             PROVE  IsFiniteSet(Owned(l)') /\ Cardinality(Owned(l)') <= level'[l].allocated
    BY DEF SumInv
<1>1. (\A r \in OrderIds \ {o} : RowsRest(r)) /\ Untouched(o, q)'
    BY TakesEffect
<1>2. \A r \in OrderIds : ~ReleasedTwice(r)
    <2>1. ~ReleasedTwice(o)
        BY DEF Unused, ReleasedTwice
    <2> QED BY <1>1, <2>1, TwiceStays
<1> DEFINE rest == UNION {{r} \X OwnedBy(l, r) : r \in OrderIds \ {o}}
           mineNow == {o} \X (1 .. q[l])
<1>3. OwnedBy(l, o)' = 1 .. q[l]
    <2>1. Allocs(l, o)' = Taken(o, q[l]) /\ Releases(l, o)' = {}
        BY <1>1 DEF Untouched, Allocs, Releases, Taken, Movement
    <2> QED BY <2>1, UnitsTaken DEF OwnedBy
<1>4. OwnedBy(l, o) = {}
    BY UnusedRows, OwnedByNobody
<1>5. \A r \in OrderIds \ {o} : OwnedBy(l, r)' = OwnedBy(l, r)
    BY <1>1, RestingRows DEF OwnedBy
<1>6. Owned(l) = rest
    BY <1>4, OwnedSplit
<1>7. Owned(l)' = rest \cup mineNow /\ rest \cap mineNow = {}
    <2>1. rest' = rest
        BY <1>5
    <2>2. Owned(l)' = rest' \cup ({o} \X OwnedBy(l, o)')
        BY <1>5 DEF Owned
    <2> QED BY <1>3, <2>1, <2>2
<1>8. IsFiniteSet(rest) /\ Cardinality(rest) <= level[l].allocated
    BY <1>2, <1>6 DEF SumInv
<1>9. IsFiniteSet(mineNow) /\ Cardinality(mineNow) = q[l]
    BY UnitsOfOne
<1> HIDE DEF rest, mineNow
<1>10. /\ IsFiniteSet(rest \cup mineNow)
       /\ Cardinality(rest \cup mineNow) = Cardinality(rest) + q[l]
    <2>1. Cardinality(rest \cap mineNow) = 0
        BY <1>7, FS_EmptySet
    <2>2. Cardinality(rest) \in Nat
        BY <1>8, FS_CardinalityType
    <2>3. /\ IsFiniteSet(rest \cup mineNow)
          /\ Cardinality(rest \cup mineNow) =
                 Cardinality(rest) + Cardinality(mineNow) - Cardinality(rest \cap mineNow)
        BY <1>8, <1>9, FS_Union
    <2> QED BY <1>9, <2>1, <2>2, <2>3
<1>11. level'[l].allocated = level[l].allocated + q[l]
    BY DEF Takes, Counted
<1>12. Cardinality(rest) \in Nat /\ level[l].allocated \in Int /\ q[l] \in Nat
    BY <1>8, FS_CardinalityType DEF LedgerTypes
<1> QED BY <1>7, <1>8, <1>10, <1>11, <1>12

LEMMA GivesKeepsSum ==
    ASSUME LedgerTypes, SumInv, NEW o \in OrderIds, NEW q \in [Levels -> Nat], NEW key,
           Gives(o, q, key), Allocated(o, q)
    PROVE  SumInv'
<1> SUFFICES ASSUME \A r \in OrderIds : ~ReleasedTwice(r)', NEW l \in Levels
             PROVE  IsFiniteSet(Owned(l)') /\ Cardinality(Owned(l)') <= level'[l].allocated
    BY DEF SumInv
<1>1. /\ \A r \in OrderIds \ {o} : RowsRest(r)
      /\ \A k \in Levels :
            /\ Allocs(k, o)' = Allocs(k, o)
            /\ Releases(k, o)' = Releases(k, o) \cup Given(o, q[k], key)
            /\ \A m \in Releases(k, o) :
                  ledger'[k][m] = IF m \in Given(o, q[k], key) THEN ledger[k][m] + 1
                                                              ELSE ledger[k][m]
    BY GivesEffect
<1>2. \A k \in Levels : \A m \in Releases(k, o) : ledger[k][m] \in Nat \ {0}
    BY DEF Releases, RowsOf, LedgerTypes
<1>3. \A k \in Levels : \A m, n \in Releases(k, o)' : m = n /\ ~(ledger'[k][m] > 1)
    BY DEF ReleasedTwice, Releases
<1>4. \A r \in OrderIds : ~ReleasedTwice(r)
    <2>1. ~ReleasedTwice(o)
        BY <1>1, <1>2, <1>3 DEF ReleasedTwice, Releases
    <2> QED BY <1>1, <2>1, TwiceStays
<1>5. level'[l].allocated = level[l].allocated - q[l]
    BY DEF Gives, Counted, LedgerTypes
<1>6. IsFiniteSet(Owned(l)) /\ Cardinality(Owned(l)) <= level[l].allocated
    BY <1>4 DEF SumInv
<1>7. CASE q[l] = 0
    <2>1. Releases(l, o)' = Releases(l, o)
        BY <1>1, <1>7 DEF Given
    <2>2. Owned(l)' = Owned(l)
        BY <1>1, <2>1, RestingRows, SameOwned
    <2> QED BY <1>5, <1>6, <1>7, <2>2 DEF LedgerTypes
<1>8. CASE q[l] # 0
    <2> DEFINE rest == UNION {{r} \X OwnedBy(l, r) : r \in OrderIds \ {o}}
               his == {o} \X (1 .. q[l])
               m == Movement("release", -q[l], o, key)
    <2>1. Given(o, q[l], key) = {m}
        BY <1>8 DEF Given
    <2>2. Releases(l, o) = {}
        <3>1. SUFFICES ASSUME NEW n \in Releases(l, o) PROVE FALSE
            OBVIOUS
        <3> HIDE DEF m
        <3>2. n \in Releases(l, o)' /\ m \in Releases(l, o)'
            BY <1>1, <2>1
        <3>3. n = m /\ ~(ledger'[l][n] > 1)
            BY <1>3, <3>2
        <3>4. ledger'[l][n] = ledger[l][n] + 1
            BY <1>1, <2>1, <3>3
        <3> QED BY <1>2, <3>3, <3>4
    <2>3. OwnedBy(l, o) = 1 .. q[l]
        BY <2>2, OwnedByTaken DEF Allocated
    <2>4. OwnedBy(l, o)' = {}
        <3>1. Releases(l, o)' # {}
            BY <1>1, <2>1
        <3> QED BY <3>1 DEF OwnedBy
    <2>5. \A r \in OrderIds \ {o} : OwnedBy(l, r)' = OwnedBy(l, r)
        BY <1>1, RestingRows DEF OwnedBy
    <2>6. Owned(l) = rest \cup his /\ rest \cap his = {}
        BY <2>3, OwnedSplit
    <2>7. Owned(l)' = rest
        <3>1. rest' = rest
            BY <2>5
        <3>2. Owned(l)' = rest' \cup ({o} \X OwnedBy(l, o)')
            BY <2>5 DEF Owned
        <3> QED BY <2>4, <3>1, <3>2
    <2>8. IsFiniteSet(his) /\ Cardinality(his) = q[l]
        BY UnitsOfOne
    <2> HIDE DEF rest, his
    <2>9. IsFiniteSet(rest)
        BY <1>6, <2>6, FS_Subset
    <2>10. Cardinality(Owned(l)) = Cardinality(rest) + q[l]
        <3>1. Cardinality(rest \cap his) = 0
            BY <2>6, FS_EmptySet
        <3>2. Cardinality(rest) \in Nat
            BY <2>9, FS_CardinalityType
        <3>3. Cardinality(rest \cup his) =
                  Cardinality(rest) + Cardinality(his) - Cardinality(rest \cap his)
            BY <2>8, <2>9, FS_Union
        <3> QED BY <2>6, <2>8, <3>1, <3>2, <3>3
    <2>11. Cardinality(rest) \in Nat /\ level[l].allocated \in Int /\ q[l] \in Nat
        BY <2>9, FS_CardinalityType DEF LedgerTypes
    <2> QED BY <1>5, <1>6, <2>7, <2>9, <2>10, <2>11
<1> QED BY <1>7, <1>8

\* What the orders that are paid have, the counter covers.
LEMMA OwnedCoversPaid ==
    ASSUME PInv, \A o \in OrderIds : AccountInv(o), NEW l \in Levels,
           IsFiniteSet(Owned(l)), Cardinality(Owned(l)) <= level[l].allocated,
           level[l].allocated \in Int
    PROVE  Cardinality(UnitsOf(l, Paid)) <= level[l].allocated
<1>1. ASSUME NEW o \in Paid
      PROVE  OwnedBy(l, o) = 1 .. orders[o].lines[l]
    <2>1. o \in OrderIds /\ Untouched(o, orders[o].lines)
        BY DEF Paid, AccountInv
    <2>2. orders[o].lines[l] \in Nat
        BY <2>1 DEF PInv, PlaceTypes, OrderRow
    <2> QED BY <2>1, <2>2, UntouchedRows, OwnedByTaken
<1>2. Paid \subseteq OrderIds
    BY DEF Paid
<1>3. UnitsOf(l, Paid) \subseteq Owned(l)
    BY <1>1, <1>2 DEF UnitsOf, Owned
<1>4. Cardinality(UnitsOf(l, Paid)) <= Cardinality(Owned(l)) /\ IsFiniteSet(UnitsOf(l, Paid))
    BY <1>3, FS_Subset
<1>5. Cardinality(UnitsOf(l, Paid)) \in Nat /\ Cardinality(Owned(l)) \in Nat
    BY <1>4, FS_CardinalityType
<1> QED BY <1>4, <1>5

-----------------------------------------------------------------------------
(* Steps, as the orders see them.                                          *)

PlacerKept(p) == stage'[p] = stage[p] /\ mine'[p] = mine[p] /\ cut'[p] = cut[p]
OtherPlacersKept(p) == \A q \in Placers \ {p} : PlacerKept(q)

\* Placer p has nothing to do with order o, or is no owner.
Off(p, o) == Owner(p) => mine[p] # o

LEMMA RestingOrder ==
    ASSUME NEW o \in OrderIds, AccountInv(o), RowsRest(o), orders'[o] = orders[o]
    PROVE  /\ orders'[o].status # "none" => Allocated(o, orders[o].lines)'
           /\ o \in Paid' => Untouched(o, orders[o].lines)'
<1>1. PICK q : q = orders[o].lines
    OBVIOUS
<1>2. (Allocated(o, q) => Allocated(o, q)') /\ (Untouched(o, q) => Untouched(o, q)')
    BY RestingRows
<1>3. orders'[o].status # "none" => Allocated(o, q)'
    BY <1>1, <1>2 DEF AccountInv
<1>4. o \in Paid' => Untouched(o, q)'
    BY <1>1, <1>2 DEF Paid, AccountInv
<1> QED BY <1>1, <1>3, <1>4 DEF Allocated, Untouched

LEMMA OrderRests ==
    ASSUME NEW o \in OrderIds, AccountInv(o), RowsRest(o), orders'[o] = orders[o],
           o > lastOrder' => o > lastOrder,
           o \in releasing \cup orphans => o \in (releasing \cup orphans)',
           \A p \in Placers : PlacerKept(p) \/ (Off(p, o) /\ Off(p, o)')
    PROVE  AccountInv(o)'
<1>1. /\ \A l \in Levels : Allocs(l, o)' = Allocs(l, o) /\ Releases(l, o)' = Releases(l, o)
      /\ Unused(o) => Unused(o)'
    BY RestingRows
<1>2. ASSUME NEW q PROVE /\ Allocated(o, q) => Allocated(o, q)'
                         /\ Untouched(o, q) => Untouched(o, q)'
    BY RestingRows
<1>3. /\ orders'[o].status # "none" => Allocated(o, orders[o].lines)'
      /\ o \in Paid' => Untouched(o, orders[o].lines)'
    BY RestingOrder
<1>5. ASSUME NEW l \in Levels, Allocs(l, o)' # {}
      PROVE  AccountedAt(l, o)'
    <2>1. AccountedAt(l, o)
        BY <1>1, <1>5 DEF AccountInv
    <2>2. ASSUME NEW p \in Placers, mine[p] = o, stage[p] \in {"commit", "rollback"}
          PROVE  mine'[p] = o /\ stage'[p] = stage[p]
        BY <2>2 DEF Off, Owner, Unplaced, PlacerKept
    <2> QED BY <1>1, <2>1, <2>2 DEF AccountedAt
<1>6. ASSUME NEW p \in Placers, mine'[p] = o
      PROVE  OwnedRows(p, o)'
    <2>1. CASE ~Owner(p)'
        BY <2>1 DEF OwnedRows, Owner, Unplaced, Unpaid
    <2>2. CASE Owner(p)'
        <3>1. PlacerKept(p) /\ mine[p] = o
            BY <1>6, <2>2 DEF Off, PlacerKept
        <3>2. OwnedRows(p, o)
            BY <3>1 DEF AccountInv
        <3> PICK q : q = cut[p]
            OBVIOUS
        <3>3. Untouched(o, q)' => Untouched(o, cut[p])'
            BY <3>1 DEF PlacerKept, Untouched
        <3>4. stage'[p] = stage[p]
            BY <3>1 DEF PlacerKept
        <3> QED BY <1>1, <1>2, <3>2, <3>3, <3>4 DEF OwnedRows
    <2> QED BY <2>1, <2>2
<1> QED BY <1>1, <1>3, <1>5, <1>6 DEF AccountInv

\* Placers that are no owners move, the others rest, and the orders too.
LEMMA OffStepKeepsOInv ==
    ASSUME OInv, LedgerTypes', SumInv', \A o \in OrderIds : RowsRest(o),
           UNCHANGED <<orders, lastOrder, releasing, orphans>>,
           \A p \in Placers : PlacerKept(p) \/ (~Owner(p) /\ ~Owner(p)')
    PROVE  OInv'
<1>1. ASSUME NEW p \in Placers PROVE OwnerInv(p)'
    <2>1. CASE ~Owner(p)'
        BY <2>1 DEF OwnerInv, Owner
    <2>2. CASE PlacerKept(p)
        BY <2>2 DEF OInv, OwnerInv, Owner, PlacerKept
    <2> QED BY <2>1, <2>2
<1>2. OneOwner'
    BY DEF OInv, OneOwner, Owner, PlacerKept
<1>3. ReleasingInv'
    BY DEF OInv, ReleasingInv
<1>4. ASSUME NEW o \in OrderIds PROVE AccountInv(o)'
    <2>1. \A p \in Placers : PlacerKept(p) \/ (Off(p, o) /\ Off(p, o)')
        BY DEF Off
    <2> QED BY <2>1, OrderRests DEF OInv
<1> QED BY <1>1, <1>2, <1>3, <1>4 DEF OInv

\* The owner of order o moves, the other orders rest.
LEMMA OwnerStepKeepsOInv ==
    ASSUME OInv, NEW p \in Placers, NEW o \in OrderIds, mine[p] = o, Owner(p),
           OtherPlacersKept(p), LedgerTypes', SumInv',
           \A r \in OrderIds \ {o} : RowsRest(r) /\ orders'[r] = orders[r],
           UNCHANGED <<lastOrder, releasing>>, orphans \subseteq orphans',
           orders[o].status = "cancelled" => orders'[o].status = "cancelled",
           Owner(p)' => mine'[p] = o, OwnerInv(p)', AccountInv(o)',
           lastOrder \in 0 .. MaxOrders
    PROVE  OInv'
<1>1. ASSUME NEW q \in Placers \ {p} PROVE OwnerInv(q)'
    <2>1. PlacerKept(q) /\ OwnerInv(q)
        BY DEF OInv, OtherPlacersKept
    <2>2. CASE Owner(q)
        <3>1. mine[q] # o /\ mine[q] \in OrderIds
            <4>1. mine[q] # o
                BY <2>2 DEF OInv, OneOwner
            <4>2. mine[q] \in 1 .. lastOrder
                BY <2>1, <2>2 DEF OwnerInv
            <4> QED BY <4>1, <4>2, PlaceConstants DEF OrderIds
        <3>2. orders'[mine[q]] = orders[mine[q]]
            BY <3>1
        <3> QED BY <2>1, <3>2 DEF OwnerInv, Owner, PlacerKept
    <2>3. CASE ~Owner(q)
        BY <2>1, <2>3 DEF OwnerInv, Owner, PlacerKept
    <2> QED BY <2>2, <2>3
<1>2. OneOwner'
    BY DEF OInv, OneOwner, Owner, OtherPlacersKept, PlacerKept
<1>3. ReleasingInv'
    BY DEF OInv, ReleasingInv
<1>4. ASSUME NEW r \in OrderIds \ {o} PROVE AccountInv(r)'
    <2>1. \A q \in Placers : PlacerKept(q) \/ (Off(q, r) /\ Off(q, r)')
        BY DEF Off, OtherPlacersKept
    <2> QED BY <2>1, OrderRests DEF OInv
<1> QED BY <1>1, <1>2, <1>3, <1>4 DEF OInv

\* What is left to show of order o when its owner moves.
LEMMA OwnerKeepsAccount ==
    ASSUME OInv, NEW p \in Placers, NEW o \in OrderIds, mine[p] = o, Owner(p),
           OtherPlacersKept(p), o <= lastOrder', lastOrder' \in Int,
           orders'[o].status # "none" => Allocated(o, orders[o].lines)',
           o \in Paid' => Untouched(o, orders[o].lines)',
           \A l \in Levels : Allocs(l, o)' # {} => AccountedAt(l, o)',
           mine'[p] = o => OwnedRows(p, o)'
    PROVE  AccountInv(o)'
<1>1. ASSUME NEW q \in Placers \ {p} PROVE mine'[q] = o => OwnedRows(q, o)'
    <2>1. PlacerKept(q)
        BY DEF OtherPlacersKept
    <2>2. mine'[q] = o => ~Owner(q)'
        BY <2>1 DEF OInv, OneOwner, PlacerKept, Owner
    <2> QED BY <2>2 DEF OwnedRows, Owner, Unplaced, Unpaid
<1>2. ~(o > lastOrder')
    BY DEF OrderIds
<1> QED BY <1>1, <1>2 DEF AccountInv

\* No other owner keeps the allocation of order o accounted for.
LEMMA AccountedAlone ==
    ASSUME OInv, NEW p \in Placers, NEW o \in OrderIds, mine[p] = o, Owner(p),
           stage[p] \notin {"commit", "rollback"}, NEW l \in Levels, AccountedAt(l, o)
    PROVE  orders[o].status = "pending" \/ Releases(l, o) # {} \/ o \in releasing \cup orphans
BY DEF OInv, OneOwner, Owner, Unplaced, AccountedAt

-----------------------------------------------------------------------------
(* The steps of the owners.                                                *)

LEMMA PlacerEnds ==
    ASSUME PInv, NEW p \in Placers, EndPlace(p)
    PROVE  /\ stage'[p] = "idle" /\ mine'[p] = 0 /\ ~Owner(p)' /\ OwnerInv(p)'
           /\ OtherPlacersKept(p) /\ \A o \in OrderIds : mine'[p] # o
<1>1. /\ stage \in [Placers -> Stages] /\ mine \in [Placers -> 0 .. MaxOrders]
      /\ cut \in [Placers -> [Levels -> Nat]]
    BY DEF PInv, PlaceTypes
<1>2. stage'[p] = "idle" /\ mine'[p] = 0 /\ OtherPlacersKept(p)
    BY <1>1 DEF EndPlace, OtherPlacersKept, PlacerKept
<1>3. \A o \in OrderIds : 0 # o
    BY DEF OrderIds
<1> QED BY <1>2, <1>3 DEF Owner, OwnerInv, Unplaced, Unpaid

LEMMA PlacerMovesTo ==
    ASSUME PInv, NEW p \in Placers, NEW label, MoveTo(p, label)
    PROVE  /\ stage'[p] = label /\ mine'[p] = mine[p] /\ cut'[p] = cut[p]
           /\ OtherPlacersKept(p)
BY DEF PInv, PlaceTypes, MoveTo, OtherPlacersKept, PlacerKept

\* What is known of an owner and its order.
LEMMA OwnerFacts ==
    ASSUME PInv, OInv, NEW p \in Placers, Owner(p), NEW o, mine[p] = o
    PROVE  /\ o \in OrderIds /\ o <= lastOrder /\ lastOrder \in 0 .. MaxOrders
           /\ cut[p] \in [Levels -> Nat] /\ orders[o] \in OrderRow
           /\ OwnerInv(p) /\ AccountInv(o) /\ OwnedRows(p, o) /\ LedgerTypes /\ SumInv
<1>1. OwnerInv(p) /\ lastOrder \in 0 .. MaxOrders /\ cut[p] \in [Levels -> Nat]
    BY DEF OInv, PInv, PlaceTypes
<1>2. o \in 1 .. lastOrder
    BY <1>1 DEF OwnerInv
<1>3. o \in OrderIds /\ o <= lastOrder
    BY <1>1, <1>2, PlaceConstants DEF OrderIds
<1>4. orders[o] \in OrderRow
    BY <1>3 DEF PInv, PlaceTypes
<1>5. AccountInv(o) /\ OwnedRows(p, o)
    BY <1>3 DEF OInv, AccountInv
<1> QED BY <1>1, <1>3, <1>4, <1>5 DEF OInv

LEMMA OwnerAllocates ==
    ASSUME PInv, OInv, NEW p \in Placers, stage[p] = "allocate",
           NEW o, mine[p] = o, NEW q, cut[p] = q, Stock!AllocateStock(AllocateOf(p))
    PROVE  /\ LedgerTypes' /\ SumInv' /\ \A r \in OrderIds \ {o} : RowsRest(r)
           /\ Untouched(o, q)'
<1>1. o \in OrderIds /\ q \in [Levels -> Nat] /\ Unused(o) /\ LedgerTypes /\ SumInv
    BY OwnerFacts DEF Owner, Unplaced, OwnedRows
<1>2. PICK r : r = AllocateOf(p)
    OBVIOUS
<1>3. r.ref = o /\ r.lines = q
    BY <1>2 DEF AllocateOf, StockRequest
<1>4. Stock!AllocateStock(r)
    BY <1>2
<1>5. Takes(o, q)
    BY <1>1, <1>3, <1>4, AllocateEffect
<1> QED BY <1>1, <1>5, TakesEffect, TakesKeepsSum

LEMMA AllocationReleased ==
    ASSUME LedgerTypes, SumInv, NEW o \in OrderIds, NEW q \in [Levels -> Nat],
           Allocated(o, q), NEW r, r.ref = o, r.lines = q, Stock!CancelAllocation(r)
    PROVE  /\ LedgerTypes' /\ SumInv' /\ \A s \in OrderIds \ {o} : RowsRest(s)
           /\ \A l \in Levels : /\ Allocs(l, o)' = Allocs(l, o)
                                /\ Allocs(l, o)' # {} => Releases(l, o)' # {}
<1>1. PICK key : key = r.key
    OBVIOUS
<1>2. Gives(o, q, key)
    BY <1>1, CancelEffect
<1>3. /\ LedgerTypes' /\ \A s \in OrderIds \ {o} : RowsRest(s)
      /\ \A l \in Levels : /\ Allocs(l, o)' = Allocs(l, o)
                           /\ Releases(l, o)' = Releases(l, o) \cup Given(o, q[l], key)
    BY <1>2, GivesEffect
<1>4. ASSUME NEW l \in Levels, Allocs(l, o)' # {}
      PROVE  Releases(l, o)' # {}
    <2>1. q[l] # 0
        BY <1>3, <1>4 DEF Allocated, Taken
    <2>2. Given(o, q[l], key) # {}
        BY <2>1 DEF Given
    <2> QED BY <1>3, <2>2
<1>5. SumInv'
    BY <1>2, GivesKeepsSum
<1> QED BY <1>3, <1>4, <1>5

LEMMA AllocateCutKeepsOInv ==
    ASSUME PInv, OInv, NEW p \in Placers, AllocateCut(p)
    PROVE  OInv'
<1> PICK o, q : o = mine[p] /\ q = cut[p]
    OBVIOUS
<1>1. /\ stage[p] = "allocate" /\ Owner(p) /\ o \in OrderIds /\ o <= lastOrder
      /\ orders[o].status = "none" /\ lastOrder \in 0 .. MaxOrders /\ OwnerInv(p)
    <2>1. stage[p] = "allocate" /\ Owner(p)
        BY DEF AllocateCut, Owner, Unplaced
    <2> QED BY <2>1, OwnerFacts DEF OwnerInv, Unplaced
<1>2. /\ LedgerTypes' /\ SumInv' /\ \A r \in OrderIds \ {o} : RowsRest(r)
      /\ Untouched(o, q)'
    BY <1>1, OwnerAllocates DEF AllocateCut
<1>3. /\ stage'[p] = "commit" /\ mine'[p] = o /\ cut'[p] = q
      /\ OtherPlacersKept(p)
    BY PlacerMovesTo DEF AllocateCut
<1>4. UNCHANGED <<orders, lastOrder, releasing, orphans>>
    BY DEF AllocateCut, orderTables, afterwards
<1>5. OwnerInv(p)'
    BY <1>1, <1>3, <1>4 DEF OwnerInv, Owner, Unplaced, Unpaid
<1>6. AccountInv(o)'
    <2>1. orders'[o].status = "none" /\ o \notin Paid'
        BY <1>1, <1>4 DEF Paid
    <2>2. \A l \in Levels : AccountedAt(l, o)'
        BY <1>3 DEF AccountedAt
    <2>3. OwnedRows(p, o)'
        BY <1>2, <1>3 DEF OwnedRows, Untouched
    <2>4. o <= lastOrder' /\ lastOrder' \in Int
        BY <1>1, <1>4
    <2> QED BY <1>1, <1>3, <2>1, <2>2, <2>3, <2>4, OwnerKeepsAccount
<1> QED BY <1>1, <1>2, <1>3, <1>4, <1>5, <1>6, OwnerStepKeepsOInv

\* The rows of an order whose allocation was answered to nobody are orphans.
LEMMA LoseAllocateAnswerKeepsOInv ==
    ASSUME PInv, OInv, NEW p \in Placers, LoseAllocateAnswer(p)
    PROVE  OInv'
<1> PICK o, q : o = mine[p] /\ q = cut[p]
    OBVIOUS
<1>1. /\ stage[p] = "allocate" /\ Owner(p) /\ o \in OrderIds /\ o <= lastOrder
      /\ orders[o].status = "none" /\ lastOrder \in 0 .. MaxOrders
    <2>1. stage[p] = "allocate" /\ Owner(p)
        BY DEF LoseAllocateAnswer, Owner, Unplaced
    <2> QED BY <2>1, OwnerFacts DEF OwnerInv, Unplaced
<1>2. LedgerTypes' /\ SumInv' /\ \A r \in OrderIds \ {o} : RowsRest(r)
    BY <1>1, OwnerAllocates DEF LoseAllocateAnswer
<1>3. /\ ~Owner(p)' /\ OwnerInv(p)' /\ OtherPlacersKept(p) /\ mine'[p] # o
    BY <1>1, PlacerEnds DEF LoseAllocateAnswer
<1>4. UNCHANGED <<orders, lastOrder, releasing>> /\ orphans' = orphans \cup {o}
    BY DEF LoseAllocateAnswer, orderTables
<1>5. AccountInv(o)'
    <2>1. orders'[o].status = "none" /\ o \notin Paid'
        BY <1>1, <1>4 DEF Paid
    <2>2. \A l \in Levels : AccountedAt(l, o)'
        BY <1>4 DEF AccountedAt
    <2>3. o <= lastOrder' /\ lastOrder' \in Int
        BY <1>1, <1>4
    <2> QED BY <1>1, <1>3, <2>1, <2>2, <2>3, OwnerKeepsAccount
<1> QED BY <1>1, <1>2, <1>3, <1>4, <1>5, OwnerStepKeepsOInv

LEMMA QuietStock ==
    ASSUME OInv, UNCHANGED stock
    PROVE  LedgerTypes' /\ SumInv' /\ \A r \in OrderIds : RowsRest(r)
<1>1. LedgerTypes /\ SumInv /\ StockRests
    BY NothingHappens DEF OInv
<1> QED BY <1>1, RestEffect, RestKeepsSum

\* An owner gives up: what it had allocated is an orphan, or cared for.
LEMMA OwnerLeavesKeepsOInv ==
    ASSUME PInv, OInv, NEW p \in Placers, Owner(p), EndPlace(p),
           UNCHANGED <<stock, orders, lastOrder, releasing>>, orphans \subseteq orphans',
           stage[p] \in {"commit", "rollback", "declined"} => mine[p] \in orphans'
    PROVE  OInv'
<1> PICK o : o = mine[p]
    OBVIOUS
<1>1. /\ o \in OrderIds /\ o <= lastOrder /\ lastOrder \in 0 .. MaxOrders
      /\ AccountInv(o) /\ OwnedRows(p, o)
    BY OwnerFacts
<1>2. ~Owner(p)' /\ OwnerInv(p)' /\ OtherPlacersKept(p) /\ mine'[p] # o
    BY <1>1, PlacerEnds
<1>3. LedgerTypes' /\ SumInv' /\ \A r \in OrderIds : RowsRest(r)
    BY QuietStock
<1>4. ASSUME NEW l \in Levels, Allocs(l, o)' # {}
      PROVE  AccountedAt(l, o)'
    <2>1. Allocs(l, o)' = Allocs(l, o) /\ Releases(l, o)' = Releases(l, o)
        BY <1>1, <1>3, RestingRows
    <2>2. CASE stage[p] \in {"commit", "rollback", "declined"}
        BY <2>2 DEF AccountedAt
    <2>3. CASE stage[p] \notin {"commit", "rollback", "declined"}
        <3>1. AccountedAt(l, o)
            BY <1>1, <1>4, <2>1 DEF AccountInv
        <3>2. orders[o].status = "pending" \/ Releases(l, o) # {} \/ o \in releasing \cup orphans
            BY <1>1, <2>3, <3>1, AccountedAlone
        <3> QED BY <2>1, <3>2 DEF AccountedAt
    <2> QED BY <2>2, <2>3
<1>5. AccountInv(o)'
    <2>1. /\ orders'[o].status # "none" => Allocated(o, orders[o].lines)'
          /\ o \in Paid' => Untouched(o, orders[o].lines)'
        BY <1>1, <1>3, RestingOrder
    <2>2. o <= lastOrder' /\ lastOrder' \in Int
        BY <1>1
    <2> QED BY <1>1, <1>2, <1>4, <2>1, <2>2, OwnerKeepsAccount
<1> QED BY <1>1, <1>2, <1>3, <1>5, OwnerStepKeepsOInv

LEMMA CommitPlaceKeepsOInv ==
    ASSUME PInv, OInv, NEW p \in Placers, CommitPlace(p)
    PROVE  OInv'
<1> PICK o, q : o = mine[p] /\ q = cut[p]
    OBVIOUS
<1>1. /\ stage[p] = "commit" /\ Owner(p) /\ o \in OrderIds /\ o <= lastOrder
      /\ orders[o].status = "none" /\ lastOrder \in 0 .. MaxOrders /\ Untouched(o, q)
      /\ o \in 1 .. lastOrder
    <2>1. stage[p] = "commit" /\ Owner(p)
        BY DEF CommitPlace, Owner, Unplaced
    <2>2. OwnedRows(p, o) /\ OwnerInv(p) /\ o \in OrderIds /\ o <= lastOrder
          /\ lastOrder \in 0 .. MaxOrders
        BY <2>1, OwnerFacts
    <2> QED BY <2>1, <2>2 DEF OwnerInv, Unplaced, OwnedRows, Untouched
<1>2. LedgerTypes' /\ SumInv' /\ \A r \in OrderIds : RowsRest(r)
    BY QuietStock DEF CommitPlace
<1>3. /\ stage'[p] = "authorize" /\ mine'[p] = o /\ cut'[p] = q
      /\ OtherPlacersKept(p)
    BY PlacerMovesTo DEF CommitPlace
<1>4. /\ UNCHANGED <<lastOrder, releasing, orphans>>
      /\ \A r \in OrderIds \ {o} : orders'[r] = orders[r]
      /\ orders'[o].status = "pending" /\ orders'[o].paymentStatus = "none"
      /\ orders'[o].lines = q
    BY <1>1 DEF CommitPlace, afterwards, PInv, PlaceTypes
<1>5. Untouched(o, q)' /\ Allocated(o, q)'
    <2>1. Untouched(o, q)'
        BY <1>1, <1>2, RestingRows
    <2>2. Allocated(o, q)
        BY <1>1, UntouchedRows DEF Allocated
    <2> QED BY <1>1, <1>2, <2>1, <2>2, RestingRows
<1>6. OwnerInv(p)'
    BY <1>1, <1>3, <1>4 DEF OwnerInv, Owner, Unplaced, Unpaid
<1>7. AccountInv(o)'
    <2>1. Allocated(o, orders[o].lines)'
        BY <1>4, <1>5 DEF Allocated
    <2>2. o \notin Paid' /\ \A l \in Levels : AccountedAt(l, o)'
        BY <1>4 DEF Paid, AccountedAt
    <2>3. OwnedRows(p, o)'
        BY <1>3, <1>5 DEF OwnedRows, Untouched
    <2>4. o <= lastOrder' /\ lastOrder' \in Int
        BY <1>1, <1>4
    <2> QED BY <1>1, <1>3, <2>1, <2>2, <2>3, <2>4, OwnerKeepsAccount
<1> QED BY <1>1, <1>2, <1>3, <1>4, <1>6, <1>7, OwnerStepKeepsOInv

LEMMA LoseCommitKeepsOInv ==
    ASSUME PInv, OInv, NEW p \in Placers, LoseCommit(p)
    PROVE  OInv'
<1> PICK o, q : o = mine[p] /\ q = cut[p]
    OBVIOUS
<1>1. /\ stage[p] = "commit" /\ Owner(p) /\ o \in OrderIds /\ o <= lastOrder
      /\ orders[o].status = "none" /\ lastOrder \in 0 .. MaxOrders /\ Untouched(o, q)
      /\ o \in 1 .. lastOrder
    <2>1. stage[p] = "commit" /\ Owner(p)
        BY DEF LoseCommit, Owner, Unplaced
    <2>2. OwnedRows(p, o) /\ OwnerInv(p) /\ o \in OrderIds /\ o <= lastOrder
          /\ lastOrder \in 0 .. MaxOrders
        BY <2>1, OwnerFacts
    <2> QED BY <2>1, <2>2 DEF OwnerInv, Unplaced, OwnedRows, Untouched
<1>2. LedgerTypes' /\ SumInv' /\ \A r \in OrderIds : RowsRest(r)
    BY QuietStock DEF LoseCommit
<1>3. /\ stage'[p] = "rollback" /\ mine'[p] = o /\ cut'[p] = q
      /\ OtherPlacersKept(p)
    BY PlacerMovesTo DEF LoseCommit
<1>4. UNCHANGED <<orders, lastOrder, releasing, orphans>>
    BY DEF LoseCommit, orderTables, afterwards
<1>5. Untouched(o, q)'
    BY <1>1, <1>2, RestingRows
<1>6. OwnerInv(p)'
    BY <1>1, <1>3, <1>4 DEF OwnerInv, Owner, Unplaced, Unpaid
<1>7. AccountInv(o)'
    <2>1. orders'[o].status = "none" /\ o \notin Paid'
        BY <1>1, <1>4 DEF Paid
    <2>2. \A l \in Levels : AccountedAt(l, o)'
        BY <1>3 DEF AccountedAt
    <2>3. OwnedRows(p, o)'
        BY <1>3, <1>5 DEF OwnedRows, Untouched
    <2>4. o <= lastOrder' /\ lastOrder' \in Int
        BY <1>1, <1>4
    <2> QED BY <1>1, <1>3, <2>1, <2>2, <2>3, <2>4, OwnerKeepsAccount
<1> QED BY <1>1, <1>2, <1>3, <1>4, <1>6, <1>7, OwnerStepKeepsOInv

LEMMA RollbackKeepsOInv ==
    ASSUME PInv, OInv, NEW p \in Placers, Rollback(p)
    PROVE  OInv'
<1>1. /\ stage[p] = "rollback" /\ Owner(p) /\ EndPlace(p)
      /\ UNCHANGED <<orders, lastOrder, releasing>>
    BY DEF Rollback, orderTables, Owner, Unplaced
<1>2. CASE UNCHANGED stock /\ orphans' = orphans \cup {mine[p]}
    BY <1>1, <1>2, OwnerLeavesKeepsOInv
<1>3. CASE Stock!CancelAllocation(Compensation(p, "place-rollback")) /\ UNCHANGED orphans
    <2> PICK o, q : o = mine[p] /\ q = cut[p]
        OBVIOUS
    <2>1. /\ o \in OrderIds /\ o <= lastOrder /\ lastOrder \in 0 .. MaxOrders
          /\ orders[o].status = "none" /\ Untouched(o, q) /\ q \in [Levels -> Nat]
          /\ LedgerTypes /\ SumInv
        <3>1. /\ OwnedRows(p, o) /\ OwnerInv(p) /\ o \in OrderIds /\ o <= lastOrder
              /\ lastOrder \in 0 .. MaxOrders /\ q \in [Levels -> Nat]
              /\ LedgerTypes /\ SumInv
            BY <1>1, OwnerFacts
        <3> QED BY <1>1, <3>1 DEF OwnerInv, Unplaced, OwnedRows, Untouched
    <2>2. ~Owner(p)' /\ OwnerInv(p)' /\ OtherPlacersKept(p) /\ mine'[p] # o
        BY <1>1, <2>1, PlacerEnds
    <2>3. PICK r : r = Compensation(p, "place-rollback")
        OBVIOUS
    <2>4. r.ref = o /\ r.lines = q /\ Stock!CancelAllocation(r)
        BY <1>3, <2>3 DEF Compensation, CancelOf, StockRequest
    <2>5. Allocated(o, q)
        BY <2>1, UntouchedRows DEF Allocated
    <2>6. /\ LedgerTypes' /\ SumInv' /\ \A s \in OrderIds \ {o} : RowsRest(s)
          /\ \A l \in Levels : Allocs(l, o)' # {} => Releases(l, o)' # {}
        BY <2>1, <2>4, <2>5, AllocationReleased
    <2>7. AccountInv(o)'
        <3>1. orders'[o].status = "none" /\ o \notin Paid'
            BY <1>1, <2>1 DEF Paid
        <3>2. \A l \in Levels : Allocs(l, o)' # {} => AccountedAt(l, o)'
            BY <2>6 DEF AccountedAt
        <3>3. o <= lastOrder' /\ lastOrder' \in Int
            BY <1>1, <2>1
        <3> QED BY <1>1, <2>1, <2>2, <3>1, <3>2, <3>3, OwnerKeepsAccount
    <2> QED BY <1>1, <1>3, <2>1, <2>2, <2>6, <2>7, OwnerStepKeepsOInv
<1> QED BY <1>2, <1>3 DEF Rollback

\* What is known of an order that is placed and not paid.
LEMMA UnpaidFacts ==
    ASSUME PInv, OInv, NEW p \in Placers, stage[p] \in Unpaid, NEW o, mine[p] = o,
           NEW q, cut[p] = q
    PROVE  /\ Owner(p) /\ o \in OrderIds /\ o \in 1 .. lastOrder /\ lastOrder \in 0 .. MaxOrders
           /\ orders[o] \in OrderRow /\ orders[o].status \in {"pending", "cancelled"}
           /\ orders[o].paymentStatus = "none" /\ orders[o].lines = q
           /\ q \in [Levels -> Nat] /\ Allocated(o, q) /\ AccountInv(o)
<1>1. Owner(p)
    BY DEF Owner
<1>2. OwnerInv(p) /\ o \in OrderIds /\ AccountInv(o) /\ orders[o] \in OrderRow
      /\ lastOrder \in 0 .. MaxOrders /\ q \in [Levels -> Nat]
    BY <1>1, OwnerFacts
<1>3. /\ orders[o].status # "none" /\ orders[o].paymentStatus = "none" /\ orders[o].lines = q
      /\ o \in 1 .. lastOrder
    BY <1>1, <1>2 DEF OwnerInv
<1>4. Allocated(o, q)
    BY <1>2, <1>3 DEF AccountInv, Allocated
<1> QED BY <1>1, <1>2, <1>3, <1>4 DEF OrderRow

\* The placer stays with its unpaid order, and the rows allow for it.
LEMMA DeclinedStepKeepsOInv ==
    ASSUME PInv, OInv, NEW p \in Placers, stage[p] \in Unpaid, NEW o, mine[p] = o,
           NEW label \in {"declined", "fail"}, MoveTo(p, label),
           UNCHANGED <<orders, lastOrder, releasing>>, orphans \subseteq orphans',
           LedgerTypes', SumInv', \A r \in OrderIds \ {o} : RowsRest(r),
           \A l \in Levels : Allocs(l, o)' = Allocs(l, o),
           \A l \in Levels : Allocs(l, o)' # {} => AccountedAt(l, o)',
           OwnedRows(p, o)'
    PROVE  OInv'
<1> PICK q : q = cut[p]
    OBVIOUS
<1>1. /\ Owner(p) /\ o \in OrderIds /\ o \in 1 .. lastOrder /\ lastOrder \in 0 .. MaxOrders
      /\ orders[o].status \in {"pending", "cancelled"}
      /\ orders[o].paymentStatus = "none" /\ orders[o].lines = q /\ Allocated(o, q)
    BY UnpaidFacts
<1>2. /\ stage'[p] = label /\ mine'[p] = o /\ cut'[p] = q /\ OtherPlacersKept(p)
    BY PlacerMovesTo
<1>3. orders'[o] = orders[o]
    OBVIOUS
<1>4. Allocated(o, orders[o].lines)' /\ o \notin Paid'
    BY <1>1, <1>3 DEF Allocated, Paid
<1>5. o <= lastOrder' /\ lastOrder' \in Int
    BY <1>1
<1>6. AccountInv(o)'
    BY <1>1, <1>2, <1>4, <1>5, OwnerKeepsAccount
<1>7. OwnerInv(p)'
    BY <1>1, <1>2, <1>3 DEF OwnerInv, Owner, Unplaced, Unpaid
<1> QED BY <1>1, <1>2, <1>3, <1>6, <1>7, OwnerStepKeepsOInv

LEMMA DeclineKeepsOInv ==
    ASSUME PInv, OInv, NEW p \in Placers, Decline(p)
    PROVE  OInv'
<1> PICK o, q : o = mine[p] /\ q = cut[p]
    OBVIOUS
<1>1. stage[p] = "authorize" /\ stage[p] \in Unpaid /\ MoveTo(p, "declined")
      /\ UNCHANGED <<stock, orders, lastOrder, releasing, orphans>>
    BY DEF Decline, Unpaid, cartVars, orderTables, afterwards
<1>2. Owner(p) /\ o \in OrderIds /\ AccountInv(o) /\ OwnedRows(p, o)
    BY <1>1, UnpaidFacts, OwnerFacts
<1>3. LedgerTypes' /\ SumInv' /\ \A r \in OrderIds : RowsRest(r)
    BY <1>1, QuietStock
<1>4. stage'[p] = "declined" /\ cut'[p] = q
    BY <1>1, PlacerMovesTo
<1>5. \A l \in Levels : Allocs(l, o)' = Allocs(l, o) /\ Releases(l, o)' = Releases(l, o)
    BY <1>2, <1>3, RestingRows
<1>6. ASSUME NEW l \in Levels, Allocs(l, o)' # {}
      PROVE  AccountedAt(l, o)'
    <2>1. AccountedAt(l, o)
        BY <1>2, <1>5, <1>6 DEF AccountInv
    <2>2. orders[o].status = "pending" \/ Releases(l, o) # {} \/ o \in releasing \cup orphans
        BY <1>1, <1>2, <2>1, AccountedAlone
    <2> QED BY <1>1, <1>5, <2>2 DEF AccountedAt
<1>7. OwnedRows(p, o)'
    <2>1. orders[o].status = "pending" => Untouched(o, q)
        BY <1>1, <1>2 DEF OwnedRows, Untouched
    <2>2. orders[o].status = "pending" => Untouched(o, q)'
        BY <1>2, <1>3, <2>1, RestingRows
    <2> QED BY <1>1, <1>4, <2>2 DEF OwnedRows, Untouched
<1> QED BY <1>1, <1>3, <1>5, <1>6, <1>7, DeclinedStepKeepsOInv

LEMMA ReleaseDeclinedKeepsOInv ==
    ASSUME PInv, OInv, NEW p \in Placers, ReleaseDeclined(p) \/ LoseReleaseDeclined(p)
    PROVE  OInv'
<1> PICK o, q : o = mine[p] /\ q = cut[p]
    OBVIOUS
<1>1. stage[p] = "declined" /\ stage[p] \in Unpaid /\ MoveTo(p, "fail")
      /\ UNCHANGED <<orders, lastOrder, releasing>>
    BY DEF ReleaseDeclined, LoseReleaseDeclined, Unpaid, orderTables
<1>2. /\ o \in OrderIds /\ q \in [Levels -> Nat] /\ Allocated(o, q) /\ LedgerTypes /\ SumInv
    BY <1>1, UnpaidFacts DEF OInv
<1>3. stage'[p] = "fail"
    BY <1>1, PlacerMovesTo
<1>4. CASE UNCHANGED stock /\ orphans' = orphans \cup {o}
    <2>1. LedgerTypes' /\ SumInv' /\ \A r \in OrderIds : RowsRest(r)
        BY <1>4, QuietStock
    <2>2. \A l \in Levels : Allocs(l, o)' = Allocs(l, o) /\ AccountedAt(l, o)'
        BY <1>2, <1>4, <2>1, RestingRows DEF AccountedAt
    <2>3. OwnedRows(p, o)'
        BY <1>3, <1>4 DEF OwnedRows
    <2> QED BY <1>1, <1>4, <2>1, <2>2, <2>3, DeclinedStepKeepsOInv
<1>5. CASE Stock!CancelAllocation(Compensation(p, "authorization-declined")) /\ UNCHANGED orphans
    <2>1. PICK r : r = Compensation(p, "authorization-declined")
        OBVIOUS
    <2>2. r.ref = o /\ r.lines = q /\ Stock!CancelAllocation(r)
        BY <1>5, <2>1 DEF Compensation, CancelOf, StockRequest
    <2>3. /\ LedgerTypes' /\ SumInv' /\ \A s \in OrderIds \ {o} : RowsRest(s)
          /\ \A l \in Levels : /\ Allocs(l, o)' = Allocs(l, o)
                               /\ Allocs(l, o)' # {} => Releases(l, o)' # {}
        BY <1>2, <2>2, AllocationReleased
    <2>4. \A l \in Levels : Allocs(l, o)' # {} => AccountedAt(l, o)'
        BY <2>3 DEF AccountedAt
    <2>5. OwnedRows(p, o)'
        BY <1>3, <2>3 DEF OwnedRows
    <2> QED BY <1>1, <1>5, <2>3, <2>4, <2>5, DeclinedStepKeepsOInv
<1> QED BY <1>4, <1>5 DEF ReleaseDeclined, LoseReleaseDeclined

\* The order is marked, or left, by its owner, who has nothing more to do with it.
LEMMA FailOrderKeepsOInv ==
    ASSUME PInv, OInv, NEW p \in Placers, FailOrder(p)
    PROVE  OInv'
<1> PICK o, q : o = mine[p] /\ q = cut[p]
    OBVIOUS
<1>1. stage[p] = "fail" /\ stage[p] \in Unpaid /\ EndPlace(p)
      /\ UNCHANGED <<stock, lastOrder, releasing, orphans>>
    BY DEF FailOrder, Unpaid, cartVars, afterwards
<1>2. /\ Owner(p) /\ o \in OrderIds /\ o \in 1 .. lastOrder /\ lastOrder \in 0 .. MaxOrders
      /\ orders[o] \in OrderRow /\ orders[o].status \in {"pending", "cancelled"}
      /\ orders[o].paymentStatus = "none" /\ orders[o].lines = q
      /\ Allocated(o, q) /\ AccountInv(o)
    BY <1>1, UnpaidFacts
<1>3. OwnedRows(p, o)
    BY <1>2, OwnerFacts
<1>4. ~Owner(p)' /\ OwnerInv(p)' /\ OtherPlacersKept(p) /\ mine'[p] # o
    BY <1>1, <1>2, PlacerEnds
<1>5. LedgerTypes' /\ SumInv' /\ \A r \in OrderIds : RowsRest(r)
    BY <1>1, QuietStock
<1>6. /\ \A r \in OrderIds \ {o} : orders'[r] = orders[r]
      /\ orders'[o].lines = q /\ orders'[o].status = "cancelled"
      /\ orders[o].status = "cancelled" => orders'[o] = orders[o]
    <2>1. orders \in [OrderIds -> OrderRow]
        BY DEF PInv, PlaceTypes
    <2>2. CASE orders[o].status = "cancelled"
        BY <1>2, <2>2 DEF FailOrder
    <2>3. CASE orders[o].status = "pending"
        <3>1. orders' = [orders EXCEPT ![o].paymentStatus = "failed",
                                       ![o].status = "cancelled"]
            BY <1>2, <2>3 DEF FailOrder
        <3> QED BY <1>2, <2>1, <2>3, <3>1 DEF OrderRow
    <2> QED BY <1>2, <2>2, <2>3
<1>7. ASSUME NEW l \in Levels, Allocs(l, o)' # {}
      PROVE  AccountedAt(l, o)'
    <2>1. Allocs(l, o)' = Allocs(l, o) /\ Releases(l, o)' = Releases(l, o)
        BY <1>2, <1>5, RestingRows
    <2>2. Releases(l, o) # {} \/ o \in releasing \cup orphans
        BY <1>1, <1>3, <1>7, <2>1 DEF OwnedRows
    <2> QED BY <1>1, <2>1, <2>2 DEF AccountedAt
<1>8. AccountInv(o)'
    <2>1. Allocated(o, q)'
        BY <1>2, <1>5, RestingRows
    <2>2. Allocated(o, orders[o].lines)'
        BY <1>6, <2>1 DEF Allocated
    <2>3. o \notin Paid'
        BY <1>6 DEF Paid
    <2>4. o <= lastOrder' /\ lastOrder' \in Int
        BY <1>1, <1>2
    <2> QED BY <1>2, <1>4, <1>7, <2>2, <2>3, <2>4, OwnerKeepsAccount
<1> QED BY <1>1, <1>2, <1>4, <1>5, <1>6, <1>8, OwnerStepKeepsOInv

LEMMA AuthorizeKeepsOInv ==
    ASSUME PInv, OInv, NEW p \in Placers, Authorize(p)
    PROVE  OInv'
<1> PICK o, q : o = mine[p] /\ q = cut[p]
    OBVIOUS
<1>1. stage[p] = "authorize" /\ stage[p] \in Unpaid /\ MoveTo(p, "store")
      /\ UNCHANGED <<stock, lastOrder, releasing, orphans>>
    BY DEF Authorize, Unpaid, cartVars, afterwards
<1>2. /\ Owner(p) /\ o \in OrderIds /\ o \in 1 .. lastOrder /\ lastOrder \in 0 .. MaxOrders
      /\ orders[o] \in OrderRow /\ orders[o].lines = q
      /\ Allocated(o, q) /\ AccountInv(o)
    BY <1>1, UnpaidFacts
<1>3. OwnedRows(p, o)
    BY <1>2, OwnerFacts
<1>4. stage'[p] = "store" /\ mine'[p] = o /\ cut'[p] = q /\ OtherPlacersKept(p)
    BY <1>1, PlacerMovesTo
<1>5. LedgerTypes' /\ SumInv' /\ \A r \in OrderIds : RowsRest(r)
    BY <1>1, QuietStock
<1>6. /\ \A r \in OrderIds \ {o} : orders'[r] = orders[r]
      /\ orders'[o].lines = q /\ orders'[o].status = orders[o].status
    <2>1. orders \in [OrderIds -> OrderRow]
        BY DEF PInv, PlaceTypes
    <2>2. orders' = [orders EXCEPT ![o].paymentStatus = "authorized"]
        BY DEF Authorize
    <2> QED BY <1>2, <2>1, <2>2 DEF OrderRow
<1>7. Allocated(o, q)' /\ (orders[o].status = "pending" => Untouched(o, q)')
    <2>1. orders[o].status = "pending" => Untouched(o, q)
        BY <1>1, <1>3 DEF OwnedRows, Untouched
    <2> QED BY <1>2, <1>5, <2>1, RestingRows
<1>8. ASSUME NEW l \in Levels, Allocs(l, o)' # {}
      PROVE  AccountedAt(l, o)'
    <2>1. Allocs(l, o)' = Allocs(l, o) /\ Releases(l, o)' = Releases(l, o)
        BY <1>2, <1>5, RestingRows
    <2>2. AccountedAt(l, o)
        BY <1>2, <1>8, <2>1 DEF AccountInv
    <2>3. orders[o].status = "pending" \/ Releases(l, o) # {} \/ o \in releasing \cup orphans
        BY <1>1, <1>2, <2>2, AccountedAlone
    <2> QED BY <1>1, <1>6, <2>1, <2>3 DEF AccountedAt
<1>9. ~Owner(p)' /\ OwnerInv(p)' /\ OwnedRows(p, o)'
    BY <1>4 DEF OwnerInv, OwnedRows, Owner, Unplaced, Unpaid
<1>10. AccountInv(o)'
    <2>1. Allocated(o, orders[o].lines)'
        BY <1>6, <1>7 DEF Allocated
    <2>2. o \in Paid' => Untouched(o, orders[o].lines)'
        BY <1>6, <1>7 DEF Paid, Untouched
    <2>3. o <= lastOrder' /\ lastOrder' \in Int
        BY <1>1, <1>2
    <2> QED BY <1>2, <1>4, <1>8, <1>9, <2>1, <2>2, <2>3, OwnerKeepsAccount
<1> QED BY <1>1, <1>2, <1>4, <1>5, <1>6, <1>9, <1>10, OwnerStepKeepsOInv

LEMMA OwnerDiesKeepsOInv ==
    ASSUME PInv, OInv, NEW p \in Placers,
           RefuseAllocate(p) \/ (DiePlace(p) /\ Owner(p))
    PROVE  OInv'
<1>1. Owner(p) /\ EndPlace(p) /\ UNCHANGED <<stock, orders, lastOrder, releasing>>
    BY DEF RefuseAllocate, DiePlace, orderTables, afterwards, Owner, Unplaced
<1>2. orphans \subseteq orphans'
    BY DEF RefuseAllocate, DiePlace, afterwards
<1>3. stage[p] \in {"commit", "rollback", "declined"} => mine[p] \in orphans'
    BY DEF RefuseAllocate, DiePlace
<1> QED BY <1>1, <1>2, <1>3, OwnerLeavesKeepsOInv

\* The places that own no order.
LEMMA OffPlaceKeepsOInv ==
    ASSUME IInv, OInv, NEW p \in Placers,
           \/ \E r \in PlaceRequests : BeginPlace(p, r)
           \/ ReadHeader(p) \/ ReadLines(p) \/ Resolve(p) \/ StoreKey(p)
           \/ DiePlace(p) /\ ~Owner(p)
    PROVE  OInv'
<1> PInv
    BY DEF IInv
<1>1. UNCHANGED <<stock, orders, lastOrder, releasing, orphans>>
    BY DEF BeginPlace, ReadHeader, ReadLines, Resolve, StoreKey, DiePlace, orderTables,
           afterwards, cartVars, Owner, Unplaced, Unpaid
<1>2. ~Owner(p)
    BY DEF BeginPlace, ReadHeader, ReadLines, Resolve, StoreKey, Owner, Unplaced, Unpaid
<1>3. /\ stage \in [Placers -> Stages] /\ mine \in [Placers -> 0 .. MaxOrders]
      /\ cut \in [Placers -> [Levels -> Nat]]
    BY DEF PInv, PlaceTypes
<1>4. stage'[p] \in {"idle", "header", "resolve", "lines", "convert", "store"}
      /\ OtherPlacersKept(p)
    <2>1. CASE \E r \in PlaceRequests : BeginPlace(p, r)
        BY <1>3, <2>1 DEF BeginPlace, OtherPlacersKept, PlacerKept
    <2>2. CASE EndPlace(p)
        BY <2>2, PlacerEnds
    <2>3. CASE MoveTo(p, "resolve") \/ MoveTo(p, "lines")
        BY <2>3, PlacerMovesTo
    <2>4. CASE ReadLines(p) /\ ~EndPlace(p)
        BY <1>3, <2>4 DEF ReadLines, OtherPlacersKept, PlacerKept
    <2>5. CASE Resolve(p) /\ ~EndPlace(p)
        BY <1>3, <2>5 DEF Resolve, OtherPlacersKept, PlacerKept
    <2>6. ReadHeader(p) => EndPlace(p) \/ MoveTo(p, "resolve") \/ MoveTo(p, "lines")
        <3> DEFINE row == cart[place[p].cart]
        <3>1. stage[p] = "header" => place[p] \in PlaceRequests
            BY DEF PInv, PlaceInv
        <3>2. stage[p] = "header" => row.status \in {"none", "active", "converted", "abandoned"}
            BY <3>1, PlaceConstants DEF IInv, CInv, CartTypes, CartRow, PlaceRequest
        <3> QED BY <3>2 DEF ReadHeader
    <2> QED BY <2>1, <2>2, <2>3, <2>4, <2>5, <2>6 DEF StoreKey, DiePlace
<1>5. ~Owner(p)'
    BY <1>4 DEF Owner, Unplaced, Unpaid
<1>6. \A q \in Placers : PlacerKept(q) \/ (~Owner(q) /\ ~Owner(q)')
    BY <1>2, <1>4, <1>5 DEF OtherPlacersKept
<1> QED BY <1>1, <1>6, QuietStock, OffStepKeepsOInv

LEMMA ReplayKeepsOInv ==
    ASSUME PInv, OInv, NEW r \in PlaceRequests, Replay(r)
    PROVE  OInv'
<1>1. UNCHANGED <<stock, orders, lastOrder, releasing, orphans, stage, mine, cut>>
    BY DEF Replay, cartVars, orderTables, placers
<1>2. \A q \in Placers : PlacerKept(q)
    BY <1>1 DEF PlacerKept
<1> QED BY <1>1, <1>2, QuietStock, OffStepKeepsOInv

\* A new order has a new id, and no rows.
LEMMA ConvertKeepsOInv ==
    ASSUME PInv, OInv, NEW p \in Placers, Convert(p)
    PROVE  OInv'
<1> PICK n : n = lastOrder
    OBVIOUS
<1>1. n \in 0 .. MaxOrders /\ n + 1 \in OrderIds /\ n \in Nat /\ lastOrder' = n + 1
    BY PlaceConstants DEF PInv, PlaceTypes, Convert, OrderIds
<1>2. UNCHANGED <<stock, orders, releasing, orphans>> /\ stage[p] = "convert"
    BY DEF Convert, afterwards
<1>3. LedgerTypes' /\ SumInv' /\ \A r \in OrderIds : RowsRest(r)
    BY <1>2, QuietStock
<1>4. /\ OtherPlacersKept(p)
      /\ Owner(p)' => stage'[p] = "allocate" /\ mine'[p] = n + 1
    <2>1. CASE Convertible(place[p].cart)
        BY <2>1 DEF Convert, OtherPlacersKept, PlacerKept, PInv, PlaceTypes
    <2>2. CASE ~Convertible(place[p].cart)
        <3>1. EndPlace(p)
            BY <2>2 DEF Convert
        <3> QED BY <3>1, PlacerEnds
    <2> QED BY <2>1, <2>2
<1>5. ~Owner(p)
    BY <1>2 DEF Owner, Unplaced, Unpaid
<1>6. ASSUME NEW q \in Placers, Owner(q)
      PROVE  /\ q # p /\ mine[q] \in 1 .. n /\ mine[q] # n + 1
             /\ stage'[q] = stage[q] /\ mine'[q] = mine[q] /\ cut'[q] = cut[q]
    <2>1. mine[q] \in 1 .. n
        BY <1>6 DEF OInv, OwnerInv
    <2> QED BY <1>1, <1>4, <1>5, <1>6, <2>1 DEF OtherPlacersKept, PlacerKept
<1>7. orders[n + 1].status = "none"
    <2>1. orders[n + 1].status # "none" => n + 1 <= n
        BY <1>1 DEF PInv, OrdersInv
    <2> QED BY <1>1, <2>1
<1>8. Unused(n + 1)
    BY <1>1 DEF OInv, AccountInv
<1>9. Unused(n + 1)'
    BY <1>1, <1>3, <1>8, RestingRows
<1>10. ASSUME NEW q \in Placers PROVE OwnerInv(q)'
    <2>1. CASE q = p
        BY <1>1, <1>2, <1>4, <1>7, <2>1 DEF OwnerInv, Owner, Unplaced, Unpaid
    <2>2. CASE q # p
        <3>1. PlacerKept(q) /\ OwnerInv(q)
            BY <1>4, <2>2 DEF OtherPlacersKept, OInv
        <3>2. Owner(q) => mine[q] \in 1 .. lastOrder'
            BY <1>1, <1>6
        <3> QED BY <1>2, <3>1, <3>2 DEF OwnerInv, Owner, PlacerKept
    <2> QED BY <2>1, <2>2
<1>11. OneOwner'
    <2>1. ASSUME NEW q \in Placers \ {p}, Owner(q)' PROVE Owner(q) /\ mine'[q] = mine[q]
        BY <1>4, <2>1 DEF OtherPlacersKept, PlacerKept, Owner
    <2>2. ASSUME NEW q \in Placers \ {p}, Owner(q)', Owner(p)', mine'[q] = mine'[p] PROVE FALSE
        BY <1>4, <1>6, <2>1, <2>2
    <2>3. \A q, s \in Placers \ {p} : Owner(q)' /\ Owner(s)' /\ mine'[q] = mine'[s] => q = s
        BY <2>1 DEF OInv, OneOwner
    <2> QED BY <2>2, <2>3 DEF OneOwner
<1>12. ASSUME NEW o \in OrderIds PROVE AccountInv(o)'
    <2>1. CASE o # n + 1
        <3>1. \A q \in Placers : PlacerKept(q) \/ (Off(q, o) /\ Off(q, o)')
            BY <1>4, <1>5, <2>1 DEF Off, OtherPlacersKept
        <3>2. o > lastOrder' => o > lastOrder
            BY <1>1 DEF OrderIds
        <3> QED BY <1>2, <1>3, <3>1, <3>2, OrderRests DEF OInv
    <2>2. CASE o = n + 1
        <3>1. orders'[o].status = "none" /\ o \notin Paid'
            BY <1>2, <1>7, <2>2 DEF Paid
        <3>2. \A l \in Levels : Allocs(l, o)' = {}
            <4>1. \A l \in Levels : RowsOf(l, o)' = {}
                BY <1>9, <2>2 DEF Unused
            <4> QED BY <4>1 DEF Allocs
        <3>3. ASSUME NEW q \in Placers, mine'[q] = o PROVE OwnedRows(q, o)'
            <4>1. Owner(q)' => q = p
                BY <1>4, <1>6, <2>2, <3>3 DEF OtherPlacersKept, PlacerKept, Owner
            <4>2. Owner(q)' => stage'[q] = "allocate"
                BY <1>4, <4>1
            <4>3. Unused(o)'
                BY <1>9, <2>2
            <4> QED BY <4>2, <4>3 DEF OwnedRows, Owner, Unplaced, Unpaid
        <3>4. ~(o > lastOrder')
            BY <1>1, <2>2
        <3> QED BY <3>1, <3>2, <3>3, <3>4 DEF AccountInv
    <2> QED BY <2>1, <2>2
<1>13. ReleasingInv'
    BY <1>2 DEF OInv, ReleasingInv
<1> QED BY <1>3, <1>10, <1>11, <1>12, <1>13 DEF OInv

LEMMA CancelOrderKeepsOInv ==
    ASSUME PInv, OInv, NEW o \in OrderIds, CancelOrder(o)
    PROVE  OInv'
<1>1. /\ orders[o].status = "pending" /\ releasing' = releasing \cup {o}
      /\ UNCHANGED <<stock, lastOrder, orphans, stage, mine, cut>>
    BY DEF CancelOrder, placers
<1>2. LedgerTypes' /\ SumInv' /\ \A r \in OrderIds : RowsRest(r)
    BY <1>1, QuietStock
<1>3. /\ \A r \in OrderIds \ {o} : orders'[r] = orders[r]
      /\ orders'[o].status = "cancelled" /\ orders'[o].lines = orders[o].lines
      /\ orders'[o].paymentStatus = orders[o].paymentStatus
    <2>1. orders \in [OrderIds -> OrderRow]
        BY DEF PInv, PlaceTypes
    <2>2. orders' = [orders EXCEPT ![o].status = "cancelled"]
        BY DEF CancelOrder
    <2> QED BY <2>1, <2>2 DEF OrderRow
<1>4. \A p \in Placers : PlacerKept(p) /\ (Owner(p) <=> Owner(p)')
    BY <1>1 DEF PlacerKept, Owner
<1>5. ASSUME NEW p \in Placers PROVE OwnerInv(p)'
    <2>1. OwnerInv(p) /\ lastOrder \in 0 .. MaxOrders
        BY DEF OInv, PInv, PlaceTypes
    <2>2. Owner(p) => mine[p] \in OrderIds
        BY <2>1, PlaceConstants DEF OwnerInv, OrderIds
    <2>3. CASE mine[p] = o
        BY <1>1, <1>3, <2>1, <2>3 DEF OwnerInv, Owner
    <2>4. CASE Owner(p) /\ mine[p] # o
        <3>1. orders'[mine[p]] = orders[mine[p]]
            BY <1>3, <2>2, <2>4
        <3> QED BY <1>1, <2>1, <3>1 DEF OwnerInv, Owner
    <2>5. CASE ~Owner(p)
        BY <1>1, <2>5 DEF OwnerInv, Owner
    <2> QED BY <2>3, <2>4, <2>5
<1>6. OneOwner'
    BY <1>1 DEF OInv, OneOwner, Owner
<1>7. ReleasingInv'
    BY <1>1, <1>3 DEF OInv, ReleasingInv
<1>8. ASSUME NEW r \in OrderIds \ {o} PROVE AccountInv(r)'
    BY <1>1, <1>2, <1>3, <1>4, OrderRests DEF OInv
<1>9. AccountInv(o)'
    <2>1. AccountInv(o)
        BY DEF OInv
    <2>2. PICK q : q = orders[o].lines
        OBVIOUS
    <2>3. Allocated(o, q)
        BY <1>1, <2>1, <2>2 DEF AccountInv, Allocated
    <2>4. Allocated(o, q)'
        BY <1>2, <2>3, RestingRows
    <2>5. Allocated(o, orders[o].lines)'
        BY <1>3, <2>2, <2>4 DEF Allocated
    <2>6. o \notin Paid' /\ \A l \in Levels : AccountedAt(l, o)'
        BY <1>1, <1>3 DEF Paid, AccountedAt
    <2>7. o > lastOrder' => Unused(o)'
        <3>1. o > lastOrder => Unused(o)
            BY <2>1 DEF AccountInv
        <3>2. Unused(o) => Unused(o)'
            BY <1>2, RestingRows
        <3> QED BY <1>1, <3>1, <3>2
    <2>8. ASSUME NEW p \in Placers, mine'[p] = o PROVE OwnedRows(p, o)'
        <3>1. stage'[p] # "allocate" /\ stage'[p] \notin {"commit", "rollback"}
            BY <1>1, <2>8 DEF OInv, OwnerInv, Unplaced
        <3> QED BY <1>1, <1>3, <3>1 DEF OwnedRows
    <2> QED BY <2>5, <2>6, <2>7, <2>8 DEF AccountInv
<1> QED BY <1>2, <1>5, <1>6, <1>7, <1>8, <1>9 DEF OInv

LEMMA ReleaseCancelledKeepsOInv ==
    ASSUME PInv, OInv, NEW o \in OrderIds, ReleaseCancelled(o)
    PROVE  OInv'
<1>1. PICK q, r : /\ q = orders[o].lines
                  /\ r = CancelOf(o, orders[o].cart, orders[o].lines, "order-cancelled")
    OBVIOUS
<1>2. /\ UNCHANGED <<orders, lastOrder, stage, mine, cut>>
      /\ releasing' = releasing \ {o} /\ orders[o].status = "cancelled"
      /\ q \in [Levels -> Nat] /\ AccountInv(o) /\ LedgerTypes /\ SumInv
      /\ orphans \subseteq orphans'
    BY <1>1 DEF ReleaseCancelled, orderTables, placers, OInv, ReleasingInv, PInv, PlaceTypes,
                OrderRow
<1>3. Allocated(o, q)
    BY <1>1, <1>2 DEF AccountInv, Allocated
<1>4. /\ LedgerTypes' /\ SumInv' /\ \A s \in OrderIds \ {o} : RowsRest(s)
      /\ \A l \in Levels :
            /\ Allocs(l, o)' = Allocs(l, o)
            /\ Allocs(l, o)' # {} => Releases(l, o)' # {} \/ o \in orphans'
    <2>1. CASE UNCHANGED stock /\ orphans' = orphans \cup {o}
        BY <2>1, QuietStock, RestingRows
    <2>2. CASE Stock!CancelAllocation(r)
        <3>1. r.ref = o /\ r.lines = q
            BY <1>1 DEF CancelOf, StockRequest
        <3> QED BY <1>2, <1>3, <2>2, <3>1, AllocationReleased
    <2> QED BY <1>1, <2>1, <2>2 DEF ReleaseCancelled
<1>5. \A p \in Placers : PlacerKept(p)
    BY <1>2 DEF PlacerKept
<1>6. ASSUME NEW p \in Placers PROVE OwnerInv(p)'
    BY <1>2 DEF OInv, OwnerInv, Owner
<1>7. OneOwner' /\ ReleasingInv'
    BY <1>2 DEF OInv, OneOwner, Owner, ReleasingInv
<1>8. ASSUME NEW s \in OrderIds \ {o} PROVE AccountInv(s)'
    BY <1>2, <1>4, <1>5, OrderRests DEF OInv
<1>9. AccountInv(o)'
    <2>1. Allocated(o, orders[o].lines)'
        BY <1>1, <1>2, <1>3, <1>4 DEF Allocated
    <2>2. o \notin Paid' /\ \A l \in Levels : Allocs(l, o)' # {} => AccountedAt(l, o)'
        BY <1>2, <1>4 DEF Paid, AccountedAt
    <2>3. ~(o > lastOrder')
        <3>1. o <= lastOrder
            BY <1>2 DEF PInv, OrdersInv
        <3>2. lastOrder \in Int
            BY DEF PInv, PlaceTypes
        <3> QED BY <1>2, <3>1, <3>2 DEF OrderIds
    <2>4. ASSUME NEW p \in Placers, mine'[p] = o PROVE OwnedRows(p, o)'
        <3>1. stage'[p] # "allocate" /\ stage'[p] \notin {"commit", "rollback"}
            BY <1>2, <2>4 DEF OInv, OwnerInv, Unplaced
        <3> QED BY <1>2, <1>4, <3>1 DEF OwnedRows
    <2> QED BY <1>2, <2>1, <2>2, <2>3, <2>4 DEF AccountInv
<1> QED BY <1>4, <1>6, <1>7, <1>8, <1>9 DEF OInv

LEMMA PlaceNextKeepsOInv ==
    ASSUME IInv, OInv, PlaceNext
    PROVE  OInv'
<1> PInv
    BY DEF IInv
<1>1. ASSUME NEW p \in Placers, DiePlace(p) PROVE OInv'
    BY <1>1, OwnerDiesKeepsOInv, OffPlaceKeepsOInv
<1>2. ASSUME NEW p \in Placers,
             \/ \E r \in PlaceRequests : BeginPlace(p, r)
             \/ ReadHeader(p) \/ ReadLines(p) \/ Resolve(p) \/ StoreKey(p)
      PROVE  OInv'
    BY <1>2, OffPlaceKeepsOInv
<1>3. ASSUME NEW p \in Placers,
             \/ RefuseAllocate(p) \/ ReleaseDeclined(p) \/ LoseReleaseDeclined(p)
      PROVE  OInv'
    BY <1>3, OwnerDiesKeepsOInv, ReleaseDeclinedKeepsOInv
<1> QED BY <1>1, <1>2, <1>3, ReplayKeepsOInv, ConvertKeepsOInv, AllocateCutKeepsOInv,
           LoseAllocateAnswerKeepsOInv, CommitPlaceKeepsOInv, LoseCommitKeepsOInv,
           RollbackKeepsOInv, FailOrderKeepsOInv, AuthorizeKeepsOInv, DeclineKeepsOInv,
           CancelOrderKeepsOInv, ReleaseCancelledKeepsOInv
        DEF PlaceNext

\* The carts reserve and free, and touch no order.
LEMMA CartNextKeepsOInv ==
    ASSUME OInv, CartNext, UNCHANGED placeVars
    PROVE  OInv'
<1>1. LedgerTypes /\ SumInv
    BY DEF OInv
<1>2. StockRests
    <2>1. ASSUME NEW e \in Editors, ReserveLine(e) \/ LoseReserveAnswer(e) PROVE StockRests
        BY <1>1, <2>1, ReserveEffect DEF ReserveLine, LoseReserveAnswer
    <2>2. ASSUME NEW e \in Editors, ReleaseLine(e) PROVE StockRests
        <3>1. UNCHANGED stock \/ \E ids : Stock!FreeHolds(ids, "released")
            BY <2>2 DEF ReleaseLine, Stock!ReleaseHolds
        <3> QED BY <1>1, <3>1, FreeEffect, NothingHappens
    <2>3. ASSUME NEW c \in Carts, NEW l \in Levels, Lapse(c, l) PROVE StockRests
        <3>1. \E ids : Stock!FreeHolds(ids, "expired")
            BY <2>3 DEF Lapse, Stock!LapseHolds
        <3> QED BY <1>1, <3>1, FreeEffect
    <2>4. ASSUME NEW e \in Editors,
                 \/ \E r \in CartRequests : Receive(e, r)
                 \/ LoadCart(e) \/ RefuseLoad(e) \/ RefuseReserve(e) \/ SaveCart(e)
                 \/ RetrySave(e) \/ ExhaustSave(e) \/ CheckClaim(e) \/ ClaimCart(e) \/ Die(e)
          PROVE  StockRests
        <3>1. UNCHANGED stock
            BY <2>4 DEF Receive, LoadCart, RefuseLoad, RefuseReserve, SaveCart, RetrySave,
                        ExhaustSave, CheckClaim, ClaimCart, Die
        <3> QED BY <1>1, <3>1, NothingHappens
    <2>5. ASSUME NEW customer \in Customers,
                 EraseCustomer(customer) \/ \E c \in Carts : CreateCart(c, customer)
          PROVE  StockRests
        <3>1. UNCHANGED stock
            BY <2>5 DEF EraseCustomer, CreateCart
        <3> QED BY <1>1, <3>1, NothingHappens
    <2> QED BY <2>1, <2>2, <2>3, <2>4, <2>5 DEF CartNext
<1>3. UNCHANGED <<orders, lastOrder, releasing, orphans>> /\ \A p \in Placers : PlacerKept(p)
    BY DEF placeVars, orderTables, placers, afterwards, PlacerKept
<1> QED BY <1>1, <1>2, <1>3, RestEffect, RestKeepsSum, OffStepKeepsOInv

LEMMA InitIsAccounted == Init => OInv
<1> SUFFICES ASSUME Init PROVE OInv
    OBVIOUS
<1>1. /\ \A l \in Levels : ledger[l] = EmptyBag
      /\ orders = [o \in OrderIds |-> NoOrder] /\ stage = [p \in Placers |-> "idle"]
      /\ lastOrder = 0 /\ releasing = {}
    BY DEF Init, CartInit
<1>2. \A l \in Levels : BagToSet(ledger[l]) = {}
    BY <1>1 DEF EmptyBag, SetToBag, BagToSet
<1>3. ASSUME NEW l \in Levels
      PROVE  "allocated" \in DOMAIN level[l] /\ level[l].allocated = 0
    BY DEF Init, CartInit, InitialAt
<1>4. LedgerTypes
    BY <1>2, <1>3 DEF LedgerTypes
<1>5. \A l \in Levels, o \in OrderIds : RowsOf(l, o) = {}
    BY <1>2 DEF RowsOf
<1>6. \A l \in Levels, o \in OrderIds : Allocs(l, o) = {}
    BY <1>5 DEF Allocs
<1>7. SumInv
    <2>1. ASSUME NEW l \in Levels PROVE Owned(l) = {}
        BY <1>6 DEF Owned, OwnedBy
    <2> QED BY <1>3, <2>1, FS_EmptySet DEF SumInv
<1>8. ASSUME NEW o \in OrderIds PROVE AccountInv(o)
    <2>1. orders[o].status = "none" /\ o \notin Paid
        BY <1>1 DEF NoOrder, Paid
    <2>2. \A p \in Placers : OwnedRows(p, o)
        BY <1>1 DEF OwnedRows
    <2> QED BY <1>5, <1>6, <2>1, <2>2 DEF AccountInv, Unused
<1>9. (\A p \in Placers : OwnerInv(p)) /\ OneOwner /\ ReleasingInv
    BY <1>1 DEF OwnerInv, OneOwner, Owner, Unplaced, Unpaid, ReleasingInv
<1> QED BY <1>4, <1>7, <1>8, <1>9 DEF OInv

LEMMA NextKeepsOInv == IInv /\ OInv /\ [Next]_vars => OInv'
<1> SUFFICES ASSUME IInv, OInv, [Next]_vars PROVE OInv'
    OBVIOUS
<1>1. CASE UNCHANGED vars
    <2>1. UNCHANGED <<stock, orders, lastOrder, releasing, orphans>>
          /\ \A p \in Placers : PlacerKept(p)
        BY <1>1 DEF vars, cartVars, placeVars, orderTables, placers, afterwards, PlacerKept
    <2> QED BY <2>1, QuietStock, OffStepKeepsOInv
<1> QED BY <1>1, PlaceNextKeepsOInv, CartNextKeepsOInv DEF Next

LEMMA PaidIsAllocated == IInv /\ OInv => PaidOrderIsAllocated
<1> SUFFICES ASSUME IInv, OInv PROVE PaidOrderIsAllocated
    OBVIOUS
<1>1. PInv /\ LedgerTypes /\ SumInv /\ \A o \in OrderIds : AccountInv(o)
    BY DEF IInv, OInv
<1>2. ASSUME NEW o \in Paid PROVE FullyAllocated(o)
    <2>1. Untouched(o, orders[o].lines)
        BY <1>1 DEF AccountInv, Paid
    <2> QED BY <2>1 DEF Untouched, FullyAllocated, Taken
<1>3. ASSUME \A o \in OrderIds : ~ReleasedTwice(o) PROVE StockCoversPaidOrders
    <2>1. ASSUME NEW l \in Levels
          PROVE  Cardinality(UnitsOf(l, Paid)) <= level[l].allocated
        <3>1. IsFiniteSet(Owned(l)) /\ Cardinality(Owned(l)) <= level[l].allocated
            BY <1>1, <1>3 DEF SumInv
        <3>2. level[l].allocated \in Int
            BY <1>1 DEF LedgerTypes
        <3> QED BY <1>1, <3>1, <3>2, OwnedCoversPaid
    <2> QED BY <2>1 DEF StockCoversPaidOrders
<1> QED BY <1>2, <1>3 DEF PaidOrderIsAllocated

LEMMA AllocationsAccounted == OInv => AllocationIsAccountedFor
<1> SUFFICES ASSUME OInv, NEW l \in Levels, NEW m \in BagToSet(ledger[l]), m.type = "allocation"
             PROVE  \/ orders[m.ref].status = "pending"
                    \/ \E p \in Placers : mine[p] = m.ref /\ stage[p] \in {"commit", "rollback"}
                    \/ \E n \in RowsOf(l, m.ref) : n.type = "release"
                    \/ m.ref \in releasing \cup orphans
    BY DEF AllocationIsAccountedFor
<1>1. m.ref \in OrderIds
    BY DEF OInv, LedgerTypes
<1>2. m \in Allocs(l, m.ref)
    BY DEF Allocs, RowsOf
<1>3. AccountedAt(l, m.ref)
    BY <1>1, <1>2 DEF OInv, AccountInv
<1> QED BY <1>3 DEF AccountedAt, Releases

\* What every reachable state satisfies, of the carts, the places and the orders'
\* allocations.
THEOREM OrdersInvariance == Spec => [](IInv /\ OInv)
<1>1. Init => IInv /\ OInv
    BY InitIsSound, InitIsAccounted
<1>2. IInv /\ OInv /\ [Next]_vars => (IInv /\ OInv)'
    BY NextKeepsIInv, NextKeepsOInv
<1> QED BY <1>1, <1>2, PTL DEF Spec

\* A pending order whose payment is authorized has its allocation in the ledger,
\* untouched, and the counter of allocated units covers all such orders, unless
\* some order's allocation was given back twice.
THEOREM PaidOrdersStayAllocated == Spec => []PaidOrderIsAllocated
BY OrdersInvariance, PaidIsAllocated, PTL

\* No allocation is forgotten: whoever fails, whatever is lost, and however the
\* cancellation of an order overtakes its authorization.
THEOREM AllocationsStayAccountedFor == Spec => []AllocationIsAccountedFor
BY OrdersInvariance, AllocationsAccounted, PTL

=============================================================================
