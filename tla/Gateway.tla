------------------------------- MODULE Gateway -------------------------------
(***************************************************************************)
(* A request of the API gateway from its arrival to its answer: the three  *)
(* global guards, the header the handler reads, the command its use case   *)
(* sends, the controller and the access rule at the service, and the error *)
(* that comes back hop by hop.  The health probe asks every service at     *)
(* once and is the only RPC with a timeout.                                *)
(*                                                                         *)
(* A request lives alone: the gateway keeps nothing between two of them.   *)
(* What a service does with a command is in the modules of the services;   *)
(* here it either serves it, rejects it with the status of a domain error, *)
(* passes on the rejection of another service, or stops while it holds it. *)
(***************************************************************************)
EXTENDS GatewayRoutes, Functions

CONSTANT CustomerIds    \* ids of customers

ASSUME CustomersAreNotStaff ==
    CustomerIds \cap (DOMAIN SeededRoles \cup {"nobody", "anonymous", "missing"}) = {}

VARIABLE call           \* the request in hand

Anonymous == [id |-> "anonymous", permissions |-> {}]

\* Whom a token stands for: a customer, without permissions, or staff with those of its roles.
CurrentUsers == {[id |-> c, permissions |-> {}] : c \in CustomerIds} \cup StaffUsers

Owners == CustomerIds \cup {"missing"}      \* whose the order, return or cart of the path is

NoCall == [phase |-> "none"]

RouteOf(table) == UNION {{<<c, r>> : r \in DOMAIN table[c]} : c \in DOMAIN table}

RouteTable(c) ==
    IF c = "health" THEN HealthRoutes
    ELSE IF c \in DOMAIN LocalRoutes THEN LocalRoutes[c] ELSE ForwardedRoutes[c]

Endpoints == RouteOf(LocalRoutes) \cup RouteOf(ForwardedRoutes) \cup {<<"health", "check">>}

RouteAt(e) == RouteTable(e[1])[e[2]]

-----------------------------------------------------------------------------
(* The guards and the header.                                              *)

JwtAuthGuard(route, user) == route.public \/ user # Anonymous

\* One of the required codes is enough; a route that requires none is open.
EnforceRequiredClaim(required, claim) == required = {} \/ \E p \in required : p \in claim

PermissionsGuard(route, user) == EnforceRequiredClaim(route.required, user.permissions)

IdempotencyKey(header) == header # "absent"
IfMatch(header) == header # "malformed"

HeaderFits(route, header) ==
    /\ "Idempotency-Key" \in route.headers => IdempotencyKey(header)
    /\ "If-Match" \in route.headers => IfMatch(header)

\* The header only matters to the routes that read one.
HeadersOf(route) == IF route.headers = {} THEN {"absent"} ELSE {"absent", "malformed", "fine"}

HttpRequest(e, user, owner, header) ==
    [phase |-> "arrived", endpoint |-> e, user |-> user, owner |-> owner, header |-> header]

Arrive ==
    /\ call = NoCall
    /\ \E e \in Endpoints, user \in CurrentUsers \cup {Anonymous}, owner \in Owners :
           \E header \in HeadersOf(RouteAt(e)) : call' = HttpRequest(e, user, owner, header)

\* The gateway answers by itself.
Answered(status) ==
    [phase |-> "answered", endpoint |-> call.endpoint, user |-> call.user, owner |-> call.owner,
     key |-> "none", raised |-> 0, status |-> status]

Refuse ==
    LET route == RouteAt(call.endpoint) IN
    /\ call.phase = "arrived"
    /\ \/ ~JwtAuthGuard(route, call.user) /\ call' = Answered(401)
       \/ /\ JwtAuthGuard(route, call.user)
          /\ ~PermissionsGuard(route, call.user)
          /\ call' = Answered(403)
       \/ /\ JwtAuthGuard(route, call.user)
          /\ PermissionsGuard(route, call.user)
          /\ ~HeaderFits(route, call.header)
          /\ call' = Answered(400)

Admitted ==
    LET route == RouteAt(call.endpoint) IN
    /\ call.phase = "arrived"
    /\ JwtAuthGuard(route, call.user) /\ PermissionsGuard(route, call.user)
    /\ HeaderFits(route, call.header)

AnswerLocally ==
    /\ Admitted /\ call.endpoint[1] \in DOMAIN LocalRoutes
    /\ call' = Answered(200)

\* The use case sends its command; the body of a claim names some customer.
SendCommand ==
    /\ Admitted /\ call.endpoint[1] \in DOMAIN ForwardedRoutes
    /\ \E from \in IF call.endpoint[2] = "claimCart" THEN CustomerIds ELSE {call.user.id} :
           call' = [phase |-> "sent", endpoint |-> call.endpoint, user |-> call.user,
                    owner |-> call.owner,
                    command |-> Commands(call.user, from)[call.endpoint[1]][call.endpoint[2]]]

-----------------------------------------------------------------------------
(* The service.  A rejection is what crosses the wire: the status it names *)
(* and whether a code comes with it, 0 when it names none.                 *)

Rejection(status, coded) == [status |-> status, coded |-> coded]
Unknown == Rejection(0, FALSE)      \* a thrown value that the framework wraps

\* The statuses each exception filter gives the domain errors of its module.
CatalogErrors == {400, 404, 409}
PricingErrors == {400, 404, 409}
InventoryErrors == {400, 404, 409}
NotificationErrors == {400, 404, 409}
CartErrors == {400, 403, 404, 409}
OrderErrors == {400, 403, 404, 409, 422}
ReturnErrors == {400, 403, 404, 409}

DomainErrors(controller) ==
    CASE controller \in {CatalogHandlers, CategoryHandlers, MediaHandlers} -> CatalogErrors
      [] controller = PricingHandlers -> PricingErrors
      [] controller = StockHandlers -> InventoryErrors
      [] controller = NotificationHandlers -> NotificationErrors
      [] controller = CartHandlers -> CartErrors
      [] controller = OrderHandlers -> OrderErrors
      [] controller = ReturnHandlers -> ReturnErrors
      [] OTHER -> {}

\* A retail handler passes on the rejection of an inventory RPC; that of a catalog RPC is unknown.
SendPreservingRpcError(r) == r

InventoryCallers == {"retail.cart.add-line", "retail.cart.change-line-quantity", "retail.cart.place"}
CatalogCallers == {"retail.cart.add-line", "retail.cart.place"}

(* Access rules of retail: the status of the refusal, or 0.                *)
RefuseStranger(command, owner) ==
    CASE owner = "missing" -> 404
      [] owner # "missing" /\ ~command.staff /\ owner # command.actor -> 403
      [] OTHER -> 0

LoadAuthorizedOrder(command, owner) == RefuseStranger(command, owner)
LoadOwnedReturn(command, owner) == RefuseStranger(command, owner)
LoadOwnedCart(command, owner) == RefuseStranger([command EXCEPT !.staff = FALSE], owner)
LoadReturnById(owner) == IF owner = "missing" THEN 404 ELSE 0
CancelLineAccess(command, owner) ==
    CASE owner = "missing" -> 404 [] owner # "missing" /\ ~command.staff -> 403 [] OTHER -> 0
ListRefundsAccess(command, owner) == RefuseStranger(command, owner)
OpenReturnAccess(command, owner) == RefuseStranger(command, owner)
ListReturnsAccess(command, owner) == RefuseStranger(command, owner)
PlaceAccess(command, owner) == RefuseStranger(command, owner)

AuthorizedOrderKeys ==
    {"retail.order.get", "retail.payment.capture", "retail.fulfillment.create",
     "retail.fulfillment.list", "retail.fulfillment.ship", "retail.fulfillment.deliver",
     "retail.order.cancel"}
OwnedCartKeys ==
    {"retail.cart.get", "retail.cart.add-line", "retail.cart.change-line-quantity",
     "retail.cart.remove-line", "retail.cart.claim"}
StaffReturnKeys ==
    {"retail.return.authorize", "retail.return.reject", "retail.return.receive",
     "retail.return.inspect", "retail.return.close"}

Access(command, owner) ==
    LET key == command.to.key IN
    CASE key \in AuthorizedOrderKeys -> LoadAuthorizedOrder(command, owner)
      [] key \in OwnedCartKeys -> LoadOwnedCart(command, owner)
      [] key \in StaffReturnKeys -> LoadReturnById(owner)
      [] key = "retail.cart.place" -> PlaceAccess(command, owner)
      [] key = "retail.order.cancel-line" -> CancelLineAccess(command, owner)
      [] key = "retail.refund.list" -> ListRefundsAccess(command, owner)
      [] key = "retail.return.open" -> OpenReturnAccess(command, owner)
      [] key = "retail.return.list" -> ListReturnsAccess(command, owner)
      [] key = "retail.return.get" -> LoadOwnedReturn(command, owner)
      [] OTHER -> 0

-----------------------------------------------------------------------------
(* The answer.                                                             *)

ThrowRpcError(r) ==
    CASE r.status \in {400, 403, 404, 409} -> r.status
      [] r.status \notin {400, 403, 404, 409} /\ r.coded /\ r.status \in 400..599 -> r.status
      [] OTHER -> 500

Reply(key, raised, status) ==
    [phase |-> "answered", endpoint |-> call.endpoint, user |-> call.user, owner |-> call.owner,
     key |-> key, raised |-> raised, status |-> status]

\* The controllers on the queue that answer the key.
Handling(command) == {c \in Controllers[command.to.queue] : command.to.key \in c}

\* A controller hands the command to its use case.
HandledBy(controller) ==
    LET command == call.command
        key == command.to.key
        refusal == Access(command, call.owner)
        rejected(status) == call' = Reply(key, status, ThrowRpcError(Rejection(status, TRUE)))
        relayed(status) ==
            call' = Reply(key, status, ThrowRpcError(SendPreservingRpcError(Rejection(status, TRUE)))) IN
    \/ refusal # 0 /\ rejected(refusal)
    \/ refusal = 0 /\ call' = Reply(key, 0, 200)
    \/ refusal = 0 /\ \E status \in DomainErrors(controller) : rejected(status)
    \/ refusal = 0 /\ key \in InventoryCallers /\ \E status \in InventoryErrors : relayed(status)
    \/ refusal = 0 /\ key \in CatalogCallers /\ call' = Reply(key, 0, ThrowRpcError(Unknown))

Handle == call.phase = "sent" /\ \E controller \in Handling(call.command) : HandledBy(controller)

\* The one queue whose requests are not acknowledged on delivery: they wait for the restart.
KeptQueues == {"notification_events"}

\* The service stops with the request in hand, and nothing at the gateway ends
\* the wait but the client.
ServiceStops ==
    /\ call.phase = "sent" /\ call.command.to.queue \notin KeptQueues
    /\ call' = [phase |-> "waiting", endpoint |-> call.endpoint]

ClientLeaves == call.phase \in {"waiting", "answered"} /\ call' = NoCall

-----------------------------------------------------------------------------
(* The health probe.                                                       *)

ProbeAll ==
    /\ call.phase = "arrived" /\ call.endpoint[1] = "health"
    /\ call' = [phase |-> "probing", probes |-> [s \in DOMAIN HealthTargets |-> "asked"]]

Settle(s, result) ==
    /\ call.phase = "probing" /\ call.probes[s] = "asked"
    /\ call' = [call EXCEPT !.probes[s] = result]

PingAnswered(s) == Settle(s, "ok")
PingFails(s) == Settle(s, "error")

\* The timer of a ping ends the wait when nothing else has.
ProbeOne(s) == Settle(s, "timeout")

CheckHealth ==
    /\ call.phase = "probing" /\ \A s \in DOMAIN HealthTargets : call.probes[s] # "asked"
    /\ call' = [phase |-> "reported",
                status |-> IF \A s \in DOMAIN HealthTargets : call.probes[s] = "ok"
                           THEN "ok" ELSE "degraded"]

HealthRead == call.phase = "reported" /\ call' = NoCall

-----------------------------------------------------------------------------
GatewayInit == call = NoCall

GatewayNext ==
    \/ Arrive \/ Refuse \/ AnswerLocally \/ SendCommand
    \/ Handle \/ ServiceStops \/ ClientLeaves
    \/ ProbeAll \/ CheckHealth \/ HealthRead
    \/ \E s \in DOMAIN HealthTargets : PingAnswered(s) \/ PingFails(s) \/ ProbeOne(s)

-----------------------------------------------------------------------------
(* Properties.                                                             *)

\* What staff needs to be served with somebody's order, return or refund.
StaffRights ==
    ({"order:read"} \X {"retail.order.get", "retail.fulfillment.list", "retail.refund.list",
                       "retail.return.list", "retail.return.get"}) \cup
    ({"order:fulfill"} \X {"retail.fulfillment.create", "retail.fulfillment.ship",
                          "retail.fulfillment.deliver"}) \cup
    ({"order:cancel"} \X {"retail.order.cancel", "retail.order.cancel-line"}) \cup
    ({"order:return-authorize"} \X {"retail.return.open", "retail.return.authorize",
                                   "retail.return.reject", "retail.return.close"}) \cup
    ({"inventory:receive-return"} \X {"retail.return.receive", "retail.return.inspect"}) \cup
    {<<"order:capture", "retail.payment.capture">>, <<"order:refund", "retail.refund.issue">>}

\* Whoever is served with the order, return or refund of a customer is that
\* customer, or staff with the permission of the operation: the guard of the
\* route, the flag of the command and the access rule of the service leave no
\* gap between them.  Some rules live only at the gateway (nothing in retail
\* looks at who issues a refund), others only in retail.
ServedByRight ==
    (call.phase = "answered" /\ call.status = 200 /\ call.key \in {right[2] : right \in StaffRights}) =>
        \/ call.user.id = call.owner
        \/ \E p \in call.user.permissions : <<p, call.key>> \in StaffRights

\* A domain error keeps its status up to the client, from whichever service it
\* came and through however many hops, except that of a catalog RPC of retail.
StatusSurvives == (call.phase = "answered" /\ call.raised # 0) => call.status = call.raised

\* Whoever gets an answer may have it, and a refusal comes as the service meant it.
AnswersAreRight == ServedByRight /\ StatusSurvives
=============================================================================
