---------------------------- MODULE GatewayRoutes ----------------------------
(***************************************************************************)
(* The tables of the API gateway: who may call a route of each controller, *)
(* what the use case behind it sends, to which queue and under which       *)
(* routing key, and which keys the controllers of the services answer.     *)
(*                                                                         *)
(* A command is what a use case hands to its port: where it goes, as whom  *)
(* and whether as staff.  Its other fields are left out.                   *)
(***************************************************************************)
EXTENDS Integers, FiniteSets

(* Permission codes, as the tokens carry them. *)
PermissionCodeEnum ==
    {"catalog:read", "catalog:write", "catalog:publish", "inventory:read", "inventory:adjust",
     "inventory:transfer", "inventory:receive-return", "order:read", "order:capture",
     "order:fulfill", "order:cancel", "order:refund", "order:return-authorize",
     "notifications:read", "notifications:write", "iam:staff-create", "iam:assign",
     "iam:role-edit", "audit:read", "pricing:write", "customer:read-consent", "customer:erase"}

\* The rows of the permission table: one for every code.
SeededPermissions == PermissionCodeEnum

SeededRoles ==
    [admin |-> PermissionCodeEnum,
     catalogManager |-> {"catalog:read", "catalog:write", "catalog:publish", "pricing:write"},
     warehouseStaff |-> {"inventory:read", "inventory:adjust", "inventory:transfer",
                         "inventory:receive-return", "order:fulfill", "order:cancel"},
     orderSupport |-> {"order:read", "order:capture", "order:fulfill", "order:cancel",
                       "order:refund", "order:return-authorize"}]

\* A role holds the codes of its list that have a row.
SeededPermissionsOf(role) == SeededRoles[role] \cap SeededPermissions

\* One member of staff per role; a member has no other role.
StaffUsers == {[id |-> role, permissions |-> SeededPermissionsOf(role)] : role \in DOMAIN SeededRoles}

-----------------------------------------------------------------------------
(* Who may call a route, and the headers its handler reads.                *)

Route(public, required, headers) == [public |-> public, required |-> required, headers |-> headers]

Public == Route(TRUE, {}, {})
Bearer == Route(FALSE, {}, {})
RequiresPermission(p) == Route(FALSE, {p}, {})
WithIdempotencyKey(r) == [r EXCEPT !.headers = {"Idempotency-Key"}]
WithIfMatch(r) == [r EXCEPT !.headers = {"If-Match"}]

AuthRoutes == [refresh |-> Public, logout |-> Bearer, me |-> Bearer]
StaffLoginRoutes == [login |-> Public]
AuthAdminRoutes == [ping |-> RequiresPermission("audit:read")]
CustomerAuthRoutes == [register |-> Public, login |-> Public, guestSession |-> Public, me |-> Bearer]
CustomerConsentRoutes == [getConsent |-> Bearer, putConsent |-> Bearer]
CustomerAdminRoutes ==
    [getConsent |-> RequiresPermission("customer:read-consent"),
     erase |-> RequiresPermission("customer:erase")]
IamRoutes ==
    [list |-> RequiresPermission("iam:role-edit"), create |-> RequiresPermission("iam:role-edit"),
     update |-> RequiresPermission("iam:role-edit"),
     createStaff |-> RequiresPermission("iam:staff-create"),
     assign |-> RequiresPermission("iam:assign"), revoke |-> RequiresPermission("iam:assign")]
HealthRoutes == [check |-> Public]

CatalogRoutes ==
    [registerProduct |-> RequiresPermission("catalog:write"),
     addVariant |-> RequiresPermission("catalog:write"),
     publishProduct |-> RequiresPermission("catalog:publish"),
     archiveProduct |-> RequiresPermission("catalog:write"),
     listProducts |-> Public, getProduct |-> Public, getVariant |-> Public,
     setPrice |-> RequiresPermission("pricing:write"),
     listPrices |-> Public, getApplicablePrice |-> Public,
     createTaxCategory |-> RequiresPermission("pricing:write"), listTaxCategories |-> Public,
     attachVariantTaxCategory |-> RequiresPermission("pricing:write")]
CategoryRoutes ==
    [createCategory |-> RequiresPermission("catalog:write"),
     reparentCategory |-> RequiresPermission("catalog:write"),
     listCategories |-> Public, getCategoryTree |-> Public, listCategoryProducts |-> Public,
     attachProductCategories |-> RequiresPermission("catalog:write"),
     detachProductCategory |-> RequiresPermission("catalog:write")]
MediaRoutes ==
    [attachMedia |-> RequiresPermission("catalog:write"),
     reorderMedia |-> RequiresPermission("catalog:write"),
     detachMedia |-> RequiresPermission("catalog:write"),
     listProductMedia |-> Public, listVariantMedia |-> Public]
InventoryRoutes ==
    [listLocations |-> RequiresPermission("inventory:read"), getVariantStock |-> Public,
     listVariantMovements |-> RequiresPermission("inventory:read"),
     receiveStock |-> RequiresPermission("inventory:adjust"),
     adjustStock |-> RequiresPermission("inventory:adjust"),
     transferStock |-> RequiresPermission("inventory:transfer"),
     sweepReservations |-> RequiresPermission("inventory:adjust"),
     releaseReservation |-> RequiresPermission("inventory:adjust")]
CartRoutes ==
    [createCart |-> Bearer, getCart |-> Bearer, addLine |-> WithIfMatch(Bearer),
     changeLineQuantity |-> WithIfMatch(Bearer), removeLine |-> WithIfMatch(Bearer),
     claimCart |-> Bearer, placeOrder |-> WithIdempotencyKey(Bearer)]
OrderRoutes ==
    [listMyOrders |-> Bearer, getOrder |-> Bearer, capturePayment |-> WithIdempotencyKey(Bearer),
     createFulfillment |-> RequiresPermission("order:fulfill"), listFulfillments |-> Bearer,
     shipFulfillment |-> WithIdempotencyKey(RequiresPermission("order:fulfill")),
     markDelivered |-> RequiresPermission("order:fulfill"), cancelOrder |-> Bearer,
     cancelLine |-> RequiresPermission("order:cancel")]

\* Mutant of RefundRoutes: a refund needs a token, and no permission.
UnguardedRefunds == [issueRefund |-> WithIdempotencyKey(Bearer), listRefunds |-> Bearer]

RefundRoutes ==
    [issueRefund |-> WithIdempotencyKey(RequiresPermission("order:refund")), listRefunds |-> Bearer]
ReturnRoutes ==
    [openReturn |-> Bearer, listOrderReturns |-> Bearer,
     authorizeReturn |-> RequiresPermission("order:return-authorize"),
     rejectReturn |-> RequiresPermission("order:return-authorize"),
     receiveReturn |-> RequiresPermission("inventory:receive-return"),
     inspectReturn |-> RequiresPermission("inventory:receive-return"),
     closeReturn |-> RequiresPermission("order:return-authorize"), getReturn |-> Bearer]
NotificationRoutes ==
    [listTemplates |-> RequiresPermission("notifications:write"),
     authorTemplate |-> RequiresPermission("notifications:write"),
     setTemplateActive |-> RequiresPermission("notifications:write"),
     listDeliveries |-> RequiresPermission("notifications:read"),
     getDelivery |-> RequiresPermission("notifications:read"),
     retryDelivery |-> RequiresPermission("notifications:write"),
     sendMarketing |-> RequiresPermission("notifications:write")]
AuditRoutes ==
    [queryEvents |-> RequiresPermission("audit:read"), queryEntries |-> RequiresPermission("audit:read"),
     traceByCorrelation |-> RequiresPermission("audit:read")]

\* The routes the gateway answers itself, and those it forwards.
LocalRoutes ==
    [auth |-> AuthRoutes, staffLogin |-> StaffLoginRoutes, authAdmin |-> AuthAdminRoutes,
     customerAuth |-> CustomerAuthRoutes, consent |-> CustomerConsentRoutes,
     customerAdmin |-> CustomerAdminRoutes, iam |-> IamRoutes]
ForwardedRoutes ==
    [catalog |-> CatalogRoutes, category |-> CategoryRoutes, media |-> MediaRoutes,
     inventory |-> InventoryRoutes, cart |-> CartRoutes, orders |-> OrderRoutes,
     refunds |-> RefundRoutes, returns |-> ReturnRoutes, notifications |-> NotificationRoutes,
     audit |-> AuditRoutes]

-----------------------------------------------------------------------------
(* The ports: the queue each adapter sends to and the key of each method.  *)

To(queue, key) == [queue |-> queue, key |-> key]

CatalogPort ==
    LET catalog(key) == To("catalog_queue", key) IN
    [registerProduct |-> catalog("catalog.product.register"),
     createVariant |-> catalog("catalog.variant.create"),
     publishProduct |-> catalog("catalog.product.publish"),
     archiveProduct |-> catalog("catalog.product.archive"),
     listProducts |-> catalog("catalog.product.list"),
     getProductBySlug |-> catalog("catalog.product.get"),
     getVariant |-> catalog("catalog.variant.get"),
     setPrice |-> catalog("catalog.price.set"),
     listPrices |-> catalog("catalog.price.list"),
     getApplicablePrice |-> catalog("catalog.price.select"),
     createTaxCategory |-> catalog("catalog.tax-category.create"),
     listTaxCategories |-> catalog("catalog.tax-category.list"),
     attachVariantTaxCategory |-> catalog("catalog.variant.set-tax-category"),
     createCategory |-> catalog("catalog.category.create"),
     reparentCategory |-> catalog("catalog.category.reparent"),
     listCategories |-> catalog("catalog.category.list"),
     getCategoryTree |-> catalog("catalog.category.get-tree"),
     listCategoryProducts |-> catalog("catalog.category.list-products"),
     reclassifyProduct |-> catalog("catalog.product.reclassify"),
     attachMedia |-> catalog("catalog.media.attach"),
     reorderMedia |-> catalog("catalog.media.reorder"),
     detachMedia |-> catalog("catalog.media.detach"),
     listMedia |-> catalog("catalog.media.list")]
InventoryPort ==
    LET inventory(key) == To("inventory_queue", key) IN
    [getVariantStock |-> inventory("inventory.stock-level.get"),
     listLocations |-> inventory("inventory.location.list"),
     receiveStock |-> inventory("inventory.stock-level.receive"),
     adjustStock |-> inventory("inventory.stock-level.adjust"),
     transferStock |-> inventory("inventory.stock-level.transfer"),
     listVariantMovements |-> inventory("inventory.stock-movement.list"),
     releaseReservation |-> inventory("inventory.reservation.release"),
     sweepReservations |-> inventory("inventory.reservation.sweep")]
CartPort ==
    LET retail(key) == To("retail_queue", key) IN
    [createCart |-> retail("retail.cart.create"), getCart |-> retail("retail.cart.get"),
     addLine |-> retail("retail.cart.add-line"),
     changeLineQuantity |-> retail("retail.cart.change-line-quantity"),
     removeLine |-> retail("retail.cart.remove-line"), claim |-> retail("retail.cart.claim"),
     placeOrder |-> retail("retail.cart.place")]
OrdersPort ==
    LET retail(key) == To("retail_queue", key) IN
    [getOrder |-> retail("retail.order.get"), listMyOrders |-> retail("retail.order.list"),
     capturePayment |-> retail("retail.payment.capture"),
     createFulfillment |-> retail("retail.fulfillment.create"),
     shipFulfillment |-> retail("retail.fulfillment.ship"),
     markDelivered |-> retail("retail.fulfillment.deliver"),
     listFulfillments |-> retail("retail.fulfillment.list"),
     cancelOrder |-> retail("retail.order.cancel"), cancelLine |-> retail("retail.order.cancel-line"),
     issueRefund |-> retail("retail.refund.issue"), listRefunds |-> retail("retail.refund.list")]

ReturnsPort ==
    LET retail(key) == To("retail_queue", key) IN
    [openReturn |-> retail("retail.return.open"),
     authorizeReturn |-> retail("retail.return.authorize"),
     rejectReturn |-> retail("retail.return.reject"),
     receiveReturn |-> retail("retail.return.receive"),
     inspectReturn |-> retail("retail.return.inspect"),
     closeReturn |-> retail("retail.return.close"), getReturn |-> retail("retail.return.get"),
     listOrderReturns |-> retail("retail.return.list")]
NotificationsPort ==
    LET notification(key) == To("notification_events", key) IN
    [authorTemplate |-> notification("notification.template.author"),
     setTemplateActive |-> notification("notification.template.set-active"),
     listTemplates |-> notification("notification.template.list"),
     listDeliveries |-> notification("notification.delivery.list"),
     getDelivery |-> notification("notification.delivery.get"),
     retryDelivery |-> notification("notification.delivery.retry"),
     sendMarketing |-> notification("notification.marketing.send")]
AuditPort ==
    LET eventStore(key) == To("event_store_query_queue", key) IN
    [queryEvents |-> eventStore("audit.event.query"), queryEntries |-> eventStore("audit.entry.query"),
     traceByCorrelation |-> eventStore("audit.trace.by-correlation")]
HealthTargets ==
    [catalog |-> To("catalog_queue", "catalog.health.ping"),
     inventory |-> To("inventory_queue", "inventory.health.ping"),
     retail |-> To("retail_queue", "retail.health.ping"),
     notification |-> To("notification_events", "notification.health.ping"),
     eventStore |-> To("event_store_query_queue", "audit.health.ping")]

-----------------------------------------------------------------------------
(* The use cases: the command each sends for a caller.  Reads and staff    *)
(* work on no customer's resource carry nobody's name.                     *)

Command(to, actor, staff) == [to |-> to, actor |-> actor, staff |-> staff]
Forward(to) == Command(to, "nobody", FALSE)
As(user, to) == Command(to, user.id, FALSE)
AsStaffWith(permission, user, to) == Command(to, user.id, permission \in user.permissions)

RegisterProduct == Forward(CatalogPort.registerProduct)
AddVariant == Forward(CatalogPort.createVariant)
PublishProduct == Forward(CatalogPort.publishProduct)
ArchiveProduct == Forward(CatalogPort.archiveProduct)
ListProducts == Forward(CatalogPort.listProducts)
GetProduct == Forward(CatalogPort.getProductBySlug)
GetVariant == Forward(CatalogPort.getVariant)
SetPrice == Forward(CatalogPort.setPrice)
ListPrices == Forward(CatalogPort.listPrices)
GetApplicablePrice == Forward(CatalogPort.getApplicablePrice)
CreateTaxCategory == Forward(CatalogPort.createTaxCategory)
ListTaxCategories == Forward(CatalogPort.listTaxCategories)
AttachVariantTaxCategory == Forward(CatalogPort.attachVariantTaxCategory)
CreateCategory == Forward(CatalogPort.createCategory)
ReparentCategory == Forward(CatalogPort.reparentCategory)
ListCategories == Forward(CatalogPort.listCategories)
GetCategoryTree == Forward(CatalogPort.getCategoryTree)
ListCategoryProducts == Forward(CatalogPort.listCategoryProducts)
AttachProductCategories == Forward(CatalogPort.reclassifyProduct)
DetachProductCategory == Forward(CatalogPort.reclassifyProduct)
AttachMedia == Forward(CatalogPort.attachMedia)
ReorderMedia == Forward(CatalogPort.reorderMedia)
DetachMedia == Forward(CatalogPort.detachMedia)
ListMedia == Forward(CatalogPort.listMedia)

GetVariantStock == Forward(InventoryPort.getVariantStock)
ListLocations == Forward(InventoryPort.listLocations)
ListVariantMovements == Forward(InventoryPort.listVariantMovements)
ReceiveStock(user) == As(user, InventoryPort.receiveStock)
AdjustStock(user) == As(user, InventoryPort.adjustStock)
TransferStock(user) == As(user, InventoryPort.transferStock)
SweepReservations(user) == As(user, InventoryPort.sweepReservations)
ReleaseReservation(user) == As(user, InventoryPort.releaseReservation)

CreateCart(user) == As(user, CartPort.createCart)
GetCart(user) == As(user, CartPort.getCart)
AddToCart(user) == As(user, CartPort.addLine)
ChangeCartLineQuantity(user) == As(user, CartPort.changeLineQuantity)
RemoveFromCart(user) == As(user, CartPort.removeLine)
PlaceCartOrder(user) == As(user, CartPort.placeOrder)
\* A claim names the customer the cart belongs to so far.
ClaimCart(user, from) == Command(CartPort.claim, from, FALSE)

ListMyOrders(user) == As(user, OrdersPort.listMyOrders)

GetOrder(user) == AsStaffWith("order:read", user, OrdersPort.getOrder)
CapturePayment(user) == AsStaffWith("order:capture", user, OrdersPort.capturePayment)
CreateFulfillment(user) == AsStaffWith("order:fulfill", user, OrdersPort.createFulfillment)
ListFulfillments(user) == AsStaffWith("order:read", user, OrdersPort.listFulfillments)
ShipFulfillment(user) == AsStaffWith("order:fulfill", user, OrdersPort.shipFulfillment)
MarkDelivered(user) == AsStaffWith("order:fulfill", user, OrdersPort.markDelivered)
CancelOrder(user) == AsStaffWith("order:cancel", user, OrdersPort.cancelOrder)
CancelLine(user) == AsStaffWith("order:cancel", user, OrdersPort.cancelLine)
IssueRefund(user) == As(user, OrdersPort.issueRefund)
ListRefunds(user) == AsStaffWith("order:read", user, OrdersPort.listRefunds)

OpenReturn(user) == AsStaffWith("order:return-authorize", user, ReturnsPort.openReturn)
ListOrderReturns(user) == AsStaffWith("order:read", user, ReturnsPort.listOrderReturns)
GetReturn(user) == AsStaffWith("order:read", user, ReturnsPort.getReturn)
AuthorizeReturn(user) == As(user, ReturnsPort.authorizeReturn)
RejectReturn(user) == As(user, ReturnsPort.rejectReturn)
ReceiveReturn(user) == As(user, ReturnsPort.receiveReturn)
InspectReturn(user) == As(user, ReturnsPort.inspectReturn)
CloseReturn(user) == As(user, ReturnsPort.closeReturn)

AuthorTemplate == Forward(NotificationsPort.authorTemplate)
SetTemplateActive == Forward(NotificationsPort.setTemplateActive)
ListTemplates == Forward(NotificationsPort.listTemplates)
ListDeliveries == Forward(NotificationsPort.listDeliveries)
GetDelivery == Forward(NotificationsPort.getDelivery)
RetryDelivery == Forward(NotificationsPort.retryDelivery)
SendMarketing == Forward(NotificationsPort.sendMarketing)

QueryEvents == Forward(AuditPort.queryEvents)
QueryEntries == Forward(AuditPort.queryEntries)
QueryTrace == Forward(AuditPort.traceByCorrelation)

\* What the handler of each route runs for a caller; from is in the body of a claim.
Commands(user, from) ==
    [catalog |->
        [registerProduct |-> RegisterProduct, addVariant |-> AddVariant,
         publishProduct |-> PublishProduct, archiveProduct |-> ArchiveProduct,
         listProducts |-> ListProducts, getProduct |-> GetProduct, getVariant |-> GetVariant,
         setPrice |-> SetPrice, listPrices |-> ListPrices, getApplicablePrice |-> GetApplicablePrice,
         createTaxCategory |-> CreateTaxCategory, listTaxCategories |-> ListTaxCategories,
         attachVariantTaxCategory |-> AttachVariantTaxCategory],
     category |->
        [createCategory |-> CreateCategory, reparentCategory |-> ReparentCategory,
         listCategories |-> ListCategories, getCategoryTree |-> GetCategoryTree,
         listCategoryProducts |-> ListCategoryProducts,
         attachProductCategories |-> AttachProductCategories,
         detachProductCategory |-> DetachProductCategory],
     media |->
        [attachMedia |-> AttachMedia, reorderMedia |-> ReorderMedia, detachMedia |-> DetachMedia,
         listProductMedia |-> ListMedia, listVariantMedia |-> ListMedia],
     inventory |->
        [listLocations |-> ListLocations, getVariantStock |-> GetVariantStock,
         listVariantMovements |-> ListVariantMovements, receiveStock |-> ReceiveStock(user),
         adjustStock |-> AdjustStock(user), transferStock |-> TransferStock(user),
         sweepReservations |-> SweepReservations(user),
         releaseReservation |-> ReleaseReservation(user)],
     cart |->
        [createCart |-> CreateCart(user), getCart |-> GetCart(user), addLine |-> AddToCart(user),
         changeLineQuantity |-> ChangeCartLineQuantity(user), removeLine |-> RemoveFromCart(user),
         claimCart |-> ClaimCart(user, from), placeOrder |-> PlaceCartOrder(user)],
     orders |->
        [listMyOrders |-> ListMyOrders(user), getOrder |-> GetOrder(user),
         capturePayment |-> CapturePayment(user), createFulfillment |-> CreateFulfillment(user),
         listFulfillments |-> ListFulfillments(user), shipFulfillment |-> ShipFulfillment(user),
         markDelivered |-> MarkDelivered(user), cancelOrder |-> CancelOrder(user),
         cancelLine |-> CancelLine(user)],
     refunds |-> [issueRefund |-> IssueRefund(user), listRefunds |-> ListRefunds(user)],
     returns |->
        [openReturn |-> OpenReturn(user), listOrderReturns |-> ListOrderReturns(user),
         authorizeReturn |-> AuthorizeReturn(user), rejectReturn |-> RejectReturn(user),
         receiveReturn |-> ReceiveReturn(user), inspectReturn |-> InspectReturn(user),
         closeReturn |-> CloseReturn(user), getReturn |-> GetReturn(user)],
     notifications |->
        [listTemplates |-> ListTemplates, authorTemplate |-> AuthorTemplate,
         setTemplateActive |-> SetTemplateActive, listDeliveries |-> ListDeliveries,
         getDelivery |-> GetDelivery, retryDelivery |-> RetryDelivery,
         sendMarketing |-> SendMarketing],
     audit |->
        [queryEvents |-> QueryEvents, queryEntries |-> QueryEntries,
         traceByCorrelation |-> QueryTrace]]

-----------------------------------------------------------------------------
(* The keys each controller of a service answers.                          *)

CatalogHandlers ==
    {"catalog.product.register", "catalog.variant.create", "catalog.product.publish",
     "catalog.product.archive", "catalog.product.list", "catalog.product.get", "catalog.variant.get"}
CategoryHandlers ==
    {"catalog.category.create", "catalog.category.reparent", "catalog.category.list",
     "catalog.category.get-tree", "catalog.category.list-products", "catalog.product.reclassify"}
MediaHandlers ==
    {"catalog.media.attach", "catalog.media.reorder", "catalog.media.detach", "catalog.media.list"}
PricingHandlers ==
    {"catalog.price.set", "catalog.price.list", "catalog.price.select", "catalog.tax-category.create",
     "catalog.tax-category.list", "catalog.variant.set-tax-category"}
StockHandlers ==
    {"inventory.stock-level.get", "inventory.location.list", "inventory.stock-movement.list",
     "inventory.stock-level.receive", "inventory.stock-level.adjust",
     "inventory.stock-level.transfer", "inventory.reservation.reserve",
     "inventory.reservation.release", "inventory.reservation.sweep",
     "inventory.reservation.allocate", "inventory.allocation.cancel", "inventory.stock.commit-sale",
     "inventory.stock.restock-from-return"}
CartHandlers ==
    {"retail.cart.create", "retail.cart.get", "retail.cart.add-line",
     "retail.cart.change-line-quantity", "retail.cart.remove-line", "retail.cart.claim"}
OrderHandlers ==
    {"retail.cart.place", "retail.order.get", "retail.order.list", "retail.payment.capture",
     "retail.fulfillment.create", "retail.fulfillment.list", "retail.fulfillment.ship",
     "retail.fulfillment.deliver", "retail.order.cancel", "retail.refund.issue",
     "retail.refund.list", "retail.order.cancel-line"}

ReturnHandlers ==
    {"retail.return.open", "retail.return.authorize", "retail.return.reject",
     "retail.return.receive", "retail.return.inspect", "retail.return.close", "retail.return.get",
     "retail.return.list"}
NotificationHandlers ==
    {"notification.template.author", "notification.template.set-active",
     "notification.template.list", "notification.delivery.list", "notification.delivery.get",
     "notification.delivery.record-outcome", "notification.delivery.retry",
     "notification.marketing.send"}
AuditQueryHandlers == {"audit.event.query", "audit.entry.query", "audit.trace.by-correlation"}

\* The controllers that listen on each queue.
Controllers ==
    [catalog_queue |-> {CatalogHandlers, CategoryHandlers, MediaHandlers, PricingHandlers},
     inventory_queue |-> {StockHandlers},
     retail_queue |-> {CartHandlers, OrderHandlers, ReturnHandlers},
     notification_events |-> {NotificationHandlers},
     event_store_query_queue |-> {AuditQueryHandlers}]
=============================================================================
