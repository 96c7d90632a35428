------------------------------- MODULE Events -------------------------------
(***************************************************************************)
(* The events the services publish: for each publisher the routing key,    *)
(* the queues it hands the event to directly, and the identifiers its      *)
(* payload carries.  Everything else in a payload is left out.  A routing  *)
(* key is the tuple of its tokens.                                         *)
(***************************************************************************)
EXTENDS Integers, Sequences, FiniteSets, SequencesExt

CONSTANTS
    Variants,       \* variant ids
    Orders,         \* order ids
    Refs,           \* ids of everything else: reservations, carts, payments ...
    Locations,      \* stock location ids
    Absent          \* a field that is null or missing

ASSUME AbsentIsNoId == Absent \notin Variants \cup Orders \cup Refs \cup Locations

Messages(key, queues, payloads) == {[key |-> key, to |-> queues, ids |-> ids] : ids \in payloads}

-----------------------------------------------------------------------------
(* The identifiers in the payload of each event contract.                  *)

StockReading == [variantId : Variants, stockLocationId : Locations]

StockLowEvent == StockReading
StockReceivedEvent == StockReading
StockAdjustedEvent == StockReading
StockLevelInitializedEvent == StockReading
StockReservedEvent ==
    [variantId : Variants, stockLocationId : Locations, reservationId : Refs, cartId : Refs]
StockAllocatedEvent ==
    [variantId : Variants, stockLocationId : Locations, orderId : Orders, reservationId : Refs \cup {Absent}]
StockReleasedEvent ==
    [variantId : Variants, stockLocationId : Locations, reservationId : Refs \cup {Absent},
     cartId : Refs \cup {Absent}]
StockCommittedEvent ==
    [variantId : Variants, stockLocationId : Locations, orderId : Orders, fulfillmentId : Refs]
StockReturnedEvent ==
    [variantId : Variants, stockLocationId : Locations, returnRequestId : Refs, returnLineId : Refs]
StockMovementRecordedEvent == [variantId : Variants, stockLocationId : Locations, movementId : Refs]

VariantCreatedEvent == [productId : Refs, variantId : Variants]
ProductPublishedEvent == [productId : Refs]
ProductArchivedEvent == [productId : Refs]
PriceChangedEvent == [variantId : Variants]
PriceScheduledEvent == PriceChangedEvent

CartCreatedEvent == [cartId : Refs, customerId : Refs \cup {Absent}]
CartLineAddedEvent == [cartId : Refs, variantId : Variants]
CartLineQuantityChangedEvent == [cartId : Refs, lineId : Refs]
CartLineRemovedEvent == [cartId : Refs, lineId : Refs]

OrderPlacedEvent == [orderId : Orders, customerId : Refs \cup {Absent}]
OrderCancelledEvent == [orderId : Orders]
PaymentAuthorizedEvent == [orderId : Orders, paymentId : Refs]
PaymentCapturedEvent == [orderId : Orders, paymentId : Refs]
FulfillmentCreatedEvent == [orderId : Orders, fulfillmentId : Refs, stockLocationId : Locations]
FulfillmentShippedEvent == [orderId : Orders, fulfillmentId : Refs]
FulfillmentDeliveredEvent == [orderId : Orders, fulfillmentId : Refs]
RefundIssuedEvent == [refundId : Refs, orderId : Orders, paymentId : Refs]
RefundFailedEvent == [refundId : Refs, orderId : Orders, paymentId : Refs]
ReturnEvent == [rmaId : Refs, orderId : Orders, customerId : Refs]
ReturnRequestedEvent == ReturnEvent
ReturnAuthorizedEvent == ReturnEvent
ReturnReceivedEvent == ReturnEvent
ReturnInspectedEvent == ReturnEvent
ReturnRejectedEvent == ReturnEvent
ReturnClosedEvent == ReturnEvent

DeliveryFailedEvent == [deliveryId : Refs]
ConsentUpdatedEvent == [customerId : Refs]
CustomerErasedEvent == [customerId : Refs]

-----------------------------------------------------------------------------
(* What each publisher sends, and where.                                   *)

PublishStockLow == Messages(<<"inventory", "stock", "low">>, {"notification"}, StockLowEvent)
PublishStockReceived == Messages(<<"inventory", "stock", "received">>, {"inventory"}, StockReceivedEvent)
PublishStockAdjusted == Messages(<<"inventory", "stock", "adjusted">>, {"inventory"}, StockAdjustedEvent)
PublishStockLevelInitialized ==
    Messages(<<"inventory", "stock-level", "initialized">>, {"inventory"}, StockLevelInitializedEvent)
PublishStockReserved == Messages(<<"inventory", "stock", "reserved">>, {"inventory"}, StockReservedEvent)
PublishStockAllocated == Messages(<<"inventory", "stock", "allocated">>, {"inventory"}, StockAllocatedEvent)
PublishStockReleased == Messages(<<"inventory", "stock", "released">>, {"inventory"}, StockReleasedEvent)
PublishStockCommitted == Messages(<<"inventory", "stock", "committed">>, {"inventory"}, StockCommittedEvent)
PublishStockReturned == Messages(<<"inventory", "stock", "returned">>, {"inventory"}, StockReturnedEvent)
PublishStockMovementRecorded ==
    Messages(<<"inventory", "stock-movement", "recorded">>, {"inventory"}, StockMovementRecordedEvent)

PublishVariantCreated == Messages(<<"catalog", "variant", "created">>, {"inventory"}, VariantCreatedEvent)
PublishProductPublished == Messages(<<"catalog", "product", "published">>, {"catalog"}, ProductPublishedEvent)
PublishProductArchived == Messages(<<"catalog", "product", "archived">>, {"catalog"}, ProductArchivedEvent)
PublishPriceChanged == Messages(<<"catalog", "price", "changed">>, {"catalog"}, PriceChangedEvent)
PublishPriceScheduled == Messages(<<"catalog", "price", "scheduled">>, {"catalog"}, PriceScheduledEvent)

PublishCartCreated == Messages(<<"retail", "cart", "created">>, {"retail"}, CartCreatedEvent)
PublishCartLineAdded == Messages(<<"retail", "cart", "line-added">>, {"retail"}, CartLineAddedEvent)
PublishCartLineRemoved == Messages(<<"retail", "cart", "line-removed">>, {"retail"}, CartLineRemovedEvent)
PublishCartLineQuantityChanged ==
    Messages(<<"retail", "cart", "line-quantity-changed">>, {"retail"}, CartLineQuantityChangedEvent)

PublishOrderPlaced == Messages(<<"retail", "order", "placed">>, {"notification"}, OrderPlacedEvent)
PublishOrderCancelled ==
    Messages(<<"retail", "order", "cancelled">>, {"retail", "notification"}, OrderCancelledEvent)
PublishPaymentAuthorized ==
    Messages(<<"retail", "payment", "authorized">>, {"retail"}, PaymentAuthorizedEvent)
PublishPaymentCaptured == Messages(<<"retail", "payment", "captured">>, {"retail"}, PaymentCapturedEvent)
PublishFulfillmentCreated ==
    Messages(<<"retail", "fulfillment", "created">>, {"retail"}, FulfillmentCreatedEvent)
PublishFulfillmentShipped ==
    Messages(<<"retail", "fulfillment", "shipped">>, {"notification"}, FulfillmentShippedEvent)
PublishFulfillmentDelivered ==
    Messages(<<"retail", "fulfillment", "delivered">>, {"notification"}, FulfillmentDeliveredEvent)
PublishRefundIssued == Messages(<<"retail", "refund", "issued">>, {"notification"}, RefundIssuedEvent)
PublishRefundFailed == Messages(<<"retail", "refund", "failed">>, {"retail"}, RefundFailedEvent)

PublishReturnRequested == Messages(<<"retail", "return", "requested">>, {"notification"}, ReturnRequestedEvent)
PublishReturnAuthorized ==
    Messages(<<"retail", "return", "authorized">>, {"notification"}, ReturnAuthorizedEvent)
PublishReturnReceived == Messages(<<"retail", "return", "received">>, {"notification"}, ReturnReceivedEvent)
PublishReturnInspected == Messages(<<"retail", "return", "inspected">>, {"notification"}, ReturnInspectedEvent)
PublishReturnRejected == Messages(<<"retail", "return", "rejected">>, {"retail"}, ReturnRejectedEvent)
PublishReturnClosed == Messages(<<"retail", "return", "closed">>, {"retail"}, ReturnClosedEvent)

PublishDeliveryFailed ==
    Messages(<<"notifications", "delivery", "failed">>, {"notification"}, DeliveryFailedEvent)
PublishConsentUpdated ==
    Messages(<<"customer", "consent", "updated">>, {"notification"}, ConsentUpdatedEvent)
PublishErased == Messages(<<"customer", "erased">>, {"notification"}, CustomerErasedEvent)

\* AuditLogRabbitmqPublisher.publish: an audited action goes to the log only.
AuditStaffAction == <<"audit", "staff", "action">>
PublishAudit == Messages(AuditStaffAction, {}, [actorId : Refs, entityId : Refs])

StockEvents ==
    PublishStockLow \cup PublishStockReceived \cup PublishStockAdjusted \cup PublishStockLevelInitialized
        \cup PublishStockReserved \cup PublishStockAllocated \cup PublishStockReleased
        \cup PublishStockCommitted \cup PublishStockReturned \cup PublishStockMovementRecorded
CatalogEvents ==
    PublishVariantCreated \cup PublishProductPublished \cup PublishProductArchived
        \cup PublishPriceChanged \cup PublishPriceScheduled
CartEvents ==
    PublishCartCreated \cup PublishCartLineAdded \cup PublishCartLineRemoved
        \cup PublishCartLineQuantityChanged
OrderEvents ==
    PublishOrderPlaced \cup PublishOrderCancelled \cup PublishPaymentAuthorized \cup PublishPaymentCaptured
        \cup PublishFulfillmentCreated \cup PublishFulfillmentShipped \cup PublishFulfillmentDelivered
        \cup PublishRefundIssued \cup PublishRefundFailed
ReturnEvents ==
    PublishReturnRequested \cup PublishReturnAuthorized \cup PublishReturnReceived
        \cup PublishReturnInspected \cup PublishReturnRejected \cup PublishReturnClosed
CustomerEvents == PublishConsentUpdated \cup PublishErased

AllEvents ==
    StockEvents \cup CatalogEvents \cup CartEvents \cup OrderEvents \cup ReturnEvents
        \cup CustomerEvents \cup PublishDeliveryFailed \cup PublishAudit

-----------------------------------------------------------------------------
(* What the event store guesses from a message.                            *)

\* The first token names the producer.
ResolveProducer(key) ==
    CASE key[1] = "inventory" -> "inventory-microservice"
      [] key[1] = "retail"    -> "retail-microservice"
      [] key[1] = "catalog"   -> "catalog-microservice"
      [] key[1] \in {"notification", "notifications"} -> "notification-microservice"
      [] OTHER -> key[1]

ResolveAggregateType(key) == IF Len(key) > 1 THEN key[2] ELSE ""

AggregateIdKeys ==
    <<"aggregateId", "id", "orderId", "variantId", "cartId", "reservationId", "fulfillmentId",
      "returnRequestId", "returnLineId", "paymentId", "refundId", "movementId", "deliveryId",
      "templateId", "stockLocationId">>

\* The first of these keys with a value; none is the empty string.
ResolveAggregateId(ids) ==
    LET given == SelectSeq(AggregateIdKeys, LAMBDA k : k \in DOMAIN ids /\ ids[k] # Absent)
    IN  IF given = <<>> THEN Absent ELSE ids[Head(given)]
=============================================================================
