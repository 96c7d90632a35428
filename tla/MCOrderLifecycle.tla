-------------------------- MODULE MCOrderLifecycle --------------------------
(***************************************************************************)
(* Instances of OrderLifecycle for TLC: an order of two lines, the         *)
(* fulfillments it may be split into, and the requests callers send.       *)
(***************************************************************************)
EXTENDS OrderLifecycle, TLC

CONSTANTS a, b, h1, h2

TwoLines == [l \in {a, b} |-> IF l = a THEN 2 ELSE 1]

Of(p, q) == [l \in Lines |-> IF l = a THEN p ELSE q]

CaptureOf == [NoRequest EXCEPT !.kind = "capture"]
ShipOf(f) == [NoRequest EXCEPT !.kind = "ship", !.fulfillment = f]
DeliverOf(f) == [NoRequest EXCEPT !.kind = "deliver", !.fulfillment = f]
CreateOf(units) == [NoRequest EXCEPT !.kind = "create", !.units = units]
CancelOrderOf == [NoRequest EXCEPT !.kind = "cancelOrder"]
CancelLineOf(units) == [NoRequest EXCEPT !.kind = "cancelLine", !.units = units]

\* Everything that may happen to an order shipped in up to two parcels.
AllPayloads ==
    {CaptureOf, ShipOf(1), ShipOf(2), DeliverOf(1), CancelOrderOf,
     CreateOf(Of(2, 0)), CreateOf(Of(1, 1)),
     CancelLineOf(Of(1, 0)), CancelLineOf(Of(0, 1))}

HandlerSymmetry == Permutations(Handlers)
=============================================================================
