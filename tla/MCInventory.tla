---------------------------- MODULE MCInventory ----------------------------
(***************************************************************************)
(* Instances of Inventory for TLC: the requests callers send.              *)
(***************************************************************************)
EXTENDS Inventory

CONSTANTS l1, l2, c1, c2, r1, h1, h2

On(l, q) == [k \in Levels |-> IF k = l THEN q ELSE 0]

ReserveOf(c, lines) == [NoOp EXCEPT !.kind = "reserve", !.cart = c, !.lines = lines]
ReleaseOf(ids) == [NoOp EXCEPT !.kind = "release", !.ids = ids]
AllocateOf(c, lines) ==
    [NoOp EXCEPT !.kind = "allocate", !.cart = c, !.lines = lines, !.ref = r1]
CancelOf(lines) == [NoOp EXCEPT !.kind = "cancel", !.lines = lines, !.ref = r1, !.key = r1]
Ledgered(kind, lines) == [NoOp EXCEPT !.kind = kind, !.lines = lines, !.ref = r1]
OnHandOf(kind, lines) == [NoOp EXCEPT !.kind = kind, !.lines = lines]

\* One level, two carts that together want more than there is.
OneLevel == {l1}
OneLevelSeed == [l \in OneLevel |-> 2]
OneLevelPayloads ==
    {ReserveOf(c1, On(l1, 1)), ReserveOf(c1, On(l1, 2)), ReserveOf(c2, On(l1, 1)),
     ReleaseOf({<<c1, l1>>}),
     AllocateOf(c1, On(l1, 1)), AllocateOf(c1, On(l1, 2)),
     CancelOf(On(l1, 1)),
     Ledgered("sale", On(l1, 1)), Ledgered("return", On(l1, 1)),
     OnHandOf("receive", On(l1, 1)), OnHandOf("adjust", On(l1, -1))}

\* The life of a hold and nothing else.
HoldPayloads ==
    {ReserveOf(c1, On(l1, 1)), ReserveOf(c1, On(l1, 2)), ReserveOf(c2, On(l1, 1)),
     ReleaseOf({<<c1, l1>>}), AllocateOf(c1, On(l1, 1))}

\* Two levels that one request spans; the second starts without a row.
TwoLevels == {l1, l2}
TwoLevelsSeed == [l \in TwoLevels |-> IF l = l1 THEN 2 ELSE 0]
Both(p, q) == [l \in Levels |-> IF l = l1 THEN p ELSE q]
TwoLevelsPayloads ==
    {OnHandOf("transfer", Both(-1, 1)), OnHandOf("receive", On(l2, 1)),
     ReserveOf(c1, On(l1, 1)), ReserveOf(c1, On(l2, 1)),
     ReleaseOf({<<c1, l1>>, <<c1, l2>>}),
     AllocateOf(c1, Both(1, 1)), CancelOf(Both(1, 1)),
     Ledgered("sale", Both(1, 1)), Ledgered("return", Both(1, 1))}

=============================================================================
