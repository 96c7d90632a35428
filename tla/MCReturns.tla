------------------------------ MODULE MCReturns ------------------------------
(***************************************************************************)
(* Instances of Returns for TLC: an order of one line of one unit.         *)
(***************************************************************************)
EXTENDS Returns, TLC

CONSTANTS h1, h2, l1, buyer, clerk, nobody

OrderedUnits == [l \in Lines |-> 1]
TokenPermissions ==
    [u \in {buyer, clerk} |->
        IF u = clerk THEN {"order:return-authorize", "inventory:receive-return", "order:read"}
        ELSE {}]

Entry(l, n) == [line |-> l, quantity |-> n]
\* The unit, and the line named twice.
TwoBaskets == {<<Entry(l1, 1), Entry(l1, 0)>>, <<Entry(l1, 1), Entry(l1, 1)>>}
ReturnSymmetry == Permutations(Handlers)
=============================================================================
