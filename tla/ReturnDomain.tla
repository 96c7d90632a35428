----------------------------- MODULE ReturnDomain -----------------------------
(***************************************************************************)
(* The pure part of the returns module: the rows of a return request, the  *)
(* steps of its life and what each needs and does, the units it stands     *)
(* for.  Nothing here is a state.                                          *)
(***************************************************************************)
EXTENDS Integers, FiniteSets

CONSTANTS
    Users,              \* callers with a token
    Nobody,             \* NULL as a customer id
    Buyer,              \* order.customer_id
    Permissions,        \* user -> the permission codes in the token
    Lines,              \* the lines of the order, one variant each
    Quantity,           \* order_line.quantity
    Slots,              \* return_line rows of one request
    Baskets,            \* what callers ask to return: slot -> line and quantity
    Dispositions,       \* what an inspection decides
    MaxRmas             \* bound: requests opened over a run

Rmas == 1 .. MaxRmas
Units == [Lines -> Nat]
NoUnits == [l \in Lines |-> 0]

ASSUME ReturnedOrder ==
    /\ IsFiniteSet(Lines) /\ Lines # {} /\ IsFiniteSet(Slots)
    /\ Quantity \in [Lines -> Nat \ {0}]
    /\ Nobody \notin Users /\ Buyer \in Users \cup {Nobody}
    /\ Permissions \in [Users -> SUBSET STRING]
    /\ Dispositions \subseteq {"restock", "scrap", "quarantine"}
ASSUME ReturnedBaskets ==
    \A b \in Baskets : /\ b \in [Slots -> [line : Lines, quantity : Nat]]
                       /\ \E s \in Slots : b[s].quantity > 0

-----------------------------------------------------------------------------
(* Rows. *)

Statuses == {"requested", "authorized", "rejected", "received", "inspected", "closed"}
ReturnLine == [line : Lines, quantity : Nat, disposition : Dispositions \cup {"none"}]

BlankLine(l) == [line |-> l, quantity |-> 0, disposition |-> "none"]
NoLines == [s \in Slots |-> BlankLine(CHOOSE l \in Lines : TRUE)]

Filled(lines) == {s \in Slots : lines[s].quantity > 0}

\* The lines of a request that go back on the shelf.
FitForResale(lines) == {s \in Filled(lines) : lines[s].disposition = "restock"}

\* One element for each unit of line l in the chosen slots of one request.
UnitsIn(lines, chosen, l) ==
    UNION {{s} \X (1 .. lines[s].quantity) : s \in {x \in chosen : lines[x].line = l}}

UnitsOf(lines, chosen) == [l \in Lines |-> Cardinality(UnitsIn(lines, chosen, l))]

Returnable(less, sums, l) == Quantity[l] - less[l] - sums[l]

-----------------------------------------------------------------------------
(* Opening. *)

\* The gateway tells retail that the caller is staff.
OpensAsStaff(u) == "order:return-authorize" \in Permissions[u]
MayOpen(u) == u = Buyer \/ OpensAsStaff(u)

\* order.customerId ?? customerId: the buyer, whoever opens it for them.
CustomerOf(u) == IF Buyer # Nobody THEN Buyer ELSE u

\* ReturnRequest.open makes a line of each that was asked for.
AskedLines(basket) ==
    [s \in Slots |-> [BlankLine(basket[s].line) EXCEPT !.quantity = basket[s].quantity]]

-----------------------------------------------------------------------------
(* ReturnRequest.authorize, reject, receive, markInspected, close. *)

Steps == {"authorize", "reject", "receive", "inspect", "close"}
From == [authorize |-> "requested", reject |-> "requested", receive |-> "authorized",
         inspect |-> "received", close |-> "inspected"]
To == [authorize |-> "authorized", reject |-> "rejected", receive |-> "received",
       inspect |-> "inspected", close |-> "closed"]

\* The statuses a return has passed when it is in one.
Reached ==
    [absent |-> {},
     requested |-> {"requested"},
     rejected |-> {"requested", "rejected"},
     authorized |-> {"requested", "authorized"},
     received |-> {"requested", "authorized", "received"},
     inspected |-> {"requested", "authorized", "received", "inspected"},
     closed |-> {"requested", "authorized", "received", "inspected", "closed"}]

\* What an inspection decides: a disposition for each line it names.
Verdicts == UNION {[S -> Dispositions] : S \in SUBSET Slots}
NoVerdict == [s \in {} |-> "none"]

\* assertInspectionCoversEveryLine
CoversEveryLine(row, verdict) == DOMAIN verdict = Filled(row.lines)

\* ReturnLine.inspect on the lines the verdict names.
Judged(lines, verdict) ==
    [s \in Slots |-> IF s \in DOMAIN verdict
                     THEN [lines[s] EXCEPT !.disposition = verdict[s]] ELSE lines[s]]

=============================================================================
