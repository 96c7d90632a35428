---------------------------- MODULE ReturnService ----------------------------
(***************************************************************************)
(* What the returns of an order promise to those who work with them: every *)
(* step takes effect at one instant, on the request as it is at that       *)
(* instant, leads it one status on, and changes nothing of it that an      *)
(* earlier step settled.  An inspection judges every line.  The goods of a *)
(* return come back on the shelf once and as they were judged, and what is *)
(* announced has happened and was not announced before.                    *)
(*                                                                         *)
(* There are no versions, no handlers, no retries and no calls here; the   *)
(* module Returns, which has them all, is shown to implement this one.  An *)
(* announcement may be lost and a restock be missing, and how much may be  *)
(* returned this specification does not say.                               *)
(***************************************************************************)
EXTENDS ReturnDomain

VARIABLES
    requests,       \* return request -> status, customer and lines
    credited,       \* return request -> units the inventory put back for it
    announced       \* return request -> status -> events published

vars == <<requests, credited, announced>>

Init ==
    /\ requests = [r \in Rmas |-> [status |-> "absent", customer |-> Buyer, lines |-> NoLines]]
    /\ credited = [r \in Rmas |-> NoUnits]
    /\ announced = [r \in Rmas |-> [s \in Statuses |-> 0]]

Open(r) ==
    /\ requests[r].status = "absent"
    /\ \E u \in Users, basket \in Baskets :
          /\ MayOpen(u)
          /\ requests' = [requests EXCEPT ![r] =
                [status |-> "requested", customer |-> CustomerOf(u), lines |-> AskedLines(basket)]]
    /\ UNCHANGED <<credited, announced>>

\* The customer and the lines stay.
MoveOn(r, step) ==
    /\ requests[r].status = From[step]
    /\ requests' = [requests EXCEPT ![r].status = To[step]]
    /\ UNCHANGED <<credited, announced>>

Authorize(r) == MoveOn(r, "authorize")
Reject(r) == MoveOn(r, "reject")
Receive(r) == MoveOn(r, "receive")
Close(r) == MoveOn(r, "close")

\* Every line is judged; line and quantity stay.
Inspect(r) ==
    /\ requests[r].status = "received"
    /\ \E verdict \in Verdicts :
          /\ CoversEveryLine(requests[r], verdict)
          /\ requests' = [requests EXCEPT ![r].status = "inspected",
                                          ![r].lines = Judged(@, verdict)]
    /\ UNCHANGED <<credited, announced>>

PutBack(r) ==
    /\ requests[r].status \in {"inspected", "closed"}
    /\ credited[r] = NoUnits
    /\ credited' = [credited EXCEPT ![r] =
          UnitsOf(requests[r].lines, FitForResale(requests[r].lines))]
    /\ UNCHANGED <<requests, announced>>

Announce(r, status) ==
    /\ status \in Reached[requests[r].status]
    /\ announced[r][status] = 0
    /\ announced' = [announced EXCEPT ![r][status] = 1]
    /\ UNCHANGED <<requests, credited>>

\* Most of what a caller, a retry or a late call asks for is refused, or done
\* already.
NothingToDo == UNCHANGED vars

Next ==
    \/ NothingToDo
    \/ \E r \in Rmas :
          \/ Open(r)
          \/ Authorize(r) \/ Reject(r) \/ Receive(r) \/ Inspect(r) \/ Close(r)
          \/ PutBack(r)
          \/ \E status \in Statuses : Announce(r, status)

Spec == Init /\ [][Next]_vars

=============================================================================
