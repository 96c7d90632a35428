------------------------------- MODULE Returns -------------------------------
(***************************************************************************)
(* Return requests (RMAs) of one placed order: open, authorize, reject,    *)
(* receive, inspect and close them, and put what is fit for resale back on *)
(* the shelf.                                                              *)
(*                                                                         *)
(* Three rows meet here without a common lock.  Opening reads the order,   *)
(* then the return requests it already has, and inserts a new one in a     *)
(* transaction of its own.  Every later step writes the request under the  *)
(* version it read and starts again when it lost.  The restock is a call   *)
(* to the inventory service after the commit of the inspection: tried a    *)
(* few times, then logged for an operator, and idempotent on the id of the *)
(* return request.  A call that failed may still wait in the queue and be  *)
(* carried out later; a process that stops before the call leaves nothing  *)
(* but the inspected row.                                                  *)
(***************************************************************************)
EXTENDS ReturnDomain

CONSTANTS
    Handlers,           \* concurrent RPC handlers of the retail service
    MaxAttempts,        \* OCC_RETRY_ATTEMPTS
    RestockAttempts,    \* RESTOCK_MAX_ATTEMPTS
    MaxFaults           \* bound: failed calls and dead handlers over a run

ASSUME ReturnBounds ==
    /\ MaxRmas \in Nat /\ MaxFaults \in Nat
    /\ MaxAttempts \in Nat \ {0} /\ RestockAttempts \in Nat \ {0}

-----------------------------------------------------------------------------
VARIABLES
    cancelled,      \* order_line.cancelled_quantity
    rmas,           \* return_request rows with their return_line rows
    handler,        \* handler -> its request, how far it is and what it read
    credited,       \* return request -> units the inventory put back for it
    announced,      \* return request -> status -> events published
    calls,          \* return requests whose restock call waits in the queue
    leftToOperator, \* return requests whose restock was given up and logged
    cutOff,         \* return requests whose handler stopped before the restock
    overlapped,     \* lines over which an open met a write it had not read
    faults          \* failures so far

tables == <<cancelled, rmas>>
restocks == <<credited, calls, leftToOperator, cutOff>>
outside == <<restocks, announced, overlapped>>
vars == <<tables, handler, outside, faults>>

\* What the order reader finds besides the lines: the fulfillment axis (module
\* OrderLifecycle moves it) and whether the window since the first shipment is
\* still open.  Each open finds any of them.
Fulfillment == [status : {"unfulfilled", "partially-shipped", "shipped", "delivered"},
                windowOpen : BOOLEAN]

ReturnRequest == [status : Statuses \cup {"absent"}, customer : Users \cup {Nobody},
                  lines : [Slots -> ReturnLine], version : Nat]

Absent == [status |-> "absent", customer |-> Buyer, lines |-> NoLines, version |-> 0]

HandlerState ==
    [pc : {"idle", "sum", "insert", "save", "restock", "emit"},
     step : Steps \cup {"open"}, rma : 0 .. MaxRmas,
     verdict : Verdicts, cancelled : Units, sums : Units,
     row : ReturnRequest, attempt : Nat]
Idle == [pc |-> "idle", step |-> "open", rma |-> 0,
         verdict |-> NoVerdict, cancelled |-> NoUnits, sums |-> NoUnits,
         row |-> Absent, attempt |-> 0]

Init ==
    /\ cancelled = NoUnits
    /\ rmas = [r \in Rmas |-> Absent]
    /\ handler = [h \in Handlers |-> Idle]
    /\ credited = [r \in Rmas |-> NoUnits]
    /\ announced = [r \in Rmas |-> [s \in Statuses |-> 0]]
    /\ calls = {}
    /\ leftToOperator = {}
    /\ cutOff = {}
    /\ overlapped = {}
    /\ faults = 0

-----------------------------------------------------------------------------
(* Sums over rows. *)

\* One element for each unit of line l in the requests R.
UnitsOver(rows, R, l) == UNION {{r} \X UnitsIn(rows[r].lines, Slots, l) : r \in R}

\* Mutant of AlreadyReturned: a finished return no longer counts.
OpenReturns(rows) ==
    [l \in Lines |-> Cardinality(UnitsOver(rows,
        {r \in Rmas : rows[r].status \notin {"absent", "rejected", "closed"}}, l))]

\* sumAlreadyReturnedByLine: all requests but the rejected ones.
AlreadyReturned(rows) ==
    [l \in Lines |-> Cardinality(UnitsOver(rows,
        {r \in Rmas : rows[r].status \notin {"absent", "rejected"}}, l))]

-----------------------------------------------------------------------------
\* Units of a line are cancelled: those no fulfillment has (module
\* OrderLifecycle moves the fulfillments).  The returns of the order are not
\* looked at.
CancelLine ==
    /\ \E l \in Lines :
       \E fulfilled \in 0 .. Quantity[l] - cancelled[l] :
       \E quantity \in 1 .. Quantity[l] - cancelled[l] - fulfilled :
          cancelled' = [cancelled EXCEPT ![l] = @ + quantity]
    /\ UNCHANGED <<rmas, handler, outside, faults>>

-----------------------------------------------------------------------------
Fault == faults < MaxFaults /\ faults' = faults + 1
Goto(h, pc) == handler' = [handler EXCEPT ![h].pc = pc]
Leave(h) == handler' = [handler EXCEPT ![h] = Idle]

(* Open.                                                                   *)

\* assertWithinReturnWindow
WithinReturnWindow(f) ==
    \/ f.status = "delivered"
    \/ f.status \in {"shipped", "partially-shipped"} /\ f.windowOpen

\* ReturnRequest.open; the second statement, which writes the RMA number,
\* has advanced the version already.
Opened(u, basket) ==
    [status |-> "requested", customer |-> CustomerOf(u), version |-> 2,
     lines |-> AskedLines(basket)]

\* The request arrives and the order is read.
BeginOpen(h) ==
    /\ handler[h].pc = "idle"
    /\ \E u \in Users, basket \in Baskets, f \in Fulfillment :
          /\ MayOpen(u)
          /\ WithinReturnWindow(f)
          /\ handler' = [handler EXCEPT ![h] = [Idle EXCEPT
                !.pc = "sum", !.cancelled = cancelled, !.row = Opened(u, basket)]]
    /\ UNCHANGED <<tables, outside, faults>>

\* Each requested line is measured alone against what is left of its line.
EachFits(h, sums) ==
    \A s \in Filled(handler[h].row.lines) :
        handler[h].row.lines[s].quantity
            <= Returnable(handler[h].cancelled, sums, handler[h].row.lines[s].line)

SumReturned(h) ==
    /\ handler[h].pc = "sum"
    /\ LET sums == AlreadyReturned(rmas)
       IN  IF EachFits(h, sums)
           THEN handler' = [handler EXCEPT ![h].pc = "insert", ![h].sums = sums]
           ELSE Leave(h)
    /\ UNCHANGED <<tables, outside, faults>>

\* What became stale between the reads of h and its insert.
Missed(h) ==
    {l \in Lines : \/ AlreadyReturned(rmas)[l] # handler[h].sums[l]
                   \/ cancelled[l] # handler[h].cancelled[l]}
\* Lines a basket names more than once.
NamedTwice(lines) ==
    {l \in Lines : Cardinality({s \in Filled(lines) : lines[s].line = l}) > 1}

InsertRequest(h) ==
    /\ handler[h].pc = "insert"
    /\ \E r \in Rmas :
          /\ rmas[r] = Absent
          /\ \A q \in 1 .. r - 1 : rmas[q] # Absent
          /\ rmas' = [rmas EXCEPT ![r] = handler[h].row]
          /\ handler' = [handler EXCEPT ![h] = [Idle EXCEPT
                !.pc = "emit", !.rma = r, !.row = handler[h].row]]
    /\ overlapped' = overlapped \cup Missed(h) \cup NamedTwice(handler[h].row.lines)
    /\ UNCHANGED <<cancelled, restocks, announced, faults>>

-----------------------------------------------------------------------------
(* Authorize, reject, receive, inspect, close: load, save under the        *)
(* version, announce.                                                      *)

\* The permission the gateway asks of each route.
RoutePermission(step) ==
    IF step \in {"receive", "inspect"} THEN "inventory:receive-return"
    ELSE "order:return-authorize"

Applied(row, step, verdict) ==
    IF row.status = From[step]
    THEN [row EXCEPT !.status = To[step], !.lines = Judged(row.lines, verdict)]
    ELSE Absent

\* The request is read and the step tried on it; the wrong status ends it.
Begin(h, step, r, verdict) ==
    /\ handler[h].pc = "idle"
    /\ \E u \in Users : RoutePermission(step) \in Permissions[u]
    /\ Applied(rmas[r], step, verdict) # Absent
    /\ handler' = [handler EXCEPT ![h] = [Idle EXCEPT
          !.pc = "save", !.step = step, !.rma = r, !.verdict = verdict,
          !.row = rmas[r], !.attempt = 1]]
    /\ UNCHANGED <<tables, outside, faults>>

Authorize(h) == \E r \in Rmas : Begin(h, "authorize", r, NoVerdict)
Reject(h) == \E r \in Rmas : Begin(h, "reject", r, NoVerdict)
Receive(h) == \E r \in Rmas : Begin(h, "receive", r, NoVerdict)
Close(h) == \E r \in Rmas : Begin(h, "close", r, NoVerdict)

\* The coverage is asserted on the request as it is read first, never again.
Inspect(h) ==
    \E r \in Rmas, verdict \in Verdicts :
        /\ CoversEveryLine(rmas[r], verdict)
        /\ Begin(h, "inspect", r, verdict)

VersionMatches(h) == rmas[handler[h].rma].version = handler[h].row.version

Saved(h) ==
    [Applied(handler[h].row, handler[h].step, handler[h].verdict) EXCEPT
        !.version = handler[h].row.version + 1]

Save(h) ==
    /\ handler[h].pc = "save"
    /\ VersionMatches(h)
    /\ rmas' = [rmas EXCEPT ![handler[h].rma] = Saved(h)]
    /\ handler' = [handler EXCEPT
          ![h].pc = IF handler[h].step = "inspect" /\ FitForResale(Saved(h).lines) # {}
                    THEN "restock" ELSE "emit",
          ![h].row = Saved(h), ![h].attempt = 1, ![h].verdict = NoVerdict]
    /\ UNCHANGED <<cancelled, outside, faults>>

\* Mutant of LoseRace: the next attempt takes the version from the row, not the
\* row.
RetryWithOldRow(h) ==
    /\ handler[h].pc = "save"
    /\ ~VersionMatches(h)
    /\ IF handler[h].attempt < MaxAttempts
       THEN handler' = [handler EXCEPT ![h].row.version = rmas[handler[h].rma].version,
                                       ![h].attempt = @ + 1]
       ELSE Leave(h)
    /\ UNCHANGED <<tables, outside, faults>>

\* ReturnWriteConflictError: the next attempt reads the request again and may
\* find that the step no longer applies; the last attempt answers 409.
LoseRace(h) ==
    /\ handler[h].pc = "save"
    /\ ~VersionMatches(h)
    /\ LET row == rmas[handler[h].rma]
       IN  IF /\ handler[h].attempt < MaxAttempts
              /\ Applied(row, handler[h].step, handler[h].verdict) # Absent
           THEN handler' = [handler EXCEPT ![h].row = row, ![h].attempt = @ + 1]
           ELSE Leave(h)
    /\ UNCHANGED <<tables, outside, faults>>

-----------------------------------------------------------------------------
(* The restock and the events.                                             *)

\* requireDistinctLevels: one line per variant, or the inventory refuses.
Refused(lines) == NamedTwice([s \in Slots |-> IF s \in FitForResale(lines)
                                              THEN lines[s] ELSE BlankLine(lines[s].line)]) # {}

\* Mutant of Credit: the ledger is not asked whether it holds the return.
CreditAgain(r, lines) ==
    [l \in Lines |-> credited[r][l] + UnitsOf(lines, FitForResale(lines))[l]]

\* RestockFromReturnUseCase: nothing when the ledger holds the return
\* already or the lines are refused, else all lines at once.
Credit(r, lines) ==
    IF credited[r] # NoUnits \/ Refused(lines) THEN credited[r]
    ELSE UnitsOf(lines, FitForResale(lines))

\* restockFitForResaleLines: the variants are read from the order, whose lines
\* nothing deletes, and the call is answered.
Restock(h) ==
    /\ handler[h].pc = "restock"
    /\ ~Refused(handler[h].row.lines)
    /\ credited' = [credited EXCEPT ![handler[h].rma] =
                       Credit(handler[h].rma, handler[h].row.lines)]
    /\ Goto(h, "emit")
    /\ UNCHANGED <<tables, calls, leftToOperator, cutOff, announced, overlapped, faults>>

\* Mutant of NextAttempt: the last failure leaves no record.
GiveUpSilently(h) ==
    /\ IF handler[h].attempt < RestockAttempts
       THEN handler' = [handler EXCEPT ![h].attempt = @ + 1]
       ELSE Goto(h, "emit")
    /\ UNCHANGED leftToOperator

\* retryThenLogForReplay: the last failure is logged and the request goes on.
NextAttempt(h) ==
    IF handler[h].attempt < RestockAttempts
    THEN /\ handler' = [handler EXCEPT ![h].attempt = @ + 1]
         /\ UNCHANGED leftToOperator
    ELSE /\ Goto(h, "emit")
         /\ leftToOperator' = leftToOperator \cup {handler[h].rma}

\* The inventory refuses the lines; or the call fails, not sent or sent and its
\* answer lost.
RestockFails(h) ==
    /\ handler[h].pc = "restock"
    /\ \/ Refused(handler[h].row.lines) /\ UNCHANGED <<calls, faults>>
       \/ Fault /\ calls' \in {calls, calls \cup {handler[h].rma}}
    /\ NextAttempt(h)
    /\ UNCHANGED <<tables, credited, cutOff, announced, overlapped>>

\* The inventory takes a call from the queue that nobody waits for any more.
LateRestock(r) ==
    /\ r \in calls
    /\ credited' = [credited EXCEPT ![r] = Credit(r, rmas[r].lines)]
    /\ calls' \in {calls, calls \ {r}}
    /\ UNCHANGED <<tables, handler, leftToOperator, cutOff, announced, overlapped, faults>>

\* An operator sends the call of the log record again.
OperatorReplays(r) ==
    /\ r \in leftToOperator
    /\ credited' = [credited EXCEPT ![r] = Credit(r, rmas[r].lines)]
    /\ UNCHANGED <<tables, handler, calls, leftToOperator, cutOff, announced, overlapped, faults>>

\* Each use case publishes its own event after its commit; the customer's
\* address is looked up on the way.
Publish(h, status) ==
    /\ handler[h].pc = "emit" /\ handler[h].row.status = status
    /\ announced' = [announced EXCEPT ![handler[h].rma][status] = @ + 1]
    /\ Leave(h)
    /\ UNCHANGED <<tables, restocks, overlapped, faults>>

EmitRequested(h) == Publish(h, "requested")
EmitAuthorized(h) == Publish(h, "authorized")
EmitRejected(h) == Publish(h, "rejected")
EmitReceived(h) == Publish(h, "received")
EmitInspected(h) == Publish(h, "inspected")
EmitClosed(h) == Publish(h, "closed")

Emit(h) ==
    \/ EmitRequested(h) \/ EmitAuthorized(h) \/ EmitRejected(h)
    \/ EmitReceived(h) \/ EmitInspected(h) \/ EmitClosed(h)

\* A failed publish is logged and the event is gone.
LoseEvent(h) ==
    /\ handler[h].pc = "emit"
    /\ Fault
    /\ Leave(h)
    /\ UNCHANGED <<tables, outside>>

\* The process stops, or a query of the handler fails: what it knew is gone.  A
\* restock that was due is not called any more and not logged either; the last
\* call may have been sent.
Die(h) ==
    /\ handler[h].pc # "idle"
    /\ Fault
    /\ Leave(h)
    /\ IF handler[h].pc = "restock"
       THEN /\ cutOff' = cutOff \cup {handler[h].rma}
            /\ calls' \in {calls, calls \cup {handler[h].rma}}
       ELSE UNCHANGED <<cutOff, calls>>
    /\ UNCHANGED <<tables, credited, leftToOperator, announced, overlapped>>

-----------------------------------------------------------------------------
\* What a handler does once it has its request.
Step(h) ==
    \/ SumReturned(h) \/ InsertRequest(h)
    \/ Save(h) \/ LoseRace(h)
    \/ Restock(h) \/ RestockFails(h)
    \/ Emit(h) \/ LoseEvent(h)

Next ==
    \/ CancelLine
    \/ \E h \in Handlers :
          \/ BeginOpen(h) \/ Authorize(h) \/ Reject(h) \/ Receive(h) \/ Inspect(h) \/ Close(h)
          \/ Step(h) \/ Die(h)
    \/ \E r \in Rmas : LateRestock(r) \/ OperatorReplays(r)

Spec == Init /\ [][Next]_vars

-----------------------------------------------------------------------------
(* Queries.                                                                *)

\* The gateway tells retail that the caller reads as staff.
ReadsAsStaff(u) == "order:read" \in Permissions[u]

\* loadOwnedReturn: the customer on the row, not the buyer of the order.
CanGet(u, r) == rmas[r].customer = u \/ ReadsAsStaff(u)

\* ListReturnsForOrderUseCase: the buyer of the order.
CanList(u) == u = Buyer \/ ReadsAsStaff(u)

\* What the list of the order shows a caller who may see it.
Listed == {r \in Rmas : rmas[r] # Absent}

-----------------------------------------------------------------------------

\* No line is returned beyond what was ordered, over all requests that were
\* not rejected, finished ones included, unless an open met another open or a
\* cancellation of that line it had not read, or named the line twice
\* (open-return-request.use-case.ts reads, then inserts, without a lock).
ReturnedWithinOrdered ==
    \A l \in Lines \ overlapped :
        Cardinality(UnitsOver(rmas, {r \in Rmas : rmas[r].status \notin {"absent", "rejected"}}, l))
            <= Quantity[l]

\* The stock is credited for a return only after its inspection, once, and
\* with exactly the units the recorded inspection sends back to the shelf,
\* however often the call is repeated and whoever repeats it.
CreditedAsInspected ==
    \A r \in Rmas : credited[r] # NoUnits =>
        /\ rmas[r].status \in {"inspected", "closed"}
        /\ credited[r] = UnitsOf(rmas[r].lines, FitForResale(rmas[r].lines))

\* Each step of a return is announced at most once, and no return is
\* announced as authorized and as rejected, whatever staff do at the same
\* time: of two writers of one version one loses.
AnnouncedOnce ==
    \A r \in Rmas :
        /\ \A s \in Statuses : announced[r][s] <= 1
        /\ announced[r]["authorized"] + announced[r]["rejected"] <= 1

\* The inspection commits before the inventory is called: goods it sends back
\* to the shelf are credited, or the handler that inspected still owes the
\* call with just these lines, or the log has a record of it for an operator;
\* only a handler that stopped before it knew the answer leaves nothing.
RestockIsOwed ==
    \A r \in Rmas \ cutOff :
        \/ FitForResale(rmas[r].lines) = {}
        \/ credited[r] # NoUnits
        \/ r \in leftToOperator
        \/ \E h \in Handlers : /\ handler[h].pc = "restock" /\ handler[h].rma = r
                              /\ handler[h].row.lines = rmas[r].lines

\* Whatever staff, customers, retries and late calls do at the same time, the
\* returns are those of ReturnService: each step of one happens at an instant,
\* to the request as it then is.  The version that the UPDATE finds vouches for
\* the status a step needs; that an inspection covers every line was asserted
\* on an earlier read, of lines that no step takes away.
Shown(row) == [status |-> row.status, customer |-> row.customer, lines |-> row.lines]
Service == INSTANCE ReturnService WITH requests <- [r \in Rmas |-> Shown(rmas[r])]
Implements == Service!Spec

=============================================================================
