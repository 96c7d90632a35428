------------------------------- MODULE Refunds -------------------------------
(***************************************************************************)
(* Refunds of one captured payment: Issue Refund under idempotency keys,   *)
(* Cancel Order with the automatic refund it asks for, and the purge of    *)
(* old keys.                                                               *)
(*                                                                         *)
(* A request reserves its key by inserting a pending row, reads the        *)
(* payment without a lock, opens a pending refund, calls the gateway with  *)
(* no transaction open and then writes the payment row back as it read it, *)
(* plus its own amount.  The row has no version: requests under one key    *)
(* are serialised by the reservation, requests under different keys by     *)
(* nothing.  Every database or gateway call may fail, and a request may    *)
(* die between two of them.                                                *)
(***************************************************************************)
EXTENDS Integers, FiniteSets

CONSTANTS
    Handlers,           \* concurrent executions of Issue Refund
    Keys,               \* Idempotency-Keys callers send
    AutoKey,            \* order-cancelled:<orderId>:<paymentId>
    Amount,             \* payment.amount_minor
    Reasons,            \* refund reasons callers write
    MaxRequests,        \* bound: executions of Issue Refund over a run
    MaxFaults           \* bound: failed calls and dead requests over a run

\* The reason the consumer of retail.order.cancelled gives.
OrderCancelled == "order-cancelled"

ASSUME RefundAmounts == Amount \in Nat \ {0}
ASSUME RefundKeys == AutoKey \notin Keys
ASSUME RefundBounds == MaxRequests \in Nat /\ MaxFaults \in Nat

AllKeys == Keys \cup {AutoKey}
RefundIds == 1 .. MaxRequests

\* What the fingerprint of a request covers; order and payment are fixed here.
Body == [amount : 1 .. Amount, reason : Reasons \cup {OrderCancelled}]
NoBody == [amount |-> 1, reason |-> OrderCancelled]

PaymentRow == [status : {"captured", "refunded"},
               refunded : 0 .. Amount, flagged : BOOLEAN]
RefundRow == [status : {"none", "pending", "issued", "failed"}, body : Body]
KeyRow == [state : {"absent", "pending", "done"}, body : Body,
           refund : Nat, answer : {"none", "issued", "failed"}]

CapturedPayment == [status |-> "captured", refunded |-> 0, flagged |-> FALSE]
NoRefund == [status |-> "none", body |-> NoBody]
NoKey == [state |-> "absent", body |-> NoBody, refund |-> 0, answer |-> "none"]

-----------------------------------------------------------------------------
VARIABLES
    payment,        \* the payment row
    refunds,        \* refund rows by id
    store,          \* idempotency_key rows of the scope issue-refund
    handler,        \* handler -> its request, how far it is and what it read
    cancelled,      \* the order was cancelled
    event,          \* retail.order.cancelled, flagged for refund, on its way
    paidOut,        \* refunds the gateway paid
    openedBy,       \* refund -> the key it was opened under
    answers,        \* what callers were told
    raced,          \* a refund was recorded over another one it had not read
    requests,       \* executions so far
    faults          \* failures so far

outside == <<paidOut, openedBy, answers, raced>>
vars == <<payment, refunds, store, handler, cancelled, event,
          outside, requests, faults>>

HandlerState ==
    [pc : {"idle", "reserve", "reread", "read", "check", "pay",
           "record", "commit", "decline", "finalize", "release"},
     key : AllKeys, body : Body, read : PaymentRow, base : PaymentRow,
     refund : 0 .. MaxRequests, answer : {"none", "issued", "failed"}]
Idle == [pc |-> "idle", key |-> AutoKey, body |-> NoBody,
         read |-> CapturedPayment, base |-> CapturedPayment,
         refund |-> 0, answer |-> "none"]
Answer == [key : AllKeys, body : Body, refund : RefundIds,
           status : {"issued", "failed"}]

Init ==
    /\ payment = CapturedPayment
    /\ refunds = [i \in RefundIds |-> NoRefund]
    /\ store = [k \in AllKeys |-> NoKey]
    /\ handler = [h \in Handlers |-> Idle]
    /\ cancelled = FALSE
    /\ event = FALSE
    /\ paidOut = {}
    /\ openedBy = [i \in RefundIds |-> AutoKey]
    /\ answers = {}
    /\ raced = FALSE
    /\ requests = 0
    /\ faults = 0

-----------------------------------------------------------------------------
Goto(h, pc) == handler' = [handler EXCEPT ![h].pc = pc]
Leave(h) == handler' = [handler EXCEPT ![h] = Idle]
Fault == faults < MaxFaults /\ faults' = faults + 1

\* The row the caller or a replay gets to see, under the key of the request.
AnswerOf(h) == [key |-> handler[h].key, body |-> handler[h].body,
                refund |-> handler[h].refund, status |-> handler[h].answer]

\* A client or a member of staff asks for a refund.
Request(h) ==
    /\ handler[h].pc = "idle" /\ requests < MaxRequests
    /\ requests' = requests + 1
    /\ \E k \in Keys, amount \in 1 .. Amount, reason \in Reasons :
           handler' = [handler EXCEPT ![h] = [Idle EXCEPT
                           !.pc = "reserve", !.key = k,
                           !.body = [amount |-> amount, reason |-> reason]]]
    /\ UNCHANGED <<payment, refunds, store, cancelled, event, outside, faults>>

Remainder(row) == Amount - row.refunded

\* The consumer of retail.order.cancelled asks for all that is left, unless
\* nothing is.  The queue acknowledges on delivery: the event is gone.
ConsumeCancelled(h) ==
    /\ handler[h].pc = "idle" /\ event
    /\ event' = FALSE
    /\ IF Remainder(payment) > 0
       THEN /\ requests < MaxRequests /\ requests' = requests + 1
            /\ handler' = [handler EXCEPT ![h] = [Idle EXCEPT
                               !.pc = "reserve", !.key = AutoKey,
                               !.body = [amount |-> Remainder(payment),
                                         reason |-> OrderCancelled]]]
       ELSE UNCHANGED <<requests, handler>>
    /\ UNCHANGED <<payment, refunds, store, cancelled, outside, faults>>

\* Mutant of Free: a reservation in flight holds nobody back.
FreeUnlessDone(k) == store[k].state # "done"

\* The INSERT of the pending row goes through.
Free(k) == store[k].state = "absent"

Reserve(h) ==
    /\ handler[h].pc = "reserve"
    /\ Free(handler[h].key)
    /\ store' = [store EXCEPT ![handler[h].key] =
                    [NoKey EXCEPT !.state = "pending", !.body = handler[h].body]]
    /\ Goto(h, "read")
    /\ UNCHANGED <<payment, refunds, cancelled, event, outside, requests, faults>>

\* The INSERT fails on the unique key; the row is read in a query of its own.
KeyTaken(h) ==
    /\ handler[h].pc = "reserve"
    /\ ~ Free(handler[h].key)
    /\ Goto(h, "reread")
    /\ UNCHANGED <<payment, refunds, store, cancelled, event, outside, requests, faults>>

Replayable(k, body) == store[k].state = "done" /\ store[k].body = body

Replay(h) ==
    LET k == handler[h].key IN
    /\ handler[h].pc = "reread"
    /\ Replayable(k, handler[h].body)
    /\ answers' = answers \cup {[key |-> k, body |-> store[k].body,
                                 refund |-> store[k].refund,
                                 status |-> store[k].answer]}
    /\ Leave(h)
    /\ UNCHANGED <<payment, refunds, store, cancelled, event, paidOut, openedBy,
                   raced, requests, faults>>

\* Another body, still in progress, or gone meanwhile: the caller is refused.
Refuse(h) ==
    /\ handler[h].pc = "reread"
    /\ ~ Replayable(handler[h].key, handler[h].body)
    /\ Leave(h)
    /\ UNCHANGED <<payment, refunds, store, cancelled, event, outside, requests, faults>>

ReadPayment(h) ==
    /\ handler[h].pc = "read"
    /\ handler' = [handler EXCEPT ![h].pc = "check", ![h].read = payment]
    /\ UNCHANGED <<payment, refunds, store, cancelled, event, outside, requests, faults>>

\* Mutant of IssuedDuplicates: nobody looks for a refund that was issued before.
NoDuplicates(body) == {}

\* Issued refunds of the payment with this amount and reason.
IssuedDuplicates(body) ==
    {i \in RefundIds : refunds[i].status = "issued" /\ refunds[i].body = body}

\* Any of them may be the one that findByPaymentId lists first.
AnswerDuplicate(h) ==
    /\ handler[h].pc = "check"
    /\ \E i \in IssuedDuplicates(handler[h].body) :
           handler' = [handler EXCEPT ![h].pc = "finalize", ![h].refund = i,
                                      ![h].answer = "issued"]
    /\ UNCHANGED <<payment, refunds, store, cancelled, event, outside, requests, faults>>

Refundable(row, amount) == row.status = "captured" /\ amount <= Remainder(row)

RefuseAmount(h) ==
    /\ handler[h].pc = "check"
    /\ IssuedDuplicates(handler[h].body) = {}
    /\ ~ Refundable(handler[h].read, handler[h].body.amount)
    /\ Goto(h, "release")
    /\ UNCHANGED <<payment, refunds, store, cancelled, event, outside, requests, faults>>

\* AUTO_INCREMENT
NextId(i) == /\ refunds[i].status = "none"
             /\ \A j \in 1 .. (i - 1) : refunds[j].status # "none"

OpenRefund(h) ==
    /\ handler[h].pc = "check"
    /\ IssuedDuplicates(handler[h].body) = {}
    /\ Refundable(handler[h].read, handler[h].body.amount)
    /\ \E i \in RefundIds :
          /\ NextId(i)
          /\ refunds' = [refunds EXCEPT ![i] = [status |-> "pending",
                                               body |-> handler[h].body]]
          /\ openedBy' = [openedBy EXCEPT ![i] = handler[h].key]
          /\ handler' = [handler EXCEPT ![h].pc = "pay", ![h].refund = i]
    /\ UNCHANGED <<payment, store, cancelled, event, paidOut, answers, raced,
                   requests, faults>>

-----------------------------------------------------------------------------
(* The gateway, and the record of what it did.                             *)

GatewayPays(h) ==
    /\ handler[h].pc = "pay"
    /\ paidOut' = paidOut \cup {handler[h].refund}
    /\ Goto(h, "record")
    /\ UNCHANGED <<payment, refunds, store, cancelled, event, openedBy, answers,
                   raced, requests, faults>>

GatewayDeclines(h) ==
    /\ handler[h].pc = "pay"
    /\ Goto(h, "decline")
    /\ UNCHANGED <<payment, refunds, store, cancelled, event, outside, requests, faults>>

RecordDecline(h) ==
    /\ handler[h].pc = "decline"
    /\ refunds' = [refunds EXCEPT ![handler[h].refund].status = "failed"]
    /\ handler' = [handler EXCEPT ![h].pc = "finalize", ![h].answer = "failed"]
    /\ UNCHANGED <<payment, store, cancelled, event, outside, requests, faults>>

\* Mutant of AfterRefund: a full refund leaves the payment captured.
OnlyAdds(row, amount) == [row EXCEPT !.refunded = @ + amount]

\* Payment.refund on the row the request read at its start.
AfterRefund(row, amount) ==
    [row EXCEPT !.refunded = @ + amount,
                !.status = IF row.refunded + amount = Amount THEN "refunded" ELSE @,
                !.flagged = IF row.refunded + amount = Amount THEN FALSE ELSE @]

\* The transaction opens: save reads the row again, to find out what to write.
OpenRecord(h) ==
    /\ handler[h].pc = "record"
    /\ handler' = [handler EXCEPT ![h].pc = "commit", ![h].base = payment]
    /\ UNCHANGED <<payment, refunds, store, cancelled, event, outside, requests, faults>>

\* The UPDATE names the columns in which the entity differs from the row that
\* the transaction read; the other columns keep what they hold by now.
Written(row, entity, base) ==
    [c \in DOMAIN row |-> IF entity[c] = base[c] THEN row[c] ELSE entity[c]]

CommitRecord(h) ==
    LET entity == AfterRefund(handler[h].read, handler[h].body.amount) IN
    /\ handler[h].pc = "commit"
    /\ payment' = Written(payment, entity, handler[h].base)
    /\ refunds' = [refunds EXCEPT ![handler[h].refund].status = "issued"]
    /\ raced' = (raced \/ payment.refunded # handler[h].read.refunded)
    /\ handler' = [handler EXCEPT ![h].pc = "finalize", ![h].answer = "issued"]
    /\ UNCHANGED <<store, cancelled, event, paidOut, openedBy, answers,
                   requests, faults>>

\* The stored answer; a row that was purged meanwhile is not written.
Finalize(h) ==
    LET k == handler[h].key IN
    /\ handler[h].pc = "finalize"
    /\ store' = IF store[k].state = "absent" THEN store
                ELSE [store EXCEPT ![k].state = "done",
                                   ![k].refund = handler[h].refund,
                                   ![k].answer = handler[h].answer]
    /\ answers' = answers \cup {AnswerOf(h)}
    /\ Leave(h)
    /\ UNCHANGED <<payment, refunds, cancelled, event, paidOut, openedBy, raced,
                   requests, faults>>

\* The caller is told of the refund all the same; the key is freed.
FinalizeFails(h) ==
    /\ handler[h].pc = "finalize"
    /\ Fault
    /\ answers' = answers \cup {AnswerOf(h)}
    /\ Goto(h, "release")
    /\ UNCHANGED <<payment, refunds, store, cancelled, event, paidOut, openedBy,
                   raced, requests>>

\* release deletes the row only while it holds no answer.
Release(h) ==
    LET k == handler[h].key IN
    /\ handler[h].pc = "release"
    /\ store' = IF store[k].state = "pending" THEN [store EXCEPT ![k] = NoKey]
                ELSE store
    /\ Leave(h)
    /\ UNCHANGED <<payment, refunds, cancelled, event, outside, requests, faults>>

\* A query or the gateway throws, with or without having paid; the work ends
\* there and the key is freed.
Throw(h) ==
    /\ handler[h].pc \in {"read", "check", "pay", "record", "commit", "decline"}
    /\ Fault
    /\ \/ UNCHANGED paidOut
       \/ handler[h].pc = "pay" /\ paidOut' = paidOut \cup {handler[h].refund}
    /\ Goto(h, "release")
    /\ UNCHANGED <<payment, refunds, store, cancelled, event, openedBy, answers,
                   raced, requests>>

\* The process stops, or the release fails as well: the key stays reserved.
Die(h) ==
    /\ handler[h].pc # "idle"
    /\ Fault
    /\ \/ UNCHANGED paidOut
       \/ handler[h].pc = "pay" /\ paidOut' = paidOut \cup {handler[h].refund}
    /\ Leave(h)
    /\ UNCHANGED <<payment, refunds, store, cancelled, event, openedBy, answers,
                   raced, requests>>

-----------------------------------------------------------------------------
(* The other writers of these rows.                                        *)

\* deleteExpired drops keys past their lifetime of hours, in whatever state.
\* No request runs that long: the key of one under way is not expired.
Purge(k) ==
    /\ store[k].state # "absent"
    /\ \A h \in Handlers : handler[h].pc # "idle" => handler[h].key # k
    /\ store' = [store EXCEPT ![k] = NoKey]
    /\ UNCHANGED <<payment, refunds, handler, cancelled, event, outside,
                   requests, faults>>

\* Cancel Order locks the payment and flags it while it is captured.  The event
\* follows after the commit; a failure to publish it is only logged.
CancelOrder ==
    /\ ~ cancelled
    /\ cancelled' = TRUE
    /\ IF payment.status = "captured"
       THEN /\ payment' = [payment EXCEPT !.flagged = TRUE]
            /\ event' = TRUE
       ELSE UNCHANGED <<payment, event>>
    /\ UNCHANGED <<refunds, store, handler, outside, requests, faults>>

LoseEvent ==
    /\ event /\ Fault
    /\ event' = FALSE
    /\ UNCHANGED <<payment, refunds, store, handler, cancelled, outside, requests>>

-----------------------------------------------------------------------------
Step(h) ==
    \/ Reserve(h) \/ KeyTaken(h) \/ Replay(h) \/ Refuse(h)
    \/ ReadPayment(h) \/ AnswerDuplicate(h) \/ RefuseAmount(h) \/ OpenRefund(h)
    \/ GatewayPays(h) \/ GatewayDeclines(h) \/ RecordDecline(h)
    \/ OpenRecord(h) \/ CommitRecord(h)
    \/ Finalize(h) \/ FinalizeFails(h) \/ Release(h)
    \/ Throw(h) \/ Die(h)

Next ==
    \/ \E h \in Handlers : Request(h) \/ ConsumeCancelled(h) \/ Step(h)
    \/ \E k \in AllKeys : Purge(k)
    \/ CancelOrder
    \/ LoseEvent

Spec == Init /\ [][Next]_vars

-----------------------------------------------------------------------------
TypeOK ==
    /\ payment \in PaymentRow
    /\ refunds \in [RefundIds -> RefundRow]
    /\ store \in [AllKeys -> KeyRow]
    /\ handler \in [Handlers -> HandlerState]
    /\ cancelled \in BOOLEAN /\ event \in BOOLEAN /\ raced \in BOOLEAN
    /\ paidOut \subseteq RefundIds
    /\ openedBy \in [RefundIds -> AllKeys]
    /\ answers \subseteq Answer
    /\ requests \in 0 .. MaxRequests
    /\ faults \in 0 .. MaxFaults

Issued == {i \in RefundIds : refunds[i].status = "issued"}
\* The minor units of the issued refunds, and how many they are.
IssuedUnits == {u \in RefundIds \X (1 .. Amount) :
                   u[1] \in Issued /\ u[2] <= refunds[u[1]].body.amount}
IssuedAmount == Cardinality(IssuedUnits)

\* One key issues one refund for one body, whatever is retried after a lost
\* finalize, a dead request or a purge: the reservation keeps two executions
\* apart, and the look at the issued refunds covers what it forgets.
OneIssuePerKey ==
    \A i, j \in Issued :
        openedBy[i] = openedBy[j] /\ refunds[i].body = refunds[j].body => i = j

\* Once a caller was told that the refund is issued, a repeat of the request
\* is never told that it failed (README.md, replay of an Idempotency-Key).
IssuedAnswersStand ==
    [][\A new \in answers' \ answers, old \in answers :
           /\ new.key = old.key /\ new.body = old.body
           /\ old.status = "issued"
           => new.status = "issued"]_vars

\* The payment row and the refund rows tell the same sum, and never more than
\* was captured, as long as no refund was recorded over one it had not read;
\* even then the row claims no more than the refunds do.
RefundedMatchesIssued ==
    /\ payment.refunded <= IssuedAmount
    /\ ~ raced => /\ payment.refunded = IssuedAmount
                  /\ payment.status = "refunded" <=> payment.refunded = Amount

\* What the automatic refund of a cancelled order issues settles the payment:
\* nothing is left to refund, and the flag for manual attention is down.
AutoRefundSettles ==
    ~ raced /\ (\E i \in Issued : openedBy[i] = AutoKey)
        => payment.status = "refunded" /\ ~ payment.flagged

=============================================================================
