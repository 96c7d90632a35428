--------------------------- MODULE RefundsProofs ---------------------------
(***************************************************************************)
(* Refunds of a payment, for any number of executions, keys and amounts.   *)
(*                                                                         *)
(* IInv says what an execution may rely on while others run.  It alone     *)
(* holds its key, so no refund is issued and no answer given under that    *)
(* key but its own.  What it opened after looking at the issued refunds is *)
(* therefore still the only one of its kind when it is issued.  And as     *)
(* long as no refund was recorded over another one, the sum in the payment *)
(* row grows: whoever finds the sum it read finds the row it read.         *)
(***************************************************************************)
EXTENDS Refunds, FiniteSetTheorems, TLAPS

Held(h) == handler[h].pc \in {"read", "check", "pay", "record", "commit",
                              "decline", "finalize", "release"}
Opened(h) == handler[h].pc \in {"pay", "record", "commit", "decline"}

IsIssued(i) == refunds[i].status = "issued"
Backed(body) == \E i \in RefundIds : IsIssued(i) /\ refunds[i].body = body
NotYetIssued(k, body) ==
    \A a \in answers : a.key = k /\ a.body = body => a.status # "issued"

\* The reservation is the handler's own.
KeyInv(h) == Held(h) => /\ store[handler[h].key].state = "pending"
                        /\ store[handler[h].key].body = handler[h].body

\* A refund under way is still pending, and the first of its kind.
OpenedInv(h) ==
    Opened(h) =>
        /\ handler[h].refund \in RefundIds
        /\ refunds[handler[h].refund].status = "pending"
        /\ refunds[handler[h].refund].body = handler[h].body
        /\ openedBy[handler[h].refund] = handler[h].key
        /\ Refundable(handler[h].read, handler[h].body.amount)
        /\ \A i \in RefundIds : IsIssued(i) /\ openedBy[i] = handler[h].key
               => refunds[i].body # handler[h].body
        /\ NotYetIssued(handler[h].key, handler[h].body)

\* What an answer rests on, before it is given and when it is stored.
AnswerInv(k, body, refund, answer) ==
    /\ refund \in RefundIds
    /\ answer \in {"issued", "failed"}
    /\ answer = "issued" => Backed(body)
    /\ answer = "failed" => NotYetIssued(k, body)

FinalizeInv(h) ==
    handler[h].pc = "finalize" =>
        AnswerInv(handler[h].key, handler[h].body, handler[h].refund, handler[h].answer)

\* What the handler has read is not ahead of the row, and is the row if the
\* sum is the same.  The automatic refund asks for no less than what is left.
ReadInv(h) ==
    ~raced =>
        /\ handler[h].pc \in {"check", "pay", "record", "commit"} =>
               handler[h].read.refunded <= payment.refunded
        /\ handler[h].pc = "commit" /\ handler[h].read.refunded = payment.refunded =>
               /\ handler[h].base.refunded = payment.refunded
               /\ handler[h].base.status = payment.status
               /\ handler[h].key = AutoKey => handler[h].base.flagged = payment.flagged
        /\ handler[h].pc # "idle" /\ handler[h].key = AutoKey =>
               cancelled /\ Remainder(payment) <= handler[h].body.amount

HandlerInv(h) == KeyInv(h) /\ OpenedInv(h) /\ FinalizeInv(h) /\ ReadInv(h)

OneHolder ==
    \A g, h \in Handlers : Held(g) /\ Held(h) /\ handler[g].key = handler[h].key => g = h

StoreInv ==
    \A k \in AllKeys : store[k].state = "done" =>
        AnswerInv(k, store[k].body, store[k].refund, store[k].answer)

AnswersInv == \A a \in answers : a.status = "issued" => Backed(a.body)

RowInv ==
    /\ OneIssuePerKey
    /\ AutoRefundSettles
    /\ ~raced => (payment.status = "refunded" <=> payment.refunded = Amount)
    /\ event => cancelled

IInv ==
    /\ TypeOK
    /\ RowInv
    /\ StoreInv
    /\ AnswersInv
    /\ OneHolder
    /\ \A h \in Handlers : HandlerInv(h)

-----------------------------------------------------------------------------
(* Steps. *)

\* Issued refunds stay what they are.
IssuedStay ==
    \A i \in RefundIds : IsIssued(i) => /\ refunds'[i] = refunds[i]
                                        /\ openedBy'[i] = openedBy[i]

\* Unless a refund overtakes another one, the sum grows or the row stays,
\* except for the flag that Cancel Order sets.
PaymentStep ==
    /\ cancelled => cancelled'
    /\ ~raced' =>
           /\ ~raced
           /\ \/ payment'.refunded > payment.refunded
              \/ /\ payment'.refunded = payment.refunded
                 /\ payment'.status = payment.status
                 /\ cancelled => payment'.flagged = payment.flagged

\* The step is not the handler's and leaves alone what its key protects.
Undisturbed(g) ==
    /\ handler'[g] = handler[g]
    /\ Held(g) =>
           /\ store'[handler[g].key] = store[handler[g].key]
           /\ \A i \in RefundIds : IsIssued(i)' /\ ~IsIssued(i)
                  => openedBy'[i] # handler[g].key
           /\ \A a \in answers' \ answers : a.key # handler[g].key
    /\ Opened(g) =>
           /\ refunds'[handler[g].refund] = refunds[handler[g].refund]
           /\ openedBy'[handler[g].refund] = openedBy[handler[g].refund]

\* What an answer rests on stays.
LEMMA AnswerStays ==
    ASSUME TypeOK, IssuedStay, NEW k, NEW body, NEW refund, NEW answer,
           AnswerInv(k, body, refund, answer),
           \A a \in answers' \ answers : a.key = k => a.body # body \/ a.status # "issued"
    PROVE  AnswerInv(k, body, refund, answer)'
<1>1. Backed(body) => Backed(body)'
      BY DEF Backed, IssuedStay, IsIssued
<1>2. NotYetIssued(k, body) => NotYetIssued(k, body)'
      BY DEF NotYetIssued
<1> QED BY <1>1, <1>2 DEF AnswerInv

\* A handler that is not disturbed keeps its part of the invariant.
LEMMA BystanderKeeps ==
    ASSUME IInv, TypeOK', IssuedStay, PaymentStep, NEW g \in Handlers, Undisturbed(g)
    PROVE  HandlerInv(g)' /\ (Held(g)' <=> Held(g)) /\ handler'[g] = handler[g]
<1>1. /\ handler'[g] = handler[g] /\ handler[g] \in HandlerState
      /\ KeyInv(g) /\ OpenedInv(g) /\ FinalizeInv(g) /\ ReadInv(g)
      BY DEF Undisturbed, IInv, HandlerInv, TypeOK
<1>2. (Held(g)' <=> Held(g)) /\ (Opened(g)' <=> Opened(g)) /\ (Opened(g) => Held(g))
      BY <1>1 DEF Held, Opened
<1>3. KeyInv(g)'
      BY <1>1, <1>2 DEF KeyInv, Undisturbed
<1>4. OpenedInv(g)'
      <2> SUFFICES ASSUME Opened(g) PROVE OpenedInv(g)'
          BY <1>2 DEF OpenedInv
      <2>1. \A i \in RefundIds : IsIssued(i)' /\ openedBy'[i] = handler[g].key
               => refunds'[i].body # handler[g].body
            BY <1>1, <1>2 DEF OpenedInv, Undisturbed, IssuedStay
      <2>2. NotYetIssued(handler[g].key, handler[g].body)'
            BY <1>1, <1>2 DEF OpenedInv, Undisturbed, NotYetIssued
      <2> QED BY <1>1, <1>2, <2>1, <2>2 DEF OpenedInv, Undisturbed, Refundable, Remainder
<1>5. FinalizeInv(g)'
      BY <1>1, AnswerStays DEF FinalizeInv, Undisturbed, Held, IInv
<1>6. ReadInv(g)'
      <2>1. /\ payment.refunded \in Nat /\ payment'.refunded \in Nat
            /\ handler[g].read.refunded \in Nat /\ handler[g].body.amount \in Nat
            /\ Amount \in Nat
            BY <1>1, RefundAmounts DEF IInv, TypeOK, PaymentRow, HandlerState, Body
      <2> QED BY <1>1, <2>1 DEF ReadInv, PaymentStep, Remainder
<1> QED BY <1>1, <1>2, <1>3, <1>4, <1>5, <1>6 DEF HandlerInv

\* A step of h keeps the invariant if h and the rows keep their parts of it.
LEMMA StepKeepsIInv ==
    ASSUME IInv, NEW h \in Handlers, TypeOK', RowInv', StoreInv', AnswersInv',
           IssuedStay, PaymentStep, HandlerInv(h)',
           \A g \in Handlers \ {h} : Undisturbed(g),
           Held(h)' => \A g \in Handlers \ {h} :
                           Held(g) => handler[g].key # handler'[h].key
    PROVE  IInv'
<1>1. \A g \in Handlers \ {h} : /\ HandlerInv(g)' /\ (Held(g)' <=> Held(g))
                                /\ handler'[g] = handler[g]
      BY BystanderKeeps
<1>2. OneHolder'
      BY <1>1 DEF IInv, OneHolder
<1> QED BY <1>1, <1>2 DEF IInv

\* What it rests on is settled before; the rows stay as they are.
Quiet == UNCHANGED <<payment, refunds, store, openedBy, answers, raced, cancelled>>

\* The handler keeps the key it holds, or gives it up.
KeepsKey(h) == Held(h)' => Held(h) /\ handler'[h].key = handler[h].key

\* A step of h on its own side keeps the invariant if h keeps its part of it.
LEMMA MoveKeepsIInv ==
    ASSUME IInv, NEW h \in Handlers, Quiet, event' => cancelled,
           NEW s \in HandlerState, handler' = [handler EXCEPT ![h] = s],
           paidOut' \subseteq RefundIds, requests' \in 0 .. MaxRequests,
           faults' \in 0 .. MaxFaults, event' \in BOOLEAN,
           KeepsKey(h), HandlerInv(h)'
    PROVE  IInv'
<1>1. handler' \in [Handlers -> HandlerState]
      BY DEF IInv, TypeOK
<1>2. TypeOK'
      BY <1>1 DEF IInv, TypeOK, Quiet
<1>3. RowInv'
      BY DEF IInv, RowInv, Quiet, OneIssuePerKey, Issued, AutoRefundSettles
<1>4. StoreInv' /\ AnswersInv'
      BY DEF IInv, StoreInv, AnswersInv, AnswerInv, Backed, IsIssued, NotYetIssued, Quiet
<1>5. IssuedStay /\ PaymentStep
      BY DEF IssuedStay, PaymentStep, Quiet
<1>6. \A g \in Handlers \ {h} : Undisturbed(g)
      BY DEF Undisturbed, Quiet, IInv, TypeOK, IsIssued
<1>7. Held(h)' => \A g \in Handlers \ {h} : Held(g) => handler[g].key # handler'[h].key
      BY DEF KeepsKey, IInv, OneHolder
<1> QED BY <1>2, <1>3, <1>4, <1>5, <1>6, <1>7, StepKeepsIInv

\* An idle execution relies on nothing.
LEMMA IdleIsSound ==
    ASSUME NEW h \in Handlers, handler'[h] = Idle
    PROVE  HandlerInv(h)' /\ ~Held(h)'
BY DEF Idle, HandlerInv, KeyInv, OpenedInv, FinalizeInv, ReadInv, Held, Opened

LEMMA IdleIsTyped == Idle \in HandlerState
BY RefundAmounts, RefundBounds
   DEF Idle, HandlerState, AllKeys, NoBody, Body, CapturedPayment, PaymentRow

-----------------------------------------------------------------------------
(* The steps of an execution that touch no row. *)

\* A client's request, or that of the consumer, arrives.
LEMMA RequestKeepsIInv ==
    ASSUME IInv, NEW h \in Handlers, Request(h)
    PROVE  IInv'
<1>1. PICK k \in Keys, amount \in 1 .. Amount, reason \in Reasons :
         handler' = [handler EXCEPT ![h] = [Idle EXCEPT
                           !.pc = "reserve", !.key = k,
                           !.body = [amount |-> amount, reason |-> reason]]]
      BY DEF Request
<1> DEFINE s == [Idle EXCEPT !.pc = "reserve", !.key = k,
                             !.body = [amount |-> amount, reason |-> reason]]
<1>2. s \in HandlerState /\ s.pc = "reserve" /\ s.key = k
      BY IdleIsTyped DEF HandlerState, Idle, AllKeys, Body
<1>3. handler'[h] = s /\ handler' = [handler EXCEPT ![h] = s]
      BY <1>1 DEF IInv, TypeOK
<1> HIDE DEF s
<1>4. k # AutoKey
      BY RefundKeys
<1>5. HandlerInv(h)' /\ ~Held(h)'
      BY <1>2, <1>3, <1>4
         DEF HandlerInv, KeyInv, OpenedInv, FinalizeInv, ReadInv, Held, Opened
<1>6. /\ Quiet /\ event' = event /\ paidOut' = paidOut /\ faults' = faults
      /\ requests' \in 0 .. MaxRequests
      BY RefundBounds DEF Request, Quiet, outside, IInv, TypeOK
<1> QED BY <1>2, <1>3, <1>5, <1>6, MoveKeepsIInv DEF IInv, TypeOK, RowInv, KeepsKey

LEMMA ConsumeKeepsIInv ==
    ASSUME IInv, NEW h \in Handlers, ConsumeCancelled(h)
    PROVE  IInv'
<1>1. /\ Quiet /\ event' = FALSE /\ paidOut' = paidOut /\ faults' = faults
      /\ requests' \in 0 .. MaxRequests /\ handler[h].pc = "idle"
      /\ cancelled
      BY RefundBounds DEF ConsumeCancelled, Quiet, outside, IInv, TypeOK, RowInv
<1>2. CASE Remainder(payment) > 0
      <2> DEFINE body == [amount |-> Remainder(payment), reason |-> OrderCancelled]
                 s == [Idle EXCEPT !.pc = "reserve", !.key = AutoKey, !.body = body]
      <2>1. payment.refunded \in 0 .. Amount
            BY DEF IInv, TypeOK, PaymentRow
      <2>2. body \in Body
            BY <1>2, <2>1, RefundAmounts DEF Body, Remainder
      <2>3. s \in HandlerState /\ s.pc = "reserve" /\ s.body.amount = Remainder(payment)
            BY <2>2, IdleIsTyped DEF HandlerState, Idle, AllKeys
      <2>4. handler'[h] = s /\ handler' = [handler EXCEPT ![h] = s]
            BY <1>2 DEF ConsumeCancelled, IInv, TypeOK
      <2> HIDE DEF s
      <2>5. Remainder(payment)' = Remainder(payment) /\ Remainder(payment) \in Int
            BY <1>1, <2>1, RefundAmounts DEF Quiet, Remainder
      <2>6. HandlerInv(h)' /\ ~Held(h)'
            BY <1>1, <2>3, <2>4, <2>5
               DEF HandlerInv, KeyInv, OpenedInv, FinalizeInv, ReadInv, Held, Opened, Quiet
      <2> QED BY <1>1, <2>3, <2>4, <2>6, MoveKeepsIInv DEF IInv, TypeOK, KeepsKey
<1>3. CASE ~(Remainder(payment) > 0)
      <2>1. handler' = handler
            BY <1>3 DEF ConsumeCancelled
      <2>2. handler' = [handler EXCEPT ![h] = handler[h]] /\ handler[h] \in HandlerState
            BY <2>1 DEF IInv, TypeOK
      <2>3. HandlerInv(h)' /\ ~Held(h)'
            BY <1>1, <2>1
               DEF HandlerInv, KeyInv, OpenedInv, FinalizeInv, ReadInv, Held, Opened
      <2> QED BY <1>1, <2>2, <2>3, MoveKeepsIInv DEF IInv, TypeOK, KeepsKey
<1> QED BY <1>2, <1>3

\* The execution ends without an answer.
LEMMA LeaveKeepsIInv ==
    ASSUME IInv, NEW h \in Handlers, Leave(h), Quiet, UNCHANGED <<event, requests>>,
           paidOut' \subseteq RefundIds, faults' \in 0 .. MaxFaults
    PROVE  IInv'
<1>1. handler' = [handler EXCEPT ![h] = Idle] /\ handler'[h] = Idle
      BY DEF Leave, IInv, TypeOK
<1> QED BY <1>1, IdleIsSound, IdleIsTyped, MoveKeepsIInv
        DEF IInv, TypeOK, RowInv, KeepsKey

\* The execution moves on to a point where it relies on no more than before.
LEMMA GotoKeepsIInv ==
    ASSUME IInv, NEW h \in Handlers, NEW label, Goto(h, label), Quiet,
           UNCHANGED <<event, requests>>,
           paidOut' \subseteq RefundIds, faults' \in 0 .. MaxFaults,
           \/ handler[h].pc = "reserve" /\ label = "reread"
           \/ Held(h) /\ label = "release"
           \/ handler[h].pc = "pay" /\ label \in {"record", "decline"}
    PROVE  IInv'
<1> DEFINE s == [handler[h] EXCEPT !.pc = label]
<1>1. handler[h] \in HandlerState /\ handler[h].pc # "idle"
      BY DEF IInv, TypeOK, Held
<1>2. handler' = [handler EXCEPT ![h] = s] /\ handler'[h] = s
      BY DEF Goto, IInv, TypeOK
<1>3. /\ s \in HandlerState /\ s.pc = label /\ s.key = handler[h].key
      /\ s.body = handler[h].body /\ s.read = handler[h].read
      /\ s.refund = handler[h].refund
      BY <1>1 DEF HandlerState
<1> HIDE DEF s
<1>4. KeyInv(h) /\ OpenedInv(h) /\ ReadInv(h)
      BY DEF IInv, HandlerInv
<1>5. KeepsKey(h) /\ KeyInv(h)'
      BY <1>2, <1>3, <1>4 DEF KeepsKey, KeyInv, Held, Quiet
<1>6. OpenedInv(h)'
      BY <1>2, <1>3, <1>4 DEF OpenedInv, Opened, Quiet, Refundable, Remainder, IsIssued,
                              NotYetIssued
<1>7. FinalizeInv(h)' /\ ReadInv(h)'
      BY <1>1, <1>2, <1>3, <1>4 DEF FinalizeInv, ReadInv, Quiet, Remainder
<1>8. HandlerInv(h)'
      BY <1>5, <1>6, <1>7 DEF HandlerInv
<1> QED BY <1>2, <1>3, <1>5, <1>8, MoveKeepsIInv DEF IInv, TypeOK, RowInv

\* The payment is read without a lock.
LEMMA ReadPaymentKeepsIInv ==
    ASSUME IInv, NEW h \in Handlers, ReadPayment(h)
    PROVE  IInv'
<1> DEFINE r == [handler[h] EXCEPT !.read = payment]
           s == [r EXCEPT !.pc = "check"]
<1>1. handler[h] \in HandlerState /\ handler[h].pc = "read" /\ payment \in PaymentRow
      BY DEF IInv, TypeOK, ReadPayment
<1>2. r \in HandlerState /\ r.read = payment /\ r.key = handler[h].key /\ r.body = handler[h].body
      BY <1>1 DEF HandlerState
<1>3. s = [handler[h] EXCEPT !.pc = "check", !.read = payment]
      BY <1>1 DEF HandlerState
<1>4. handler' = [handler EXCEPT ![h] = s] /\ handler'[h] = s
      BY <1>3 DEF ReadPayment, IInv, TypeOK
<1> HIDE DEF r
<1>5. /\ s \in HandlerState /\ s.read = payment /\ s.pc = "check"
      /\ s.key = handler[h].key /\ s.body = handler[h].body
      BY <1>2 DEF HandlerState
<1> HIDE DEF s
<1>6. Quiet /\ UNCHANGED <<event, requests, paidOut, faults>>
      BY DEF ReadPayment, Quiet, outside
<1>7. KeepsKey(h) /\ KeyInv(h)'
      BY <1>1, <1>4, <1>5, <1>6 DEF KeepsKey, KeyInv, Held, Quiet, IInv, HandlerInv
<1>8. ReadInv(h)'
      <2>1. payment.refunded \in Nat
            BY <1>1, RefundAmounts DEF PaymentRow
      <2> QED BY <1>1, <1>4, <1>5, <1>6, <2>1 DEF ReadInv, Quiet, Remainder, IInv, HandlerInv
<1>9. HandlerInv(h)'
      BY <1>4, <1>5, <1>7, <1>8 DEF HandlerInv, OpenedInv, FinalizeInv, Opened
<1> QED BY <1>4, <1>5, <1>6, <1>7, <1>9, MoveKeepsIInv DEF IInv, TypeOK, RowInv

\* The transaction that records the refund opens: save reads the row again.
LEMMA OpenRecordKeepsIInv ==
    ASSUME IInv, NEW h \in Handlers, OpenRecord(h)
    PROVE  IInv'
<1> DEFINE r == [handler[h] EXCEPT !.base = payment]
           s == [r EXCEPT !.pc = "commit"]
<1>1. handler[h] \in HandlerState /\ handler[h].pc = "record" /\ payment \in PaymentRow
      BY DEF IInv, TypeOK, OpenRecord
<1>2. /\ r \in HandlerState /\ r.base = payment /\ r.read = handler[h].read
      /\ r.key = handler[h].key /\ r.body = handler[h].body /\ r.refund = handler[h].refund
      BY <1>1 DEF HandlerState
<1>3. s = [handler[h] EXCEPT !.pc = "commit", !.base = payment]
      BY <1>1 DEF HandlerState
<1>4. handler' = [handler EXCEPT ![h] = s] /\ handler'[h] = s
      BY <1>3 DEF OpenRecord, IInv, TypeOK
<1> HIDE DEF r
<1>5. /\ s \in HandlerState /\ s.base = payment /\ s.pc = "commit"
      /\ s.read = handler[h].read /\ s.key = handler[h].key /\ s.body = handler[h].body
      /\ s.refund = handler[h].refund
      BY <1>2 DEF HandlerState
<1> HIDE DEF s
<1>6. Quiet /\ UNCHANGED <<event, requests, paidOut, faults>>
      BY DEF OpenRecord, Quiet, outside
<1>7. KeyInv(h) /\ OpenedInv(h) /\ ReadInv(h)
      BY DEF IInv, HandlerInv
<1>8. KeepsKey(h) /\ KeyInv(h)'
      BY <1>1, <1>4, <1>5, <1>6, <1>7 DEF KeepsKey, KeyInv, Held, Quiet
<1>9. OpenedInv(h)'
      BY <1>1, <1>4, <1>5, <1>6, <1>7 DEF OpenedInv, Opened, Quiet, Refundable, Remainder,
                                          IsIssued, NotYetIssued
<1>10. FinalizeInv(h)' /\ ReadInv(h)'
      BY <1>1, <1>4, <1>5, <1>6, <1>7 DEF FinalizeInv, ReadInv, Quiet, Remainder
<1>11. HandlerInv(h)'
      BY <1>8, <1>9, <1>10 DEF HandlerInv
<1> QED BY <1>4, <1>5, <1>6, <1>8, <1>11, MoveKeepsIInv DEF IInv, TypeOK, RowInv

\* A refund like this one was issued before and becomes the answer.
LEMMA AnswerDuplicateKeepsIInv ==
    ASSUME IInv, NEW h \in Handlers, AnswerDuplicate(h)
    PROVE  IInv'
<1>1. PICK i \in IssuedDuplicates(handler[h].body) :
         handler' = [handler EXCEPT ![h].pc = "finalize", ![h].refund = i,
                                    ![h].answer = "issued"]
      BY DEF AnswerDuplicate
<1> DEFINE q == [handler[h] EXCEPT !.answer = "issued"]
           r == [q EXCEPT !.refund = i]
           s == [r EXCEPT !.pc = "finalize"]
<1>2. /\ handler[h] \in HandlerState /\ handler[h].pc = "check" /\ i \in RefundIds
      /\ i \in 0 .. MaxRequests
      BY RefundBounds DEF IInv, TypeOK, AnswerDuplicate, IssuedDuplicates, RefundIds
<1>3. s = [handler[h] EXCEPT !.pc = "finalize", !.refund = i, !.answer = "issued"]
      BY <1>2 DEF HandlerState
<1>4. handler' = [handler EXCEPT ![h] = s] /\ handler'[h] = s
      BY <1>1, <1>3 DEF IInv, TypeOK
<1>5. /\ q \in HandlerState /\ q.answer = "issued"
      /\ q.key = handler[h].key /\ q.body = handler[h].body
      BY <1>2 DEF HandlerState
<1> HIDE DEF q
<1>6. /\ r \in HandlerState /\ r.answer = "issued" /\ r.refund = i
      /\ r.key = handler[h].key /\ r.body = handler[h].body
      BY <1>2, <1>5 DEF HandlerState
<1> HIDE DEF r
<1>7. /\ s \in HandlerState /\ s.answer = "issued" /\ s.refund = i /\ s.pc = "finalize"
      /\ s.key = handler[h].key /\ s.body = handler[h].body
      BY <1>6 DEF HandlerState
<1> HIDE DEF s
<1>8. Quiet /\ UNCHANGED <<event, requests, paidOut, faults>>
      BY DEF AnswerDuplicate, Quiet, outside
<1>9. KeepsKey(h) /\ KeyInv(h)'
      BY <1>2, <1>4, <1>7, <1>8 DEF KeepsKey, KeyInv, Held, Quiet, IInv, HandlerInv
<1>10. Backed(handler[h].body)'
      BY <1>2, <1>4, <1>7, <1>8 DEF Backed, IsIssued, Quiet, IssuedDuplicates
<1>11. FinalizeInv(h)'
      BY <1>2, <1>4, <1>7, <1>10 DEF FinalizeInv, AnswerInv
<1>12. ReadInv(h)'
      BY <1>2, <1>4, <1>7, <1>8 DEF ReadInv, Quiet, Remainder, IInv, HandlerInv
<1>13. HandlerInv(h)'
      BY <1>4, <1>7, <1>9, <1>11, <1>12 DEF HandlerInv, OpenedInv, Opened
<1> QED BY <1>4, <1>7, <1>8, <1>9, <1>13, MoveKeepsIInv DEF IInv, TypeOK, RowInv

-----------------------------------------------------------------------------
(* The steps that write a row. *)

\* A key is free only while nobody holds it.
LEMMA ReserveKeepsIInv ==
    ASSUME IInv, NEW h \in Handlers, Reserve(h)
    PROVE  IInv'
<1> DEFINE k == handler[h].key
           s == [handler[h] EXCEPT !.pc = "read"]
           free == [NoKey EXCEPT !.body = handler[h].body]
           row == [free EXCEPT !.state = "pending"]
<1>1. /\ handler[h] \in HandlerState /\ handler[h].pc = "reserve"
      /\ k \in AllKeys /\ store[k].state = "absent"
      BY DEF IInv, TypeOK, Reserve, Free, HandlerState
<1>2. handler' = [handler EXCEPT ![h] = s] /\ handler'[h] = s
      BY DEF Reserve, Goto, IInv, TypeOK
<1>3. s \in HandlerState /\ s.pc = "read" /\ s.key = k /\ s.body = handler[h].body
      BY <1>1 DEF HandlerState
<1> HIDE DEF s
<1>4. row \in KeyRow /\ row.state = "pending" /\ row.body = handler[h].body
      <2>1. handler[h].body \in Body /\ NoKey \in KeyRow
            BY <1>1, RefundAmounts DEF HandlerState, KeyRow, NoKey, NoBody, Body
      <2>2. free \in KeyRow /\ free.body = handler[h].body
            BY <2>1 DEF KeyRow
      <2> HIDE DEF free
      <2> QED BY <2>2 DEF KeyRow
<1>5. store' = [store EXCEPT ![k] = row] /\ store'[k] = row
      <2>1. NoKey \in KeyRow
            BY RefundAmounts DEF KeyRow, NoKey, NoBody, Body
      <2>2. row = [NoKey EXCEPT !.state = "pending", !.body = handler[h].body]
            BY <2>1 DEF KeyRow
      <2> HIDE DEF row
      <2> QED BY <1>1, <2>2 DEF Reserve, IInv, TypeOK
<1> HIDE DEF row
<1>6. UNCHANGED <<payment, refunds, cancelled, event, paidOut, openedBy, answers,
                  raced, requests, faults>>
      BY DEF Reserve, outside
<1>7. TypeOK'
      BY <1>2, <1>3, <1>4, <1>5, <1>6 DEF IInv, TypeOK
<1>8. RowInv'
      BY <1>6 DEF IInv, RowInv, OneIssuePerKey, Issued, AutoRefundSettles
<1>9. StoreInv' /\ AnswersInv'
      <2>1. \A j \in AllKeys : j # k => store'[j] = store[j]
            BY <1>5 DEF IInv, TypeOK
      <2> QED BY <1>4, <1>5, <1>6, <2>1 DEF IInv, StoreInv, AnswersInv, AnswerInv, Backed,
                                            IsIssued, NotYetIssued
<1>10. IssuedStay /\ PaymentStep
      BY <1>6 DEF IssuedStay, PaymentStep
<1>11. \A g \in Handlers : Held(g) => handler[g].key # k
      BY <1>1 DEF IInv, HandlerInv, KeyInv
<1>12. \A g \in Handlers \ {h} : Undisturbed(g)
      BY <1>2, <1>5, <1>6, <1>11 DEF Undisturbed, IInv, TypeOK, HandlerState, IsIssued
<1>13. HandlerInv(h)'
      <2>1. KeyInv(h)' /\ OpenedInv(h)' /\ FinalizeInv(h)'
            BY <1>2, <1>3, <1>4, <1>5 DEF KeyInv, OpenedInv, FinalizeInv, Opened
      <2>2. ReadInv(h)'
            BY <1>1, <1>2, <1>3, <1>6 DEF ReadInv, IInv, HandlerInv, Remainder
      <2> QED BY <2>1, <2>2 DEF HandlerInv
<1> QED BY <1>2, <1>3, <1>7, <1>8, <1>9, <1>10, <1>11, <1>12, <1>13, StepKeepsIInv

\* A stored answer is repeated; nobody holds the key of a stored answer.
LEMMA ReplayKeepsIInv ==
    ASSUME IInv, NEW h \in Handlers, Replay(h)
    PROVE  IInv'
<1> DEFINE k == handler[h].key
           a == [key |-> k, body |-> store[k].body, refund |-> store[k].refund,
                 status |-> store[k].answer]
<1>1. /\ handler[h] \in HandlerState /\ handler[h].pc = "reread"
      /\ k \in AllKeys /\ store[k].state = "done" /\ store[k] \in KeyRow
      BY DEF IInv, TypeOK, Replay, Replayable, HandlerState
<1>2. AnswerInv(k, store[k].body, store[k].refund, store[k].answer)
      BY <1>1 DEF IInv, StoreInv
<1>3. /\ a \in Answer /\ a.key = k /\ a.body = store[k].body /\ a.status = store[k].answer
      BY <1>1, <1>2 DEF AnswerInv, Answer, KeyRow
<1>4. answers' = answers \cup {a}
      BY DEF Replay
<1> HIDE DEF a
<1>5. handler' = [handler EXCEPT ![h] = Idle] /\ handler'[h] = Idle
      BY DEF Replay, Leave, IInv, TypeOK
<1>6. UNCHANGED <<payment, refunds, store, cancelled, event, paidOut, openedBy,
                  raced, requests, faults>>
      BY DEF Replay
<1>7. TypeOK'
      BY <1>3, <1>4, <1>5, <1>6, IdleIsTyped DEF IInv, TypeOK
<1>8. RowInv'
      BY <1>6 DEF IInv, RowInv, OneIssuePerKey, Issued, AutoRefundSettles
<1>9. IssuedStay /\ PaymentStep
      BY <1>6 DEF IssuedStay, PaymentStep
<1>10. AnswersInv'
      BY <1>2, <1>3, <1>4, <1>6 DEF IInv, AnswersInv, AnswerInv, Backed, IsIssued
<1>11. StoreInv'
      <2> SUFFICES ASSUME NEW j \in AllKeys, store[j].state = "done"
                   PROVE  AnswerInv(j, store[j].body, store[j].refund, store[j].answer)'
          BY <1>6 DEF StoreInv
      <2>1. AnswerInv(j, store[j].body, store[j].refund, store[j].answer)
            BY DEF IInv, StoreInv
      <2>2. Backed(store[j].body) => Backed(store[j].body)'
            BY <1>6 DEF Backed, IsIssued
      <2>3. store[j].answer = "failed" => NotYetIssued(j, store[j].body)'
            BY <1>3, <1>4, <1>6, <2>1 DEF NotYetIssued, AnswerInv
      <2> QED BY <1>6, <2>1, <2>2, <2>3 DEF AnswerInv
<1>12. \A g \in Handlers : Held(g) => handler[g].key # k
      BY <1>1 DEF IInv, HandlerInv, KeyInv
<1>13. \A g \in Handlers \ {h} : Undisturbed(g)
      BY <1>3, <1>4, <1>5, <1>6, <1>12 DEF Undisturbed, IInv, TypeOK, IsIssued
<1> QED BY <1>5, <1>7, <1>8, <1>9, <1>10, <1>11, <1>13, IdleIsSound, StepKeepsIInv

\* A refund is opened: no refund like it is issued, under whatever key, and so
\* nobody was told of one.
LEMMA OpenRefundKeepsIInv ==
    ASSUME IInv, NEW h \in Handlers, OpenRefund(h)
    PROVE  IInv'
<1>1. PICK i \in RefundIds :
         /\ NextId(i)
         /\ refunds' = [refunds EXCEPT ![i] = [status |-> "pending",
                                               body |-> handler[h].body]]
         /\ openedBy' = [openedBy EXCEPT ![i] = handler[h].key]
         /\ handler' = [handler EXCEPT ![h].pc = "pay", ![h].refund = i]
      BY DEF OpenRefund
<1> DEFINE r == [handler[h] EXCEPT !.refund = i]
           s == [r EXCEPT !.pc = "pay"]
           row == [status |-> "pending", body |-> handler[h].body]
<1>2. /\ handler[h] \in HandlerState /\ handler[h].pc = "check"
      /\ i \in 0 .. MaxRequests /\ refunds[i].status = "none"
      /\ IssuedDuplicates(handler[h].body) = {}
      /\ Refundable(handler[h].read, handler[h].body.amount)
      BY <1>1, RefundBounds DEF IInv, TypeOK, OpenRefund, NextId, RefundIds
<1>3. s = [handler[h] EXCEPT !.pc = "pay", !.refund = i]
      BY <1>2 DEF HandlerState
<1>4. handler' = [handler EXCEPT ![h] = s] /\ handler'[h] = s
      BY <1>1, <1>3 DEF IInv, TypeOK
<1>5. /\ r \in HandlerState /\ r.refund = i /\ r.read = handler[h].read
      /\ r.key = handler[h].key /\ r.body = handler[h].body
      BY <1>2 DEF HandlerState
<1> HIDE DEF r
<1>6. /\ s \in HandlerState /\ s.refund = i /\ s.pc = "pay" /\ s.read = handler[h].read
      /\ s.key = handler[h].key /\ s.body = handler[h].body
      BY <1>5 DEF HandlerState
<1> HIDE DEF s
<1>7. /\ row \in RefundRow /\ row.status = "pending" /\ row.body = handler[h].body
      BY <1>2 DEF RefundRow, HandlerState
<1> HIDE DEF row
<1>8. /\ refunds' = [refunds EXCEPT ![i] = row] /\ refunds'[i] = row
      /\ openedBy'[i] = handler[h].key /\ handler[h].key \in AllKeys
      /\ \A j \in RefundIds : j # i => refunds'[j] = refunds[j] /\ openedBy'[j] = openedBy[j]
      BY <1>1, <1>2 DEF IInv, TypeOK, row, HandlerState
<1>9. UNCHANGED <<payment, store, cancelled, event, paidOut, answers, raced,
                  requests, faults>>
      BY DEF OpenRefund
<1>10. TypeOK'
      BY <1>1, <1>4, <1>6, <1>7, <1>8, <1>9 DEF IInv, TypeOK
<1>11. \A j \in RefundIds : /\ IsIssued(j)' <=> IsIssued(j)
                            /\ IsIssued(j) => j # i
      BY <1>2, <1>7, <1>8 DEF IsIssued
<1>12. RowInv'
      BY <1>8, <1>9, <1>11 DEF IInv, RowInv, OneIssuePerKey, Issued, AutoRefundSettles, IsIssued
<1>13. IssuedStay /\ PaymentStep
      BY <1>8, <1>9, <1>11 DEF IssuedStay, PaymentStep
<1>14. \A body : Backed(body)' <=> Backed(body)
      BY <1>8, <1>11 DEF Backed
<1>15. StoreInv' /\ AnswersInv'
      BY <1>9, <1>14 DEF IInv, StoreInv, AnswersInv, AnswerInv, NotYetIssued
<1>16. \A g \in Handlers \ {h} : Undisturbed(g)
      <2> SUFFICES ASSUME NEW g \in Handlers \ {h} PROVE Undisturbed(g)
          OBVIOUS
      <2>1. handler'[g] = handler[g]
            BY <1>4 DEF IInv, TypeOK
      <2>2. OpenedInv(g)
            BY DEF IInv, HandlerInv
      <2> QED BY <1>2, <1>8, <1>9, <1>11, <2>1, <2>2 DEF Undisturbed, OpenedInv
<1>17. KeyInv(h)'
      BY <1>2, <1>4, <1>6, <1>9 DEF KeyInv, Held, IInv, HandlerInv
<1>18. OpenedInv(h)'
      <2>1. ~Backed(handler[h].body)
            BY <1>2 DEF Backed, IsIssued, IssuedDuplicates
      <2>2. NotYetIssued(handler[h].key, handler[h].body)
            BY <2>1 DEF NotYetIssued, IInv, AnswersInv
      <2> QED BY <1>2, <1>4, <1>6, <1>7, <1>8, <1>9, <1>11, <2>1, <2>2
              DEF OpenedInv, Backed, NotYetIssued, Refundable, Remainder
<1>19. ReadInv(h)' /\ FinalizeInv(h)'
      BY <1>2, <1>4, <1>6, <1>9 DEF ReadInv, FinalizeInv, IInv, HandlerInv, Remainder
<1>20. HandlerInv(h)'
      BY <1>17, <1>18, <1>19 DEF HandlerInv
<1>21. Held(h)' => \A g \in Handlers \ {h} : Held(g) => handler[g].key # handler'[h].key
      BY <1>2, <1>4, <1>6 DEF Held, IInv, OneHolder
<1> QED BY <1>10, <1>12, <1>13, <1>15, <1>16, <1>20, <1>21, StepKeepsIInv

\* A declined refund is failed; nothing else changes.
LEMMA RecordDeclineKeepsIInv ==
    ASSUME IInv, NEW h \in Handlers, RecordDecline(h)
    PROVE  IInv'
<1> DEFINE i == handler[h].refund
           r == [handler[h] EXCEPT !.answer = "failed"]
           s == [r EXCEPT !.pc = "finalize"]
           row == [refunds[i] EXCEPT !.status = "failed"]
<1>1. /\ handler[h] \in HandlerState /\ handler[h].pc = "decline"
      /\ KeyInv(h) /\ OpenedInv(h) /\ ReadInv(h)
      BY DEF IInv, TypeOK, RecordDecline, HandlerInv
<1>2. /\ i \in RefundIds /\ refunds[i] \in RefundRow /\ refunds[i].status = "pending"
      /\ openedBy[i] = handler[h].key /\ NotYetIssued(handler[h].key, handler[h].body)
      BY <1>1 DEF OpenedInv, Opened, IInv, TypeOK
<1>3. s = [handler[h] EXCEPT !.pc = "finalize", !.answer = "failed"]
      BY <1>1 DEF HandlerState
<1>4. handler' = [handler EXCEPT ![h] = s] /\ handler'[h] = s
      BY <1>3 DEF RecordDecline, IInv, TypeOK
<1>5. /\ r \in HandlerState /\ r.answer = "failed" /\ r.refund = i
      /\ r.key = handler[h].key /\ r.body = handler[h].body
      BY <1>1 DEF HandlerState
<1> HIDE DEF r
<1>6. /\ s \in HandlerState /\ s.answer = "failed" /\ s.refund = i /\ s.pc = "finalize"
      /\ s.key = handler[h].key /\ s.body = handler[h].body
      BY <1>5 DEF HandlerState
<1> HIDE DEF s
<1>7. row \in RefundRow /\ row.status = "failed"
      BY <1>2 DEF RefundRow
<1>8. /\ refunds' = [refunds EXCEPT ![i] = row] /\ refunds'[i] = row
      /\ \A j \in RefundIds : j # i => refunds'[j] = refunds[j]
      BY <1>2 DEF RecordDecline, IInv, TypeOK
<1> HIDE DEF row
<1>9. UNCHANGED <<payment, store, cancelled, event, paidOut, openedBy, answers, raced,
                  requests, faults>>
      BY DEF RecordDecline, outside
<1>10. TypeOK'
      BY <1>4, <1>6, <1>7, <1>8, <1>9 DEF IInv, TypeOK
<1>11. \A j \in RefundIds : /\ IsIssued(j)' <=> IsIssued(j)
                            /\ IsIssued(j) => refunds'[j] = refunds[j]
      BY <1>2, <1>7, <1>8 DEF IsIssued
<1>12. RowInv'
      BY <1>9, <1>11 DEF IInv, RowInv, OneIssuePerKey, Issued, AutoRefundSettles, IsIssued
<1>13. IssuedStay /\ PaymentStep
      BY <1>9, <1>11 DEF IssuedStay, PaymentStep
<1>14. \A body : Backed(body)' <=> Backed(body)
      BY <1>11 DEF Backed
<1>15. StoreInv' /\ AnswersInv'
      BY <1>9, <1>14 DEF IInv, StoreInv, AnswersInv, AnswerInv, NotYetIssued
<1>16. \A g \in Handlers \ {h} : Undisturbed(g)
      <2> SUFFICES ASSUME NEW g \in Handlers \ {h} PROVE Undisturbed(g)
          OBVIOUS
      <2>1. handler'[g] = handler[g] /\ OpenedInv(g)
            BY <1>4 DEF IInv, TypeOK, HandlerInv
      <2>2. Held(g) => handler[g].key # handler[h].key
            BY <1>1 DEF IInv, OneHolder, Held
      <2> QED BY <1>2, <1>8, <1>9, <1>11, <2>1, <2>2 DEF Undisturbed, OpenedInv, Opened, Held
<1>17. KeyInv(h)' /\ FinalizeInv(h)'
      BY <1>1, <1>2, <1>4, <1>6, <1>9 DEF KeyInv, FinalizeInv, Held, AnswerInv, NotYetIssued
<1>18. ReadInv(h)'
      BY <1>1, <1>4, <1>6, <1>9 DEF ReadInv, Remainder
<1>19. HandlerInv(h)'
      BY <1>4, <1>6, <1>17, <1>18 DEF HandlerInv, OpenedInv, Opened
<1>20. Held(h)' => \A g \in Handlers \ {h} : Held(g) => handler[g].key # handler'[h].key
      BY <1>1, <1>4, <1>6 DEF Held, IInv, OneHolder
<1> QED BY <1>10, <1>12, <1>13, <1>15, <1>16, <1>19, <1>20, StepKeepsIInv

\* The three columns of the payment row, one by one.
LEMMA WrittenColumns ==
    ASSUME NEW row \in PaymentRow, NEW entity \in PaymentRow, NEW base \in PaymentRow
    PROVE  LET written == Written(row, entity, base) IN
           /\ written \in PaymentRow
           /\ written.status = IF entity.status = base.status THEN row.status
                               ELSE entity.status
           /\ written.refunded = IF entity.refunded = base.refunded THEN row.refunded
                                 ELSE entity.refunded
           /\ written.flagged = IF entity.flagged = base.flagged THEN row.flagged
                                ELSE entity.flagged
<1> DEFINE written == Written(row, entity, base)
<1>1. DOMAIN row = {"status", "refunded", "flagged"}
      BY DEF PaymentRow
<1>2. written.status = IF entity.status = base.status THEN row.status ELSE entity.status
      BY <1>1 DEF Written
<1>3. written.refunded = IF entity.refunded = base.refunded THEN row.refunded
                         ELSE entity.refunded
      BY <1>1 DEF Written
<1>4. written.flagged = IF entity.flagged = base.flagged THEN row.flagged
                        ELSE entity.flagged
      BY <1>1 DEF Written
<1>5. written = [status |-> written.status, refunded |-> written.refunded,
                 flagged |-> written.flagged]
      BY <1>1 DEF Written
<1> HIDE DEF written
<1>6. written \in PaymentRow
      BY <1>2, <1>3, <1>4, <1>5 DEF PaymentRow
<1> QED BY <1>2, <1>3, <1>4, <1>6 DEF written

LEMMA AfterRefundColumns ==
    ASSUME NEW row \in PaymentRow, NEW amount \in 1 .. Amount, Refundable(row, amount)
    PROVE  LET after == AfterRefund(row, amount) IN
           /\ after \in PaymentRow
           /\ after.refunded = row.refunded + amount
           /\ IF row.refunded + amount = Amount
              THEN after.status = "refunded" /\ after.flagged = FALSE
              ELSE after.status = row.status /\ after.flagged = row.flagged
<1>1. row.refunded + amount \in 0 .. Amount /\ row.refunded \in 0 .. Amount
      BY RefundAmounts DEF Refundable, Remainder, PaymentRow
<1> QED BY <1>1 DEF AfterRefund, PaymentRow

\* A refund that is recorded over the row it read adds its amount.  One for all
\* that is left settles the payment; the automatic one is for all that is left.
LEMMA RecordedPayment ==
    ASSUME IInv, NEW h \in Handlers, CommitRecord(h)
    PROVE  /\ payment' \in PaymentRow
           /\ payment'.refunded \in {payment.refunded,
                                     handler[h].read.refunded + handler[h].body.amount}
           /\ ~raced' => /\ ~raced
                         /\ payment.status = "captured"
                         /\ payment'.refunded = payment.refunded + handler[h].body.amount
                         /\ payment'.refunded > payment.refunded
                         /\ payment'.status = "refunded" <=> payment'.refunded = Amount
                         /\ handler[h].key = AutoKey =>
                                payment'.status = "refunded" /\ ~payment'.flagged
<1> DEFINE read == handler[h].read
           base == handler[h].base
           amount == handler[h].body.amount
           entity == AfterRefund(read, amount)
<1>1. /\ handler[h] \in HandlerState /\ handler[h].pc = "commit"
      /\ OpenedInv(h) /\ ReadInv(h) /\ RowInv
      BY DEF IInv, TypeOK, CommitRecord, HandlerInv
<1>2. /\ read \in PaymentRow /\ base \in PaymentRow /\ payment \in PaymentRow
      /\ amount \in 1 .. Amount
      BY <1>1 DEF HandlerState, Body, IInv, TypeOK
<1>3. Refundable(read, amount)
      BY <1>1 DEF OpenedInv, Opened
<1>4. payment' = Written(payment, entity, base)
      BY DEF CommitRecord
<1>5. /\ entity \in PaymentRow
      /\ entity.refunded = read.refunded + amount
      /\ IF read.refunded + amount = Amount
         THEN entity.status = "refunded" /\ entity.flagged = FALSE
         ELSE entity.status = read.status /\ entity.flagged = read.flagged
      BY <1>2, <1>3, AfterRefundColumns
<1> HIDE DEF entity
<1>6. /\ payment' \in PaymentRow
      /\ payment'.status = IF entity.status = base.status THEN payment.status
                           ELSE entity.status
      /\ payment'.refunded = IF entity.refunded = base.refunded THEN payment.refunded
                             ELSE entity.refunded
      /\ payment'.flagged = IF entity.flagged = base.flagged THEN payment.flagged
                            ELSE entity.flagged
      BY <1>2, <1>4, <1>5, WrittenColumns
<1>7. /\ read.refunded \in Nat /\ payment.refunded \in Nat /\ amount \in Nat
      /\ amount > 0 /\ Amount \in Nat /\ read.status = "captured"
      /\ amount <= Amount - read.refunded
      /\ payment.status \in {"captured", "refunded"}
      BY <1>2, <1>3, RefundAmounts DEF PaymentRow, Refundable, Remainder
<1>8. ASSUME ~raced'
      PROVE  /\ ~raced /\ payment.refunded = read.refunded
             /\ base.refunded = payment.refunded /\ base.status = payment.status
             /\ handler[h].key = AutoKey => base.flagged = payment.flagged
             /\ handler[h].key = AutoKey => Amount - payment.refunded <= amount
             /\ payment.status = "captured"
      <2>1. ~raced /\ payment.refunded = read.refunded
            BY <1>8 DEF CommitRecord
      <2>2. payment.refunded # Amount
            BY <1>7, <2>1
      <2> QED BY <1>1, <1>7, <2>1, <2>2 DEF ReadInv, RowInv, Remainder
<1>9. ASSUME ~raced'
      PROVE  /\ payment'.refunded = payment.refunded + amount
             /\ payment'.status = "refunded" <=> payment'.refunded = Amount
      BY <1>5, <1>6, <1>7, <1>8, <1>9
<1>10. ASSUME ~raced', handler[h].key = AutoKey
       PROVE  payment'.status = "refunded" /\ ~payment'.flagged
      <2>1. read.refunded + amount = Amount
            BY <1>7, <1>8, <1>10
      <2> QED BY <1>5, <1>6, <1>8, <1>10, <2>1
<1>11. payment'.refunded \in {payment.refunded, read.refunded + amount}
      BY <1>5, <1>6
<1>12. ~raced' => payment'.refunded > payment.refunded
      BY <1>7, <1>9
<1> QED BY <1>6, <1>8, <1>9, <1>10, <1>11, <1>12

\* The refund is issued.  No other one of its kind was, and none is under way.
LEMMA CommitRecordKeepsIInv ==
    ASSUME IInv, NEW h \in Handlers, CommitRecord(h)
    PROVE  IInv'
<1> DEFINE i == handler[h].refund
           r == [handler[h] EXCEPT !.answer = "issued"]
           s == [r EXCEPT !.pc = "finalize"]
           row == [refunds[i] EXCEPT !.status = "issued"]
<1>1. /\ handler[h] \in HandlerState /\ handler[h].pc = "commit"
      /\ KeyInv(h) /\ OpenedInv(h) /\ ReadInv(h)
      BY DEF IInv, TypeOK, CommitRecord, HandlerInv
<1>2. /\ i \in RefundIds /\ refunds[i] \in RefundRow /\ refunds[i].status = "pending"
      /\ refunds[i].body = handler[h].body
      /\ openedBy[i] = handler[h].key /\ NotYetIssued(handler[h].key, handler[h].body)
      /\ \A j \in RefundIds : IsIssued(j) /\ openedBy[j] = handler[h].key
               => refunds[j].body # handler[h].body
      BY <1>1 DEF OpenedInv, Opened, IInv, TypeOK
<1>3. s = [handler[h] EXCEPT !.pc = "finalize", !.answer = "issued"]
      BY <1>1 DEF HandlerState
<1>4. handler' = [handler EXCEPT ![h] = s] /\ handler'[h] = s
      BY <1>3 DEF CommitRecord, IInv, TypeOK
<1>5. /\ r \in HandlerState /\ r.answer = "issued" /\ r.refund = i
      /\ r.key = handler[h].key /\ r.body = handler[h].body
      BY <1>1 DEF HandlerState
<1> HIDE DEF r
<1>6. /\ s \in HandlerState /\ s.answer = "issued" /\ s.refund = i /\ s.pc = "finalize"
      /\ s.key = handler[h].key /\ s.body = handler[h].body
      BY <1>5 DEF HandlerState
<1> HIDE DEF s
<1>7. row \in RefundRow /\ row.status = "issued" /\ row.body = handler[h].body
      BY <1>2 DEF RefundRow
<1>8. /\ refunds' = [refunds EXCEPT ![i] = row] /\ refunds'[i] = row
      /\ \A j \in RefundIds : j # i => refunds'[j] = refunds[j]
      BY <1>2 DEF CommitRecord, IInv, TypeOK
<1> HIDE DEF row
<1>9. /\ UNCHANGED <<store, cancelled, event, paidOut, openedBy, answers, requests, faults>>
      /\ raced' \in BOOLEAN
      BY DEF CommitRecord, IInv, TypeOK
<1>10. TypeOK'
      BY <1>4, <1>6, <1>7, <1>8, <1>9, RecordedPayment DEF IInv, TypeOK
<1>11. /\ refunds'[i].status = "issued" /\ ~IsIssued(i)
       /\ \A j \in RefundIds : j # i => refunds'[j] = refunds[j] /\ (IsIssued(j)' <=> IsIssued(j))
      BY <1>2, <1>7, <1>8 DEF IsIssued
<1>12. RowInv'
      <2>1. OneIssuePerKey'
            BY <1>2, <1>7, <1>8, <1>9, <1>11 DEF IInv, RowInv, OneIssuePerKey, Issued, IsIssued
      <2>2. AutoRefundSettles'
            BY <1>2, <1>9, <1>11, RecordedPayment
               DEF IInv, RowInv, AutoRefundSettles, Issued, IsIssued
      <2> QED BY <1>9, <2>1, <2>2, RecordedPayment DEF IInv, RowInv
<1>13. IssuedStay /\ PaymentStep
      BY <1>9, <1>11, RecordedPayment DEF IssuedStay, PaymentStep
<1>14. \A body : Backed(body) => Backed(body)'
      BY <1>11 DEF Backed
<1>15. StoreInv' /\ AnswersInv'
      BY <1>9, <1>14 DEF IInv, StoreInv, AnswersInv, AnswerInv, NotYetIssued
<1>16. \A g \in Handlers \ {h} : Undisturbed(g)
      <2> SUFFICES ASSUME NEW g \in Handlers \ {h} PROVE Undisturbed(g)
          OBVIOUS
      <2>1. handler'[g] = handler[g] /\ OpenedInv(g)
            BY <1>4 DEF IInv, TypeOK, HandlerInv
      <2>2. Held(g) => handler[g].key # handler[h].key
            BY <1>1 DEF IInv, OneHolder, Held
      <2> QED BY <1>2, <1>8, <1>9, <1>11, <2>1, <2>2 DEF Undisturbed, OpenedInv, Opened, Held
<1>17. KeyInv(h)'
      BY <1>1, <1>4, <1>6, <1>9 DEF KeyInv, Held
<1>18. FinalizeInv(h)'
      BY <1>2, <1>4, <1>6, <1>7, <1>8, <1>11 DEF FinalizeInv, AnswerInv, Backed, IsIssued
<1>19. ReadInv(h)'
      <2>1. handler[h].pc # "idle" /\ ~raced /\ handler[h].key = AutoKey =>
                cancelled /\ Remainder(payment) <= handler[h].body.amount
            BY <1>1 DEF ReadInv
      <2>2. ~raced' => ~raced /\ payment'.refunded > payment.refunded
            BY RecordedPayment
      <2>3. /\ payment.refunded \in Nat /\ payment'.refunded \in Nat /\ Amount \in Nat
            /\ handler[h].body.amount \in Nat
            BY <1>1, <1>10, RefundAmounts DEF IInv, TypeOK, PaymentRow, HandlerState, Body
      <2> QED BY <1>1, <1>4, <1>6, <1>9, <2>1, <2>2, <2>3 DEF ReadInv, Remainder
<1>20. HandlerInv(h)'
      BY <1>4, <1>6, <1>17, <1>18, <1>19 DEF HandlerInv, OpenedInv, Opened
<1>21. Held(h)' => \A g \in Handlers \ {h} : Held(g) => handler[g].key # handler'[h].key
      BY <1>1, <1>4, <1>6 DEF Held, IInv, OneHolder
<1> QED BY <1>10, <1>12, <1>13, <1>15, <1>16, <1>20, <1>21, StepKeepsIInv

\* The answer of the execution, before it is stored.
LEMMA AnswerIsSound ==
    ASSUME IInv, NEW h \in Handlers, handler[h].pc = "finalize"
    PROVE  /\ AnswerOf(h) \in Answer
           /\ AnswerOf(h).key = handler[h].key /\ AnswerOf(h).body = handler[h].body
           /\ AnswerOf(h).status = handler[h].answer
           /\ AnswerInv(handler[h].key, handler[h].body, handler[h].refund, handler[h].answer)
<1>1. AnswerInv(handler[h].key, handler[h].body, handler[h].refund, handler[h].answer)
      BY DEF IInv, HandlerInv, FinalizeInv
<1>2. handler[h] \in HandlerState
      BY DEF IInv, TypeOK
<1> QED BY <1>1, <1>2 DEF AnswerOf, Answer, AnswerInv, HandlerState

\* An answer is given under a key that its execution holds: what is stored
\* under other keys, and what other executions found out, stays true.
LEMMA AnsweringIsSound ==
    ASSUME IInv, NEW h \in Handlers, handler[h].pc = "finalize",
           answers' = answers \cup {AnswerOf(h)},
           UNCHANGED <<payment, refunds, cancelled, event, paidOut, openedBy, raced>>,
           \A g \in Handlers \ {h} : handler'[g] = handler[g],
           \A k \in AllKeys : k # handler[h].key => store'[k] = store[k]
    PROVE  /\ RowInv' /\ AnswersInv' /\ IssuedStay /\ PaymentStep
           /\ \A g \in Handlers \ {h} : Undisturbed(g)
           /\ \A g \in Handlers \ {h} : Held(g) => handler[g].key # handler[h].key
           /\ \A k \in AllKeys \ {handler[h].key} : store[k].state = "done" =>
                  AnswerInv(k, store[k].body, store[k].refund, store[k].answer)'
<1>1. RowInv'
      BY DEF IInv, RowInv, OneIssuePerKey, Issued, AutoRefundSettles
<1>2. AnswersInv'
      BY AnswerIsSound DEF IInv, AnswersInv, AnswerInv, Backed, IsIssued
<1>3. IssuedStay /\ PaymentStep
      BY DEF IssuedStay, PaymentStep
<1>4. \A g \in Handlers \ {h} : Held(g) => handler[g].key # handler[h].key
      BY DEF IInv, OneHolder, Held
<1>5. \A g \in Handlers \ {h} : Undisturbed(g)
      BY <1>4, AnswerIsSound DEF Undisturbed, IsIssued, IInv, TypeOK, HandlerState
<1>6. ASSUME NEW k \in AllKeys \ {handler[h].key}, store[k].state = "done"
      PROVE  AnswerInv(k, store[k].body, store[k].refund, store[k].answer)'
      <2> DEFINE body == store[k].body
                 refund == store[k].refund
                 answer == store[k].answer
      <2>1. AnswerInv(k, body, refund, answer) /\ store'[k] = store[k]
            BY <1>6 DEF IInv, StoreInv
      <2>2. Backed(body) => Backed(body)'
            BY <2>1 DEF Backed, IsIssued
      <2>3. NotYetIssued(k, body) => NotYetIssued(k, body)'
            BY <2>1, AnswerIsSound DEF NotYetIssued
      <2> QED BY <2>1, <2>2, <2>3 DEF AnswerInv
<1> QED BY <1>1, <1>2, <1>3, <1>4, <1>5, <1>6

\* The key still holds the reservation: it stores the answer that is given.
LEMMA FinalizeKeepsIInv ==
    ASSUME IInv, NEW h \in Handlers, Finalize(h)
    PROVE  IInv'
<1> DEFINE k == handler[h].key
           q == [store[k] EXCEPT !.answer = handler[h].answer]
           r == [q EXCEPT !.refund = handler[h].refund]
           row == [r EXCEPT !.state = "done"]
<1>1. /\ handler[h] \in HandlerState /\ handler[h].pc = "finalize" /\ k \in AllKeys
      /\ store[k].state = "pending" /\ store[k].body = handler[h].body
      /\ store[k] \in KeyRow
      BY DEF IInv, TypeOK, Finalize, HandlerInv, KeyInv, Held, HandlerState
<1>2. AnswerInv(k, handler[h].body, handler[h].refund, handler[h].answer)
      BY <1>1, AnswerIsSound
<1>3. row = [store[k] EXCEPT !.state = "done", !.refund = handler[h].refund,
                             !.answer = handler[h].answer]
      BY <1>1 DEF KeyRow
<1>4. /\ q \in KeyRow /\ q.answer = handler[h].answer /\ q.body = handler[h].body
      BY <1>1 DEF KeyRow, HandlerState
<1> HIDE DEF q
<1>5. /\ r \in KeyRow /\ r.answer = handler[h].answer /\ r.body = handler[h].body
      /\ r.refund = handler[h].refund
      BY <1>1, <1>4, RefundBounds DEF KeyRow, HandlerState
<1> HIDE DEF r
<1>6. /\ row \in KeyRow /\ row.answer = handler[h].answer /\ row.body = handler[h].body
      /\ row.refund = handler[h].refund /\ row.state = "done"
      BY <1>5 DEF KeyRow
<1>7. /\ store' = [store EXCEPT ![k] = row] /\ store'[k] = row
      /\ \A j \in AllKeys : j # k => store'[j] = store[j]
      BY <1>1, <1>3 DEF Finalize, IInv, TypeOK
<1> HIDE DEF row
<1>8. /\ answers' = answers \cup {AnswerOf(h)}
      /\ handler' = [handler EXCEPT ![h] = Idle] /\ handler'[h] = Idle
      /\ \A g \in Handlers \ {h} : handler'[g] = handler[g]
      /\ UNCHANGED <<payment, refunds, cancelled, event, paidOut, openedBy, raced,
                     requests, faults>>
      BY DEF Finalize, Leave, IInv, TypeOK
<1>9. TypeOK'
      BY <1>1, <1>6, <1>7, <1>8, IdleIsTyped, AnswerIsSound DEF IInv, TypeOK
<1>10. /\ RowInv' /\ AnswersInv' /\ IssuedStay /\ PaymentStep
       /\ \A g \in Handlers \ {h} : Undisturbed(g)
       /\ \A j \in AllKeys \ {k} : store[j].state = "done" =>
              AnswerInv(j, store[j].body, store[j].refund, store[j].answer)'
      BY <1>1, <1>7, <1>8, AnsweringIsSound
<1>11. StoreInv'
      <2> SUFFICES ASSUME NEW j \in AllKeys, store'[j].state = "done"
                   PROVE  AnswerInv(j, store[j].body, store[j].refund, store[j].answer)'
          BY DEF StoreInv
      <2>1. CASE j # k
            BY <1>7, <1>10, <2>1
      <2>2. CASE j = k
            <3>1. Backed(handler[h].body) => Backed(store[j].body)'
                  BY <1>6, <1>7, <1>8, <2>2 DEF Backed, IsIssued
            <3>2. handler[h].answer = "failed" => NotYetIssued(j, store[j].body)'
                  BY <1>1, <1>2, <1>6, <1>7, <1>8, <2>2, AnswerIsSound
                     DEF AnswerInv, NotYetIssued
            <3> QED BY <1>2, <1>6, <1>7, <2>2, <3>1, <3>2 DEF AnswerInv
      <2> QED BY <2>1, <2>2
<1> QED BY <1>8, <1>9, <1>10, <1>11, IdleIsSound, StepKeepsIInv

\* The answer is given and not stored; its key is still held.
LEMMA FinalizeFailsKeepsIInv ==
    ASSUME IInv, NEW h \in Handlers, FinalizeFails(h)
    PROVE  IInv'
<1> DEFINE k == handler[h].key
           s == [handler[h] EXCEPT !.pc = "release"]
<1>1. /\ handler[h] \in HandlerState /\ handler[h].pc = "finalize" /\ k \in AllKeys
      /\ KeyInv(h) /\ ReadInv(h)
      BY DEF IInv, TypeOK, FinalizeFails, HandlerInv, HandlerState
<1>2. s \in HandlerState /\ s.pc = "release" /\ s.key = k /\ s.body = handler[h].body
      BY <1>1 DEF HandlerState
<1>3. /\ answers' = answers \cup {AnswerOf(h)}
      /\ handler' = [handler EXCEPT ![h] = s] /\ handler'[h] = s
      /\ \A g \in Handlers \ {h} : handler'[g] = handler[g]
      /\ UNCHANGED <<payment, refunds, store, cancelled, event, paidOut, openedBy, raced,
                     requests>>
      /\ faults' \in 0 .. MaxFaults
      BY RefundBounds DEF FinalizeFails, Goto, Fault, IInv, TypeOK
<1> HIDE DEF s
<1>4. TypeOK'
      BY <1>1, <1>2, <1>3, AnswerIsSound DEF IInv, TypeOK
<1>5. /\ RowInv' /\ AnswersInv' /\ IssuedStay /\ PaymentStep
      /\ \A g \in Handlers \ {h} : Undisturbed(g)
      /\ \A g \in Handlers \ {h} : Held(g) => handler[g].key # k
      /\ \A j \in AllKeys \ {k} : store[j].state = "done" =>
             AnswerInv(j, store[j].body, store[j].refund, store[j].answer)'
      BY <1>1, <1>3, AnsweringIsSound
<1>6. store'[k].state = "pending"
      BY <1>1, <1>3 DEF KeyInv, Held
<1>7. StoreInv'
      BY <1>3, <1>5, <1>6 DEF StoreInv
<1>8. HandlerInv(h)'
      BY <1>1, <1>2, <1>3
         DEF HandlerInv, KeyInv, Held, OpenedInv, Opened, FinalizeInv, ReadInv, Remainder
<1> QED BY <1>2, <1>3, <1>4, <1>5, <1>7, <1>8, StepKeepsIInv

\* A key that no other execution holds is freed.
LEMMA FreeKeyKeepsIInv ==
    ASSUME IInv, NEW k \in AllKeys,
           \/ store' = store
           \/ store' = [store EXCEPT ![k] = NoKey],
           UNCHANGED <<payment, refunds, cancelled, event, outside, requests, faults>>,
           handler' \in [Handlers -> HandlerState],
           \A g \in Handlers : \/ handler'[g] = Idle
                               \/ handler'[g] = handler[g] /\ (Held(g) => handler[g].key # k)
    PROVE  IInv'
<1>1. NoKey \in KeyRow /\ NoKey.state = "absent"
      BY RefundAmounts DEF NoKey, KeyRow, NoBody, Body
<1>2. TypeOK'
      BY <1>1 DEF IInv, TypeOK, outside
<1>3. \A j \in AllKeys : store'[j] = store[j] \/ (j = k /\ store'[j] = NoKey)
      BY DEF IInv, TypeOK
<1>4. RowInv' /\ AnswersInv' /\ IssuedStay /\ PaymentStep
      BY DEF IInv, RowInv, OneIssuePerKey, Issued, AutoRefundSettles, AnswersInv, Backed,
             IsIssued, IssuedStay, PaymentStep, outside
<1>5. StoreInv'
      BY <1>1, <1>3 DEF IInv, StoreInv, AnswerInv, Backed, IsIssued, NotYetIssued, outside
<1>6. ASSUME NEW g \in Handlers, handler'[g] # Idle
      PROVE  HandlerInv(g)' /\ (Held(g)' <=> Held(g)) /\ handler'[g] = handler[g]
      <2>1. Undisturbed(g)
            BY <1>3, <1>6 DEF Undisturbed, outside, IsIssued, IInv, TypeOK, HandlerState
      <2> QED BY <1>2, <1>4, <2>1, BystanderKeeps
<1>7. \A g \in Handlers : HandlerInv(g)'
      BY <1>6, IdleIsSound
<1>8. OneHolder'
      BY <1>6, IdleIsSound DEF IInv, OneHolder
<1> QED BY <1>2, <1>4, <1>5, <1>7, <1>8 DEF IInv

LEMMA ReleaseKeepsIInv ==
    ASSUME IInv, NEW h \in Handlers, Release(h)
    PROVE  IInv'
<1>1. /\ handler[h].key \in AllKeys /\ handler[h].pc = "release"
      /\ handler' = [handler EXCEPT ![h] = Idle]
      /\ handler' \in [Handlers -> HandlerState]
      BY IdleIsTyped DEF Release, Leave, IInv, TypeOK, HandlerState
<1>2. \A g \in Handlers : \/ handler'[g] = Idle
                          \/ /\ handler'[g] = handler[g]
                             /\ Held(g) => handler[g].key # handler[h].key
      BY <1>1 DEF IInv, TypeOK, OneHolder, Held
<1> QED BY <1>1, <1>2, FreeKeyKeepsIInv DEF Release

LEMMA PurgeKeepsIInv ==
    ASSUME IInv, NEW k \in AllKeys, Purge(k)
    PROVE  IInv'
BY FreeKeyKeepsIInv DEF Purge, Held, IInv, TypeOK

\* Cancel Order marks a captured payment; no automatic refund has settled it.
LEMMA CancelOrderKeepsIInv ==
    ASSUME IInv, CancelOrder
    PROVE  IInv'
<1>1. /\ payment \in PaymentRow /\ payment' \in PaymentRow
      /\ payment'.refunded = payment.refunded /\ payment'.status = payment.status
      /\ payment.status # "captured" => payment' = payment
      /\ cancelled' = TRUE /\ cancelled = FALSE /\ event' \in BOOLEAN
      /\ UNCHANGED <<refunds, store, handler, outside, requests, faults>>
      BY DEF CancelOrder, IInv, TypeOK, PaymentRow
<1>2. TypeOK'
      BY <1>1 DEF IInv, TypeOK, outside
<1>3. RowInv'
      BY <1>1 DEF IInv, RowInv, OneIssuePerKey, AutoRefundSettles, Issued, outside
<1>4. StoreInv' /\ AnswersInv'
      BY <1>1 DEF IInv, StoreInv, AnswersInv, AnswerInv, Backed, IsIssued, NotYetIssued,
                  outside
<1>5. IssuedStay /\ PaymentStep
      BY <1>1 DEF IssuedStay, PaymentStep, outside
<1>6. \A g \in Handlers : Undisturbed(g)
      BY <1>1 DEF Undisturbed, outside, IsIssued
<1>7. \A g \in Handlers : HandlerInv(g)' /\ (Held(g)' <=> Held(g)) /\ handler'[g] = handler[g]
      BY <1>2, <1>5, <1>6, BystanderKeeps
<1>8. OneHolder'
      BY <1>7 DEF IInv, OneHolder
<1> QED BY <1>2, <1>3, <1>4, <1>7, <1>8 DEF IInv

LEMMA LoseEventKeepsIInv ==
    ASSUME IInv, LoseEvent
    PROVE  IInv'
<1>1. /\ UNCHANGED <<payment, refunds, store, handler, cancelled, outside, requests>>
      /\ event' = FALSE /\ faults' \in 0 .. MaxFaults
      BY RefundBounds DEF LoseEvent, Fault, IInv, TypeOK
<1>2. TypeOK' /\ RowInv'
      BY <1>1 DEF IInv, TypeOK, RowInv, OneIssuePerKey, AutoRefundSettles, Issued, outside
<1>3. StoreInv' /\ AnswersInv' /\ OneHolder'
      BY <1>1 DEF IInv, StoreInv, AnswersInv, AnswerInv, Backed, IsIssued, NotYetIssued,
                  OneHolder, Held, outside
<1>4. \A g \in Handlers : HandlerInv(g)'
      <2>1. IssuedStay /\ PaymentStep /\ \A g \in Handlers : Undisturbed(g)
            BY <1>1 DEF IssuedStay, PaymentStep, Undisturbed, IsIssued, outside
      <2> QED BY <1>2, <2>1, BystanderKeeps
<1> QED BY <1>2, <1>3, <1>4 DEF IInv

-----------------------------------------------------------------------------
(* Every step. *)

\* What an execution of Issue Refund does keeps the invariant.
LEMMA ExecutionKeepsIInv ==
    ASSUME IInv, NEW h \in Handlers, Step(h)
    PROVE  IInv'
<1>1. CASE Reserve(h)
      BY <1>1, ReserveKeepsIInv
<1>2. CASE KeyTaken(h)
      <2>1. /\ Quiet /\ UNCHANGED <<event, requests, paidOut, faults>>
            /\ handler[h].pc = "reserve" /\ Goto(h, "reread")
            BY <1>2 DEF KeyTaken, Quiet, outside
      <2> QED BY <2>1, GotoKeepsIInv DEF IInv, TypeOK
<1>3. CASE Replay(h)
      BY <1>3, ReplayKeepsIInv
<1>4. CASE Refuse(h)
      <2>1. Quiet /\ UNCHANGED <<event, requests, paidOut, faults>> /\ Leave(h)
            BY <1>4 DEF Refuse, Quiet, outside
      <2> QED BY <2>1, LeaveKeepsIInv DEF IInv, TypeOK
<1>5. CASE ReadPayment(h)
      BY <1>5, ReadPaymentKeepsIInv
<1>6. CASE AnswerDuplicate(h)
      BY <1>6, AnswerDuplicateKeepsIInv
<1>7. CASE RefuseAmount(h)
      <2>1. /\ Quiet /\ UNCHANGED <<event, requests, paidOut, faults>>
            /\ Held(h) /\ Goto(h, "release")
            BY <1>7 DEF RefuseAmount, Quiet, outside, Held
      <2> QED BY <2>1, GotoKeepsIInv DEF IInv, TypeOK
<1>8. CASE OpenRefund(h)
      BY <1>8, OpenRefundKeepsIInv
<1>9. CASE GatewayPays(h)
      <2>1. /\ Quiet /\ UNCHANGED <<event, requests, faults>>
            /\ handler[h].pc = "pay" /\ Goto(h, "record")
            /\ paidOut' = paidOut \cup {handler[h].refund}
            BY <1>9 DEF GatewayPays, Quiet
      <2>2. paidOut' \subseteq RefundIds
            BY <2>1 DEF IInv, TypeOK, HandlerInv, OpenedInv, Opened
      <2> QED BY <2>1, <2>2, GotoKeepsIInv DEF IInv, TypeOK
<1>10. CASE GatewayDeclines(h)
      <2>1. /\ Quiet /\ UNCHANGED <<event, requests, paidOut, faults>>
            /\ handler[h].pc = "pay" /\ Goto(h, "decline")
            BY <1>10 DEF GatewayDeclines, Quiet, outside
      <2> QED BY <2>1, GotoKeepsIInv DEF IInv, TypeOK
<1>11. CASE RecordDecline(h)
      BY <1>11, RecordDeclineKeepsIInv
<1>12. CASE OpenRecord(h)
      BY <1>12, OpenRecordKeepsIInv
<1>13. CASE CommitRecord(h)
      BY <1>13, CommitRecordKeepsIInv
<1>14. CASE Finalize(h)
      BY <1>14, FinalizeKeepsIInv
<1>15. CASE FinalizeFails(h)
      BY <1>15, FinalizeFailsKeepsIInv
<1>16. CASE Release(h)
      BY <1>16, ReleaseKeepsIInv
<1>17. CASE Throw(h)
      <2>1. /\ Quiet /\ UNCHANGED <<event, requests>> /\ Held(h) /\ Goto(h, "release")
            /\ faults' \in 0 .. MaxFaults
            BY <1>17, RefundBounds DEF Throw, Fault, Quiet, Held, IInv, TypeOK
      <2>2. paidOut' \subseteq RefundIds
            BY <1>17 DEF Throw, IInv, TypeOK, HandlerInv, OpenedInv, Opened
      <2> QED BY <2>1, <2>2, GotoKeepsIInv
<1>18. CASE Die(h)
      <2>1. /\ Quiet /\ UNCHANGED <<event, requests>> /\ Leave(h)
            /\ faults' \in 0 .. MaxFaults
            BY <1>18, RefundBounds DEF Die, Fault, Quiet, IInv, TypeOK
      <2>2. paidOut' \subseteq RefundIds
            BY <1>18 DEF Die, IInv, TypeOK, HandlerInv, OpenedInv, Opened
      <2> QED BY <2>1, <2>2, LeaveKeepsIInv
<1> QED BY <1>1, <1>2, <1>3, <1>4, <1>5, <1>6, <1>7, <1>8, <1>9, <1>10, <1>11, <1>12,
           <1>13, <1>14, <1>15, <1>16, <1>17, <1>18 DEF Step

\* The invariant is inductive.
LEMMA NextKeepsIInv ==
    ASSUME IInv, [Next]_vars
    PROVE  IInv'
<1>1. ASSUME NEW h \in Handlers, Request(h)
      PROVE  IInv'
      BY <1>1, RequestKeepsIInv
<1>2. ASSUME NEW h \in Handlers, ConsumeCancelled(h)
      PROVE  IInv'
      BY <1>2, ConsumeKeepsIInv
<1>3. ASSUME NEW h \in Handlers, Step(h)
      PROVE  IInv'
      BY <1>3, ExecutionKeepsIInv
<1>4. ASSUME NEW k \in AllKeys, Purge(k)
      PROVE  IInv'
      BY <1>4, PurgeKeepsIInv
<1>5. CASE CancelOrder
      BY <1>5, CancelOrderKeepsIInv
<1>6. CASE LoseEvent
      BY <1>6, LoseEventKeepsIInv
<1>7. CASE UNCHANGED vars
      <2>1. UNCHANGED <<payment, refunds, store, handler, cancelled, event, paidOut,
                        openedBy, answers, raced, requests, faults>>
            BY <1>7 DEF vars, outside
      <2>2. TypeOK' /\ RowInv'
            BY <2>1 DEF IInv, TypeOK, RowInv, OneIssuePerKey, AutoRefundSettles, Issued
      <2>3. StoreInv' /\ AnswersInv' /\ OneHolder'
            BY <2>1 DEF IInv, StoreInv, AnswersInv, AnswerInv, Backed, IsIssued,
                        NotYetIssued, OneHolder, Held
      <2>4. \A g \in Handlers : HandlerInv(g)'
            <3>1. IssuedStay /\ PaymentStep /\ \A g \in Handlers : Undisturbed(g)
                  BY <2>1 DEF IssuedStay, PaymentStep, Undisturbed, IsIssued
            <3> QED BY <2>2, <3>1, BystanderKeeps
      <2> QED BY <2>2, <2>3, <2>4 DEF IInv
<1> QED BY <1>1, <1>2, <1>3, <1>4, <1>5, <1>6, <1>7 DEF Next

\* The invariant holds of a captured payment that nobody asked to refund.
LEMMA InitIsSound == Init => IInv
<1> SUFFICES ASSUME Init PROVE IInv
    OBVIOUS
<1>1. /\ CapturedPayment \in PaymentRow /\ NoRefund \in RefundRow /\ NoKey \in KeyRow
      /\ NoRefund.status = "none" /\ NoKey.state = "absent"
      /\ CapturedPayment.status = "captured" /\ CapturedPayment.refunded = 0
      BY RefundAmounts DEF CapturedPayment, PaymentRow, NoRefund, RefundRow, NoKey, KeyRow,
                           NoBody, Body
<1>2. TypeOK
      <2>1. /\ refunds \in [RefundIds -> RefundRow] /\ store \in [AllKeys -> KeyRow]
            /\ openedBy \in [RefundIds -> AllKeys]
            BY <1>1 DEF Init, AllKeys
      <2>2. handler \in [Handlers -> HandlerState]
            BY IdleIsTyped DEF Init
      <2>3. requests \in 0 .. MaxRequests /\ faults \in 0 .. MaxFaults
            BY RefundBounds DEF Init
      <2> QED BY <1>1, <2>1, <2>2, <2>3 DEF Init, TypeOK
<1>3. RowInv
      BY <1>1, RefundAmounts
         DEF Init, RowInv, OneIssuePerKey, AutoRefundSettles, Issued
<1>4. StoreInv /\ AnswersInv
      BY <1>1 DEF Init, StoreInv, AnswersInv
<1>5. \A h \in Handlers : handler[h] = Idle
      BY DEF Init
<1>6. \A h \in Handlers : HandlerInv(h) /\ ~Held(h)
      BY <1>5 DEF Idle, HandlerInv, KeyInv, OpenedInv, FinalizeInv, ReadInv, Held, Opened
<1> QED BY <1>2, <1>3, <1>4, <1>6 DEF IInv, OneHolder

-----------------------------------------------------------------------------
(* The results. *)

\* Every reachable state satisfies the invariant.
THEOREM Invariance == Spec => []IInv
BY InitIsSound, NextKeepsIInv, PTL DEF Spec

\* The rows keep their types; in particular the payment row never claims that
\* more was refunded than captured, also when refunds overlap.
THEOREM TypeCorrect == Spec => []TypeOK
<1>1. IInv => TypeOK
      BY DEF IInv
<1> QED BY <1>1, Invariance, PTL

\* A key issues a refund of one amount and reason once.
THEOREM KeysIssueOnce == Spec => []OneIssuePerKey
<1>1. IInv => OneIssuePerKey
      BY DEF IInv, RowInv
<1> QED BY <1>1, Invariance, PTL

\* An automatic refund that is issued leaves nothing to refund and no flag.
THEOREM AutoRefundAlwaysSettles == Spec => []AutoRefundSettles
<1>1. IInv => AutoRefundSettles
      BY DEF IInv, RowInv
<1> QED BY <1>1, Invariance, PTL

\* The steps that answer, and what their answers rest on.
LEMMA NewAnswersAreSound ==
    ASSUME IInv, [Next]_vars, NEW new \in answers' \ answers
    PROVE  new.status = "failed" => NotYetIssued(new.key, new.body)
<1>1. ASSUME NEW h \in Handlers, Step(h)
      PROVE  new.status = "failed" => NotYetIssued(new.key, new.body)
      <2>1. CASE Replay(h)
            <3>1. /\ new.key = handler[h].key /\ new.body = store[new.key].body
                  /\ new.status = store[new.key].answer
                  /\ new.key \in AllKeys /\ store[new.key].state = "done"
                  BY <2>1 DEF Replay, Replayable, IInv, TypeOK, HandlerState
            <3> QED BY <3>1 DEF IInv, StoreInv, AnswerInv
      <2>2. CASE Finalize(h) \/ FinalizeFails(h)
            <3>1. handler[h].pc = "finalize" /\ new = AnswerOf(h)
                  BY <2>2 DEF Finalize, FinalizeFails
            <3> QED BY <3>1, AnswerIsSound DEF AnswerInv
      <2>3. CASE ~Replay(h) /\ ~Finalize(h) /\ ~FinalizeFails(h)
            BY <1>1, <2>3 DEF Step, Reserve, KeyTaken, Refuse, ReadPayment, AnswerDuplicate,
               RefuseAmount, OpenRefund, GatewayPays, GatewayDeclines, RecordDecline,
               OpenRecord, CommitRecord, Release, Throw, Die, outside
      <2> QED BY <2>1, <2>2, <2>3
<1>2. ~UNCHANGED answers
      OBVIOUS
<1>3. /\ \A h \in Handlers : ~Request(h) /\ ~ConsumeCancelled(h)
      /\ \A k \in AllKeys : ~Purge(k)
      /\ ~CancelOrder /\ ~LoseEvent /\ ~UNCHANGED vars
      BY <1>2 DEF Request, ConsumeCancelled, Purge, CancelOrder, LoseEvent, vars, outside
<1> QED BY <1>1, <1>3 DEF Next

\* Whoever was told that a refund is issued is never told that it failed.
THEOREM IssuedAnswersAlwaysStand == Spec => IssuedAnswersStand
<1>1. IInv /\ [Next]_vars =>
          [\A new \in answers' \ answers, old \in answers :
              /\ new.key = old.key /\ new.body = old.body
              /\ old.status = "issued"
              => new.status = "issued"]_vars
      <2> SUFFICES ASSUME IInv, [Next]_vars,
                          NEW new \in answers' \ answers, NEW old \in answers,
                          new.key = old.key, new.body = old.body, old.status = "issued"
                   PROVE  new.status = "issued"
          OBVIOUS
      <2>1. new.status \in {"issued", "failed"}
            BY NextKeepsIInv DEF IInv, TypeOK, Answer
      <2> QED BY <2>1, NewAnswersAreSound DEF NotYetIssued
<1> QED BY <1>1, Invariance, PTL DEF Spec, IssuedAnswersStand

-----------------------------------------------------------------------------
(* The sum in the payment row and the sum of the issued refunds. *)

\* The row claims no more than was issued, and all of it unless refunds
\* overlapped; a handler has read no more than is issued by now.
AmountInv ==
    /\ payment.refunded <= IssuedAmount
    /\ ~raced => payment.refunded = IssuedAmount
    /\ \A h \in Handlers : handler[h].pc \in {"check", "pay", "record", "commit"}
           => handler[h].read.refunded <= IssuedAmount

LEMMA FinitelyManyUnits ==
    ASSUME NEW U \in SUBSET (RefundIds \X (1 .. Amount))
    PROVE  IsFiniteSet(U) /\ Cardinality(U) \in Nat
<1>1. IsFiniteSet(RefundIds)
      <2>1. 1 \in Int /\ MaxRequests \in Int
            BY RefundBounds
      <2> QED BY <2>1, FS_Interval DEF RefundIds
<1>2. IsFiniteSet(1 .. Amount)
      BY RefundAmounts, FS_Interval
<1>3. IsFiniteSet(RefundIds \X (1 .. Amount))
      BY <1>1, <1>2, FS_Product
<1> QED BY <1>3, FS_Subset, FS_CardinalityType

\* The sum changes with the issued refunds only.
LEMMA AmountStays ==
    ASSUME \A i \in RefundIds : /\ IsIssued(i)' <=> IsIssued(i)
                                /\ IsIssued(i) => refunds'[i] = refunds[i]
    PROVE  IssuedAmount' = IssuedAmount
<1>1. Issued' = Issued
      BY DEF Issued, IsIssued
<1>2. \A i \in Issued : refunds'[i] = refunds[i]
      BY DEF Issued, IsIssued
<1>3. IssuedUnits' = IssuedUnits
      BY <1>1, <1>2 DEF IssuedUnits
<1> QED BY <1>3 DEF IssuedAmount

\* A refund that is issued adds its amount.
LEMMA AmountGrows ==
    ASSUME TypeOK, TypeOK', NEW i \in RefundIds, ~IsIssued(i), IsIssued(i)',
           refunds'[i].body = refunds[i].body,
           \A j \in RefundIds : j # i => refunds'[j] = refunds[j]
    PROVE  IssuedAmount' = IssuedAmount + refunds[i].body.amount
<1> DEFINE amount == refunds[i].body.amount
           mine == {i} \X (1 .. amount)
           before == IssuedUnits
<1>1. amount \in 1 .. Amount /\ amount \in Nat
      BY RefundAmounts DEF TypeOK, RefundRow, Body
<1>2. Issued' = Issued \cup {i} /\ i \notin Issued
      BY DEF Issued, IsIssued
<1>3. \A j \in Issued : refunds'[j] = refunds[j]
      BY <1>2 DEF Issued
<1>4. IssuedUnits' = before \cup mine
      <2>1. ASSUME NEW u \in IssuedUnits' PROVE u \in before \cup mine
            BY <1>2, <1>3, <2>1 DEF IssuedUnits, Issued
      <2>2. ASSUME NEW u \in before PROVE u \in IssuedUnits'
            BY <1>2, <1>3, <2>2 DEF IssuedUnits
      <2>3. ASSUME NEW u \in mine PROVE u \in IssuedUnits'
            <3>1. PICK n \in 1 .. amount : u = <<i, n>>
                  BY <2>3
            <3>2. /\ refunds'[i].body.amount = amount /\ i \in Issued'
                  /\ n \in 1 .. Amount /\ n <= amount
                  BY <1>1, <1>2, <3>1, RefundAmounts
            <3> HIDE DEF amount
            <3> QED BY <3>1, <3>2 DEF IssuedUnits
      <2> QED BY <2>1, <2>2, <2>3
<1>5. before \cap mine = {}
      BY <1>2 DEF IssuedUnits
<1>6. IsFiniteSet(mine) /\ Cardinality(mine) = amount
      <2>1. IsFiniteSet(1 .. amount) /\ Cardinality(1 .. amount) = amount
            <3>1. IsFiniteSet(1 .. amount) /\ Cardinality(1 .. amount)
                    = IF 1 > amount THEN 0 ELSE amount - 1 + 1
                  <4> HIDE DEF amount
                  <4> QED BY <1>1, FS_Interval
            <3> HIDE DEF amount
            <3> QED BY <1>1, <3>1
      <2>2. IsFiniteSet({i}) /\ Cardinality({i}) = 1
            BY FS_Singleton
      <2> HIDE DEF amount
      <2>3. /\ IsFiniteSet({i} \X (1 .. amount))
            /\ Cardinality({i} \X (1 .. amount)) = Cardinality({i}) * Cardinality(1 .. amount)
            BY <2>1, <2>2, FS_Product
      <2> QED BY <1>1, <2>1, <2>2, <2>3
<1>7. IsFiniteSet(before) /\ Cardinality(before) \in Nat
      BY FinitelyManyUnits DEF IssuedUnits
<1>8. Cardinality(before \cap mine) = 0
      BY <1>5, FS_EmptySet
<1>9. Cardinality(before \cup mine)
        = Cardinality(before) + Cardinality(mine) - Cardinality(before \cap mine)
      <2> HIDE DEF before, mine
      <2> QED BY <1>6, <1>7, FS_Union
<1>10. Cardinality(before \cup mine) = Cardinality(before) + amount
      <2> HIDE DEF before, mine, amount
      <2> QED BY <1>1, <1>6, <1>7, <1>8, <1>9
<1> QED BY <1>4, <1>10 DEF IssuedAmount

\* Any other step leaves both sums alone; what it reads is the row.
LEMMA OtherStepsIssueNothing ==
    ASSUME IInv, IInv', [Next]_vars, \A h \in Handlers : ~CommitRecord(h)
    PROVE  /\ \A i \in RefundIds : /\ IsIssued(i)' <=> IsIssued(i)
                                   /\ IsIssued(i) => refunds'[i] = refunds[i]
           /\ payment'.refunded = payment.refunded /\ raced' = raced
           /\ \A h \in Handlers : handler'[h].pc \in {"check", "pay", "record", "commit"} =>
                 \/ handler'[h].read = payment
                 \/ /\ handler[h].pc \in {"check", "pay", "record", "commit"}
                    /\ handler'[h].read = handler[h].read
<1> DEFINE Goal == /\ \A i \in RefundIds : /\ IsIssued(i)' <=> IsIssued(i)
                                           /\ IsIssued(i) => refunds'[i] = refunds[i]
                   /\ payment'.refunded = payment.refunded /\ raced' = raced
           Reads(h) == handler'[h].pc \in {"check", "pay", "record", "commit"} =>
                          \/ handler'[h].read = payment
                          \/ /\ handler[h].pc \in {"check", "pay", "record", "commit"}
                             /\ handler'[h].read = handler[h].read
<1>1. handler \in [Handlers -> HandlerState] /\ payment \in PaymentRow
      BY DEF IInv, TypeOK
<1>2. ASSUME UNCHANGED <<payment, refunds, raced, handler>>
      PROVE  Goal /\ \A h \in Handlers : Reads(h)
      BY <1>2 DEF IsIssued
<1>3. ASSUME NEW h \in Handlers, Request(h) \/ ConsumeCancelled(h)
      PROVE  Goal /\ \A g \in Handlers : Reads(g)
      <2>1. UNCHANGED <<payment, refunds, raced>>
            BY <1>3 DEF Request, ConsumeCancelled, outside
      <2>2. \A g \in Handlers \ {h} : handler'[g] = handler[g]
            BY <1>1, <1>3 DEF Request, ConsumeCancelled
      <2>3. handler'[h] = handler[h] \/ handler'[h].pc = "reserve"
            BY <1>1, <1>3 DEF Request, ConsumeCancelled, Idle
      <2> QED BY <2>1, <2>2, <2>3 DEF IsIssued
<1>4. ASSUME NEW h \in Handlers, Step(h)
      PROVE  Goal /\ \A g \in Handlers : Reads(g)
      <2>1. /\ payment' = payment /\ raced' = raced
            /\ \A g \in Handlers \ {h} : handler'[g] = handler[g]
            BY <1>1, <1>4 DEF Step, Reserve, KeyTaken, Replay, Refuse, ReadPayment,
               AnswerDuplicate, RefuseAmount, OpenRefund, GatewayPays, GatewayDeclines,
               RecordDecline, OpenRecord, Finalize, FinalizeFails, Release, Throw, Die,
               Goto, Leave, outside
      <2>2. Reads(h)
            <3>1. CASE Reserve(h) \/ KeyTaken(h) \/ RefuseAmount(h) \/ GatewayPays(h)
                       \/ GatewayDeclines(h) \/ FinalizeFails(h) \/ Throw(h)
                  <4>1. PICK label : /\ handler' = [handler EXCEPT ![h].pc = label]
                                     /\ \/ label \in {"reread", "read", "decline", "release"}
                                        \/ label = "record" /\ handler[h].pc = "pay"
                        BY <3>1 DEF Reserve, KeyTaken, RefuseAmount, GatewayPays,
                           GatewayDeclines, FinalizeFails, Throw, Goto
                  <4>2. handler'[h].pc = label /\ handler'[h].read = handler[h].read
                        BY <1>1, <4>1 DEF HandlerState
                  <4> QED BY <4>1, <4>2
            <3>2. CASE Replay(h) \/ Refuse(h) \/ Finalize(h) \/ Release(h) \/ Die(h)
                  BY <1>1, <3>2 DEF Replay, Refuse, Finalize, Release, Die, Leave, Idle
            <3>3. CASE ReadPayment(h)
                  BY <1>1, <3>3 DEF ReadPayment, HandlerState
            <3>4. CASE AnswerDuplicate(h)
                  BY <1>1, <3>4 DEF AnswerDuplicate, HandlerState
            <3>5. CASE OpenRefund(h)
                  BY <1>1, <3>5 DEF OpenRefund, HandlerState
            <3>6. CASE RecordDecline(h)
                  BY <1>1, <3>6 DEF RecordDecline, HandlerState
            <3>7. CASE OpenRecord(h)
                  BY <1>1, <3>7 DEF OpenRecord, HandlerState
            <3> QED BY <1>4, <3>1, <3>2, <3>3, <3>4, <3>5, <3>6, <3>7 DEF Step
      <2>3. CASE OpenRefund(h)
            <3>1. PICK i \in RefundIds :
                     /\ refunds[i].status = "none"
                     /\ refunds' = [refunds EXCEPT ![i] = [status |-> "pending",
                                                           body |-> handler[h].body]]
                  BY <2>3 DEF OpenRefund, NextId
            <3> QED BY <2>1, <2>2, <3>1 DEF IsIssued, IInv, TypeOK
      <2>4. CASE RecordDecline(h)
            <3>1. /\ handler[h].refund \in RefundIds
                  /\ refunds[handler[h].refund].status = "pending"
                  BY <2>4 DEF RecordDecline, IInv, HandlerInv, OpenedInv, Opened
            <3>2. refunds[handler[h].refund] \in RefundRow
                  BY <3>1 DEF IInv, TypeOK
            <3>3. refunds'[handler[h].refund].status = "failed"
                  BY <2>4, <3>1, <3>2 DEF RecordDecline, IInv, TypeOK, RefundRow
            <3>4. \A i \in RefundIds : i # handler[h].refund => refunds'[i] = refunds[i]
                  BY <2>4 DEF RecordDecline, IInv, TypeOK
            <3> QED BY <2>1, <2>2, <3>1, <3>3, <3>4 DEF IsIssued
      <2>5. CASE ~OpenRefund(h) /\ ~RecordDecline(h)
            <3>1. refunds' = refunds
                  BY <1>4, <2>5 DEF Step, Reserve, KeyTaken, Replay, Refuse, ReadPayment,
                     AnswerDuplicate, RefuseAmount, GatewayPays, GatewayDeclines,
                     OpenRecord, Finalize, FinalizeFails, Release, Throw, Die
            <3> QED BY <2>1, <2>2, <3>1, SMTT(40) DEF IsIssued
      <2> QED BY <2>3, <2>4, <2>5
<1>5. ASSUME NEW k \in AllKeys, Purge(k)
      PROVE  Goal /\ \A g \in Handlers : Reads(g)
      BY <1>2, <1>5 DEF Purge, outside
<1>6. ASSUME CancelOrder
      PROVE  Goal /\ \A g \in Handlers : Reads(g)
      <2>1. UNCHANGED <<refunds, raced, handler>> /\ payment'.refunded = payment.refunded
            BY <1>1, <1>6 DEF CancelOrder, outside, PaymentRow
      <2> QED BY <2>1 DEF IsIssued
<1>7. ASSUME LoseEvent \/ UNCHANGED vars
      PROVE  Goal /\ \A g \in Handlers : Reads(g)
      BY <1>2, <1>7 DEF LoseEvent, vars, outside
<1> HIDE DEF Goal, Reads
<1>8. Goal /\ \A g \in Handlers : Reads(g)
      BY <1>3, <1>4, <1>5, <1>6, <1>7 DEF Next
<1> QED BY <1>8 DEF Goal, Reads

\* The two sums keep together.
LEMMA NextKeepsAmountInv ==
    ASSUME IInv, IInv', AmountInv, [Next]_vars
    PROVE  AmountInv'
<1>1. IssuedAmount \in Nat /\ IssuedAmount' \in Nat
      BY FinitelyManyUnits DEF IssuedAmount, IssuedUnits
<1>2. payment.refunded \in Nat /\ payment'.refunded \in Nat
      BY RefundAmounts DEF IInv, TypeOK, PaymentRow
<1>3. \A h \in Handlers : handler[h] \in HandlerState /\ handler[h].read.refunded \in Nat
      BY RefundAmounts DEF IInv, TypeOK, HandlerState, PaymentRow
<1>4. ASSUME NEW h \in Handlers, CommitRecord(h)
      PROVE  AmountInv'
      <2> DEFINE i == handler[h].refund
                 amount == handler[h].body.amount
      <2>1. /\ i \in RefundIds /\ refunds[i] \in RefundRow /\ refunds[i].status = "pending"
            /\ refunds[i].body = handler[h].body /\ handler[h].pc = "commit"
            BY <1>4 DEF CommitRecord, IInv, TypeOK, HandlerInv, OpenedInv, Opened
      <2>2. /\ refunds'[i].status = "issued" /\ refunds'[i].body = refunds[i].body
            /\ \A j \in RefundIds : j # i => refunds'[j] = refunds[j]
            BY <1>4, <2>1 DEF CommitRecord, IInv, TypeOK, RefundRow
      <2>3. IssuedAmount' = IssuedAmount + amount
            BY <2>1, <2>2, AmountGrows DEF IsIssued, IInv
      <2>4. amount \in Nat /\ amount > 0
            BY <1>3, RefundAmounts DEF HandlerState, Body
      <2>5. handler[h].read.refunded <= IssuedAmount
            BY <2>1 DEF AmountInv
      <2>6. /\ payment'.refunded \in {payment.refunded, handler[h].read.refunded + amount}
            /\ ~raced' => ~raced /\ payment'.refunded = payment.refunded + amount
            BY <1>4, RecordedPayment
      <2>7. /\ \A g \in Handlers \ {h} : handler'[g] = handler[g]
            /\ handler'[h].pc = "finalize"
            BY <1>3, <1>4 DEF CommitRecord, IInv, TypeOK, HandlerState
      <2> HIDE DEF amount, i
      <2>8. \A g \in Handlers : handler'[g].pc \in {"check", "pay", "record", "commit"}
               => handler'[g].read.refunded <= IssuedAmount'
            BY <1>1, <1>3, <2>3, <2>4, <2>7 DEF AmountInv
      <2> QED BY <1>1, <1>2, <1>3, <2>3, <2>4, <2>5, <2>6, <2>8 DEF AmountInv
<1>5. CASE \A h \in Handlers : ~CommitRecord(h)
      <2>1. IssuedAmount' = IssuedAmount
            BY <1>5, OtherStepsIssueNothing, AmountStays
      <2> QED BY <1>1, <1>2, <1>3, <1>5, <2>1, OtherStepsIssueNothing DEF AmountInv
<1> QED BY <1>4, <1>5

\* Nothing is refunded and nothing issued at first.
LEMMA InitKeepsAmounts == Init => AmountInv
<1> SUFFICES ASSUME Init PROVE AmountInv
    OBVIOUS
<1>1. Issued = {} /\ payment.refunded = 0 /\ \A h \in Handlers : handler[h].pc = "idle"
      BY DEF Init, Issued, NoRefund, CapturedPayment, Idle
<1>2. IssuedUnits = {}
      BY <1>1 DEF IssuedUnits
<1>3. IssuedAmount = 0
      BY <1>2, FS_EmptySet DEF IssuedAmount
<1> QED BY <1>1, <1>3 DEF AmountInv

\* The payment row claims no more than the issued refunds add up to, and
\* exactly that, with the status that goes with it, as long as no refund was
\* recorded over one it had not read.
THEOREM RowClaimsWhatWasIssued == Spec => []RefundedMatchesIssued
<1>1. IInv /\ AmountInv => RefundedMatchesIssued
      BY DEF IInv, RowInv, AmountInv, RefundedMatchesIssued
<1>2. IInv /\ IInv' /\ AmountInv /\ [Next]_vars => AmountInv'
      BY NextKeepsAmountInv
<1> QED BY <1>1, <1>2, InitKeepsAmounts, Invariance, PTL DEF Spec
=============================================================================
