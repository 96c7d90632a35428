---------------------------- MODULE ReturnsProofs ----------------------------
(***************************************************************************)
(* Proofs about return requests, for any order, any baskets, any number of *)
(* requests, handlers, retries and failures.                               *)
(*                                                                         *)
(* A return moves along Reached: what was ever announced, or is about to   *)
(* be, is a status it has passed, and a step adds a status that was not    *)
(* there.  The version carries this over the races: a handler that still   *)
(* holds the version of the row holds the row itself.  From this follows   *)
(* that Returns implements ReturnService.                                  *)
(***************************************************************************)
EXTENDS Returns, FiniteSetTheorems, TLAPS

Settled(r) == rmas[r].status \in {"inspected", "closed"}

\* The fields of a handler; what it read of other rows may be anything.
Shape(x) ==
    /\ x = [pc |-> x.pc, step |-> x.step, rma |-> x.rma, verdict |-> x.verdict,
            cancelled |-> x.cancelled, sums |-> x.sums, row |-> x.row, attempt |-> x.attempt]
    /\ x.row \in ReturnRequest

TypesFit ==
    /\ cancelled \in Units
    /\ rmas \in [Rmas -> ReturnRequest]
    /\ handler = [h \in Handlers |-> handler[h]]
    /\ \A h \in Handlers : Shape(handler[h])
    /\ credited = [r \in Rmas |-> credited[r]]
    /\ announced \in [Rmas -> [Statuses -> Nat]]

\* An order that names its buyer has requests of that buyer only.
OfBuyer(row) == Buyer # Nobody => row.customer = Buyer

BuyersOnly ==
    /\ \A r \in Rmas : OfBuyer(rmas[r])
    /\ \A h \in Handlers : OfBuyer(handler[h].row)

\* A handler that saves knows the row it read, or the version moved on.
SaveFits(x) ==
    x.pc = "save" =>
        /\ x.step \in Steps /\ x.row.status = From[x.step]
        /\ x.verdict \in Verdicts /\ (x.step # "inspect" => x.verdict = NoVerdict)
        /\ x.row.version <= rmas[x.rma].version
        /\ x.row.version = rmas[x.rma].version => x.row = rmas[x.rma]

RestockFits(x) ==
    x.pc = "restock" => x.row.status = "inspected" /\ x.row.lines = rmas[x.rma].lines

Pending(x) == x.pc \in {"restock", "emit"}

\* What a handler is about to announce was reached and not announced.
PendingFits(x) ==
    Pending(x) =>
        /\ x.row.status \in Reached[rmas[x.rma].status]
        /\ announced[x.rma][x.row.status] = 0

\* An open has judged no line yet, and what it is about to insert fits what it
\* read.
OpensFit(x) ==
    /\ x.pc \in {"sum", "insert"} =>
          /\ x.row.status = "requested" /\ FitForResale(x.row.lines) = {}
          /\ x.cancelled \in Units
    /\ x.pc = "insert" =>
          \A s \in Filled(x.row.lines) :
              x.row.lines[s].quantity <= Returnable(x.cancelled, x.sums, x.row.lines[s].line)

Fits(x) ==
    /\ x.pc \in {"save", "restock", "emit"} => x.rma \in Rmas /\ rmas[x.rma].status # "absent"
    /\ OpensFit(x) /\ SaveFits(x) /\ RestockFits(x) /\ PendingFits(x)

HandlersFit == \A h \in Handlers : Fits(handler[h])

\* No two handlers are about to announce the same.
Apart ==
    \A g, h \in Handlers :
        g # h /\ Pending(handler[g]) /\ Pending(handler[h])
          => handler[g].rma # handler[h].rma \/ handler[g].row.status # handler[h].row.status

AnnouncedReached ==
    \A r \in Rmas, s \in Statuses :
        /\ announced[r][s] <= 1
        /\ announced[r][s] # 0 => s \in Reached[rmas[r].status]

CallsSettled == \A r \in leftToOperator \cup calls : r \in Rmas /\ Settled(r)

IInv ==
    /\ TypesFit /\ BuyersOnly /\ HandlersFit /\ Apart
    /\ AnnouncedReached /\ CallsSettled /\ CreditedAsInspected

\* The buyer can open by its id whatever the list of the order shows, also the
\* requests staff opened: the row names the buyer of the order.
ListedIsReadable == \A u \in Users : CanList(u) => \A r \in Listed : CanGet(u, r)

-----------------------------------------------------------------------------
LEMMA BlankLineIsALine == ASSUME NEW l \in Lines PROVE BlankLine(l) \in ReturnLine
BY DEF BlankLine, ReturnLine

LEMMA AbsentIsARow == Absent \in ReturnRequest /\ Absent.status = "absent" /\ OfBuyer(Absent)
<1>1. PICK l \in Lines : l = CHOOSE x \in Lines : TRUE
      BY ReturnedOrder
<1>2. NoLines \in [Slots -> ReturnLine]
      BY <1>1, BlankLineIsALine DEF NoLines
<1>3. Absent = [status |-> "absent", customer |-> Buyer, lines |-> NoLines, version |-> 0]
      BY DEF Absent
<1> QED BY <1>2, <1>3, ReturnedOrder DEF ReturnRequest, OfBuyer

LEMMA NoVerdictIsAVerdict == NoVerdict \in Verdicts /\ DOMAIN NoVerdict = {}
<1>1. NoVerdict \in [{} -> Dispositions]
      BY DEF NoVerdict
<1> QED BY <1>1 DEF Verdicts

LEMMA IdleFits ==
    /\ Shape(Idle) /\ Idle.pc = "idle" /\ OfBuyer(Idle.row)
    /\ Idle.row = Absent /\ Idle.verdict = NoVerdict
    /\ Idle.cancelled = NoUnits /\ Idle.sums = NoUnits
BY AbsentIsARow, NoVerdictIsAVerdict, ReturnBounds DEF Idle, Shape

LEMMA InitIsSound == Init => IInv
<1> SUFFICES ASSUME Init PROVE IInv
    OBVIOUS
<1> USE DEF Init
<1>1. TypesFit
      BY AbsentIsARow, IdleFits DEF TypesFit, NoUnits, Units
<1>2. BuyersOnly
      BY AbsentIsARow, IdleFits DEF BuyersOnly
<1>3. HandlersFit /\ Apart
      BY IdleFits DEF HandlersFit, Fits, OpensFit, SaveFits, RestockFits, PendingFits, Apart, Pending
<1>4. AnnouncedReached /\ CallsSettled /\ CreditedAsInspected
      BY DEF AnnouncedReached, CallsSettled, CreditedAsInspected
<1> QED BY <1>1, <1>2, <1>3, <1>4 DEF IInv

-----------------------------------------------------------------------------
(* One handler moves, the rows stay.                                       *)

LEMMA OneHandlerMoves ==
    ASSUME IInv, NEW h \in Handlers, NEW x,
           UNCHANGED <<tables, announced>>,
           handler' = [handler EXCEPT ![h] = x],
           Shape(x), OfBuyer(x.row), Fits(x),
           Pending(x) => /\ Pending(handler[h])
                         /\ x.rma = handler[h].rma /\ x.row.status = handler[h].row.status,
           credited' = [r \in Rmas |-> credited'[r]], CreditedAsInspected',
           CallsSettled'
    PROVE  IInv'
<1>1. /\ handler'[h] = x
      /\ \A g \in Handlers : g # h => handler'[g] = handler[g]
      /\ handler' = [g \in Handlers |-> handler'[g]]
      BY DEF IInv, TypesFit
<1>2. TypesFit'
      BY <1>1 DEF tables, IInv, TypesFit, Shape
<1>3. BuyersOnly'
      BY <1>1 DEF tables, IInv, BuyersOnly
<1>4. HandlersFit'
      <2> SUFFICES ASSUME NEW g \in Handlers PROVE Fits(handler[g])'
          BY DEF HandlersFit
      <2>1. CASE g = h
            BY <1>1, <2>1 DEF tables, Fits, OpensFit, SaveFits, RestockFits, PendingFits, Pending
      <2>2. CASE g # h
            BY <1>1, <2>2 DEF tables, IInv, HandlersFit, Fits, OpensFit, SaveFits, RestockFits, PendingFits, Pending
      <2> QED BY <2>1, <2>2
<1>5. Apart'
      BY <1>1 DEF IInv, Apart, Pending
<1>6. AnnouncedReached'
      BY DEF tables, IInv, AnnouncedReached
<1> QED BY <1>2, <1>3, <1>4, <1>5, <1>6 DEF IInv

\* A step that moves one handler and nothing the invariant reads besides.
LEMMA HandlerStep ==
    ASSUME IInv, NEW h \in Handlers, NEW x,
           UNCHANGED <<tables, outside>>,
           handler' = [handler EXCEPT ![h] = x],
           Shape(x), OfBuyer(x.row), Fits(x),
           Pending(x) => /\ Pending(handler[h])
                         /\ x.rma = handler[h].rma /\ x.row.status = handler[h].row.status
    PROVE  IInv'
<1>1. credited' = [r \in Rmas |-> credited'[r]] /\ CreditedAsInspected' /\ CallsSettled'
      BY DEF tables, outside, restocks, IInv, TypesFit, CreditedAsInspected, CallsSettled, Settled
<1> QED BY <1>1, OneHandlerMoves DEF outside, restocks

LEMMA LeavingKeepsIInv ==
    ASSUME IInv, NEW h \in Handlers, UNCHANGED <<tables, credited, announced>>, Leave(h), CallsSettled'
    PROVE  IInv'
<1>1. Fits(Idle) /\ ~Pending(Idle)
      BY IdleFits DEF tables, Fits, OpensFit, SaveFits, RestockFits, PendingFits, Pending
<1>2. credited' = [r \in Rmas |-> credited'[r]] /\ CreditedAsInspected'
      BY DEF tables, IInv, TypesFit, CreditedAsInspected
<1> QED BY <1>1, <1>2, IdleFits, OneHandlerMoves DEF Leave

LEMMA CancelKeepsIInv == ASSUME IInv, CancelLine PROVE IInv'
<1>1. cancelled' \in Units
      <2>1. PICK l \in Lines : \E fulfilled \in 0 .. Quantity[l] - cancelled[l] :
                \E quantity \in 1 .. Quantity[l] - cancelled[l] - fulfilled :
                    cancelled' = [cancelled EXCEPT ![l] = @ + quantity]
            BY DEF CancelLine
      <2>2. PICK quantity \in Nat : cancelled' = [cancelled EXCEPT ![l] = @ + quantity]
            <3>1. Quantity[l] - cancelled[l] \in Int
                  BY ReturnedOrder DEF IInv, TypesFit, Units
            <3>2. PICK fulfilled \in 0 .. Quantity[l] - cancelled[l] :
                      \E quantity \in 1 .. Quantity[l] - cancelled[l] - fulfilled :
                          cancelled' = [cancelled EXCEPT ![l] = @ + quantity]
                  BY <2>1
            <3>3. Quantity[l] - cancelled[l] - fulfilled \in Int
                  BY <3>1
            <3>4. \A n \in 1 .. Quantity[l] - cancelled[l] - fulfilled : n \in Nat
                  BY <3>3
            <3> QED BY <3>2, <3>4
      <2>3. cancelled[l] + quantity \in Nat
            BY DEF IInv, TypesFit, Units
      <2> QED BY <2>2, <2>3 DEF IInv, TypesFit, Units
<1>2. UNCHANGED <<rmas, handler, credited, announced, leftToOperator, calls>>
      BY DEF CancelLine, outside, restocks
<1>3. TypesFit'
      BY <1>1, <1>2 DEF IInv, TypesFit, Shape
<1> QED BY <1>2, <1>3 DEF IInv, BuyersOnly, HandlersFit, Fits, OpensFit, SaveFits,
        RestockFits, PendingFits, Apart, Pending, AnnouncedReached, CallsSettled, Settled,
        CreditedAsInspected

-----------------------------------------------------------------------------
(* Opening.                                                                *)

LEMMA OpenedIsARow ==
    ASSUME NEW u \in Users, NEW basket \in Baskets
    PROVE  /\ Opened(u, basket) \in ReturnRequest
           /\ Opened(u, basket).status = "requested" /\ OfBuyer(Opened(u, basket))
           /\ FitForResale(Opened(u, basket).lines) = {}
<1> DEFINE lines == AskedLines(basket)
<1>1. ASSUME NEW s \in Slots
      PROVE  /\ [BlankLine(basket[s].line) EXCEPT !.quantity = basket[s].quantity] \in ReturnLine
             /\ [BlankLine(basket[s].line) EXCEPT !.quantity = basket[s].quantity].disposition = "none"
      <2>1. basket[s].line \in Lines /\ basket[s].quantity \in Nat
            BY ReturnedBaskets
      <2> QED BY <2>1 DEF BlankLine, ReturnLine
<1>2. lines \in [Slots -> ReturnLine] /\ FitForResale(lines) = {}
      BY <1>1 DEF AskedLines, FitForResale, Filled
<1>3. Opened(u, basket) = [status |-> "requested", customer |-> CustomerOf(u), version |-> 2, lines |-> lines]
      BY DEF Opened
<1>4. CustomerOf(u) \in Users \cup {Nobody} /\ (Buyer # Nobody => CustomerOf(u) = Buyer)
      BY ReturnedOrder DEF CustomerOf
<1> HIDE DEF lines
<1> QED BY <1>2, <1>3, <1>4 DEF ReturnRequest, Statuses, OfBuyer

LEMMA BeginOpenKeepsIInv == ASSUME IInv, NEW h \in Handlers, BeginOpen(h) PROVE IInv'
<1>1. PICK u \in Users, basket \in Baskets :
          handler' = [handler EXCEPT ![h] = [Idle EXCEPT
                !.pc = "sum", !.cancelled = cancelled, !.row = Opened(u, basket)]]
      BY DEF BeginOpen
<1> DEFINE row == Opened(u, basket)
           a == [Idle EXCEPT !.pc = "sum"]
           b == [a EXCEPT !.cancelled = cancelled]
           x == [b EXCEPT !.row = row]
<1>2. /\ row \in ReturnRequest /\ row.status = "requested" /\ OfBuyer(row)
      /\ FitForResale(row.lines) = {} /\ cancelled \in Units
      BY OpenedIsARow DEF IInv, TypesFit
<1>3. handler' = [handler EXCEPT ![h] = x]
      BY <1>1
<1> HIDE DEF row
<1>4. Shape(x) /\ x.pc = "sum" /\ x.row = row /\ x.cancelled = cancelled
      <2>1. Shape(a) /\ a.pc = "sum"
            BY IdleFits DEF Shape
      <2> HIDE DEF a
      <2>2. Shape(b) /\ b.pc = "sum" /\ b.cancelled = cancelled
            BY <2>1 DEF Shape
      <2> HIDE DEF b
      <2> QED BY <1>2, <2>2 DEF Shape
<1> HIDE DEF x
<1>5. Fits(x) /\ ~Pending(x)
      BY <1>2, <1>4 DEF Fits, OpensFit, SaveFits, RestockFits, PendingFits, Pending
<1> QED BY <1>2, <1>3, <1>4, <1>5, HandlerStep DEF BeginOpen, tables

LEMMA SumReturnedKeepsIInv == ASSUME IInv, NEW h \in Handlers, SumReturned(h) PROVE IInv'
<1> DEFINE sums == AlreadyReturned(rmas)
           a == [handler[h] EXCEPT !.pc = "insert"]
           x == [a EXCEPT !.sums = sums]
<1> HIDE DEF sums
<1>1. CASE Leave(h)
      <2>1. CallsSettled'
            BY DEF SumReturned, outside, restocks, tables, IInv, CallsSettled, Settled
      <2> QED BY <1>1, <2>1, LeavingKeepsIInv DEF SumReturned, outside, restocks, tables
<1>2. CASE /\ EachFits(h, sums)
           /\ handler' = [handler EXCEPT ![h].pc = "insert", ![h].sums = sums]
      <2>1. Shape(handler[h]) /\ handler[h].pc = "sum" /\ Fits(handler[h])
            /\ OfBuyer(handler[h].row)
            BY DEF SumReturned, IInv, TypesFit, HandlersFit, BuyersOnly
      <2>2. handler' = [handler EXCEPT ![h] = x]
            BY <1>2 DEF IInv, TypesFit
      <2>3. /\ Shape(x) /\ x.pc = "insert" /\ x.row = handler[h].row
            /\ x.cancelled = handler[h].cancelled /\ x.sums = sums
            <3>1. /\ Shape(a) /\ a.pc = "insert" /\ a.row = handler[h].row
                  /\ a.cancelled = handler[h].cancelled
                  BY <2>1 DEF Shape
            <3> HIDE DEF a
            <3> QED BY <3>1 DEF Shape
      <2> HIDE DEF x
      <2>4. Fits(x) /\ ~Pending(x)
            BY <1>2, <2>1, <2>3 DEF EachFits, Fits, OpensFit, SaveFits, RestockFits, PendingFits, Pending
      <2> QED BY <2>1, <2>2, <2>3, <2>4, HandlerStep DEF SumReturned, tables
<1> QED BY <1>1, <1>2 DEF SumReturned, sums

\* Nobody knows a request before its row is there.
LEMMA InsertKeepsIInv == ASSUME IInv, NEW h \in Handlers, InsertRequest(h) PROVE IInv'
<1>1. PICK r \in Rmas :
          /\ rmas[r] = Absent
          /\ rmas' = [rmas EXCEPT ![r] = handler[h].row]
          /\ handler' = [handler EXCEPT ![h] = [Idle EXCEPT
                !.pc = "emit", !.rma = r, !.row = handler[h].row]]
      BY DEF InsertRequest
<1> DEFINE row == handler[h].row
           a == [Idle EXCEPT !.pc = "emit"]
           b == [a EXCEPT !.rma = r]
           x == [b EXCEPT !.row = row]
<1>2. row \in ReturnRequest /\ row.status = "requested" /\ OfBuyer(row)
      BY DEF InsertRequest, IInv, TypesFit, Shape, HandlersFit, Fits, OpensFit, BuyersOnly
<1>3. handler' = [handler EXCEPT ![h] = x] /\ rmas' = [rmas EXCEPT ![r] = row]
      BY <1>1
<1> HIDE DEF row
<1>5. Shape(x) /\ x.pc = "emit" /\ x.row = row /\ x.rma = r
      <2>1. Shape(a) /\ a.pc = "emit"
            BY IdleFits DEF Shape
      <2> HIDE DEF a
      <2>2. Shape(b) /\ b.pc = "emit" /\ b.rma = r
            BY <2>1 DEF Shape
      <2> HIDE DEF b
      <2> QED BY <1>2, <2>2 DEF Shape
<1> HIDE DEF x
<1>6. /\ rmas' \in [Rmas -> ReturnRequest] /\ rmas'[r] = row
      /\ \A q \in Rmas : q # r => rmas'[q] = rmas[q]
      BY <1>2, <1>3 DEF IInv, TypesFit
<1>7. /\ handler'[h] = x /\ handler' = [g \in Handlers |-> handler'[g]]
      /\ \A g \in Handlers : g # h => handler'[g] = handler[g]
      BY <1>3 DEF IInv, TypesFit
<1>8. rmas[r].status = "absent" /\ Reached[rmas[r].status] = {}
      BY <1>1, AbsentIsARow DEF Reached
<1>9. TypesFit'
      <2>1. ASSUME NEW g \in Handlers PROVE Shape(handler[g])'
            <3>1. CASE g = h
                  BY <3>1, <1>5, <1>7 DEF Shape
            <3>2. CASE g # h
                  BY <3>2, <1>7 DEF IInv, TypesFit, Shape
            <3> QED BY <3>1, <3>2
      <2> QED BY <2>1, <1>6, <1>7 DEF InsertRequest, restocks, IInv, TypesFit
<1>10. BuyersOnly'
      BY <1>2, <1>5, <1>6, <1>7 DEF IInv, BuyersOnly
<1>11. \A s \in Statuses : announced[r][s] = 0
      BY <1>8 DEF IInv, AnnouncedReached
<1>12. "requested" \in Statuses /\ "requested" \in Reached["requested"]
      BY DEF Statuses, Reached
<1>13. HandlersFit'
      <2> SUFFICES ASSUME NEW g \in Handlers PROVE Fits(handler[g])'
          BY DEF HandlersFit
      <2>1. CASE g = h
            <3>1. handler'[g] = x /\ x.pc = "emit" /\ x.rma = r /\ x.row.status = "requested"
                  BY <2>1, <1>2, <1>5, <1>7
            <3>2. rmas'[r].status = "requested" /\ announced'[r]["requested"] = 0
                  BY <1>2, <1>6, <1>11, <1>12 DEF InsertRequest
            <3> QED BY <3>1, <3>2, <1>12 DEF Fits, OpensFit, SaveFits, RestockFits, PendingFits, Pending
      <2>2. CASE g # h
            <3>1. Fits(handler[g]) /\ handler'[g] = handler[g]
                  BY <2>2, <1>7 DEF IInv, HandlersFit
            <3>2. handler[g].pc \in {"save", "restock", "emit"} => handler[g].rma # r
                  BY <3>1, <1>8 DEF Fits
            <3> QED BY <3>1, <3>2, <1>6
                    DEF InsertRequest, Fits, OpensFit, SaveFits, RestockFits, PendingFits, Pending
      <2> QED BY <2>1, <2>2
<1>14. Apart'
      <2>1. \A g \in Handlers : g # h /\ Pending(handler[g]) => handler[g].rma # r
            BY <1>8 DEF IInv, HandlersFit, Fits, Pending
      <2> QED BY <2>1, <1>5, <1>7 DEF IInv, Apart, Pending
<1>15. AnnouncedReached'
      <2> SUFFICES ASSUME NEW q \in Rmas, NEW s \in Statuses
                   PROVE  /\ announced[q][s] <= 1
                          /\ announced[q][s] # 0 => s \in Reached[rmas'[q].status]
          BY DEF InsertRequest, AnnouncedReached
      <2> QED BY <1>6, <1>11 DEF IInv, AnnouncedReached
<1>16. CallsSettled' /\ CreditedAsInspected'
      <2>1. ~Settled(r)
            BY <1>8 DEF Settled
      <2> QED BY <2>1, <1>6, <1>8 DEF InsertRequest, restocks, IInv, CallsSettled, Settled, CreditedAsInspected
<1> QED BY <1>9, <1>10, <1>13, <1>14, <1>15, <1>16 DEF IInv

-----------------------------------------------------------------------------
(* Authorize, reject, receive, inspect, close.                             *)

LEMMA Forward ==
    ASSUME NEW step \in Steps
    PROVE  /\ From[step] \in Statuses /\ To[step] \in Statuses
           /\ From[step] # "absent" /\ To[step] # "absent"
           /\ Reached[From[step]] \subseteq Reached[To[step]]
           /\ To[step] \in Reached[To[step]] /\ To[step] \notin Reached[From[step]]
           /\ From[step] \in {"inspected", "closed"} => step = "close" /\ To[step] = "closed"
           /\ step = "inspect" => To[step] = "inspected"
<1>1. CASE step = "authorize"
      BY <1>1 DEF From, To, Reached, Statuses
<1>2. CASE step = "reject"
      BY <1>2 DEF From, To, Reached, Statuses
<1>3. CASE step = "receive"
      BY <1>3 DEF From, To, Reached, Statuses
<1>4. CASE step = "inspect"
      BY <1>4 DEF From, To, Reached, Statuses
<1>5. CASE step = "close"
      BY <1>5 DEF From, To, Reached, Statuses
<1> QED BY <1>1, <1>2, <1>3, <1>4, <1>5 DEF Steps

\* Only a return that was inspected has passed that status.
LEMMA InspectedIsSettled ==
    ASSUME NEW s \in Statuses \cup {"absent"}, "inspected" \in Reached[s]
    PROVE  s \in {"inspected", "closed"}
BY DEF Statuses, Reached

LEMMA AppliedWhen ==
    ASSUME NEW row, NEW step, NEW verdict, Applied(row, step, verdict) # Absent
    PROVE  row.status = From[step]
BY DEF Applied

LEMMA BeginKeepsIInv ==
    ASSUME IInv, NEW h \in Handlers, NEW step \in Steps, NEW r \in Rmas, NEW verdict \in Verdicts,
           step # "inspect" => verdict = NoVerdict,
           Begin(h, step, r, verdict)
    PROVE  IInv'
<1> DEFINE a == [Idle EXCEPT !.pc = "save"]
           b == [a EXCEPT !.step = step]
           c == [b EXCEPT !.rma = r]
           d == [c EXCEPT !.verdict = verdict]
           e == [d EXCEPT !.row = rmas[r]]
           x == [e EXCEPT !.attempt = 1]
<1>1. handler' = [handler EXCEPT ![h] = x]
      BY DEF Begin
<1>2. rmas[r].status = From[step] /\ rmas[r] \in ReturnRequest /\ OfBuyer(rmas[r])
      BY AppliedWhen DEF Begin, IInv, TypesFit, BuyersOnly
<1>3. /\ Shape(x) /\ x.pc = "save" /\ x.step = step /\ x.rma = r
      /\ x.verdict = verdict /\ x.row = rmas[r]
      <2>1. Shape(a) /\ a.pc = "save"
            BY IdleFits DEF Shape
      <2> HIDE DEF a
      <2>2. Shape(b) /\ b.pc = "save" /\ b.step = step
            BY <2>1 DEF Shape
      <2> HIDE DEF b
      <2>3. Shape(c) /\ c.pc = "save" /\ c.step = step /\ c.rma = r
            BY <2>2 DEF Shape
      <2> HIDE DEF c
      <2>4. Shape(d) /\ d.pc = "save" /\ d.step = step /\ d.rma = r /\ d.verdict = verdict
            BY <2>3 DEF Shape
      <2> HIDE DEF d
      <2>5. /\ Shape(e) /\ e.pc = "save" /\ e.step = step /\ e.rma = r
            /\ e.verdict = verdict /\ e.row = rmas[r]
            BY <1>2, <2>4 DEF Shape
      <2> HIDE DEF e
      <2> QED BY <2>5 DEF Shape
<1> HIDE DEF x
<1>4. rmas[r].version \in Nat /\ rmas[r].status # "absent"
      BY <1>2, Forward DEF ReturnRequest
<1>5. Fits(x) /\ ~Pending(x)
      BY <1>2, <1>3, <1>4 DEF Fits, OpensFit, SaveFits, RestockFits, PendingFits, Pending
<1> QED BY <1>1, <1>2, <1>3, <1>5, HandlerStep DEF Begin, tables

LEMMA LoseRaceKeepsIInv == ASSUME IInv, NEW h \in Handlers, LoseRace(h) PROVE IInv'
<1> DEFINE row == rmas[handler[h].rma]
           a == [handler[h] EXCEPT !.row = row]
           x == [a EXCEPT !.attempt = @ + 1]
<1>1. Shape(handler[h]) /\ Fits(handler[h]) /\ handler[h].pc = "save"
      BY DEF LoseRace, IInv, TypesFit, HandlersFit
<1>2. handler[h].rma \in Rmas /\ row \in ReturnRequest /\ OfBuyer(row)
      BY <1>1 DEF Fits, IInv, TypesFit, BuyersOnly
<1>3. CASE Leave(h)
      <2>1. CallsSettled'
            BY DEF LoseRace, outside, restocks, tables, IInv, CallsSettled, Settled
      <2> QED BY <1>3, <2>1, LeavingKeepsIInv DEF LoseRace, outside, restocks, tables
<1>4. CASE /\ Applied(row, handler[h].step, handler[h].verdict) # Absent
           /\ handler' = [handler EXCEPT ![h].row = row, ![h].attempt = @ + 1]
      <2>1. handler' = [handler EXCEPT ![h] = x]
            BY <1>4 DEF IInv, TypesFit
      <2>2. row.status = From[handler[h].step]
            BY <1>4, AppliedWhen
      <2> HIDE DEF row
      <2>3. /\ Shape(x) /\ x.pc = "save" /\ x.step = handler[h].step /\ x.rma = handler[h].rma
            /\ x.verdict = handler[h].verdict /\ x.row = row
            <3>1. /\ Shape(a) /\ a.pc = "save" /\ a.step = handler[h].step
                  /\ a.rma = handler[h].rma /\ a.verdict = handler[h].verdict /\ a.row = row
                  BY <1>1, <1>2 DEF Shape
            <3> HIDE DEF a
            <3> QED BY <3>1 DEF Shape
      <2> HIDE DEF x
      <2>4. row.version \in Nat
            BY <1>2 DEF ReturnRequest
      <2>5. Fits(x) /\ ~Pending(x)
            BY <1>1, <2>2, <2>3, <2>4 DEF row, Fits, OpensFit, SaveFits, RestockFits, PendingFits, Pending
      <2> QED BY <1>2, <2>1, <2>3, <2>5, HandlerStep DEF LoseRace, tables
<1> QED BY <1>3, <1>4 DEF LoseRace

\* What a save under the version writes.
LEMMA SavedRow ==
    ASSUME IInv, NEW h \in Handlers, handler[h].pc = "save", VersionMatches(h)
    PROVE  /\ handler[h].rma \in Rmas /\ handler[h].step \in Steps
           /\ rmas[handler[h].rma].status = From[handler[h].step]
           /\ Saved(h) \in ReturnRequest /\ Saved(h).status = To[handler[h].step]
           /\ OfBuyer(Saved(h))
           /\ Saved(h).version = rmas[handler[h].rma].version + 1
           /\ handler[h].step # "inspect" => Saved(h).lines = rmas[handler[h].rma].lines
           /\ \A s \in Slots :
                 /\ Saved(h).lines[s].line = rmas[handler[h].rma].lines[s].line
                 /\ Saved(h).lines[s].quantity = rmas[handler[h].rma].lines[s].quantity
<1> DEFINE row == handler[h].row
           step == handler[h].step
           verdict == handler[h].verdict
           lines == Judged(row.lines, verdict)
           a == [row EXCEPT !.status = To[step]]
           b == [a EXCEPT !.lines = lines]
           c == [b EXCEPT !.version = row.version + 1]
<1>1. /\ step \in Steps /\ row.status = From[step] /\ verdict \in Verdicts
      /\ step # "inspect" => verdict = NoVerdict
      /\ row = rmas[handler[h].rma] /\ handler[h].rma \in Rmas
      BY DEF IInv, HandlersFit, Fits, OpensFit, SaveFits, VersionMatches
<1>2. row \in ReturnRequest /\ OfBuyer(row)
      BY DEF IInv, TypesFit, Shape, BuyersOnly
<1>3. Saved(h) = c
      BY <1>1 DEF Saved, Applied
<1>4. /\ lines \in [Slots -> ReturnLine]
      /\ \A s \in Slots : lines[s].line = row.lines[s].line /\ lines[s].quantity = row.lines[s].quantity
      <2>1. row.lines \in [Slots -> ReturnLine]
            BY <1>2 DEF ReturnRequest
      <2>2. PICK S \in SUBSET Slots : verdict \in [S -> Dispositions]
            BY <1>1 DEF Verdicts
      <2> HIDE DEF row, verdict
      <2>3. ASSUME NEW s \in Slots
            PROVE  LET line == IF s \in DOMAIN verdict
                               THEN [row.lines[s] EXCEPT !.disposition = verdict[s]]
                               ELSE row.lines[s]
                   IN  /\ line \in ReturnLine
                       /\ line.line = row.lines[s].line /\ line.quantity = row.lines[s].quantity
            <3>1. row.lines[s] \in ReturnLine
                  BY <2>1
            <3>2. CASE s \in DOMAIN verdict
                  <4>1. verdict[s] \in Dispositions \cup {"none"}
                        BY <2>2, <3>2
                  <4> QED BY <3>1, <3>2, <4>1 DEF ReturnLine
            <3> QED BY <3>1, <3>2
      <2> QED BY <2>3 DEF Judged
<1>5. step # "inspect" => lines = row.lines
      <2>1. row.lines \in [Slots -> ReturnLine]
            BY <1>2 DEF ReturnRequest
      <2>2. verdict = NoVerdict => lines = row.lines
            BY <2>1, NoVerdictIsAVerdict DEF Judged
      <2> QED BY <1>1, <2>2
<1>6. To[step] \in Statuses /\ row.version \in Nat
      BY <1>1, <1>2, Forward DEF ReturnRequest
<1> HIDE DEF row, step, verdict, lines
<1>7. a \in ReturnRequest /\ a.status = To[step] /\ OfBuyer(a) /\ a.version = row.version
      BY <1>2, <1>6 DEF ReturnRequest, OfBuyer
<1> HIDE DEF a
<1>8. b \in ReturnRequest /\ b.status = To[step] /\ OfBuyer(b) /\ b.lines = lines
      BY <1>4, <1>7 DEF ReturnRequest, OfBuyer
<1> HIDE DEF b
<1>9. /\ c \in ReturnRequest /\ c.status = To[step] /\ OfBuyer(c) /\ c.lines = lines
      /\ c.version = row.version + 1
      BY <1>6, <1>8 DEF ReturnRequest, OfBuyer
<1> HIDE DEF c
<1> QED BY <1>1, <1>3, <1>4, <1>5, <1>9 DEF row, step

\* Of two handlers that hold the row, the one that saves second finds another
\* version; and a step leads to a status the return had not passed.
LEMMA SaveKeepsIInv == ASSUME IInv, NEW h \in Handlers, Save(h) PROVE IInv'
<1> DEFINE q == handler[h].rma
           step == handler[h].step
           new == Saved(h)
           pc == IF step = "inspect" /\ FitForResale(new.lines) # {} THEN "restock" ELSE "emit"
           a == [handler[h] EXCEPT !.pc = pc]
           b == [a EXCEPT !.row = new]
           c == [b EXCEPT !.attempt = 1]
           x == [c EXCEPT !.verdict = NoVerdict]
<1>1. /\ q \in Rmas /\ step \in Steps /\ rmas[q].status = From[step]
      /\ new \in ReturnRequest /\ new.status = To[step] /\ OfBuyer(new)
      /\ new.version = rmas[q].version + 1
      /\ step # "inspect" => new.lines = rmas[q].lines
      BY SavedRow DEF Save
<1>2. handler' = [handler EXCEPT ![h] = x] /\ rmas' = [rmas EXCEPT ![q] = new]
      BY DEF Save, IInv, TypesFit
<1>3. Shape(handler[h]) /\ q = handler[h].rma
      BY DEF IInv, TypesFit
<1>4. pc \in {"restock", "emit"} /\ (pc = "restock" => step = "inspect")
      OBVIOUS
<1> HIDE DEF q, step, new, pc
<1>5. /\ Shape(x) /\ x.pc = pc /\ x.rma = q /\ x.row = new
      <2>1. Shape(a) /\ a.pc = pc /\ a.rma = q
            BY <1>3 DEF Shape
      <2> HIDE DEF a
      <2>2. Shape(b) /\ b.pc = pc /\ b.rma = q /\ b.row = new
            BY <1>1, <2>1 DEF Shape
      <2> HIDE DEF b
      <2>3. Shape(c) /\ c.pc = pc /\ c.rma = q /\ c.row = new
            BY <2>2 DEF Shape
      <2> HIDE DEF c
      <2> QED BY <2>3 DEF Shape
<1> HIDE DEF x
<1>6. /\ rmas' \in [Rmas -> ReturnRequest] /\ rmas'[q] = new
      /\ \A r \in Rmas : r # q => rmas'[r] = rmas[r]
      BY <1>1, <1>2 DEF IInv, TypesFit
<1>7. /\ handler'[h] = x /\ handler' = [g \in Handlers |-> handler'[g]]
      /\ \A g \in Handlers : g # h => handler'[g] = handler[g]
      BY <1>2 DEF IInv, TypesFit
<1>8. /\ From[step] # "absent" /\ To[step] \in Statuses /\ To[step] # "absent"
      /\ Reached[From[step]] \subseteq Reached[To[step]]
      /\ To[step] \in Reached[To[step]] /\ To[step] \notin Reached[From[step]]
      /\ step = "inspect" => To[step] = "inspected"
      BY <1>1, Forward
\* A settled return is closed, and its lines stay.
<1>9. Settled(q) => new.status = "closed" /\ new.lines = rmas[q].lines
      BY <1>1, Forward DEF Settled
<1>10. TypesFit'
      <2>1. ASSUME NEW g \in Handlers PROVE Shape(handler[g])'
            <3>1. CASE g = h
                  BY <3>1, <1>5, <1>7 DEF Shape
            <3>2. CASE g # h
                  BY <3>2, <1>7 DEF IInv, TypesFit, Shape
            <3> QED BY <3>1, <3>2
      <2> QED BY <2>1, <1>6, <1>7 DEF Save, outside, restocks, IInv, TypesFit
<1>11. BuyersOnly'
      BY <1>1, <1>5, <1>6, <1>7 DEF IInv, BuyersOnly
<1>12. announced' = announced /\ UNCHANGED <<credited, leftToOperator, calls>>
      BY DEF Save, outside, restocks
<1>13. AnnouncedReached'
      <2> SUFFICES ASSUME NEW r \in Rmas, NEW s \in Statuses
                   PROVE  /\ announced[r][s] <= 1
                          /\ announced[r][s] # 0 => s \in Reached[rmas'[r].status]
          BY <1>12 DEF AnnouncedReached
      <2> QED BY <1>1, <1>6, <1>8 DEF IInv, AnnouncedReached
<1>14. announced[q][To[step]] = 0
      BY <1>1, <1>8 DEF IInv, AnnouncedReached
<1>15. HandlersFit'
      <2> SUFFICES ASSUME NEW g \in Handlers PROVE Fits(handler[g])'
          BY DEF HandlersFit
      <2>1. CASE g = h
            <3>1. /\ x.pc \in {"restock", "emit"} /\ x.row = rmas'[q] /\ x.rma = q
                  /\ x.row.status = To[step] /\ (x.pc = "restock" => x.row.status = "inspected")
                  BY <1>1, <1>4, <1>5, <1>6, <1>8
            <3>2. handler'[g] = x
                  BY <2>1, <1>7
            <3> QED BY <3>1, <3>2, <1>1, <1>8, <1>12, <1>14
                    DEF Fits, OpensFit, SaveFits, RestockFits, PendingFits, Pending
      <2>2. CASE g # h
            <3>1. Fits(handler[g]) /\ handler'[g] = handler[g]
                  BY <2>2, <1>7 DEF IInv, HandlersFit
            <3>2. CASE handler[g].rma # q
                  BY <3>1, <3>2, <1>6, <1>12 DEF Fits, OpensFit, SaveFits, RestockFits, PendingFits, Pending
            <3>3. CASE handler[g].rma = q
                  <4>1. rmas[q].version \in Nat /\ new.version \in Nat
                        /\ rmas[q].status \in Statuses \cup {"absent"} /\ handler[g].row.version \in Nat
                        BY <1>1 DEF IInv, TypesFit, Shape, ReturnRequest
                  <4>2. SaveFits(handler[g])'
                        BY <3>1, <3>3, <4>1, <1>1, <1>6 DEF Fits, OpensFit, SaveFits
                  <4>3. RestockFits(handler[g])'
                        <5>1. handler[g].pc = "restock" => Settled(q)
                              BY <3>1, <3>3, <4>1, InspectedIsSettled
                                 DEF Fits, RestockFits, PendingFits, Pending, Settled
                        <5> QED BY <3>1, <3>3, <5>1, <1>6, <1>9 DEF Fits, RestockFits
                  <4>4. PendingFits(handler[g])'
                        BY <3>1, <3>3, <1>1, <1>6, <1>8, <1>12 DEF Fits, PendingFits, Pending
                  <4> QED BY <3>1, <3>3, <4>2, <4>3, <4>4, <1>1, <1>6, <1>8 DEF Fits
            <3> QED BY <3>2, <3>3
      <2> QED BY <2>1, <2>2
<1>16. Apart'
      <2>1. ASSUME NEW g \in Handlers, g # h, Pending(handler[g]), handler[g].rma = q
            PROVE  handler[g].row.status # To[step]
            BY <2>1, <1>1, <1>8 DEF IInv, HandlersFit, Fits, PendingFits
      <2>2. x.row.status = To[step] /\ x.rma = q
            BY <1>1, <1>5
      <2> QED BY <2>1, <2>2, <1>7 DEF IInv, Apart, Pending
<1>17. CallsSettled' /\ CreditedAsInspected'
      <2>1. CallsSettled'
            BY <1>6, <1>9, <1>12 DEF IInv, CallsSettled, Settled
      <2>2. CreditedAsInspected'
            <3> SUFFICES ASSUME NEW r \in Rmas, credited[r] # NoUnits
                         PROVE  /\ rmas'[r].status \in {"inspected", "closed"}
                                /\ credited[r] = UnitsOf(rmas'[r].lines, FitForResale(rmas'[r].lines))
                BY <1>12 DEF CreditedAsInspected
            <3>1. Settled(r) /\ credited[r] = UnitsOf(rmas[r].lines, FitForResale(rmas[r].lines))
                  BY DEF IInv, CreditedAsInspected, Settled
            <3>2. CASE r = q
                  BY <3>1, <3>2, <1>6, <1>9
            <3>3. CASE r # q
                  BY <3>1, <3>3, <1>6 DEF Settled
            <3> QED BY <3>2, <3>3
      <2> QED BY <2>1, <2>2
<1> QED BY <1>10, <1>11, <1>13, <1>15, <1>16, <1>17, SMTT(40) DEF IInv

-----------------------------------------------------------------------------
(* The restock and the events.                                             *)

\* Whoever sends the call, and however often, the inventory puts back what the
\* recorded inspection says.
LEMMA CreditFits ==
    ASSUME IInv, NEW r \in Rmas, Settled(r), UNCHANGED rmas,
           \/ UNCHANGED credited
           \/ credited' = [credited EXCEPT ![r] = Credit(r, rmas[r].lines)]
    PROVE  credited' = [p \in Rmas |-> credited'[p]] /\ CreditedAsInspected'
<1>1. CASE UNCHANGED credited
      BY <1>1 DEF IInv, TypesFit, CreditedAsInspected
<1>2. CASE credited' = [credited EXCEPT ![r] = Credit(r, rmas[r].lines)]
      <2>1. /\ credited'[r] = Credit(r, rmas[r].lines)
            /\ \A p \in Rmas : p # r => credited'[p] = credited[p]
            /\ credited' = [p \in Rmas |-> credited'[p]]
            BY <1>2 DEF IInv, TypesFit
      <2>2. ASSUME NEW p \in Rmas, credited'[p] # NoUnits
            PROVE  /\ rmas[p].status \in {"inspected", "closed"}
                   /\ credited'[p] = UnitsOf(rmas[p].lines, FitForResale(rmas[p].lines))
            <3>1. CASE p = r
                  BY <3>1, <2>1, <2>2 DEF Credit, Settled, IInv, CreditedAsInspected
            <3>2. CASE p # r
                  BY <3>2, <2>1, <2>2 DEF IInv, CreditedAsInspected
            <3> QED BY <3>1, <3>2
      <2> QED BY <2>1, <2>2 DEF CreditedAsInspected
<1> QED BY <1>1, <1>2

\* The handler that restocks has the lines of the row, and the row is settled.
LEMMA RestockingHandler ==
    ASSUME IInv, NEW h \in Handlers, handler[h].pc = "restock"
    PROVE  /\ handler[h].rma \in Rmas /\ Settled(handler[h].rma)
           /\ handler[h].row.lines = rmas[handler[h].rma].lines
<1>1. /\ handler[h].rma \in Rmas /\ "inspected" \in Reached[rmas[handler[h].rma].status]
      /\ handler[h].row.lines = rmas[handler[h].rma].lines
      BY DEF IInv, HandlersFit, Fits, RestockFits, PendingFits, Pending
<1>2. rmas[handler[h].rma].status \in Statuses \cup {"absent"}
      BY <1>1 DEF IInv, TypesFit, ReturnRequest
<1> QED BY <1>1, <1>2, InspectedIsSettled DEF Settled

\* The call ends, or goes round once more.
LEMMA RestockMove ==
    ASSUME IInv, NEW h \in Handlers, handler[h].pc = "restock",
           UNCHANGED <<tables, announced>>,
           \/ UNCHANGED credited
           \/ credited' = [credited EXCEPT ![handler[h].rma] =
                               Credit(handler[h].rma, handler[h].row.lines)],
           \/ Goto(h, "emit")
           \/ handler' = [handler EXCEPT ![h].attempt = @ + 1],
           leftToOperator' \subseteq leftToOperator \cup {handler[h].rma},
           calls' \subseteq calls \cup {handler[h].rma}
    PROVE  IInv'
<1>1. /\ handler[h].rma \in Rmas /\ Settled(handler[h].rma)
      /\ handler[h].row.lines = rmas[handler[h].rma].lines
      BY RestockingHandler
<1>2. credited' = [p \in Rmas |-> credited'[p]] /\ CreditedAsInspected'
      BY <1>1, CreditFits DEF tables
<1>3. CallsSettled'
      BY <1>1 DEF tables, IInv, CallsSettled, Settled
<1>4. /\ Shape(handler[h]) /\ Fits(handler[h]) /\ OfBuyer(handler[h].row)
      BY DEF IInv, TypesFit, HandlersFit, BuyersOnly
<1>5. CASE Goto(h, "emit")
      <2> DEFINE x == [handler[h] EXCEPT !.pc = "emit"]
      <2>1. handler' = [handler EXCEPT ![h] = x]
            BY <1>5 DEF Goto
      <2>2. Shape(x) /\ x.pc = "emit" /\ x.rma = handler[h].rma /\ x.row = handler[h].row
            BY <1>4 DEF Shape
      <2> HIDE DEF x
      <2>3. Fits(x) /\ Pending(x) /\ Pending(handler[h])
            BY <1>4, <2>2 DEF Fits, OpensFit, SaveFits, RestockFits, PendingFits, Pending
      <2> QED BY <1>2, <1>3, <1>4, <2>1, <2>2, <2>3, OneHandlerMoves
<1>6. CASE handler' = [handler EXCEPT ![h].attempt = @ + 1]
      <2> DEFINE x == [handler[h] EXCEPT !.attempt = @ + 1]
      <2>1. handler' = [handler EXCEPT ![h] = x]
            BY <1>6
      <2>2. Shape(x) /\ x.pc = "restock" /\ x.rma = handler[h].rma /\ x.row = handler[h].row
            BY <1>4 DEF Shape
      <2> HIDE DEF x
      <2>3. Fits(x) /\ Pending(x) /\ Pending(handler[h])
            BY <1>4, <2>2 DEF Fits, OpensFit, SaveFits, RestockFits, PendingFits, Pending
      <2> QED BY <1>2, <1>3, <1>4, <2>1, <2>2, <2>3, OneHandlerMoves
<1> QED BY <1>5, <1>6

LEMMA RestockKeepsIInv == ASSUME IInv, NEW h \in Handlers, Restock(h) PROVE IInv'
BY RestockMove DEF Restock, tables

LEMMA RestockFailsKeepsIInv == ASSUME IInv, NEW h \in Handlers, RestockFails(h) PROVE IInv'
<1>1. /\ \/ Goto(h, "emit")
         \/ handler' = [handler EXCEPT ![h].attempt = @ + 1]
      /\ leftToOperator' \subseteq leftToOperator \cup {handler[h].rma}
      BY DEF RestockFails, NextAttempt
<1>2. /\ handler[h].pc = "restock" /\ UNCHANGED <<tables, announced, credited>>
      /\ calls' \subseteq calls \cup {handler[h].rma}
      BY DEF RestockFails, tables
<1> QED BY <1>1, <1>2, RestockMove

LEMMA ReplayKeepsIInv ==
    ASSUME IInv, NEW r \in Rmas, LateRestock(r) \/ OperatorReplays(r) PROVE IInv'
<1>1. Settled(r)
      BY DEF LateRestock, OperatorReplays, IInv, CallsSettled
<1>2. credited' = [p \in Rmas |-> credited'[p]] /\ CreditedAsInspected'
      BY <1>1, CreditFits DEF LateRestock, OperatorReplays, tables
<1>3. UNCHANGED <<cancelled, rmas, handler, announced, leftToOperator>> /\ calls' \subseteq calls
      BY DEF LateRestock, OperatorReplays, tables
<1>4. TypesFit'
      BY <1>2, <1>3 DEF IInv, TypesFit, Shape
<1>5. BuyersOnly' /\ CallsSettled' /\ AnnouncedReached'
      BY <1>3 DEF IInv, BuyersOnly, CallsSettled, Settled, AnnouncedReached
<1>6. HandlersFit' /\ Apart'
      BY <1>3 DEF IInv, HandlersFit, Fits, OpensFit, SaveFits, RestockFits, PendingFits, Apart, Pending
<1> QED BY <1>2, <1>4, <1>5, <1>6 DEF IInv

LEMMA PublishKeepsIInv ==
    ASSUME IInv, NEW h \in Handlers, NEW status \in Statuses, Publish(h, status) PROVE IInv'
<1> DEFINE q == handler[h].rma
<1>1. /\ q \in Rmas /\ Fits(handler[h]) /\ Pending(handler[h]) /\ handler[h].row.status = status
      /\ status \in Reached[rmas[q].status] /\ announced[q][status] = 0
      BY DEF Publish, IInv, HandlersFit, Fits, PendingFits, Pending
<1>2. announced' = [announced EXCEPT ![q][status] = @ + 1]
      BY DEF Publish
<1>3. /\ announced' \in [Rmas -> [Statuses -> Nat]] /\ announced'[q][status] = 1
      /\ \A r \in Rmas, s \in Statuses :
            r # q \/ s # status => announced'[r][s] = announced[r][s]
      BY <1>1, <1>2 DEF IInv, TypesFit
<1>4. /\ handler'[h] = Idle /\ handler' = [g \in Handlers |-> handler'[g]]
      /\ \A g \in Handlers : g # h => handler'[g] = handler[g]
      BY DEF Publish, Leave, IInv, TypesFit
<1>5. UNCHANGED <<cancelled, rmas, credited, leftToOperator, calls>>
      BY DEF Publish, tables, restocks
<1>6. TypesFit'
      <2>1. ASSUME NEW g \in Handlers PROVE Shape(handler[g])'
            <3>1. CASE g = h
                  BY <3>1, <1>4, IdleFits DEF Shape
            <3>2. CASE g # h
                  BY <3>2, <1>4 DEF IInv, TypesFit, Shape
            <3> QED BY <3>1, <3>2
      <2> QED BY <2>1, <1>3, <1>4, <1>5 DEF IInv, TypesFit
<1>7. BuyersOnly'
      BY <1>4, <1>5, IdleFits DEF IInv, BuyersOnly
<1>8. HandlersFit'
      <2> SUFFICES ASSUME NEW g \in Handlers PROVE Fits(handler[g])'
          BY DEF HandlersFit
      <2>1. CASE g = h
            BY <2>1, <1>4, IdleFits DEF Fits, OpensFit, SaveFits, RestockFits, PendingFits, Pending
      <2>2. CASE g # h
            <3>1. Fits(handler[g]) /\ handler'[g] = handler[g]
                  BY <2>2, <1>4 DEF IInv, HandlersFit
            <3>2. Pending(handler[g]) => handler[g].rma # q \/ handler[g].row.status # status
                  BY <2>2, <1>1 DEF IInv, Apart
            <3>3. Pending(handler[g]) => /\ handler[g].rma \in Rmas
                                         /\ handler[g].row.status \in Statuses
                  BY <3>1 DEF Fits, PendingFits, Pending, Reached, IInv, TypesFit, ReturnRequest, Statuses
            <3>4. PendingFits(handler[g])'
                  BY <3>1, <3>2, <3>3, <1>3, <1>5 DEF Fits, PendingFits, Pending
            <3> QED BY <3>1, <3>4, <1>5 DEF Fits, OpensFit, SaveFits, RestockFits
      <2> QED BY <2>1, <2>2
<1>9. Apart'
      BY <1>4, IdleFits DEF IInv, Apart, Pending
<1>10. AnnouncedReached'
      <2> SUFFICES ASSUME NEW r \in Rmas, NEW s \in Statuses
                   PROVE  /\ announced'[r][s] <= 1
                          /\ announced'[r][s] # 0 => s \in Reached[rmas[r].status]
          BY <1>5 DEF AnnouncedReached
      <2> QED BY <1>1, <1>3 DEF IInv, AnnouncedReached
<1>11. CallsSettled' /\ CreditedAsInspected'
      BY <1>5 DEF IInv, CallsSettled, Settled, CreditedAsInspected
<1> QED BY <1>6, <1>7, <1>8, <1>9, <1>10, <1>11 DEF IInv

LEMMA EmitKeepsIInv == ASSUME IInv, NEW h \in Handlers, Emit(h) PROVE IInv'
BY PublishKeepsIInv DEF Emit, EmitRequested, EmitAuthorized, EmitRejected, EmitReceived,
   EmitInspected, EmitClosed, Statuses

LEMMA LoseEventKeepsIInv == ASSUME IInv, NEW h \in Handlers, LoseEvent(h) PROVE IInv'
<1>1. CallsSettled'
      BY DEF LoseEvent, outside, restocks, tables, IInv, CallsSettled, Settled
<1> QED BY <1>1, LeavingKeepsIInv DEF LoseEvent, outside, restocks, tables

LEMMA DieKeepsIInv == ASSUME IInv, NEW h \in Handlers, Die(h) PROVE IInv'
<1>1. CallsSettled'
      BY RestockingHandler DEF Die, tables, IInv, CallsSettled, Settled
<1> QED BY <1>1, LeavingKeepsIInv DEF Die, tables

-----------------------------------------------------------------------------
LEMMA StepKeepsIInv ==
    ASSUME IInv, NEW h \in Handlers, Step(h) \/ Die(h) PROVE IInv'
BY SumReturnedKeepsIInv, InsertKeepsIInv, SaveKeepsIInv, LoseRaceKeepsIInv, RestockKeepsIInv,
   RestockFailsKeepsIInv, EmitKeepsIInv, LoseEventKeepsIInv, DieKeepsIInv DEF Step

LEMMA ArrivalKeepsIInv ==
    ASSUME IInv, NEW h \in Handlers,
           \/ BeginOpen(h) \/ Authorize(h) \/ Reject(h) \/ Receive(h) \/ Inspect(h) \/ Close(h)
    PROVE  IInv'
<1>1. \A step \in {"authorize", "reject", "receive", "close"}, r \in Rmas :
          Begin(h, step, r, NoVerdict) => IInv'
      BY BeginKeepsIInv, NoVerdictIsAVerdict DEF Steps
<1>2. \A r \in Rmas, verdict \in Verdicts : Begin(h, "inspect", r, verdict) => IInv'
      BY BeginKeepsIInv DEF Steps
<1> QED BY <1>1, <1>2, BeginOpenKeepsIInv DEF Authorize, Reject, Receive, Inspect, Close

LEMMA NextKeepsIInv == IInv /\ [Next]_vars => IInv'
<1> SUFFICES ASSUME IInv, [Next]_vars PROVE IInv'
    OBVIOUS
<1>1. CASE UNCHANGED vars
      BY <1>1 DEF vars, tables, outside, restocks, IInv, TypesFit, Shape, BuyersOnly, HandlersFit, Fits,
         SaveFits, RestockFits, PendingFits, Apart, Pending, AnnouncedReached, CallsSettled,
         Settled, CreditedAsInspected
<1>2. CASE Next
      BY <1>2, CancelKeepsIInv, ArrivalKeepsIInv, StepKeepsIInv, ReplayKeepsIInv DEF Next
<1> QED BY <1>1, <1>2

-----------------------------------------------------------------------------
(* Units of the lines.                                                     *)

\* Finitely many finite sets have a finite union.
LEMMA FiniteUnion ==
    ASSUME NEW C, IsFiniteSet(C), NEW F, F = [c \in C |-> F[c]], \A c \in C : IsFiniteSet(F[c])
    PROVE  IsFiniteSet(UNION {F[c] : c \in C})
<1> DEFINE T == {F[c] : c \in C}
<1>1. F \in Surjection(C, T)
      BY DEF Surjection
<1>2. IsFiniteSet(T)
      <2> HIDE DEF T
      <2> QED BY <1>1, FS_Surjection
<1>3. \A S \in T : IsFiniteSet(S)
      OBVIOUS
<1> HIDE DEF T
<1>4. IsFiniteSet(UNION T)
      BY <1>2, <1>3, FS_UNION
<1> QED BY <1>4 DEF T

\* The units of one slot.
LEMMA UnitsOfSlot ==
    ASSUME NEW s, NEW q \in Nat
    PROVE  IsFiniteSet({s} \X (1 .. q)) /\ Cardinality({s} \X (1 .. q)) = q
<1>1. IsFiniteSet(1 .. q) /\ Cardinality(1 .. q) = IF 1 > q THEN 0 ELSE q - 1 + 1
      BY FS_Interval
<1>2. IsFiniteSet({s}) /\ Cardinality({s}) = 1
      BY FS_Singleton
<1>3. IsFiniteSet(1 .. q) /\ Cardinality(1 .. q) = q
      BY <1>1
<1>4. /\ IsFiniteSet({s} \X (1 .. q))
      /\ Cardinality({s} \X (1 .. q)) = Cardinality({s}) * Cardinality(1 .. q)
      BY <1>2, <1>3, FS_Product, Zenon
<1>5. Cardinality({s}) * Cardinality(1 .. q) = q
      BY <1>2, <1>3
<1> QED BY <1>4, <1>5

LEMMA UnitsInFinite ==
    ASSUME NEW lines \in [Slots -> ReturnLine], NEW chosen \in SUBSET Slots, NEW l
    PROVE  IsFiniteSet(UnitsIn(lines, chosen, l)) /\ Cardinality(UnitsIn(lines, chosen, l)) \in Nat
<1> DEFINE C == {x \in chosen : lines[x].line = l}
           F == [s \in C |-> {s} \X (1 .. lines[s].quantity)]
<1>1. IsFiniteSet(C)
      BY ReturnedOrder, FS_Subset
<1>2. \A s \in C : lines[s].quantity \in Nat
      BY DEF ReturnLine
<1>3. \A s \in C : IsFiniteSet(F[s])
      BY <1>2, UnitsOfSlot
<1>4. UnitsIn(lines, chosen, l) = UNION {F[s] : s \in C}
      BY DEF UnitsIn
<1>5. IsFiniteSet(UNION {F[s] : s \in C})
      <2>1. F = [s \in C |-> F[s]]
            OBVIOUS
      <2> HIDE DEF C, F
      <2> QED BY <1>1, <1>3, <2>1, FiniteUnion
<1>6. IsFiniteSet(UnitsIn(lines, chosen, l))
      BY <1>4, <1>5
<1> QED BY <1>6, FS_CardinalityType

LEMMA UnitsOverFinite ==
    ASSUME NEW rows \in [Rmas -> ReturnRequest], NEW R \in SUBSET Rmas, NEW l
    PROVE  IsFiniteSet(UnitsOver(rows, R, l)) /\ Cardinality(UnitsOver(rows, R, l)) \in Nat
<1> DEFINE F == [r \in R |-> {r} \X UnitsIn(rows[r].lines, Slots, l)]
<1>1. IsFiniteSet(R)
      <2>1. IsFiniteSet(Rmas)
            BY ReturnBounds, FS_Interval DEF Rmas
      <2> QED BY <2>1, FS_Subset
<1>2. \A r \in R : IsFiniteSet(F[r])
      <2> SUFFICES ASSUME NEW r \in R PROVE IsFiniteSet({r} \X UnitsIn(rows[r].lines, Slots, l))
          OBVIOUS
      <2>1. rows[r].lines \in [Slots -> ReturnLine]
            BY DEF ReturnRequest
      <2>2. IsFiniteSet(UnitsIn(rows[r].lines, Slots, l)) /\ IsFiniteSet({r})
            BY <2>1, UnitsInFinite, FS_Singleton
      <2> QED BY <2>2, FS_Product
<1>3. UnitsOver(rows, R, l) = UNION {F[r] : r \in R}
      BY DEF UnitsOver
<1>4. IsFiniteSet(UNION {F[r] : r \in R})
      <2>1. F = [r \in R |-> F[r]]
            OBVIOUS
      <2> HIDE DEF F
      <2> QED BY <1>1, <1>2, <2>1, FiniteUnion
<1>5. IsFiniteSet(UnitsOver(rows, R, l))
      BY <1>3, <1>4
<1> QED BY <1>5, FS_CardinalityType

\* A line that is named once contributes what its one slot asks for.
LEMMA NamedOnce ==
    ASSUME NEW lines \in [Slots -> ReturnLine], NEW l \in Lines, l \notin NamedTwice(lines),
           NEW n \in Nat,
           \A s \in Filled(lines) : lines[s].line = l => lines[s].quantity <= n
    PROVE  Cardinality(UnitsIn(lines, Slots, l)) <= n
<1> DEFINE C == {s \in Filled(lines) : lines[s].line = l}
<1>1. IsFiniteSet(C) /\ Cardinality(C) \in Nat
      BY ReturnedOrder, FS_Subset, FS_CardinalityType DEF Filled
<1>2. Cardinality(C) = 0 \/ Cardinality(C) = 1
      <2>1. ~(Cardinality(C) > 1)
            BY DEF NamedTwice
      <2> HIDE DEF C
      <2> QED BY <1>1, <2>1
<1>3. C = {} \/ \E s : C = {s}
      <2> HIDE DEF C
      <2> QED BY <1>1, <1>2, FS_EmptySet, FS_Singleton
<1>4. \A s \in Slots : lines[s].quantity \in Nat
      BY DEF ReturnLine
<1>5. \A u \in UnitsIn(lines, Slots, l) : \E s \in C : u \in {s} \X (1 .. lines[s].quantity)
      BY <1>4 DEF UnitsIn, Filled
<1>6. CASE C = {}
      <2>1. UnitsIn(lines, Slots, l) = {}
            BY <1>5, <1>6
      <2> QED BY <2>1, FS_EmptySet
<1>7. CASE \E s : C = {s}
      <2>1. PICK s : C = {s}
            BY <1>7
      <2>2. s \in Slots /\ lines[s].quantity \in Nat /\ lines[s].quantity <= n
            BY <2>1, <1>4 DEF Filled
      <2>3. UnitsIn(lines, Slots, l) \subseteq {s} \X (1 .. lines[s].quantity)
            BY <1>5, <2>1
      <2>4. /\ IsFiniteSet({s} \X (1 .. lines[s].quantity))
            /\ Cardinality({s} \X (1 .. lines[s].quantity)) = lines[s].quantity
            BY <2>2, UnitsOfSlot
      <2>5. Cardinality(UnitsIn(lines, Slots, l)) <= lines[s].quantity
            BY <2>3, <2>4, FS_Subset
      <2>6. Cardinality(UnitsIn(lines, Slots, l)) \in Nat
            BY UnitsInFinite
      <2> QED BY <2>2, <2>5, <2>6
<1> QED BY <1>3, <1>6, <1>7

\* Goods go back in units.
LEMMA SomethingIsCredited ==
    ASSUME NEW lines \in [Slots -> ReturnLine], FitForResale(lines) # {}
    PROVE  UnitsOf(lines, FitForResale(lines)) # NoUnits
<1>1. PICK s \in FitForResale(lines) : TRUE
      OBVIOUS
<1> DEFINE l == lines[s].line
           U == UnitsIn(lines, FitForResale(lines), l)
<1>2. s \in Slots /\ l \in Lines /\ lines[s].quantity \in Nat /\ lines[s].quantity > 0
      BY <1>1 DEF FitForResale, Filled, ReturnLine
<1>3. <<s, 1>> \in U
      BY <1>2 DEF UnitsIn
<1>4. IsFiniteSet(U)
      BY UnitsInFinite DEF FitForResale, Filled
<1>5. Cardinality(U) # 0
      <2> HIDE DEF U
      <2> QED BY <1>3, <1>4, FS_EmptySet
<1>6. UnitsOf(lines, FitForResale(lines))[l] = Cardinality(U) /\ NoUnits[l] = 0
      BY <1>2 DEF UnitsOf, NoUnits
<1> QED BY <1>5, <1>6

-----------------------------------------------------------------------------
(* Nothing is returned beyond what was ordered.                            *)

Counted(rows) == {r \in Rmas : rows[r].status \notin {"absent", "rejected"}}

\* Requests that count less, or less of them, are no more units.
LEMMA FewerUnits ==
    ASSUME NEW rows \in [Rmas -> ReturnRequest], NEW rows2 \in [Rmas -> ReturnRequest],
           NEW l, Counted(rows2) \subseteq Counted(rows),
           \A r \in Counted(rows2), s \in Slots :
               /\ rows2[r].lines[s].line = rows[r].lines[s].line
               /\ rows2[r].lines[s].quantity = rows[r].lines[s].quantity
    PROVE  Cardinality(UnitsOver(rows2, Counted(rows2), l))
             <= Cardinality(UnitsOver(rows, Counted(rows), l))
<1>1. \A r \in Counted(rows2) :
          UnitsIn(rows2[r].lines, Slots, l) \subseteq UnitsIn(rows[r].lines, Slots, l)
      BY DEF UnitsIn
<1>2. UnitsOver(rows2, Counted(rows2), l) \subseteq UnitsOver(rows, Counted(rows), l)
      BY <1>1 DEF UnitsOver
<1>3. IsFiniteSet(UnitsOver(rows, Counted(rows), l))
      BY UnitsOverFinite DEF Counted
<1> QED BY <1>2, <1>3, FS_Subset

\* A new request adds the units of its own lines.
LEMMA MoreUnits ==
    ASSUME NEW rows \in [Rmas -> ReturnRequest], NEW r \in Rmas, rows[r].status = "absent",
           NEW row \in ReturnRequest, NEW l
    PROVE  LET rows2 == [rows EXCEPT ![r] = row]
           IN  Cardinality(UnitsOver(rows2, Counted(rows2), l))
                 <= Cardinality(UnitsOver(rows, Counted(rows), l))
                      + Cardinality(UnitsIn(row.lines, Slots, l))
<1> DEFINE rows2 == [rows EXCEPT ![r] = row]
           U == UnitsOver(rows, Counted(rows), l)
           V == UnitsIn(row.lines, Slots, l)
           W == UnitsOver(rows2, Counted(rows2), l)
<1>1. rows2 \in [Rmas -> ReturnRequest] /\ rows2[r] = row
      /\ \A q \in Rmas : q # r => rows2[q] = rows[q]
      OBVIOUS
<1>2. row.lines \in [Slots -> ReturnLine]
      BY DEF ReturnRequest
<1>3. IsFiniteSet(V) /\ Cardinality(V) \in Nat
      BY <1>2, UnitsInFinite
<1>4. IsFiniteSet(U) /\ Cardinality(U) \in Nat
      BY UnitsOverFinite DEF Counted
<1>5. W \subseteq U \cup ({r} \X V)
      <2> SUFFICES ASSUME NEW q \in Counted(rows2),
                          NEW u \in {q} \X UnitsIn(rows2[q].lines, Slots, l)
                   PROVE  u \in U \cup ({r} \X V)
          BY DEF UnitsOver
      <2> HIDE DEF rows2
      <2>1. CASE q = r
            BY <2>1, <1>1
      <2>2. CASE q # r
            BY <2>2, <1>1 DEF Counted, UnitsOver
      <2> QED BY <2>1, <2>2
<1>6. IsFiniteSet({r}) /\ Cardinality({r}) = 1
      BY FS_Singleton
<1> HIDE DEF U, V, W
<1>7. IsFiniteSet({r} \X V) /\ Cardinality({r} \X V) = Cardinality(V)
      <2>1. /\ IsFiniteSet({r} \X V)
            /\ Cardinality({r} \X V) = Cardinality({r}) * Cardinality(V)
            BY <1>3, <1>6, FS_Product, Zenon
      <2>2. Cardinality({r}) * Cardinality(V) = Cardinality(V)
            BY <1>3, <1>6
      <2> QED BY <2>1, <2>2
<1> DEFINE N == {r} \X V
<1>8. /\ IsFiniteSet(U \cup N)
      /\ Cardinality(U \cup N) = Cardinality(U) + Cardinality(N) - Cardinality(U \cap N)
      <2>1. IsFiniteSet(N)
            BY <1>7
      <2> HIDE DEF N
      <2> QED BY <1>4, <2>1, FS_Union
<1>9. Cardinality(U \cap N) \in Nat
      <2>1. IsFiniteSet(U \cap N)
            BY <1>4, FS_Subset
      <2> QED BY <2>1, FS_CardinalityType
<1>10. Cardinality(W) <= Cardinality(U \cup N) /\ Cardinality(W) \in Nat
      BY <1>5, <1>8, FS_Subset, FS_CardinalityType
<1>11. Cardinality(N) = Cardinality(V)
      BY <1>7
<1> HIDE DEF N
<1>12. Cardinality(W) <= Cardinality(U) + Cardinality(V)
      BY <1>3, <1>4, <1>8, <1>9, <1>10, <1>11
<1> QED BY <1>12 DEF U, V, W

\* Where nothing changed between the reads and the insert, and the line is named
\* once, the open measured the line as it is.
LEMMA InsertStaysWithinOrdered ==
    ASSUME IInv, ReturnedWithinOrdered, NEW h \in Handlers, InsertRequest(h)
    PROVE  ReturnedWithinOrdered'
<1> DEFINE row == handler[h].row
<1>1. PICK r \in Rmas : rmas[r] = Absent /\ rmas' = [rmas EXCEPT ![r] = row]
      BY DEF InsertRequest
<1>2. /\ row \in ReturnRequest /\ handler[h].cancelled \in Units
      /\ \A s \in Filled(row.lines) :
            row.lines[s].quantity
              <= Returnable(handler[h].cancelled, handler[h].sums, row.lines[s].line)
      BY DEF InsertRequest, IInv, TypesFit, Shape, HandlersFit, Fits, OpensFit
<1>3. row.lines \in [Slots -> ReturnLine]
      BY <1>2 DEF ReturnRequest
<1> SUFFICES ASSUME NEW l \in Lines, l \notin overlapped'
             PROVE  Cardinality(UnitsOver(rmas', Counted(rmas'), l)) <= Quantity[l]
    BY DEF ReturnedWithinOrdered, Counted
<1>4. /\ l \notin overlapped /\ l \notin NamedTwice(row.lines)
      /\ AlreadyReturned(rmas)[l] = handler[h].sums[l]
      BY DEF InsertRequest, Missed
<1> DEFINE m == Cardinality(UnitsOver(rmas, Counted(rmas), l))
           n == Cardinality(UnitsIn(row.lines, Slots, l))
<1>5. m = handler[h].sums[l] /\ m \in Nat /\ m <= Quantity[l]
      BY <1>4, UnitsOverFinite DEF AlreadyReturned, Counted, ReturnedWithinOrdered, IInv, TypesFit
<1>6. Quantity[l] \in Nat /\ handler[h].cancelled[l] \in Nat
      BY <1>2, ReturnedOrder DEF Units
<1>7. n <= Quantity[l] - m
      <2> HIDE DEF m
      <2>1. Quantity[l] - m \in Nat
            BY <1>5, <1>6
      <2>2. ASSUME NEW s \in Filled(row.lines), row.lines[s].line = l
            PROVE  row.lines[s].quantity <= Quantity[l] - m
            <3>1. row.lines[s].quantity <= Quantity[l] - handler[h].cancelled[l] - m
                  BY <1>2, <1>5, <2>2 DEF Returnable
            <3>2. row.lines[s].quantity \in Nat
                  BY <1>3 DEF Filled, ReturnLine
            <3> HIDE DEF row
            <3> QED BY <3>1, <3>2, <1>5, <1>6
      <2> QED BY <1>3, <1>4, <2>1, <2>2, NamedOnce
<1>8. Cardinality(UnitsOver(rmas', Counted(rmas'), l)) <= m + n
      BY <1>1, <1>2, AbsentIsARow, MoreUnits DEF IInv, TypesFit
<1>9. n \in Nat
      BY <1>3, UnitsInFinite
<1>10. rmas' \in [Rmas -> ReturnRequest]
      BY <1>1, <1>2 DEF IInv, TypesFit
<1>11. Cardinality(UnitsOver(rmas', Counted(rmas'), l)) \in Nat
      BY <1>10, UnitsOverFinite DEF Counted
<1> HIDE DEF m, n
<1> QED BY <1>5, <1>6, <1>7, <1>8, <1>9, <1>11

\* A later step neither adds a unit nor brings a rejected request back.
LEMMA SaveStaysWithinOrdered ==
    ASSUME IInv, ReturnedWithinOrdered, NEW h \in Handlers, Save(h)
    PROVE  ReturnedWithinOrdered'
<1> DEFINE q == handler[h].rma
<1>1. /\ q \in Rmas /\ handler[h].step \in Steps
      /\ rmas[q].status = From[handler[h].step] /\ Saved(h) \in ReturnRequest
      /\ \A s \in Slots : /\ Saved(h).lines[s].line = rmas[q].lines[s].line
                          /\ Saved(h).lines[s].quantity = rmas[q].lines[s].quantity
      BY SavedRow DEF Save
<1>2. rmas' = [rmas EXCEPT ![q] = Saved(h)] /\ overlapped' = overlapped
      BY DEF Save, outside
<1>3. q \in Counted(rmas)
      BY <1>1 DEF Counted, Steps, From
<1>4. rmas \in [Rmas -> ReturnRequest] /\ rmas' \in [Rmas -> ReturnRequest]
      BY <1>1, <1>2 DEF IInv, TypesFit
<1>5. /\ rmas'[q] = Saved(h)
      /\ \A r \in Rmas : r # q => rmas'[r] = rmas[r]
      BY <1>1, <1>2, <1>4
<1>6. Counted(rmas') \subseteq Counted(rmas)
      BY <1>3, <1>5 DEF Counted
<1>7. \A r \in Counted(rmas'), s \in Slots :
          /\ rmas'[r].lines[s].line = rmas[r].lines[s].line
          /\ rmas'[r].lines[s].quantity = rmas[r].lines[s].quantity
      BY <1>1, <1>5 DEF Counted
<1> SUFFICES ASSUME NEW l \in Lines \ overlapped
             PROVE  Cardinality(UnitsOver(rmas', Counted(rmas'), l)) <= Quantity[l]
    BY <1>2 DEF ReturnedWithinOrdered, Counted
<1>8. Cardinality(UnitsOver(rmas', Counted(rmas'), l)) <= Cardinality(UnitsOver(rmas, Counted(rmas), l))
      BY <1>4, <1>6, <1>7, FewerUnits
<1>9. Cardinality(UnitsOver(rmas, Counted(rmas), l)) <= Quantity[l] /\ Quantity[l] \in Nat
      BY ReturnedOrder DEF ReturnedWithinOrdered, Counted
<1>10. /\ Cardinality(UnitsOver(rmas', Counted(rmas'), l)) \in Nat
       /\ Cardinality(UnitsOver(rmas, Counted(rmas), l)) \in Nat
      BY <1>4, UnitsOverFinite DEF Counted
<1> QED BY <1>8, <1>9, <1>10

LEMMA NextStaysWithinOrdered ==
    IInv /\ ReturnedWithinOrdered /\ [Next]_vars => ReturnedWithinOrdered'
<1> SUFFICES ASSUME IInv, ReturnedWithinOrdered, [Next]_vars PROVE ReturnedWithinOrdered'
    OBVIOUS
<1>1. CASE UNCHANGED <<rmas, overlapped>>
      BY <1>1 DEF ReturnedWithinOrdered
<1>2. CASE \E h \in Handlers : InsertRequest(h)
      BY <1>2, InsertStaysWithinOrdered
<1>3. CASE \E h \in Handlers : Save(h)
      BY <1>3, SaveStaysWithinOrdered
<1>4. CASE UNCHANGED vars
      BY <1>1, <1>4 DEF vars, tables, outside
<1>5. CASE CancelLine
      BY <1>1, <1>5 DEF CancelLine, outside
<1>6. ASSUME NEW h \in Handlers,
             \/ BeginOpen(h) \/ Authorize(h) \/ Reject(h) \/ Receive(h) \/ Inspect(h) \/ Close(h)
      PROVE  ReturnedWithinOrdered'
      BY <1>1, <1>6 DEF BeginOpen, Authorize, Reject, Receive, Inspect, Close, Begin, tables, outside
<1>7. ASSUME NEW h \in Handlers,
             \/ SumReturned(h) \/ LoseRace(h) \/ Restock(h) \/ RestockFails(h)
             \/ Emit(h) \/ LoseEvent(h) \/ Die(h)
      PROVE  ReturnedWithinOrdered'
      BY <1>1, <1>7 DEF SumReturned, LoseRace, Restock, RestockFails, Emit, EmitRequested,
         EmitAuthorized, EmitRejected, EmitReceived, EmitInspected, EmitClosed, Publish,
         LoseEvent, Die, tables, outside
<1>8. ASSUME NEW r \in Rmas, LateRestock(r) \/ OperatorReplays(r)
      PROVE  ReturnedWithinOrdered'
      BY <1>1, <1>8 DEF LateRestock, OperatorReplays, tables
<1> QED BY <1>2, <1>3, <1>4, <1>5, <1>6, <1>7, <1>8 DEF Next, Step

-----------------------------------------------------------------------------
(* The restock of an inspected return stays owed to someone.               *)

\* A handler that owes a restock goes on owing it, or it is settled otherwise.
StillOwed(g) ==
    \/ handler'[g].pc = "restock" /\ handler'[g].rma = handler[g].rma
       /\ handler'[g].row = handler[g].row
    \/ handler[g].rma \in leftToOperator' \cup cutOff'
    \/ credited'[handler[g].rma] # NoUnits
    \/ FitForResale(rmas[handler[g].rma].lines) = {}

LEMMA OwedWhileRowsStay ==
    ASSUME RestockIsOwed, UNCHANGED rmas,
           leftToOperator \subseteq leftToOperator', cutOff \subseteq cutOff',
           \A r \in Rmas : credited[r] # NoUnits => credited'[r] # NoUnits,
           \A g \in Handlers : handler[g].pc = "restock" => StillOwed(g)
    PROVE  RestockIsOwed'
BY DEF RestockIsOwed, StillOwed

\* The handler that moves was not about to restock.
LEMMA OwedByOthers ==
    ASSUME IInv, RestockIsOwed, NEW h \in Handlers, NEW x, handler[h].pc # "restock",
           handler' = [handler EXCEPT ![h] = x],
           UNCHANGED <<rmas, credited, leftToOperator, cutOff>>
    PROVE  RestockIsOwed'
<1>1. \A g \in Handlers : g # h => handler'[g] = handler[g]
      BY DEF IInv, TypesFit
<1>2. \A g \in Handlers : handler[g].pc = "restock" => StillOwed(g)
      BY <1>1 DEF StillOwed
<1> QED BY <1>2, OwedWhileRowsStay

\* What is credited once stays credited.
LEMMA CreditStays ==
    ASSUME IInv, NEW r \in Rmas, NEW lines,
           credited' = [credited EXCEPT ![r] = Credit(r, lines)]
    PROVE  /\ \A p \in Rmas : credited[p] # NoUnits => credited'[p] # NoUnits
           /\ credited'[r] = Credit(r, lines)
BY DEF IInv, TypesFit, Credit

LEMMA RestockStaysOwed ==
    ASSUME IInv, RestockIsOwed, NEW h \in Handlers, Restock(h) PROVE RestockIsOwed'
<1> DEFINE q == handler[h].rma
<1>1. q \in Rmas /\ handler[h].row.lines = rmas[q].lines /\ rmas[q].lines \in [Slots -> ReturnLine]
      BY RestockingHandler DEF Restock, IInv, TypesFit, ReturnRequest
<1>2. /\ ~Refused(rmas[q].lines) /\ UNCHANGED <<rmas, leftToOperator, cutOff>>
      /\ credited' = [credited EXCEPT ![q] = Credit(q, rmas[q].lines)]
      BY <1>1 DEF Restock, tables
<1>3. /\ \A p \in Rmas : credited[p] # NoUnits => credited'[p] # NoUnits
      /\ credited'[q] = Credit(q, rmas[q].lines)
      BY <1>1, <1>2, CreditStays
<1>4. FitForResale(rmas[q].lines) # {} => credited'[q] # NoUnits
      BY <1>1, <1>2, <1>3, SomethingIsCredited DEF Credit
<1>5. \A g \in Handlers : g # h => handler'[g] = handler[g]
      BY DEF Restock, Goto, IInv, TypesFit
<1>6. \A g \in Handlers : handler[g].pc = "restock" => StillOwed(g)
      BY <1>4, <1>5 DEF StillOwed
<1> QED BY <1>2, <1>3, <1>6, OwedWhileRowsStay

LEMMA RestockFailsStaysOwed ==
    ASSUME IInv, RestockIsOwed, NEW h \in Handlers, RestockFails(h) PROVE RestockIsOwed'
<1>1. UNCHANGED <<rmas, credited, cutOff>> /\ leftToOperator \subseteq leftToOperator'
      BY DEF RestockFails, NextAttempt, tables
<1>2. ASSUME NEW g \in Handlers, handler[g].pc = "restock" PROVE StillOwed(g)
      <2>1. CASE g # h
            <3>1. handler'[g] = handler[g]
                  BY <2>1 DEF RestockFails, NextAttempt, Goto, IInv, TypesFit
            <3> QED BY <3>1, <1>2 DEF StillOwed
      <2>2. CASE g = h /\ handler[h].attempt < RestockAttempts
            <3>1. handler' = [handler EXCEPT ![h].attempt = @ + 1]
                  BY <2>2 DEF RestockFails, NextAttempt
            <3>2. Shape(handler[h])
                  BY DEF IInv, TypesFit
            <3>3. /\ handler'[h].pc = handler[h].pc /\ handler'[h].rma = handler[h].rma
                  /\ handler'[h].row = handler[h].row
                  BY <3>1, <3>2 DEF IInv, TypesFit, Shape
            <3> QED BY <3>3, <1>2, <2>2 DEF StillOwed
      <2>3. CASE g = h /\ ~(handler[h].attempt < RestockAttempts)
            BY <2>3 DEF RestockFails, NextAttempt, StillOwed
      <2> QED BY <2>1, <2>2, <2>3
<1> QED BY <1>1, <1>2, OwedWhileRowsStay

LEMMA ReplayStaysOwed ==
    ASSUME IInv, RestockIsOwed, NEW r \in Rmas, LateRestock(r) \/ OperatorReplays(r)
    PROVE  RestockIsOwed'
<1>1. UNCHANGED <<rmas, handler, leftToOperator, cutOff>>
      BY DEF LateRestock, OperatorReplays, tables
<1>2. \A p \in Rmas : credited[p] # NoUnits => credited'[p] # NoUnits
      BY CreditStays DEF LateRestock, OperatorReplays
<1>3. \A g \in Handlers : handler[g].pc = "restock" => StillOwed(g)
      BY <1>1 DEF StillOwed
<1> QED BY <1>1, <1>2, <1>3, OwedWhileRowsStay

LEMMA DieStaysOwed ==
    ASSUME IInv, RestockIsOwed, NEW h \in Handlers, Die(h) PROVE RestockIsOwed'
<1>1. /\ UNCHANGED <<rmas, credited, leftToOperator>> /\ cutOff \subseteq cutOff'
      /\ handler[h].pc = "restock" => handler[h].rma \in cutOff'
      BY DEF Die, tables
<1>2. \A g \in Handlers : g # h => handler'[g] = handler[g]
      BY DEF Die, Leave, IInv, TypesFit
<1>3. \A g \in Handlers : handler[g].pc = "restock" => StillOwed(g)
      BY <1>1, <1>2 DEF StillOwed
<1> QED BY <1>1, <1>3, OwedWhileRowsStay

\* Nothing of a new request was judged yet.
LEMMA InsertStaysOwed ==
    ASSUME IInv, RestockIsOwed, NEW h \in Handlers, InsertRequest(h) PROVE RestockIsOwed'
<1>1. PICK r \in Rmas : rmas[r] = Absent /\ rmas' = [rmas EXCEPT ![r] = handler[h].row]
      BY DEF InsertRequest
<1>2. /\ FitForResale(handler[h].row.lines) = {} /\ handler[h].pc = "insert"
      /\ UNCHANGED <<credited, leftToOperator, cutOff>>
      BY DEF InsertRequest, restocks, IInv, HandlersFit, Fits, OpensFit
<1>3. /\ FitForResale(rmas'[r].lines) = {}
      /\ \A p \in Rmas : p # r => rmas'[p] = rmas[p]
      /\ \A g \in Handlers : g # h => handler'[g] = handler[g]
      BY <1>1, <1>2 DEF InsertRequest, IInv, TypesFit
<1> QED BY <1>2, <1>3 DEF RestockIsOwed

\* The step that judges the lines makes its handler owe them.
LEMMA SaveStaysOwed ==
    ASSUME IInv, RestockIsOwed, NEW h \in Handlers, Save(h) PROVE RestockIsOwed'
<1> DEFINE q == handler[h].rma
<1>1. /\ q \in Rmas /\ handler[h].pc = "save" /\ Shape(handler[h])
      /\ handler[h].step # "inspect" => Saved(h).lines = rmas[q].lines
      BY SavedRow DEF Save, IInv, TypesFit
<1>2. UNCHANGED <<credited, leftToOperator, cutOff>>
      BY DEF Save, outside, restocks
<1>3. /\ rmas'[q] = Saved(h)
      /\ \A p \in Rmas : p # q => rmas'[p] = rmas[p]
      /\ \A g \in Handlers : g # h => handler'[g] = handler[g]
      BY <1>1 DEF Save, IInv, TypesFit
<1>4. ASSUME handler[h].step = "inspect", FitForResale(Saved(h).lines) # {}
      PROVE  handler'[h].pc = "restock" /\ handler'[h].rma = q /\ handler'[h].row = Saved(h)
      BY <1>1, <1>4 DEF Save, IInv, TypesFit, Shape
<1> SUFFICES ASSUME NEW r \in Rmas \ cutOff
             PROVE  \/ FitForResale(rmas'[r].lines) = {}
                    \/ credited[r] # NoUnits
                    \/ r \in leftToOperator
                    \/ \E g \in Handlers : /\ handler'[g].pc = "restock" /\ handler'[g].rma = r
                                          /\ handler'[g].row.lines = rmas'[r].lines
    BY <1>2 DEF RestockIsOwed
<1>5. CASE r = q /\ handler[h].step = "inspect"
      BY <1>3, <1>4, <1>5
<1>6. CASE r # q \/ handler[h].step # "inspect"
      <2>1. rmas'[r].lines = rmas[r].lines
            BY <1>1, <1>3, <1>6
      <2> QED BY <2>1, <1>1, <1>3 DEF RestockIsOwed
<1> QED BY <1>5, <1>6

LEMMA NextStaysOwed == IInv /\ RestockIsOwed /\ [Next]_vars => RestockIsOwed'
<1> SUFFICES ASSUME IInv, RestockIsOwed, [Next]_vars PROVE RestockIsOwed'
    OBVIOUS
<1>1. CASE UNCHANGED <<rmas, handler, restocks>>
      BY <1>1 DEF restocks, RestockIsOwed
<1>2. CASE UNCHANGED vars \/ CancelLine
      BY <1>1, <1>2 DEF vars, tables, outside, CancelLine
<1>3. ASSUME NEW h \in Handlers,
             \/ BeginOpen(h) \/ Authorize(h) \/ Reject(h) \/ Receive(h) \/ Inspect(h) \/ Close(h)
      PROVE  RestockIsOwed'
      <2>1. /\ UNCHANGED <<rmas, credited, leftToOperator, cutOff>> /\ handler[h].pc = "idle"
            /\ \E x : handler' = [handler EXCEPT ![h] = x]
            BY <1>3 DEF BeginOpen, Authorize, Reject, Receive, Inspect, Close, Begin,
               tables, outside, restocks
      <2> QED BY <2>1, OwedByOthers
<1>4. ASSUME NEW h \in Handlers, SumReturned(h) \/ LoseRace(h) \/ Emit(h) \/ LoseEvent(h)
      PROVE  RestockIsOwed'
      <2>1. UNCHANGED <<rmas, credited, leftToOperator, cutOff>> /\ handler[h].pc # "restock"
            BY <1>4 DEF SumReturned, LoseRace, Emit, EmitRequested, EmitAuthorized, EmitRejected,
               EmitReceived, EmitInspected, EmitClosed, Publish, LoseEvent, tables, outside, restocks
      <2>2. \E x : handler' = [handler EXCEPT ![h] = x]
            <3>1. CASE SumReturned(h)
                  <4>1. \/ handler' = [handler EXCEPT ![h] = [handler[h] EXCEPT
                              !.pc = "insert", !.sums = AlreadyReturned(rmas)]]
                        \/ handler' = [handler EXCEPT ![h] = Idle]
                        BY <3>1 DEF SumReturned, Leave
                  <4> QED BY <4>1
            <3>2. CASE LoseRace(h)
                  <4>1. \/ handler' = [handler EXCEPT ![h] = [handler[h] EXCEPT
                              !.row = rmas[handler[h].rma], !.attempt = @ + 1]]
                        \/ handler' = [handler EXCEPT ![h] = Idle]
                        BY <3>2 DEF LoseRace, Leave
                  <4> QED BY <4>1
            <3>3. CASE Emit(h) \/ LoseEvent(h)
                  BY <3>3 DEF Emit, EmitRequested, EmitAuthorized, EmitRejected, EmitReceived,
                     EmitInspected, EmitClosed, Publish, LoseEvent, Leave
            <3> QED BY <1>4, <3>1, <3>2, <3>3
      <2> QED BY <2>1, <2>2, OwedByOthers
<1> QED BY <1>2, <1>3, <1>4, InsertStaysOwed, SaveStaysOwed, RestockStaysOwed,
        RestockFailsStaysOwed, ReplayStaysOwed, DieStaysOwed DEF Next, Step

-----------------------------------------------------------------------------
\* No line is returned beyond what was ordered, over all requests that were not
\* rejected, but where an open met a write it had not read: any number of
\* requests, opened and moved on by any number of handlers.
THEOREM NothingReturnedBeyondOrder == Spec => []ReturnedWithinOrdered
<1>1. Init => ReturnedWithinOrdered
      <2> SUFFICES ASSUME Init, NEW l \in Lines
                   PROVE  Cardinality(UnitsOver(rmas, Counted(rmas), l)) <= Quantity[l]
          BY DEF ReturnedWithinOrdered, Counted
      <2>1. Counted(rmas) = {}
            BY AbsentIsARow DEF Init, Counted
      <2>2. UnitsOver(rmas, Counted(rmas), l) = {}
            BY <2>1 DEF UnitsOver
      <2> QED BY <2>2, FS_EmptySet, ReturnedOrder
<1> QED BY <1>1, InitIsSound, NextKeepsIInv, NextStaysWithinOrdered, PTL DEF Spec

\* Goods an inspection sends back to the shelf are credited, or a handler owes
\* the call, or the log names them for an operator, but where the handler
\* stopped before the call: the commit comes before the call, and no other step
\* loses it.
THEOREM RestocksStayOwed == Spec => []RestockIsOwed
<1>1. Init => RestockIsOwed
      <2>1. FitForResale(Absent.lines) = {}
            <3>1. Absent.lines = NoLines
                  BY DEF Absent
            <3>2. Filled(NoLines) = {}
                  BY DEF Filled, NoLines, BlankLine
            <3> QED BY <3>1, <3>2 DEF FitForResale
      <2> QED BY <2>1 DEF Init, RestockIsOwed
<1> QED BY <1>1, InitIsSound, NextKeepsIInv, NextStaysOwed, PTL DEF Spec

\* The stock is credited for a return after its inspection, with the units the
\* inspection sends back, once.
THEOREM CreditsFollowInspections == Spec => []CreditedAsInspected
<1>1. IInv => CreditedAsInspected
      BY DEF IInv
<1> QED BY <1>1, InitIsSound, NextKeepsIInv, PTL DEF Spec

\* No step of a return is announced twice, and never both verdicts on it.
THEOREM StepsAreAnnouncedOnce == Spec => []AnnouncedOnce
<1>1. IInv => AnnouncedOnce
      <2> SUFFICES ASSUME IInv, NEW r \in Rmas
                   PROVE  /\ \A s \in Statuses : announced[r][s] <= 1
                          /\ announced[r]["authorized"] + announced[r]["rejected"] <= 1
          BY DEF AnnouncedOnce
      <2>1. /\ \A s \in Statuses : announced[r][s] <= 1 /\ announced[r][s] \in Nat
            /\ announced[r]["authorized"] # 0 => "authorized" \in Reached[rmas[r].status]
            /\ announced[r]["rejected"] # 0 => "rejected" \in Reached[rmas[r].status]
            BY DEF IInv, AnnouncedReached, TypesFit, Statuses
      <2>2. rmas[r].status \in Statuses \cup {"absent"}
            BY DEF IInv, TypesFit, ReturnRequest
      <2>3. ~("authorized" \in Reached[rmas[r].status] /\ "rejected" \in Reached[rmas[r].status])
            BY <2>2 DEF Statuses, Reached
      <2>4. "authorized" \in Statuses /\ "rejected" \in Statuses
            BY DEF Statuses
      <2> QED BY <2>1, <2>3, <2>4
<1> QED BY <1>1, InitIsSound, NextKeepsIInv, PTL DEF Spec

\* What the list of an order shows, its reader can open.
THEOREM ListedReturnsAreReadable == Spec => []ListedIsReadable
<1>1. IInv => ListedIsReadable
      BY ReturnedOrder DEF IInv, BuyersOnly, OfBuyer, ListedIsReadable, CanList, CanGet, Listed
<1> QED BY <1>1, InitIsSound, NextKeepsIInv, PTL DEF Spec

-----------------------------------------------------------------------------
(* The atomic service.  What an open is about to insert is what somebody   *)
(* asked for, and a verdict still covers the lines when it is saved.       *)

Asked(x) ==
    x.pc \in {"sum", "insert"} =>
        \E u \in Users, basket \in Baskets : MayOpen(u) /\ x.row = Opened(u, basket)

Covers(x) ==
    x.pc = "save" /\ x.step = "inspect" => CoversEveryLine(rmas[x.rma], x.verdict)

RequestsInv == \A h \in Handlers : Asked(handler[h]) /\ Covers(handler[h])

\* No step changes which lines of a request are filled.
LEMMA FilledStays ==
    ASSUME IInv, [Next]_vars, NEW r \in Rmas, rmas[r].status # "absent"
    PROVE  Filled(rmas'[r].lines) = Filled(rmas[r].lines)
<1>1. ASSUME NEW h \in Handlers, InsertRequest(h)
      PROVE  rmas'[r] = rmas[r]
      <2>1. PICK q \in Rmas : rmas[q] = Absent /\ rmas' = [rmas EXCEPT ![q] = handler[h].row]
            BY <1>1 DEF InsertRequest
      <2>2. q # r
            BY <2>1, AbsentIsARow
      <2> QED BY <2>1, <2>2 DEF IInv, TypesFit
<1>2. ASSUME NEW h \in Handlers, Save(h)
      PROVE  Filled(rmas'[r].lines) = Filled(rmas[r].lines)
      <2>1. /\ handler[h].rma \in Rmas
            /\ \A s \in Slots : Saved(h).lines[s].quantity = rmas[handler[h].rma].lines[s].quantity
            BY <1>2, SavedRow DEF Save
      <2>2. rmas'[r] = IF r = handler[h].rma THEN Saved(h) ELSE rmas[r]
            BY <1>2, <2>1, ZenonT(60) DEF Save, IInv, TypesFit
      <2> QED BY <2>1, <2>2, SMTT(40) DEF Filled
<1>3. ASSUME NEW h \in Handlers,
             \/ BeginOpen(h) \/ Authorize(h) \/ Reject(h) \/ Receive(h) \/ Inspect(h) \/ Close(h)
             \/ SumReturned(h) \/ LoseRace(h) \/ Restock(h) \/ RestockFails(h)
             \/ Emit(h) \/ LoseEvent(h) \/ Die(h)
      PROVE  UNCHANGED rmas
      BY <1>3, Zenon DEF BeginOpen, Authorize, Reject, Receive, Inspect, Close, Begin, SumReturned,
         LoseRace, Restock, RestockFails, Emit, EmitRequested, EmitAuthorized, EmitRejected, EmitReceived,
         EmitInspected, EmitClosed, Publish, LoseEvent, Die, tables
<1>4. ASSUME NEW q \in Rmas, LateRestock(q) \/ OperatorReplays(q) PROVE UNCHANGED rmas
      BY <1>4 DEF LateRestock, OperatorReplays, tables
<1>5. CASE CancelLine \/ UNCHANGED vars
      BY <1>5 DEF CancelLine, vars, tables
<1> QED BY <1>1, <1>2, <1>3, <1>4, <1>5 DEF Next, Step

\* One handler moves.
LEMMA RequestsStay ==
    ASSUME IInv, RequestsInv, [Next]_vars, NEW h \in Handlers,
           \A g \in Handlers : g # h => handler'[g] = handler[g],
           Asked(handler'[h]),
           \/ handler'[h].pc # "save" \/ handler'[h].step # "inspect"
           \/ /\ handler'[h].rma \in Rmas /\ rmas[handler'[h].rma].status # "absent"
              /\ CoversEveryLine(rmas[handler'[h].rma], handler'[h].verdict)
    PROVE  RequestsInv'
<1> SUFFICES ASSUME NEW g \in Handlers PROVE Asked(handler'[g]) /\ Covers(handler[g])'
    BY DEF RequestsInv, Asked
<1>1. Asked(handler'[g])
      BY DEF RequestsInv
<1>2. SUFFICES ASSUME handler'[g].pc = "save", handler'[g].step = "inspect"
               PROVE  CoversEveryLine(rmas'[handler'[g].rma], handler'[g].verdict)
      BY <1>1 DEF Covers
<1>3. /\ handler'[g].rma \in Rmas /\ rmas[handler'[g].rma].status # "absent"
      /\ CoversEveryLine(rmas[handler'[g].rma], handler'[g].verdict)
      BY <1>2 DEF RequestsInv, Covers, IInv, HandlersFit, Fits
<1> QED BY <1>3, FilledStays DEF CoversEveryLine

LEMMA NextKeepsRequests == IInv /\ RequestsInv /\ [Next]_vars => RequestsInv'
<1> SUFFICES ASSUME IInv, RequestsInv, [Next]_vars PROVE RequestsInv'
    OBVIOUS
<1>1. CASE UNCHANGED <<rmas, handler>>
      BY <1>1 DEF RequestsInv, Asked, Covers
<1>2. ASSUME NEW h \in Handlers, NEW x, handler' = [handler EXCEPT ![h] = x],
             x.pc \in {"idle", "restock", "emit"}
      PROVE  RequestsInv'
      <2>1. handler'[h] = x /\ \A g \in Handlers : g # h => handler'[g] = handler[g]
            BY <1>2 DEF IInv, TypesFit
      <2> QED BY <1>2, <2>1, RequestsStay DEF Asked
<1>3. ASSUME NEW h \in Handlers, BeginOpen(h) PROVE RequestsInv'
      <2>1. PICK u \in Users, basket \in Baskets :
                /\ MayOpen(u)
                /\ handler' = [handler EXCEPT ![h] = [Idle EXCEPT
                      !.pc = "sum", !.cancelled = cancelled, !.row = Opened(u, basket)]]
            BY <1>3 DEF BeginOpen
      <2>2. /\ handler'[h].pc = "sum" /\ handler'[h].row = Opened(u, basket)
            /\ \A g \in Handlers : g # h => handler'[g] = handler[g]
            BY <2>1 DEF Idle, IInv, TypesFit
      <2> QED BY <2>1, <2>2, RequestsStay DEF Asked
<1>4. ASSUME NEW h \in Handlers, SumReturned(h) PROVE RequestsInv'
      <2>1. CASE Leave(h)
            BY <1>2, <2>1, IdleFits DEF Leave
      <2>2. CASE handler' = [handler EXCEPT ![h].pc = "insert", ![h].sums = AlreadyReturned(rmas)]
            <3>1. Shape(handler[h]) /\ handler[h].pc = "sum"
                  BY <1>4 DEF SumReturned, IInv, TypesFit
            <3>2. /\ handler'[h].pc = "insert" /\ handler'[h].row = handler[h].row
                  /\ \A g \in Handlers : g # h => handler'[g] = handler[g]
                  BY <2>2, <3>1 DEF IInv, TypesFit, Shape
            <3> QED BY <3>1, <3>2, RequestsStay DEF RequestsInv, Asked
      <2> QED BY <1>4, <2>1, <2>2 DEF SumReturned
<1>5. ASSUME NEW h \in Handlers, LoseRace(h) PROVE RequestsInv'
      <2>1. CASE Leave(h)
            BY <1>2, <2>1, IdleFits DEF Leave
      <2>2. CASE handler' = [handler EXCEPT ![h].row = rmas[handler[h].rma], ![h].attempt = @ + 1]
            <3>1. Shape(handler[h]) /\ handler[h].pc = "save"
                  BY <1>5 DEF LoseRace, IInv, TypesFit
            <3>2. /\ handler'[h].pc = "save" /\ handler'[h].step = handler[h].step
                  /\ handler'[h].rma = handler[h].rma /\ handler'[h].verdict = handler[h].verdict
                  /\ \A g \in Handlers : g # h => handler'[g] = handler[g]
                  BY <2>2, <3>1 DEF IInv, TypesFit, Shape
            <3>3. handler[h].rma \in Rmas /\ rmas[handler[h].rma].status # "absent"
                  BY <3>1 DEF IInv, HandlersFit, Fits
            <3> QED BY <3>1, <3>2, <3>3, RequestsStay DEF RequestsInv, Asked, Covers
      <2> QED BY <1>5, <2>1, <2>2 DEF LoseRace
<1>6. ASSUME NEW h \in Handlers,
             Authorize(h) \/ Reject(h) \/ Receive(h) \/ Inspect(h) \/ Close(h)
      PROVE  RequestsInv'
      <2>1. PICK step \in Steps, r \in Rmas, verdict \in Verdicts :
                /\ Begin(h, step, r, verdict)
                /\ step = "inspect" => CoversEveryLine(rmas[r], verdict)
            BY <1>6, NoVerdictIsAVerdict DEF Authorize, Reject, Receive, Inspect, Close, Steps
      <2>2. /\ handler'[h].pc = "save" /\ handler'[h].step = step /\ handler'[h].rma = r
            /\ handler'[h].verdict = verdict
            /\ \A g \in Handlers : g # h => handler'[g] = handler[g]
            BY <2>1 DEF Begin, Idle, IInv, TypesFit
      <2>3. rmas[r].status = From[step]
            BY <2>1, AppliedWhen DEF Begin
      <2> QED BY <2>1, <2>2, <2>3, Forward, RequestsStay DEF Asked
<1>7. ASSUME NEW h \in Handlers, InsertRequest(h) \/ Save(h) PROVE RequestsInv'
      <2>1. Shape(handler[h])
            BY DEF IInv, TypesFit
      <2>2. \A g \in Handlers : g # h => handler'[g] = handler[g]
            BY <1>7 DEF InsertRequest, Save, IInv, TypesFit
      <2>3. CASE InsertRequest(h)
            <3>1. \E r \in Rmas : handler' = [handler EXCEPT ![h] = [Idle EXCEPT
                      !.pc = "emit", !.rma = r, !.row = handler[h].row]]
                  BY <2>3 DEF InsertRequest
            <3>2. handler'[h].pc = "emit"
                  BY <3>1 DEF Idle, IInv, TypesFit
            <3> QED BY <2>2, <3>2, RequestsStay DEF Asked
      <2>4. CASE Save(h)
            <3> DEFINE pc == IF handler[h].step = "inspect" /\ FitForResale(Saved(h).lines) # {}
                             THEN "restock" ELSE "emit"
                       row == Saved(h)
            <3>1. handler' = [handler EXCEPT ![h].pc = pc, ![h].row = row, ![h].attempt = 1,
                                             ![h].verdict = NoVerdict]
                  BY <2>4 DEF Save
            <3>2. pc \in {"restock", "emit"}
                  OBVIOUS
            <3> HIDE DEF pc, row
            <3>3. handler'[h].pc = pc
                  BY <2>1, <3>1 DEF IInv, TypesFit, Shape
            <3> QED BY <2>2, <3>2, <3>3, RequestsStay DEF Asked
      <2> QED BY <1>7, <2>3, <2>4
<1>8. ASSUME NEW h \in Handlers, Restock(h) \/ RestockFails(h) PROVE RequestsInv'
      <2>1. handler[h].pc = "restock" /\ Shape(handler[h])
            BY <1>8 DEF Restock, RestockFails, IInv, TypesFit
      <2>2. /\ handler'[h].pc \in {"restock", "emit"}
            /\ \A g \in Handlers : g # h => handler'[g] = handler[g]
            BY <1>8, <2>1 DEF Restock, RestockFails, NextAttempt, Goto, IInv, TypesFit, Shape
      <2> QED BY <2>2, RequestsStay DEF Asked
<1>9. ASSUME NEW h \in Handlers, Emit(h) \/ LoseEvent(h) \/ Die(h) PROVE RequestsInv'
      <2>1. handler' = [handler EXCEPT ![h] = Idle]
            BY <1>9 DEF Emit, EmitRequested, EmitAuthorized, EmitRejected, EmitReceived,
               EmitInspected, EmitClosed, Publish, LoseEvent, Die, Leave
      <2> QED BY <1>2, <2>1, IdleFits
<1>10. ASSUME NEW r \in Rmas, LateRestock(r) \/ OperatorReplays(r) PROVE RequestsInv'
      BY <1>1, <1>10 DEF LateRestock, OperatorReplays, tables
<1>11. CASE CancelLine \/ UNCHANGED vars
      BY <1>1, <1>11 DEF CancelLine, vars, tables
<1> QED BY <1>3, <1>4, <1>5, <1>6, <1>7, <1>8, <1>9, <1>10, <1>11 DEF Next, Step

-----------------------------------------------------------------------------
(* The domain is the same in the service. *)

LEMMA ServiceConstants ==
    /\ Service!Rmas = Rmas /\ Service!NoUnits = NoUnits /\ Service!Statuses = Statuses
    /\ Service!From = From /\ Service!To = To /\ Service!Reached = Reached
    /\ Service!Verdicts = Verdicts /\ Service!NoLines = NoLines
<1>1. \A l : Service!BlankLine(l) = BlankLine(l)
      BY DEF Service!BlankLine, BlankLine
<1> QED BY <1>1 DEF Service!Rmas, Rmas, Service!NoUnits, NoUnits, Service!Statuses, Statuses,
       Service!From, From, Service!To, To, Service!Reached, Reached,
       Service!Verdicts, Verdicts, Service!NoLines, NoLines

LEMMA ServiceOpening ==
    ASSUME NEW u, NEW basket
    PROVE  /\ Service!MayOpen(u) <=> MayOpen(u)
           /\ Service!CustomerOf(u) = CustomerOf(u)
           /\ Service!AskedLines(basket) = AskedLines(basket)
<1>1. \A l : Service!BlankLine(l) = BlankLine(l)
      BY DEF Service!BlankLine, BlankLine
<1> QED BY <1>1 DEF Service!MayOpen, MayOpen, Service!OpensAsStaff, OpensAsStaff,
       Service!CustomerOf, CustomerOf, Service!AskedLines, AskedLines

LEMMA ServiceLines ==
    ASSUME NEW lines, NEW verdict, NEW row
    PROVE  /\ Service!Judged(lines, verdict) = Judged(lines, verdict)
           /\ Service!CoversEveryLine(row, verdict) <=> CoversEveryLine(row, verdict)
           /\ Service!FitForResale(lines) = FitForResale(lines)
           /\ \A S : Service!UnitsOf(lines, S) = UnitsOf(lines, S)
<1>1. \A x : Service!Filled(x) = Filled(x)
      BY DEF Service!Filled, Filled
<1>2. \A S, l : Service!UnitsIn(lines, S, l) = UnitsIn(lines, S, l)
      BY DEF Service!UnitsIn, UnitsIn
<1>3. Service!Judged(lines, verdict) = Judged(lines, verdict)
      BY DEF Service!Judged, Judged
<1>4. Service!CoversEveryLine(row, verdict) <=> CoversEveryLine(row, verdict)
      BY <1>1 DEF Service!CoversEveryLine, CoversEveryLine
<1>5. Service!FitForResale(lines) = FitForResale(lines)
      BY <1>1 DEF Service!FitForResale, FitForResale
<1>6. \A S : Service!Cardinality(S) = Cardinality(S)
      BY DEF Service!Cardinality, Cardinality
<1>7. \A S : Service!UnitsOf(lines, S) = UnitsOf(lines, S)
      BY <1>2, <1>6 DEF Service!UnitsOf, UnitsOf
<1> QED BY <1>3, <1>4, <1>5, <1>7

-----------------------------------------------------------------------------
(* Every step is a step of the service or shows nothing. *)

Requests == [r \in Rmas |-> Shown(rmas[r])]

LEMMA RequestsRest ==
    ASSUME UNCHANGED <<rmas, credited, announced>> PROVE UNCHANGED Service!vars
BY DEF Service!vars

LEMMA OneRequestMoves ==
    ASSUME IInv, NEW r \in Rmas, NEW row, rmas' = [rmas EXCEPT ![r] = row]
    PROVE  Requests' = [Requests EXCEPT ![r] = Shown(row)]
BY DEF Requests, IInv, TypesFit

LEMMA InsertIsOpen ==
    ASSUME IInv, RequestsInv, NEW h \in Handlers, InsertRequest(h)
    PROVE  Service!Next
<1>1. PICK r \in Rmas : rmas[r] = Absent /\ rmas' = [rmas EXCEPT ![r] = handler[h].row]
      BY DEF InsertRequest
<1>2. PICK u \in Users, basket \in Baskets : MayOpen(u) /\ handler[h].row = Opened(u, basket)
      BY DEF InsertRequest, RequestsInv, Asked
<1>3. Requests' = [Requests EXCEPT ![r] = Shown(handler[h].row)]
      BY <1>1, OneRequestMoves
<1>4. Shown(handler[h].row) =
          [status |-> "requested", customer |-> CustomerOf(u), lines |-> AskedLines(basket)]
      BY <1>2 DEF Opened, Shown
<1>5. Requests[r].status = "absent"
      BY <1>1, AbsentIsARow DEF Requests, Shown
<1>6. UNCHANGED <<credited, announced>>
      BY DEF InsertRequest, restocks
<1>7. Service!Open(r)
      BY <1>2, <1>3, <1>4, <1>5, <1>6, ServiceOpening, ZenonT(60) DEF Requests, Service!Open
<1> QED BY <1>7, ServiceConstants DEF Service!Next

LEMMA SaveMovesOn ==
    ASSUME IInv, RequestsInv, NEW h \in Handlers, Save(h)
    PROVE  Service!Next
<1> DEFINE r == handler[h].rma
           step == handler[h].step
           verdict == handler[h].verdict
<1>1. /\ r \in Rmas /\ step \in Steps /\ rmas[r].status = From[step]
      /\ Saved(h).status = To[step]
      /\ step # "inspect" => Saved(h).lines = rmas[r].lines
      BY SavedRow DEF Save
<1>2. /\ handler[h].row = rmas[r] /\ verdict \in Verdicts
      /\ rmas[r] \in ReturnRequest
      /\ step = "inspect" => CoversEveryLine(rmas[r], verdict)
      BY <1>1 DEF Save, VersionMatches, IInv, HandlersFit, Fits, SaveFits, TypesFit,
         RequestsInv, Covers
<1>3. /\ Saved(h).customer = rmas[r].customer
      /\ Saved(h).lines = Judged(rmas[r].lines, verdict)
      BY <1>1, <1>2 DEF Saved, Applied, ReturnRequest
<1>4. UNCHANGED <<credited, announced>> /\ rmas' = [rmas EXCEPT ![r] = Saved(h)]
      BY DEF Save, outside, restocks
<1>5. Requests' = [Requests EXCEPT ![r] = Shown(Saved(h))]
      BY <1>1, <1>4, OneRequestMoves
<1>6. Requests[r] = Shown(rmas[r]) /\ r \in DOMAIN Requests
      BY <1>1 DEF Requests
<1>7. CASE step # "inspect"
      <2> DEFINE to == To[step]
      <2>1. Shown(Saved(h)) = [Requests[r] EXCEPT !.status = to]
            <3>1. /\ Saved(h).status = to /\ Saved(h).lines = rmas[r].lines
                  /\ Saved(h).customer = rmas[r].customer
                  BY <1>1, <1>3, <1>7
            <3> HIDE DEF r, to
            <3> QED BY <1>6, <3>1 DEF Shown
      <2>2. Requests' = [Requests EXCEPT ![r].status = To[step]]
            BY <1>5, <2>1
      <2>3. Requests[r].status = From[step]
            BY <1>1, <1>6 DEF Shown
      <2>4. Service!MoveOn(r, step)
            BY <1>4, <2>2, <2>3, ServiceConstants DEF Requests, Service!MoveOn
      <2>5. step \in {"authorize", "reject", "receive", "close"}
            BY <1>1, <1>7 DEF Steps
      <2> QED BY <1>1, <2>4, <2>5, ServiceConstants
              DEF Service!Next, Service!Authorize, Service!Reject, Service!Receive, Service!Close
<1>8. CASE step = "inspect"
      <2>1. Shown(Saved(h)) = [Requests[r] EXCEPT !.status = "inspected",
                                                  !.lines = Judged(@, verdict)]
            <3>1. /\ Saved(h).status = "inspected" /\ Saved(h).lines = Judged(rmas[r].lines, verdict)
                  /\ Saved(h).customer = rmas[r].customer
                  BY <1>1, <1>3, <1>8 DEF To
            <3> DEFINE lines == Judged(rmas[r].lines, verdict)
            <3>2. Shown(Saved(h)) = [status |-> "inspected", customer |-> rmas[r].customer,
                                     lines |-> lines]
                  BY <3>1 DEF Shown
            <3>3. /\ Requests[r] = [status |-> rmas[r].status, customer |-> rmas[r].customer,
                                    lines |-> rmas[r].lines]
                  /\ Judged(Requests[r].lines, verdict) = lines
                  BY <1>6 DEF Shown
            <3> HIDE DEF r, verdict, lines
            <3>4. [Requests[r] EXCEPT !.status = "inspected", !.lines = lines]
                     = [status |-> "inspected", customer |-> rmas[r].customer, lines |-> lines]
                  <4> DEFINE a == [Requests[r] EXCEPT !.status = "inspected"]
                  <4>1. a = [status |-> "inspected", customer |-> rmas[r].customer,
                             lines |-> rmas[r].lines]
                        BY <3>3
                  <4> HIDE DEF a
                  <4>2. [a EXCEPT !.lines = lines]
                           = [status |-> "inspected", customer |-> rmas[r].customer, lines |-> lines]
                        BY <4>1
                  <4> QED BY <4>2 DEF a
            <3> QED BY <3>2, <3>3, <3>4
      <2>2. Requests' = [Requests EXCEPT ![r].status = "inspected",
                                         ![r].lines = Judged(@, verdict)]
            BY <1>5, <1>6, <2>1
      <2>3. Requests[r].status = "received"
            BY <1>1, <1>6, <1>8 DEF Shown, From
      <2>4. CoversEveryLine(Requests[r], verdict)
            BY <1>2, <1>6, <1>8 DEF CoversEveryLine, Shown
      <2>5. Service!Inspect(r)
            BY <1>2, <1>4, <2>2, <2>3, <2>4, ServiceConstants, ServiceLines
               DEF Requests, Service!Inspect
      <2> QED BY <1>1, <2>5, ServiceConstants DEF Service!Next
<1> QED BY <1>7, <1>8

\* Whoever calls the inventory for a settled return: nothing, or the one credit.
LEMMA CreditIsPutBack ==
    ASSUME IInv, NEW r \in Rmas, Settled(r), UNCHANGED <<rmas, announced>>,
           credited' = [credited EXCEPT ![r] = Credit(r, rmas[r].lines)]
    PROVE  [Service!Next]_(Service!vars)
<1>1. CASE Credit(r, rmas[r].lines) = credited[r]
      <2>1. UNCHANGED credited
            BY <1>1 DEF IInv, TypesFit
      <2> QED BY <2>1, RequestsRest
<1>2. CASE Credit(r, rmas[r].lines) # credited[r]
      <2>1. /\ credited[r] = NoUnits
            /\ Credit(r, rmas[r].lines) = UnitsOf(rmas[r].lines, FitForResale(rmas[r].lines))
            BY <1>2 DEF Credit
      <2>2. /\ Requests[r].status \in {"inspected", "closed"}
            /\ Requests[r].lines = rmas[r].lines /\ UNCHANGED Requests
            BY DEF Requests, Shown, Settled
      <2>3. Service!PutBack(r)
            BY <2>1, <2>2, ServiceConstants, ServiceLines DEF Requests, Service!PutBack
      <2> QED BY <2>3, ServiceConstants DEF Service!Next
<1> QED BY <1>1, <1>2

LEMMA PublishAnnounces ==
    ASSUME IInv, NEW h \in Handlers, NEW status \in Statuses, Publish(h, status)
    PROVE  Service!Next
<1> DEFINE r == handler[h].rma
<1>1. /\ r \in Rmas /\ status \in Reached[rmas[r].status] /\ announced[r][status] = 0
      BY DEF Publish, IInv, HandlersFit, Fits, PendingFits, Pending
<1>2. announced' = [announced EXCEPT ![r][status] = 1] /\ UNCHANGED <<rmas, credited>>
      BY <1>1 DEF Publish, tables, restocks, IInv, TypesFit
<1>3. Requests[r].status = rmas[r].status /\ UNCHANGED Requests
      BY <1>1, <1>2 DEF Requests, Shown
<1>4. Service!Announce(r, status)
      BY <1>1, <1>2, <1>3, ServiceConstants DEF Requests, Service!Announce
<1> QED BY <1>1, <1>4, ServiceConstants DEF Service!Next

LEMMA NextImplements == IInv /\ RequestsInv /\ [Next]_vars => [Service!Next]_(Service!vars)
<1> SUFFICES ASSUME IInv, RequestsInv, [Next]_vars PROVE [Service!Next]_(Service!vars)
    OBVIOUS
<1>1. ASSUME NEW h \in Handlers,
             \/ BeginOpen(h) \/ Authorize(h) \/ Reject(h) \/ Receive(h) \/ Inspect(h) \/ Close(h)
             \/ SumReturned(h) \/ LoseRace(h) \/ RestockFails(h) \/ LoseEvent(h) \/ Die(h)
      PROVE  UNCHANGED Service!vars
      <2>1. UNCHANGED <<rmas, credited, announced>>
            BY <1>1 DEF BeginOpen, Authorize, Reject, Receive, Inspect, Close, Begin, SumReturned,
               LoseRace, RestockFails, LoseEvent, Die, tables, outside, restocks
      <2> QED BY <2>1, RequestsRest, SMTT(40)
<1>2. ASSUME NEW h \in Handlers, Emit(h) PROVE Service!Next
      BY <1>2, PublishAnnounces DEF Emit, EmitRequested, EmitAuthorized, EmitRejected,
         EmitReceived, EmitInspected, EmitClosed, Statuses
<1>3. ASSUME NEW h \in Handlers, Restock(h) PROVE [Service!Next]_(Service!vars)
      <2>1. /\ handler[h].rma \in Rmas /\ Settled(handler[h].rma)
            /\ handler[h].row.lines = rmas[handler[h].rma].lines
            BY <1>3, RestockingHandler DEF Restock
      <2> QED BY <1>3, <2>1, CreditIsPutBack DEF Restock, tables
<1>4. ASSUME NEW r \in Rmas, LateRestock(r) \/ OperatorReplays(r)
      PROVE  [Service!Next]_(Service!vars)
      BY <1>4, CreditIsPutBack DEF LateRestock, OperatorReplays, tables, IInv, CallsSettled
<1>5. CASE CancelLine \/ UNCHANGED vars
      BY <1>5, RequestsRest DEF CancelLine, vars, tables, outside, restocks
<1> QED BY <1>1, <1>2, <1>3, <1>4, <1>5, InsertIsOpen, SaveMovesOn DEF Next, Step

\* Returns with its handlers, versions, retries and calls is the service in
\* which each step happens at once: no race and no retry leads a return off its
\* way, lets an inspection leave a line unjudged, changes what was settled, puts
\* goods back twice or announces what did not happen.
THEOREM ReturnsAreAtomic == Spec => Implements
<1>1. Init => RequestsInv
      BY IdleFits DEF Init, RequestsInv, Asked, Covers
<1>2. Init => Service!Init
      <2> SUFFICES ASSUME Init PROVE Service!Init
          OBVIOUS
      <2>1. Requests = [r \in Rmas |-> [status |-> "absent", customer |-> Buyer, lines |-> NoLines]]
            BY DEF Init, Requests, Shown, Absent
      <2> QED BY <2>1, ServiceConstants DEF Init, Requests, Service!Init
<1> QED BY <1>1, <1>2, InitIsSound, NextKeepsIInv, NextKeepsRequests, NextImplements, PTL
        DEF Spec, Implements, Service!Spec

==============================================================================
