------------------------------ MODULE Pricing ------------------------------
(***************************************************************************)
(* The price ledger and the tax categories of the catalog service.         *)
(*                                                                         *)
(* A price is never edited: a new one is appended and the one that was     *)
(* open is closed at its start, in one transaction; but which one is open  *)
(* was read before, unlocked.  Pricing refers to product_variant by id     *)
(* only; the table is written by the products' side (module Products).     *)
(* Time is counted in the whole seconds the columns hold; the clocks of    *)
(* the service and of the database agree.  Amounts are left out: a price   *)
(* is known by its place in the ledger.                                    *)
(***************************************************************************)
EXTENDS Integers, FiniteSets, Sequences, SequencesExt

CONSTANTS
    Clerks,         \* pricing requests served at a time
    Variants,       \* ids of product variants
    Currencies,
    Priorities,
    TaxCodes,
    Horizon,        \* bound: the last second
    MaxPrices       \* bound: price requests over a run

Moments == 0 .. Horizon
Open == Horizon + 1                 \* valid_to IS NULL
NoTax == "none"

ASSUME PriceBounds ==
    {Horizon, MaxPrices} \subseteq Nat /\ Priorities \subseteq Int /\ NoTax \notin TaxCodes

VARIABLES
    clock,
    variantRows,    \* ids of the rows of product_variant
    prices,         \* the rows of price, in the order they were inserted
    taxCategories,  \* codes of the rows of tax_category
    taxOf,          \* variant -> tax_category_id, for the rows of product_variant
    clerk,          \* the requests being served
    priceEvents,    \* events handed to the publisher: their kind and the price's place
    priceRaced,     \* scopes where a price was appended late or over a row that had changed
    priceRequests

pricingVars == <<clock, variantRows, prices, taxCategories, taxOf, clerk, priceEvents, priceRaced, priceRequests>>

Scope == Variants \X Currencies

PriceEntity == [scope : Scope, from : Moments, to : 0 .. Open, priority : Priorities]

\* What the constructor of Price lets through.
Price == {p \in PriceEntity : p.from < p.to}

Waiting == [kind |-> "waiting"]

IsOpen(p) == p.to = Open

\* PricingRepository.findOpenPrice: 0 when there is none.
FindOpenPrice(scope) ==
    LET open == {i \in DOMAIN prices : prices[i].scope = scope /\ IsOpen(prices[i])}
    IN IF open = {} THEN 0 ELSE CHOOSE i \in open : TRUE

\* PricingRepository.findInEffect
FindInEffect(scope, asOf) ==
    {i \in DOMAIN prices : /\ prices[i].scope = scope
                           /\ prices[i].from <= asOf /\ asOf < prices[i].to}

\* SelectApplicablePriceUseCase.resolve: by priority, then by the later start.
Resolve(candidates) ==
    {i \in candidates : \A j \in candidates :
        \/ prices[i].priority > prices[j].priority
        \/ prices[i].priority = prices[j].priority /\ prices[i].from >= prices[j].from}

-----------------------------------------------------------------------------
(* Setting a price.                                                        *)

\* Price.set: not in the past, and not over before it starts.
NewPrice(p) == p.from >= clock

\* SetPriceUseCase.resolvePredecessor: what is open must start before the new price.
ResolvePredecessor(open, p) == open # 0 => prices[open].from < p.from

\* SetPriceUseCase up to the transaction.
BeginSetPrice(k, p) ==
    /\ clerk[k] = Waiting /\ priceRequests < MaxPrices
    /\ NewPrice(p)
    /\ ResolvePredecessor(FindOpenPrice(p.scope), p)
    /\ clerk' = [clerk EXCEPT ![k] =
          [kind |-> "set", price |-> p, predecessor |-> FindOpenPrice(p.scope),
           scheduled |-> p.from > clock]]
    /\ priceRequests' = priceRequests + 1
    /\ UNCHANGED <<clock, variantRows, prices, taxCategories, taxOf, priceEvents, priceRaced>>

\* Mutant of ClosedAt: the predecessor ends when the call is made.
ClosedAtOnce(ledger, predecessor, p) ==
    IF predecessor = 0 THEN ledger ELSE [ledger EXCEPT ![predecessor].to = clock]

\* Price.close, as appendPrice writes it: whatever the row holds by now.
ClosedAt(ledger, predecessor, p) ==
    IF predecessor = 0 THEN ledger ELSE [ledger EXCEPT ![predecessor].to = p.from]

\* UC_PRICE_OPEN_SCOPE: two rows with one key cannot both be open.
UniqueOpenScope(ledger) ==
    \A i, j \in DOMAIN ledger :
        IsOpen(ledger[i]) /\ IsOpen(ledger[j]) /\ ledger[i].scope = ledger[j].scope => i = j

\* The predecessor is no longer the open price, or the price is over already.
TooLate(request) ==
    \/ FindOpenPrice(request.price.scope) # request.predecessor
    \/ request.price.to <= clock

\* SetPriceUseCase.publish, after the commit; a failure is logged and loses the event.
Publish(request, place) ==
    priceEvents' = priceEvents \cup
        {[kind |-> IF request.scheduled THEN "catalog.price.scheduled" ELSE "catalog.price.changed",
          place |-> place]}

\* PricingTypeormRepository.appendPrice, all or nothing: FK_PRICE_VARIANT or
\* the unique key may refuse the row, and then nothing is closed either.
AppendPrice(k) ==
    LET r == clerk[k]
        appended == Append(ClosedAt(prices, r.predecessor, r.price), r.price)
    IN
    /\ r.kind = "set"
    /\ IF r.price.scope[1] \in variantRows /\ UniqueOpenScope(appended)
       THEN /\ prices' = appended
            /\ Publish(r, Len(appended))
            /\ priceRaced' = priceRaced \cup (IF TooLate(r) THEN {r.price.scope} ELSE {})
       ELSE UNCHANGED <<prices, priceEvents, priceRaced>>
    /\ clerk' = [clerk EXCEPT ![k] = Waiting]
    /\ UNCHANGED <<clock, variantRows, taxCategories, taxOf, priceRequests>>

-----------------------------------------------------------------------------
(* Tax categories.                                                         *)

\* CreateTaxCategoryUseCase: the code is free.
BeginCreateTaxCategory(k, code) ==
    /\ clerk[k] = Waiting /\ priceRequests < MaxPrices
    /\ code \notin taxCategories
    /\ clerk' = [clerk EXCEPT ![k] = [kind |-> "tax", code |-> code]]
    /\ priceRequests' = priceRequests + 1
    /\ UNCHANGED <<clock, variantRows, prices, taxCategories, taxOf, priceEvents, priceRaced>>

\* createTaxCategory; UC_TAX_CATEGORY_CODE refuses the second row of a code.
SaveTaxCategory(k) ==
    /\ clerk[k].kind = "tax"
    /\ taxCategories' = taxCategories \cup {clerk[k].code}
    /\ clerk' = [clerk EXCEPT ![k] = Waiting]
    /\ UNCHANGED <<clock, variantRows, prices, taxOf, priceEvents, priceRaced, priceRequests>>

\* AttachTaxCategoryToVariantUseCase: both rows exist, and nothing deletes either.
BeginAttachTaxCategory(k, code, v) ==
    /\ clerk[k] = Waiting /\ priceRequests < MaxPrices
    /\ code \in taxCategories /\ v \in variantRows
    /\ clerk' = [clerk EXCEPT ![k] = [kind |-> "attach", code |-> code, variant |-> v]]
    /\ priceRequests' = priceRequests + 1
    /\ UNCHANGED <<clock, variantRows, prices, taxCategories, taxOf, priceEvents, priceRaced>>

AttachTaxCategory(k) ==
    /\ clerk[k].kind = "attach"
    /\ taxOf' = [taxOf EXCEPT ![clerk[k].variant] = clerk[k].code]
    /\ clerk' = [clerk EXCEPT ![k] = Waiting]
    /\ UNCHANGED <<clock, variantRows, prices, taxCategories, priceEvents, priceRaced, priceRequests>>

Tick ==
    /\ clock < Horizon
    /\ clock' = clock + 1
    /\ UNCHANGED <<variantRows, prices, taxCategories, taxOf, clerk, priceEvents, priceRaced, priceRequests>>

-----------------------------------------------------------------------------
PricingInit ==
    /\ clock = 0 /\ taxCategories = {}
    /\ taxOf = [v \in variantRows |-> NoTax]
    /\ clerk = [k \in Clerks |-> Waiting]
    /\ priceEvents = {} /\ priceRaced = {} /\ priceRequests = 0

PricingNext ==
    \/ \E k \in Clerks :
          \/ \E p \in Price : BeginSetPrice(k, p)
          \/ AppendPrice(k)
          \/ \E code \in TaxCodes : BeginCreateTaxCategory(k, code)
          \/ SaveTaxCategory(k)
          \/ \E code \in TaxCodes, v \in Variants : BeginAttachTaxCategory(k, code, v)
          \/ AttachTaxCategory(k)
    \/ Tick

\* Setting a price, now or for later, never leaves a variant that has a price
\* without one at that moment, except where a request came late: its own price
\* was over when it was stored, or another had closed the price it closes.
PricedStaysPriced ==
    [][\A s \in Scope :
          clock' = clock /\ s \notin priceRaced' /\ FindInEffect(s, clock) # {}
             => FindInEffect(s, clock)' # {}]_pricingVars
=============================================================================
