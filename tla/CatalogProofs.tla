--------------------------- MODULE CatalogProofs ---------------------------
(***************************************************************************)
(* Proofs about the catalog service, for every set of products, variants,  *)
(* categories, owners and requests.                                        *)
(*                                                                         *)
(* The shelf: what a clerk or a manager has read and still relies on, and  *)
(* that no step takes it back, as long as no request came late.  The tree: *)
(* every path spells the way down to its row, and every request on the     *)
(* tree still holds what let it through, as long as none was raced; from   *)
(* that, that the levels a tree is drawn from are the depths of the paths, *)
(* and that they end.                                                      *)
(***************************************************************************)
EXTENDS Catalog, FiniteSetTheorems, SequenceTheorems, TLAPS

\* A clerk that sets a price holds one the constructor let through, and a
\* predecessor of the same scope.
ClerkInv ==
    \A k \in Clerks : clerk[k].kind = "set" =>
        /\ clerk[k].price \in Price
        /\ clerk[k].predecessor # 0 =>
              /\ clerk[k].predecessor \in DOMAIN prices
              /\ prices[clerk[k].predecessor].scope = clerk[k].price.scope

\* A row of the ledger; the seed gives its prices a priority of its own.
PriceRow == [scope : Scope, from : Moments, to : 0 .. Open, priority : Int]

PricesInv ==
    /\ prices \in Seq(PriceRow) /\ clock \in Moments
    /\ DOMAIN clerk = Clerks /\ ClerkInv

\* What no step takes back: rows keep scope and start, variants their product.
Grows ==
    /\ clock <= clock'
    /\ \A i \in DOMAIN prices :
          /\ i \in DOMAIN prices'
          /\ prices'[i].scope = prices[i].scope /\ prices'[i].from = prices[i].from
    /\ \A v \in DOMAIN variantOf : v \in DOMAIN variantOf' /\ variantOf'[v] = variantOf[v]

PriceKept == \A s \in Scope :
          clock' = clock /\ s \notin priceRaced' /\ FindInEffect(s, clock) # {}
             => FindInEffect(s, clock)' # {}

LEMMA Horizons == Moments \subseteq Int /\ Open \in Int /\ \A t \in Moments : 0 <= t /\ t < Open
BY PriceBounds DEF Moments, Open

LEMMA PriceFields ==
    /\ \A p \in PriceRow :
          /\ p.scope \in Scope /\ p.from \in Moments /\ p.to \in Int /\ p.priority \in Int
          /\ p = [scope |-> p.scope, from |-> p.from, to |-> p.to, priority |-> p.priority]
    /\ \A p \in Price : p \in PriceRow /\ p.from < p.to /\ p.to \in 0 .. Open
<1>1. Priorities \subseteq Int /\ Horizon \in Nat
      BY PriceBounds
<1>2. PriceEntity \subseteq PriceRow
      BY <1>1 DEF PriceEntity, PriceRow
<1>3. \A p \in Price : p \in PriceRow /\ p.from < p.to /\ p.to \in 0 .. Open
      BY <1>2 DEF Price, PriceEntity
<1>4. \A p \in PriceRow :
          /\ p.scope \in Scope /\ p.from \in Moments /\ p.to \in Int /\ p.priority \in Int
          /\ p = [scope |-> p.scope, from |-> p.from, to |-> p.to, priority |-> p.priority]
      BY <1>1 DEF PriceRow, Open
<1> QED BY <1>3, <1>4

\* An open price of the scope, or none.
LEMMA OpenPrice ==
    ASSUME NEW s
    PROVE  LET i == FindOpenPrice(s)
           IN  i # 0 => i \in DOMAIN prices /\ prices[i].scope = s /\ prices[i].to = Open
BY DEF FindOpenPrice, IsOpen

\* A step of the clerks that leaves the ledger alone.
LEMMA LedgerStands ==
    ASSUME PricesInv, UNCHANGED prices, clock' \in Moments, DOMAIN clerk' = Clerks,
           \A k \in Clerks : clerk'[k] = clerk[k] \/ clerk'[k].kind # "set"
    PROVE  PricesInv'
BY DEF PricesInv, ClerkInv

LEMMA BeginSetPriceKeeps ==
    ASSUME PricesInv, NEW k \in Clerks, NEW p \in Price, BeginSetPrice(k, p)
    PROVE  PricesInv' /\ UNCHANGED <<prices, clock>>
<1> DEFINE r == [kind |-> "set", price |-> p, predecessor |-> FindOpenPrice(p.scope),
                 scheduled |-> p.from > clock]
<1>1. /\ clerk' = [clerk EXCEPT ![k] = r] /\ DOMAIN clerk = Clerks
      /\ UNCHANGED <<prices, clock>>
      BY DEF BeginSetPrice, PricesInv
<1>2. /\ r.kind = "set" /\ r.price = p /\ r.predecessor = FindOpenPrice(p.scope)
      OBVIOUS
<1>3. r.predecessor # 0 => r.predecessor \in DOMAIN prices /\ prices[r.predecessor].scope = r.price.scope
      BY <1>2, OpenPrice
<1> HIDE DEF r
<1>4. ClerkInv'
      BY <1>1, <1>2, <1>3 DEF ClerkInv, PricesInv
<1> QED BY <1>1, <1>4 DEF PricesInv

\* The ledger after a price was appended.
LEMMA Appending ==
    ASSUME PricesInv, NEW k \in Clerks, clerk[k].kind = "set"
    PROVE  LET r == clerk[k]
               appended == Append(ClosedAt(prices, r.predecessor, r.price), r.price)
           IN  /\ appended \in Seq(PriceRow) /\ DOMAIN appended = 1 .. Len(prices) + 1
               /\ Len(prices) \in Nat /\ DOMAIN prices = 1 .. Len(prices)
               /\ appended[Len(prices) + 1] = r.price
               /\ \A i \in DOMAIN prices :
                     /\ appended[i].scope = prices[i].scope /\ appended[i].from = prices[i].from
                     /\ i # r.predecessor => appended[i] = prices[i]
               /\ r.predecessor # 0 => appended[r.predecessor].to = r.price.from
<1> DEFINE r == clerk[k]
           i == r.predecessor
           n == Len(prices)
           closed == ClosedAt(prices, i, r.price)
           appended == Append(closed, r.price)
<1>1. /\ prices \in Seq(PriceRow) /\ n \in Nat /\ DOMAIN prices = 1 .. n
      /\ r.price \in Price
      /\ i # 0 => i \in 1 .. n
      BY DEF PricesInv, ClerkInv
<1>2. r.price.from \in 0 .. Open /\ r.price \in PriceRow /\ Moments \subseteq 0 .. Open
      BY <1>1, PriceFields, Horizons
<1>3. /\ closed \in Seq(PriceRow) /\ Len(closed) = n
      /\ \A j \in 1 .. n : /\ closed[j].scope = prices[j].scope /\ closed[j].from = prices[j].from
                           /\ j # i => closed[j] = prices[j]
      /\ i # 0 => closed[i].to = r.price.from
      <2>1. CASE i = 0
            BY <1>1, <2>1 DEF ClosedAt
      <2>2. CASE i # 0
            <3> DEFINE row == [prices[i] EXCEPT !.to = r.price.from]
            <3>1. closed = [prices EXCEPT ![i] = row]
                  BY <2>2 DEF ClosedAt
            <3>2. i \in 1 .. n /\ prices[i] \in PriceRow
                  BY <1>1, <2>2
            <3>3. /\ row \in PriceRow /\ row.scope = prices[i].scope /\ row.from = prices[i].from
                  /\ row.to = r.price.from
                  BY <1>2, <3>2 DEF PriceRow
            <3> HIDE DEF row
            <3>4. /\ closed \in Seq(PriceRow) /\ Len(closed) = n
                  /\ \A j \in 1 .. n : closed[j] = IF j = i THEN row ELSE prices[j]
                  BY <1>1, <3>1, <3>2, <3>3
            <3> QED BY <2>2, <3>2, <3>3, <3>4
      <2> QED BY <2>1, <2>2
<1> HIDE DEF closed
<1>4. /\ appended \in Seq(PriceRow) /\ DOMAIN appended = 1 .. n + 1
      /\ appended[n + 1] = r.price /\ \A j \in 1 .. n : appended[j] = closed[j]
      BY <1>1, <1>2, <1>3
<1> QED BY <1>1, <1>3, <1>4 DEF closed

LEMMA AppendPriceKeeps ==
    ASSUME PricesInv, NEW k \in Clerks, AppendPrice(k)
    PROVE  /\ PricesInv' /\ PriceKept
           /\ \A i \in DOMAIN prices :
                 /\ i \in DOMAIN prices'
                 /\ prices'[i].scope = prices[i].scope /\ prices'[i].from = prices[i].from
<1> DEFINE r == clerk[k]
           appended == Append(ClosedAt(prices, r.predecessor, r.price), r.price)
           n == Len(prices)
<1>1. /\ r.kind = "set" /\ clerk' = [clerk EXCEPT ![k] = Waiting] /\ UNCHANGED clock
      /\ DOMAIN clerk = Clerks /\ clock \in Moments
      BY DEF AppendPrice, PricesInv
<1>2. DOMAIN clerk' = Clerks /\ \A j \in Clerks : clerk'[j] = clerk[j] \/ clerk'[j].kind # "set"
      BY <1>1 DEF Waiting
<1>3. CASE UNCHANGED prices
      <2>1. PricesInv'
            BY <1>1, <1>2, <1>3, LedgerStands
      <2> QED BY <1>1, <1>3, <2>1 DEF PriceKept, FindInEffect
<1>4. CASE /\ prices' = appended
           /\ priceRaced' = priceRaced \cup (IF TooLate(r) THEN {r.price.scope} ELSE {})
      <2>1. /\ appended \in Seq(PriceRow) /\ DOMAIN appended = 1 .. n + 1
            /\ n \in Nat /\ DOMAIN prices = 1 .. n
            /\ appended[n + 1] = r.price
            /\ \A i \in DOMAIN prices :
                  /\ appended[i].scope = prices[i].scope /\ appended[i].from = prices[i].from
                  /\ i # r.predecessor => appended[i] = prices[i]
            /\ r.predecessor # 0 => appended[r.predecessor].to = r.price.from
            BY <1>1, Appending
      <2>2. PricesInv'
            <3>1. ASSUME NEW j \in Clerks, clerk'[j].kind = "set"
                  PROVE  /\ clerk'[j].price \in Price
                         /\ clerk'[j].predecessor # 0 =>
                               /\ clerk'[j].predecessor \in DOMAIN prices'
                               /\ prices'[clerk'[j].predecessor].scope = clerk'[j].price.scope
                  <4>1. clerk'[j] = clerk[j]
                        BY <1>2, <3>1
                  <4> HIDE DEF appended
                  <4> QED BY <1>4, <2>1, <3>1, <4>1 DEF PricesInv, ClerkInv
            <3>2. ClerkInv'
                  BY <3>1 DEF ClerkInv
            <3> QED BY <1>1, <1>2, <1>4, <2>1, <3>2 DEF PricesInv
      <2>3. PriceKept
            <3> SUFFICES ASSUME NEW s \in Scope, s \notin priceRaced', NEW i \in FindInEffect(s, clock)
                         PROVE  FindInEffect(s, clock)' # {}
                BY DEF PriceKept
            <3>1. /\ i \in DOMAIN prices /\ prices[i].scope = s
                  /\ prices[i].from <= clock /\ clock < prices[i].to
                  BY DEF FindInEffect
            <3>2. /\ r.price \in Price
                  /\ r.predecessor # 0 =>
                        r.predecessor \in DOMAIN prices /\ prices[r.predecessor].scope = r.price.scope
                  BY <1>1 DEF PricesInv, ClerkInv
            <3>3. \A j \in DOMAIN appended :
                     appended[j].scope = s /\ appended[j].from <= clock /\ clock < appended[j].to
                        => FindInEffect(s, clock)' # {}
                  <4> HIDE DEF appended
                  <4> QED BY <1>1, <1>4 DEF FindInEffect
            <3> HIDE DEF appended
            <3>4. CASE i # r.predecessor
                  BY <2>1, <3>1, <3>3, <3>4
            <3>5. CASE i = r.predecessor
                  <4>1. i # 0 /\ s = r.price.scope /\ ~TooLate(r)
                        BY <1>4, <2>1, <3>1, <3>2, <3>5
                  <4>2. FindOpenPrice(s) = i /\ clock < r.price.to
                        <5>1. clock \in Int /\ r.price.to \in Int
                              BY <1>1, <3>2, PriceFields, Horizons
                        <5> QED BY <3>5, <4>1, <5>1 DEF TooLate
                  <4>3. r.price.from \in Int /\ clock \in Int
                        BY <1>1, <3>2, PriceFields, Horizons
                  <4>4. CASE clock < r.price.from
                        BY <2>1, <3>1, <3>3, <3>5, <4>1, <4>4
                  <4>5. CASE r.price.from <= clock
                        BY <2>1, <3>3, <4>1, <4>2, <4>5
                  <4> QED BY <4>3, <4>4, <4>5
            <3> QED BY <3>4, <3>5
      <2> HIDE DEF appended
      <2> QED BY <1>4, <2>1, <2>2, <2>3
<1> QED BY <1>1, <1>3, <1>4 DEF AppendPrice

\* The other requests of the clerks, and time.
LEMMA OtherPricingKeeps ==
    ASSUME PricesInv,
           \/ \E k \in Clerks :
                 \/ \E code \in TaxCodes : BeginCreateTaxCategory(k, code)
                 \/ SaveTaxCategory(k)
                 \/ \E code \in TaxCodes, v \in Variants : BeginAttachTaxCategory(k, code, v)
                 \/ AttachTaxCategory(k)
           \/ Tick
    PROVE  PricesInv' /\ UNCHANGED prices /\ clock <= clock'
<1>1. DOMAIN clerk = Clerks /\ clock \in Moments
      BY DEF PricesInv
<1>2. CASE Tick
      BY <1>1, <1>2, PriceBounds, LedgerStands DEF Tick, Moments
<1>3. ASSUME NEW k \in Clerks, NEW r, r.kind # "set", clerk' = [clerk EXCEPT ![k] = r],
             UNCHANGED <<prices, clock>>
      PROVE  PricesInv' /\ clock <= clock'
      BY <1>1, <1>3, LedgerStands, Horizons
<1>4. ASSUME NEW k \in Clerks, SaveTaxCategory(k) \/ AttachTaxCategory(k)
      PROVE  PricesInv' /\ UNCHANGED prices /\ clock <= clock'
      BY <1>3, <1>4 DEF SaveTaxCategory, AttachTaxCategory, Waiting
<1>5. ASSUME NEW k \in Clerks, NEW code \in TaxCodes, BeginCreateTaxCategory(k, code)
      PROVE  PricesInv' /\ UNCHANGED prices /\ clock <= clock'
      <2> DEFINE r == [kind |-> "tax", code |-> code]
      <2>1. r.kind # "set"
            OBVIOUS
      <2> QED BY <1>3, <1>5, <2>1 DEF BeginCreateTaxCategory
<1>6. ASSUME NEW k \in Clerks, NEW code \in TaxCodes, NEW v \in Variants,
             BeginAttachTaxCategory(k, code, v)
      PROVE  PricesInv' /\ UNCHANGED prices /\ clock <= clock'
      <2> DEFINE r == [kind |-> "attach", code |-> code, variant |-> v]
      <2>1. r.kind # "set"
            OBVIOUS
      <2> QED BY <1>3, <1>6, <2>1 DEF BeginAttachTaxCategory
<1> QED BY <1>2, <1>4, <1>5, <1>6

LEMMA SameLedger ==
    ASSUME UNCHANGED prices PROVE PriceKept
BY DEF PriceKept, FindInEffect

LEMMA PricingKeeps ==
    ASSUME PricesInv, PricingNext, UNCHANGED shelfVars
    PROVE  PricesInv' /\ PriceKept /\ Grows
<1>1. UNCHANGED variantOf
      BY DEF shelfVars
<1>2. clock \in Int
      BY Horizons DEF PricesInv
<1>3. ASSUME NEW k \in Clerks, NEW p \in Price, BeginSetPrice(k, p)
      PROVE  PricesInv' /\ PriceKept /\ Grows
      BY <1>1, <1>2, <1>3, BeginSetPriceKeeps, SameLedger DEF Grows
<1>4. ASSUME NEW k \in Clerks, AppendPrice(k)
      PROVE  PricesInv' /\ PriceKept /\ Grows
      <2>1. UNCHANGED clock
            BY <1>4 DEF AppendPrice
      <2> QED BY <1>1, <1>2, <1>4, <2>1, AppendPriceKeeps DEF Grows
<1>5. ASSUME PricesInv', UNCHANGED prices, clock <= clock'
      PROVE  PricesInv' /\ PriceKept /\ Grows
      BY <1>1, <1>5, SameLedger DEF Grows
<1>6. CASE \/ \E k \in Clerks :
                 \/ \E code \in TaxCodes : BeginCreateTaxCategory(k, code)
                 \/ SaveTaxCategory(k)
                 \/ \E code \in TaxCodes, v \in Variants : BeginAttachTaxCategory(k, code, v)
                 \/ AttachTaxCategory(k)
           \/ Tick
      BY <1>5, <1>6, OtherPricingKeeps
<1> QED BY <1>3, <1>4, <1>6 DEF PricingNext

\* Managers leave the ledger and its clerks alone.
LEMMA ManagerSparesPrices ==
    ASSUME PricesInv, UNCHANGED <<prices, clock, clerk>>
    PROVE  PricesInv' /\ PriceKept
BY SameLedger, LedgerStands DEF PricesInv

-----------------------------------------------------------------------------
\* What OnSaleWasPriced asks of a product.
HasPrice(s) ==
    \E v \in VariantsOf(s), i \in DOMAIN prices :
        prices[i].scope = <<v, DefaultCurrency>> /\ prices[i].from <= clock

\* What a manager has read of its product and still relies on.
StillFits(r) ==
    /\ r.kind = "variant" => (r.status # "draft" => HasPrice(r.slug))
    /\ r.kind = "probe" =>
          /\ r = [kind |-> "probe", slug |-> r.slug, variants |-> r.variants]
          /\ r.variants # {} /\ r.variants \subseteq VariantsOf(r.slug)
    /\ r.kind \in {"publish", "archive"} => HasPrice(r.slug)

ManagerInv == \A m \in Managers : StillFits(manager[m])

SaleInv ==
    /\ DOMAIN manager = Managers
    /\ OnSaleWasPriced /\ ManagerInv

LEMMA PriceStays == ASSUME PricesInv, PricesInv', Grows, NEW s, HasPrice(s) PROVE HasPrice(s)'
<1>1. PICK v \in VariantsOf(s), i \in DOMAIN prices :
          prices[i].scope = <<v, DefaultCurrency>> /\ prices[i].from <= clock
      BY DEF HasPrice
<1>2. v \in VariantsOf(s)'
      BY <1>1 DEF Grows, VariantsOf
<1>3. prices[i].from \in Int /\ clock \in Int /\ clock' \in Int
      <2>1. prices[i] \in PriceRow
            BY <1>1 DEF PricesInv
      <2> QED BY <2>1, PriceFields, Horizons DEF PricesInv
<1>4. /\ i \in DOMAIN prices' /\ prices'[i].scope = <<v, DefaultCurrency>>
      /\ prices'[i].from <= clock'
      BY <1>1, <1>3 DEF Grows
<1> QED BY <1>2, <1>4 DEF HasPrice

LEMMA SaleMeans == OnSaleWasPriced <=> \A s \in DOMAIN product : product[s] # "draft" => HasPrice(s)
BY DEF OnSaleWasPriced, HasPrice

\* A step of one manager that changes the status of one product at most.
LEMMA ShelfStep ==
    ASSUME PricesInv, PricesInv', SaleInv, Grows, NEW m \in Managers,
           DOMAIN manager' = Managers, \A n \in Managers \ {m} : manager'[n] = manager[n],
           StillFits(manager[m])',
           \A s \in DOMAIN product' :
               \/ s \in DOMAIN product /\ product'[s] = product[s]
               \/ product'[s] = "draft"
               \/ HasPrice(s)'
    PROVE  SaleInv'
<1>1. \A s : HasPrice(s) => HasPrice(s)'
      BY PriceStays
<1>2. \A s \in DOMAIN product : product[s] # "draft" => HasPrice(s)
      BY SaleMeans DEF SaleInv
<1>3. \A s \in DOMAIN product' : product'[s] # "draft" => HasPrice(s)'
      BY <1>1, <1>2
<1>4. OnSaleWasPriced'
      BY <1>3 DEF OnSaleWasPriced, HasPrice
<1>5. ASSUME NEW n \in Managers, n # m PROVE StillFits(manager[n])'
      <2>1. StillFits(manager[n]) /\ manager'[n] = manager[n]
            BY <1>5 DEF SaleInv, ManagerInv
      <2>2. \A s : VariantsOf(s) \subseteq VariantsOf(s)'
            BY DEF Grows, VariantsOf
      <2>3. (HasPrice(manager[n].slug) => HasPrice(manager[n].slug)')
            <3>1. \A s : s = manager[n].slug => (HasPrice(s)' <=> HasPrice(manager[n].slug)')
                  BY <2>1 DEF HasPrice, VariantsOf
            <3> QED BY <1>1, <3>1
      <2> QED BY <2>1, <2>2, <2>3 DEF StillFits, VariantsOf
<1> QED BY <1>4, <1>5 DEF SaleInv, ManagerInv

\* The requests of a manager that touch neither prices nor variants.
LEMMA QuietGrows ==
    ASSUME PricesInv, UNCHANGED <<prices, clock, clerk, variantOf>>
    PROVE  Grows /\ PricesInv'
<1>1. clock \in Int
      BY Horizons DEF PricesInv
<1> QED BY <1>1, ManagerSparesPrices DEF Grows

\* A request is taken.
LEMMA TakeKeeps ==
    ASSUME PricesInv, SaleInv, NEW m \in Managers, NEW STATE r, Take(m, r), StillFits(r)
    PROVE  SaleInv' /\ PricesInv' /\ PriceKept /\ Grows
<1>1. /\ manager' = [manager EXCEPT ![m] = r]
      /\ UNCHANGED <<prices, clock, clerk, variantOf, product>>
      BY DEF Take, pricingVars
<1>2. PricesInv' /\ Grows /\ PriceKept
      BY <1>1, QuietGrows, SameLedger
<1>3. /\ DOMAIN manager' = Managers /\ manager'[m] = r
      /\ \A n \in Managers \ {m} : manager'[n] = manager[n]
      BY <1>1 DEF SaleInv
<1>4. StillFits(manager[m])'
      BY <1>1, <1>3 DEF StillFits, HasPrice, VariantsOf
<1> QED BY <1>1, <1>2, <1>3, <1>4, ShelfStep

LEMMA Indifference ==
    ASSUME NEW r, r.kind \notin {"variant", "probe", "publish", "archive"}
    PROVE  StillFits(r)
BY DEF StillFits

\* A request is done: the manager is away again.
LEMMA FinishKeeps ==
    ASSUME PricesInv, PricesInv', SaleInv, Grows, NEW m \in Managers, Finish(m),
           \A s \in DOMAIN product' :
               \/ s \in DOMAIN product /\ product'[s] = product[s]
               \/ product'[s] = "draft"
               \/ HasPrice(s)'
    PROVE  SaleInv'
<1>1. /\ DOMAIN manager' = Managers /\ manager'[m] = Away
      /\ \A n \in Managers \ {m} : manager'[n] = manager[n]
      BY DEF Finish, SaleInv
<1>2. StillFits(manager[m])'
      BY <1>1 DEF StillFits, Away
<1> QED BY <1>1, <1>2, ShelfStep

LEMMA BeginKeeps ==
    ASSUME PricesInv, SaleInv, NEW m \in Managers,
           \/ \E s \in Slugs : \/ BeginRegister(m, s)
                               \/ BeginPublish(m, s)
                               \/ BeginArchive(m, s)
           \/ \E s \in Slugs, v \in Variants : BeginAddVariant(m, s, v)
           \/ \E o \in Owners : BeginAttachMedia(m, o)
           \/ \E i \in 1 .. MaxMedia : BeginDetachMedia(m, i)
           \/ \E o \in Owners : \E order \in ExactPermutations(o) : BeginReorderMedia(m, o, order)
    PROVE  SaleInv' /\ PricesInv' /\ PriceKept /\ Grows
<1> DEFINE Goal == SaleInv' /\ PricesInv' /\ PriceKept /\ Grows
<1>1. ASSUME NEW s \in Slugs, BeginRegister(m, s) PROVE Goal
      <2> DEFINE r == [kind |-> "register", slug |-> s]
      <2>1. r.kind = "register"
            OBVIOUS
      <2>2. StillFits(r)
            BY <2>1, Indifference
      <2> QED BY <1>1, <2>2, TakeKeeps DEF BeginRegister
<1>2. ASSUME NEW s \in Slugs, NEW v \in Variants, BeginAddVariant(m, s, v) PROVE Goal
      <2> DEFINE r == [kind |-> "variant", slug |-> s, status |-> product[s], sku |-> v]
      <2>1. Take(m, r) /\ s \in DOMAIN product
            BY <1>2 DEF BeginAddVariant
      <2>2. StillFits(r)
            <3>1. r.kind = "variant" /\ r.status = product[s] /\ r.slug = s
                  OBVIOUS
            <3>2. product[s] # "draft" => HasPrice(s)
                  BY <2>1, SaleMeans DEF SaleInv
            <3> QED BY <3>1, <3>2 DEF StillFits
      <2> QED BY <2>1, <2>2, TakeKeeps
<1>3. ASSUME NEW s \in Slugs, BeginPublish(m, s) PROVE Goal
      <2> DEFINE r == [kind |-> "probe", slug |-> s, variants |-> VariantsOf(s)]
      <2>1. Take(m, r) /\ VariantsOf(s) # {}
            BY <1>3 DEF BeginPublish, MayPublish
      <2>2. StillFits(r)
            BY <2>1 DEF StillFits
      <2> QED BY <2>1, <2>2, TakeKeeps
<1>4. ASSUME NEW s \in Slugs, BeginArchive(m, s) PROVE Goal
      <2> DEFINE r == [kind |-> "archive", slug |-> s, variants |-> VariantsOf(s)]
      <2>1. Take(m, r) /\ s \in DOMAIN product /\ product[s] = "active"
            BY <1>4 DEF BeginArchive, MayArchive
      <2>2. StillFits(r)
            <3>1. HasPrice(s)
                  BY <2>1, SaleMeans DEF SaleInv
            <3>2. r.kind = "archive" /\ r.slug = s
                  OBVIOUS
            <3> QED BY <3>1, <3>2 DEF StillFits
      <2> QED BY <2>1, <2>2, TakeKeeps
<1>5. ASSUME NEW o \in Owners, BeginAttachMedia(m, o) PROVE Goal
      <2> DEFINE r == [kind |-> "attach", owner |-> o, slot |-> NextSlot(o)]
      <2>1. r.kind = "attach"
            OBVIOUS
      <2>2. StillFits(r)
            BY <2>1, Indifference
      <2> QED BY <1>5, <2>2, TakeKeeps DEF BeginAttachMedia
<1>6. ASSUME NEW i \in 1 .. MaxMedia, BeginDetachMedia(m, i) PROVE Goal
      <2> DEFINE r == [kind |-> "detach", media |-> i, slot |-> media[i].slot]
      <2>1. r.kind = "detach"
            OBVIOUS
      <2>2. StillFits(r)
            BY <2>1, Indifference
      <2> QED BY <1>6, <2>2, TakeKeeps DEF BeginDetachMedia
<1>7. ASSUME NEW o \in Owners, NEW order \in ExactPermutations(o), BeginReorderMedia(m, o, order)
      PROVE  Goal
      <2> DEFINE r == [kind |-> "reorder", owner |-> o, order |-> order]
      <2>1. r.kind = "reorder"
            OBVIOUS
      <2>2. StillFits(r)
            BY <2>1, Indifference
      <2> QED BY <1>7, <2>2, TakeKeeps DEF BeginReorderMedia
<1> HIDE DEF Goal
<1>8. Goal
      BY <1>1, <1>2, <1>3, <1>4, <1>5, <1>6, <1>7
<1> QED BY <1>8 DEF Goal

\* The probe found a price for each variant it looked at, and there was one.
LEMMA ProbeKeeps ==
    ASSUME PricesInv, SaleInv, NEW m \in Managers, ProbePrices(m)
    PROVE  SaleInv' /\ PricesInv' /\ PriceKept /\ Grows
<1> DEFINE r == manager[m]
           next == IF MissingActivePrice(r.variants) = {} THEN [r EXCEPT !.kind = "publish"] ELSE Away
<1>1. /\ r.kind = "probe" /\ manager' = [manager EXCEPT ![m] = next]
      /\ UNCHANGED <<prices, clock, clerk, variantOf, product>>
      BY DEF ProbePrices, pricingVars
<1>2. PricesInv' /\ Grows /\ PriceKept
      BY <1>1, QuietGrows, SameLedger
<1>3. /\ r = [kind |-> "probe", slug |-> r.slug, variants |-> r.variants]
      /\ r.variants # {} /\ r.variants \subseteq VariantsOf(r.slug)
      BY <1>1 DEF SaleInv, ManagerInv, StillFits
<1>4. ASSUME MissingActivePrice(r.variants) = {} PROVE StillFits(next)
      <2>1. next.kind = "publish" /\ next.slug = r.slug
            BY <1>3, <1>4
      <2>2. PICK v \in r.variants : v \in VariantsOf(r.slug)
            BY <1>3
      <2>3. FindInEffect(<<v, DefaultCurrency>>, clock) # {}
            BY <1>4, <2>2 DEF MissingActivePrice
      <2>4. HasPrice(r.slug)
            BY <2>2, <2>3 DEF HasPrice, FindInEffect
      <2> QED BY <2>1, <2>4 DEF StillFits
<1>5. StillFits(next)
      <2>1. StillFits(Away)
            BY DEF StillFits, Away
      <2> QED BY <1>4, <2>1
<1>6. /\ DOMAIN manager' = Managers /\ manager'[m] = next
      /\ \A n \in Managers \ {m} : manager'[n] = manager[n]
      BY <1>1 DEF SaleInv
<1> HIDE DEF next
<1>7. StillFits(manager[m])'
      BY <1>1, <1>5, <1>6 DEF StillFits, HasPrice, VariantsOf
<1> QED BY <1>1, <1>2, <1>6, <1>7, ShelfStep

LEMMA ShelfSaves ==
    ASSUME PricesInv, SaleInv, NEW m \in Managers,
           RegisterProduct(m) \/ AddVariant(m) \/ SaveStatus(m)
    PROVE  SaleInv' /\ PricesInv' /\ PriceKept /\ Grows
<1> DEFINE r == manager[m]
<1>1. clock \in Int /\ StillFits(r)
      BY Horizons DEF PricesInv, SaleInv, ManagerInv
<1>2. CASE RegisterProduct(m)
      <2>1. UNCHANGED <<prices, clock, clerk, variantOf>> /\ Finish(m)
            BY <1>2 DEF RegisterProduct, pricingVars
      <2>2. PricesInv' /\ Grows /\ PriceKept
            BY <2>1, QuietGrows, SameLedger
      <2>3. \A s \in DOMAIN product' :
                \/ s \in DOMAIN product /\ product'[s] = product[s]
                \/ product'[s] = "draft"
            BY <1>2 DEF RegisterProduct, Save
      <2> QED BY <2>1, <2>2, <2>3, FinishKeeps
<1>3. CASE AddVariant(m)
      <2>1. /\ r.kind = "variant" /\ UNCHANGED <<prices, clock, clerk>> /\ Finish(m)
            /\ \/ UNCHANGED <<product, variantOf>>
               \/ /\ r.sku \notin DOMAIN variantOf /\ product' = Save(r.slug, r.status)
                  /\ variantOf' = [v \in DOMAIN variantOf \cup {r.sku} |->
                                      IF v = r.sku THEN r.slug ELSE variantOf[v]]
            BY <1>3 DEF AddVariant
      <2>2. PricesInv' /\ PriceKept
            BY <2>1, ManagerSparesPrices
      <2>3. \A v \in DOMAIN variantOf : v \in DOMAIN variantOf' /\ variantOf'[v] = variantOf[v]
            BY <2>1
      <2>4. Grows
            BY <1>1, <2>1, <2>3 DEF Grows
      <2>5. r.status # "draft" => HasPrice(r.slug)
            BY <1>1, <2>1 DEF StillFits
      <2>6. \A s : HasPrice(s) => HasPrice(s)'
            BY <2>2, <2>4, PriceStays
      <2>7. \A s \in DOMAIN product' :
               \/ s \in DOMAIN product /\ product'[s] = product[s]
               \/ product'[s] = "draft"
               \/ HasPrice(s)'
            <3> SUFFICES ASSUME NEW s \in DOMAIN product',
                                ~(s \in DOMAIN product /\ product'[s] = product[s]),
                                product'[s] # "draft"
                         PROVE  HasPrice(s)'
                OBVIOUS
            <3>1. s = r.slug /\ product'[s] = r.status
                  BY <2>1 DEF Save
            <3>2. HasPrice(s)
                  BY <2>5, <3>1
            <3> QED BY <2>6, <3>2
      <2> QED BY <2>1, <2>2, <2>4, <2>7, FinishKeeps
<1>4. CASE SaveStatus(m)
      <2>1. /\ r.kind \in {"publish", "archive"} /\ Finish(m)
            /\ product' = Save(r.slug, IF r.kind = "publish" THEN "active" ELSE "archived")
            /\ UNCHANGED <<prices, clock, clerk, variantOf>>
            BY <1>4 DEF SaveStatus, pricingVars
      <2>2. PricesInv' /\ Grows /\ PriceKept
            BY <2>1, QuietGrows, SameLedger
      <2>3. HasPrice(r.slug)
            BY <1>1, <2>1 DEF StillFits
      <2>4. \A s : HasPrice(s) => HasPrice(s)'
            BY <2>2, PriceStays
      <2>5. \A s \in DOMAIN product' :
                \/ s \in DOMAIN product /\ product'[s] = product[s]
                \/ HasPrice(s)'
            <3> SUFFICES ASSUME NEW s \in DOMAIN product',
                                ~(s \in DOMAIN product /\ product'[s] = product[s])
                         PROVE  HasPrice(s)'
                OBVIOUS
            <3>1. s = r.slug
                  BY <2>1 DEF Save
            <3> QED BY <2>3, <2>4, <3>1
      <2> QED BY <2>1, <2>2, <2>5, FinishKeeps
<1> QED BY <1>2, <1>3, <1>4

LEMMA MediaSavesKeepSale ==
    ASSUME PricesInv, SaleInv, NEW m \in Managers,
           AttachMedia(m) \/ DetachMedia(m) \/ ReorderMedia(m)
    PROVE  SaleInv' /\ PricesInv' /\ PriceKept /\ Grows
<1>1. UNCHANGED <<prices, clock, clerk, variantOf, product>> /\ Finish(m)
      BY DEF AttachMedia, DetachMedia, ReorderMedia, pricingVars
<1>2. PricesInv' /\ Grows /\ PriceKept
      BY <1>1, QuietGrows, SameLedger
<1> QED BY <1>1, <1>2, FinishKeeps

LEMMA ShelfKeepsSale ==
    ASSUME PricesInv, SaleInv, [ShelfNext]_productVars
    PROVE  SaleInv' /\ PricesInv' /\ PriceKept
<1>1. ASSUME NEW m \in Managers, ManagerNext(m)
      PROVE  SaleInv' /\ PricesInv' /\ PriceKept
      BY <1>1, BeginKeeps, ProbeKeeps, ShelfSaves, MediaSavesKeepSale DEF ManagerNext
<1>2. CASE PricingNext /\ UNCHANGED shelfVars
      <2>1. PricesInv' /\ PriceKept /\ Grows /\ UNCHANGED <<product, manager>>
            BY <1>2, PricingKeeps DEF shelfVars
      <2>2. CASE Managers = {}
            <3>1. \A s : HasPrice(s) => HasPrice(s)'
                  BY <2>1, PriceStays
            <3>2. \A s \in DOMAIN product' : product'[s] # "draft" => HasPrice(s)'
                  BY <2>1, <3>1, SaleMeans DEF SaleInv
            <3> QED BY <2>1, <2>2, <3>2 DEF SaleInv, OnSaleWasPriced, HasPrice, ManagerInv
      <2>3. ASSUME NEW m \in Managers PROVE SaleInv'
            <3>1. \A s : HasPrice(s) => HasPrice(s)'
                  BY <2>1, PriceStays
            <3>2. StillFits(manager[m]) /\ UNCHANGED variantOf
                  BY <1>2 DEF SaleInv, ManagerInv, shelfVars
            <3>3. HasPrice(manager[m].slug) => HasPrice(manager[m].slug)'
                  <4>1. \A s : s = manager[m].slug => (HasPrice(s)' <=> HasPrice(manager[m].slug)')
                        BY <2>1 DEF HasPrice, VariantsOf
                  <4> QED BY <3>1, <4>1
            <3>4. StillFits(manager[m])'
                  BY <2>1, <3>2, <3>3 DEF StillFits, VariantsOf
            <3> QED BY <2>1, <3>4, ShelfStep DEF SaleInv
      <2> QED BY <2>1, <2>2, <2>3
<1>3. CASE UNCHANGED productVars
      <2>1. UNCHANGED <<prices, clock, clerk, variantOf, product, manager>>
            BY <1>3 DEF productVars, pricingVars, shelfVars
      <2>2. PricesInv' /\ PriceKept
            BY <2>1, ManagerSparesPrices
      <2>3. \A x : (HasPrice(x) <=> HasPrice(x)') /\ VariantsOf(x) = VariantsOf(x)'
            BY <2>1 DEF HasPrice, VariantsOf
      <2>4. \A s \in DOMAIN product' : product'[s] # "draft" => HasPrice(s)'
            BY <2>1, <2>3, SaleMeans DEF SaleInv
      <2>5. OnSaleWasPriced'
            BY <2>4 DEF OnSaleWasPriced, HasPrice
      <2>6. ManagerInv'
            <3> SUFFICES ASSUME NEW m \in Managers PROVE StillFits(manager[m])'
                BY DEF ManagerInv
            <3>1. StillFits(manager[m])
                  BY DEF SaleInv, ManagerInv
            <3>2. HasPrice(manager[m].slug) => HasPrice(manager[m].slug)'
                  BY <2>1 DEF HasPrice, VariantsOf
            <3> QED BY <2>1, <3>1, <3>2 DEF StillFits, VariantsOf
      <2>7. SaleInv'
            BY <2>1, <2>5, <2>6 DEF SaleInv
      <2> QED BY <2>2, <2>7
<1> QED BY <1>1, <1>2, <1>3 DEF ShelfNext

\* A finite set has a sequence of its elements, and each is in it.
LEMMA SeqOfSet ==
    ASSUME NEW S, IsFiniteSet(S)
    PROVE  /\ Cardinality(S) \in Nat /\ SetToSeq(S) \in [1 .. Cardinality(S) -> S]
           /\ \A x \in S : \E i \in 1 .. Cardinality(S) : SetToSeq(S)[i] = x
<1> DEFINE n == Cardinality(S)
           I == 1 .. n
<1>1. n \in Nat /\ ExistsBijection(I, S)
      BY FS_CardinalityType
<1>2. PICK b \in Bijection(I, S) : TRUE
      BY <1>1 DEF ExistsBijection
<1>3. b \in [I -> S] /\ IsInjective(b)
      BY <1>2 DEF Bijection, Injection
<1>4. SetToSeq(S) \in [I -> S] /\ IsInjective(SetToSeq(S))
      BY <1>3 DEF SetToSeq
<1>5. SetToSeq(S) \in Injection(I, S)
      BY <1>4 DEF Injection
<1>6. IsFiniteSet(I) /\ Cardinality(I) = Cardinality(S)
      <2> HIDE DEF n
      <2>1. IsFiniteSet(1 .. n) /\ Cardinality(1 .. n) = n
            BY <1>1, FS_Interval
      <2> QED BY <2>1 DEF n
<1>7. SetToSeq(S) \in Surjection(I, S)
      BY <1>5, <1>6, FS_Injection
<1> QED BY <1>1, <1>4, <1>7 DEF Surjection

LEMMA InitKeepsSale == ShelfInit => PricesInv /\ SaleInv
<1> SUFFICES ASSUME ShelfInit PROVE PricesInv /\ SaleInv
    OBVIOUS
<1> DEFINE S == DOMAIN SeededVariants
           n == Cardinality(S)
           q == SetToSeq(S)
<1>1. /\ IsFiniteSet(S) /\ S \subseteq Variants
      /\ n \in Nat /\ q \in [1 .. n -> S] /\ \A x \in S : \E i \in 1 .. n : q[i] = x
      BY ProductSeed, SeqOfSet
<1>2. /\ variantOf = SeededVariants /\ clock = 0
      /\ product = [s \in Range(SeededVariants) |-> "active"]
      /\ prices = [i \in 1 .. n |-> SeededPrice(q[i])]
      BY DEF ShelfInit, PricingInit
<1>3. \A v \in Variants : /\ SeededPrice(v) \in PriceRow
                          /\ SeededPrice(v).scope = <<v, DefaultCurrency>> /\ SeededPrice(v).from = 0
      BY ProductIds, PriceBounds DEF SeededPrice, PriceRow, Scope, Moments, Open
<1> HIDE DEF n, q, S
<1>4. /\ DOMAIN prices = 1 .. n
      /\ \A i \in 1 .. n : /\ prices[i] \in PriceRow /\ prices[i].from = 0
                          /\ prices[i].scope = <<q[i], DefaultCurrency>>
      BY <1>1, <1>2, <1>3
<1>5. prices \in Seq(PriceRow)
      BY <1>1, <1>2, <1>4
<1>6. PricesInv
      <2>1. ClerkInv /\ DOMAIN clerk = Clerks
            BY DEF ShelfInit, PricingInit, ClerkInv, Waiting
      <2>2. clock \in Moments
            BY <1>2, PriceBounds DEF Moments
      <2> QED BY <1>5, <2>1, <2>2 DEF PricesInv
<1>7. \A s \in DOMAIN product : HasPrice(s)
      <2> SUFFICES ASSUME NEW s \in Range(SeededVariants) PROVE HasPrice(s)
          BY <1>2
      <2>1. PICK v \in S : SeededVariants[v] = s
            BY DEF Range, S
      <2>2. PICK i \in 1 .. n : q[i] = v
            BY <1>1
      <2>3. v \in VariantsOf(s)
            BY <1>2, <2>1 DEF VariantsOf, S
      <2>4. /\ i \in DOMAIN prices /\ prices[i].scope = <<v, DefaultCurrency>>
            /\ prices[i].from <= clock
            BY <1>2, <1>4, <2>2
      <2> QED BY <2>3, <2>4 DEF HasPrice
<1>8. SaleInv
      <2>1. ManagerInv /\ DOMAIN manager = Managers
            BY DEF ShelfInit, ManagerInv, StillFits, Away
      <2> QED BY <1>7, <2>1, SaleMeans DEF SaleInv
<1> QED BY <1>6, <1>8

LEMMA Least ==
    ASSUME NEW T \in SUBSET Nat, T # {}
    PROVE  \E x \in T : \A y \in T : x <= y
<1> DEFINE R == OpToRel(<, Nat)
<1>1. IsWellFoundedOn(R, Nat)
      BY NatLessThanWellFounded
<1>2. \A x, y \in Nat : x < y => <<x, y>> \in R
      BY DEF OpToRel
<1> HIDE DEF R
<1>3. PICK x \in T : \A y \in T : <<y, x>> \notin R
      BY <1>1, WFMin
<1> SUFFICES ASSUME NEW y \in T PROVE x <= y
    OBVIOUS
<1>4. x \in Nat /\ y \in Nat /\ ~(y < x)
      BY <1>2, <1>3
<1> QED BY <1>4

\* A bounded set of integers that is not empty has a greatest element.
LEMMA Greatest ==
    ASSUME NEW S \in SUBSET Int, S # {}, NEW b \in Int, \A x \in S : x <= b
    PROVE  Max(S) \in S /\ \A x \in S : Max(S) >= x
<1> DEFINE T == {b - x : x \in S}
<1>1. T \in SUBSET Nat /\ T # {}
      <2>1. \A x \in S : x \in Int /\ x <= b /\ b - x \in Nat
            OBVIOUS
      <2> QED BY <2>1
<1>2. PICK t \in T : \A y \in T : t <= y
      BY <1>1, Least
<1>3. PICK m \in S : t = b - m
      BY <1>2
<1>4. \A x \in S : m >= x
      <2> SUFFICES ASSUME NEW x \in S PROVE m >= x
          OBVIOUS
      <2>1. t <= b - x
            BY <1>2
      <2>2. m \in Int /\ x \in Int
            OBVIOUS
      <2> HIDE DEF T
      <2> QED BY <1>3, <2>1, <2>2
<1> QED BY <1>4 DEF Max

-----------------------------------------------------------------------------
MediaRow == [owner : Owners, slot : Int, active : BOOLEAN]

\* What a manager has read of the media and still relies on: an asset keeps its
\* owner.
MediaFits(r) ==
    /\ r.kind = "attach" => r.owner \in Owners /\ r.slot \in Int
    /\ r.kind = "detach" => r.slot \in Int
    /\ r.kind = "reorder" =>
          /\ \E n \in Nat : DOMAIN r.order = 1 .. n
          /\ \A k \in DOMAIN r.order :
                r.order[k] \in DOMAIN media /\ media[r.order[k]].owner = r.owner

MediaInv ==
    /\ media \in Seq(MediaRow)
    /\ \E b \in Int : \A i \in DOMAIN media : media[i].slot <= b
    /\ DOMAIN manager = Managers
    /\ \A m \in Managers : MediaFits(manager[m])
    /\ ActiveSlotsDistinct

\* The next slot is above all that are taken.
LEMMA SlotsBelowNext ==
    ASSUME MediaInv, NEW o
    PROVE  /\ NextSlot(o) \in Int
           /\ \A i \in DOMAIN media : media[i].owner = o => media[i].slot < NextSlot(o)
<1> DEFINE S == {-1} \cup {media[i].slot : i \in {j \in DOMAIN media : media[j].owner = o}}
<1>1. PICK b \in Int : \A i \in DOMAIN media : media[i].slot <= b
      BY DEF MediaInv
<1>2. \A i \in DOMAIN media : media[i].slot \in Int
      <2>1. \A i \in DOMAIN media : media[i] \in MediaRow
            BY DEF MediaInv
      <2> QED BY <2>1 DEF MediaRow
<1>3. S \in SUBSET Int /\ S # {}
      BY <1>2
<1>4. PICK c \in Int : b <= c /\ -1 <= c
      <2>1. b <= -1 \/ -1 <= b
            OBVIOUS
      <2> QED BY <2>1
<1>5. \A x \in S : x <= c
      BY <1>1, <1>2, <1>4
<1>6. \A i \in DOMAIN media : media[i].owner = o => media[i].slot \in S
      OBVIOUS
<1>7. NextSlot(o) = 1 + Max(S)
      BY DEF NextSlot
<1> HIDE DEF S
<1>8. Max(S) \in Int /\ \A x \in S : x <= Max(S)
      <2>1. Max(S) \in S /\ \A x \in S : Max(S) >= x
            BY <1>3, <1>5, Greatest
      <2> QED BY <1>3, <2>1
<1> QED BY <1>2, <1>6, <1>7, <1>8

\* Rows keep their owners: what was read of them still holds.
LEMMA MediaStep ==
    ASSUME MediaInv, NEW m \in Managers,
           DOMAIN manager' = Managers, \A n \in Managers \ {m} : manager'[n] = manager[n],
           MediaFits(manager[m])',
           media' \in Seq(MediaRow),
           \E b \in Int : \A i \in DOMAIN media' : media'[i].slot <= b,
           \A i \in DOMAIN media : i \in DOMAIN media' /\ media'[i].owner = media[i].owner,
           ActiveSlotsDistinct'
    PROVE  MediaInv'
<1>1. ASSUME NEW n \in Managers, n # m PROVE MediaFits(manager[n])'
      <2>1. MediaFits(manager[n]) /\ manager'[n] = manager[n]
            BY <1>1 DEF MediaInv
      <2>2. \A k \in DOMAIN manager[n].order :
                manager[n].order[k] \in DOMAIN media /\ media[manager[n].order[k]].owner = manager[n].owner
                   => /\ manager[n].order[k] \in DOMAIN media'
                      /\ media'[manager[n].order[k]].owner = manager[n].owner
            OBVIOUS
      <2> QED BY <2>1, <2>2 DEF MediaFits
<1> QED BY <1>1 DEF MediaInv

\* A step of one manager that leaves the media alone.
LEMMA MediaStand ==
    ASSUME MediaInv, UNCHANGED <<media, mediaRaced>>, NEW m \in Managers, NEW STATE r,
           manager' = [manager EXCEPT ![m] = r], MediaFits(r)
    PROVE  MediaInv'
<1>1. /\ DOMAIN manager' = Managers /\ manager'[m] = r
      /\ \A n \in Managers \ {m} : manager'[n] = manager[n]
      BY DEF MediaInv
<1>2. MediaFits(manager[m])'
      BY <1>1 DEF MediaFits
<1>3. ActiveSlotsDistinct'
      BY DEF MediaInv, ActiveSlotsDistinct, ActiveMedia
<1> QED BY <1>1, <1>2, <1>3, MediaStep DEF MediaInv

LEMMA AwayFits == MediaFits(Away)
BY DEF MediaFits, Away

\* The rows of the owner that is not outdated stand in slots of their own.
LEMMA Distinct ==
    ASSUME MediaInv, NEW o \in Owners \ mediaRaced, NEW i \in ActiveMedia(o), NEW j \in ActiveMedia(o),
           media[i].slot = media[j].slot
    PROVE  i = j
BY DEF MediaInv, ActiveSlotsDistinct

LEMMA AttachMediaKeeps ==
    ASSUME MediaInv, NEW m \in Managers, AttachMedia(m) PROVE MediaInv'
<1> DEFINE r == manager[m]
           n == Len(media)
           row == NewMedia(r.owner, r.slot)
<1>1. /\ r.kind = "attach" /\ media' = Append(media, row)
      /\ manager' = [manager EXCEPT ![m] = Away]
      /\ mediaRaced' = mediaRaced \cup (IF NextSlot(r.owner) > r.slot THEN {r.owner} ELSE {})
      BY DEF AttachMedia, Finish
<1>2. /\ r.owner \in Owners /\ r.slot \in Int
      BY <1>1 DEF MediaInv, MediaFits
<1>3. row \in MediaRow /\ row.owner = r.owner /\ row.slot = r.slot
      BY <1>2 DEF NewMedia, MediaRow
<1> HIDE DEF row
<1>4. /\ n \in Nat /\ DOMAIN media = 1 .. n /\ media' \in Seq(MediaRow) /\ DOMAIN media' = 1 .. n + 1
      /\ media'[n + 1] = row /\ \A i \in 1 .. n : media'[i] = media[i]
      BY <1>1, <1>3 DEF MediaInv
<1>5. \E b \in Int : \A i \in DOMAIN media' : media'[i].slot <= b
      <2>1. PICK b \in Int : \A i \in DOMAIN media : media[i].slot <= b
            BY DEF MediaInv
      <2>2. PICK c \in Int : b <= c /\ r.slot <= c
            <3>1. b <= r.slot \/ r.slot <= b
                  BY <1>2
            <3> QED BY <1>2, <3>1
      <2>3. \A i \in DOMAIN media : media[i].slot \in Int
            <3>1. \A i \in DOMAIN media : media[i] \in MediaRow
                  BY DEF MediaInv
            <3> QED BY <3>1 DEF MediaRow
      <2>4. \A i \in DOMAIN media' : media'[i].slot <= c
            BY <1>2, <1>3, <1>4, <2>1, <2>2, <2>3
      <2> QED BY <2>4
<1>6. ActiveSlotsDistinct'
      <2> SUFFICES ASSUME NEW o \in Owners \ mediaRaced',
                          NEW i \in ActiveMedia(o)', NEW j \in ActiveMedia(o)',
                          media'[i].slot = media'[j].slot
                   PROVE  i = j
          BY DEF ActiveSlotsDistinct
      <2>1. /\ i \in 1 .. n + 1 /\ j \in 1 .. n + 1 /\ media'[i].owner = o /\ media'[j].owner = o
            /\ media'[i].active /\ media'[j].active
            BY <1>4 DEF ActiveMedia
      <2>2. o \notin mediaRaced
            BY <1>1
      <2>3. \A k \in 1 .. n : o = r.owner /\ media[k].owner = o => media[k].slot # r.slot
            <3> SUFFICES ASSUME NEW k \in 1 .. n, o = r.owner, media[k].owner = o, media[k].slot = r.slot
                         PROVE  FALSE
                OBVIOUS
            <3>1. NextSlot(o) \in Int /\ media[k].slot < NextSlot(o)
                  BY <1>4, SlotsBelowNext
            <3>2. NextSlot(o) > r.slot
                  BY <1>2, <3>1
            <3> QED BY <1>1, <3>2
      <2>4. CASE i = n + 1 /\ j # n + 1
            BY <1>3, <1>4, <2>1, <2>3, <2>4
      <2>5. CASE j = n + 1 /\ i # n + 1
            BY <1>3, <1>4, <2>1, <2>3, <2>5
      <2>6. CASE i # n + 1 /\ j # n + 1
            <3>1. i \in ActiveMedia(o) /\ j \in ActiveMedia(o) /\ media[i].slot = media[j].slot
                  BY <1>4, <2>1, <2>6 DEF ActiveMedia
            <3> QED BY <2>2, <3>1, Distinct
      <2> QED BY <2>4, <2>5, <2>6
<1>7. /\ DOMAIN manager' = Managers /\ manager'[m] = Away
      /\ \A k \in Managers \ {m} : manager'[k] = manager[k]
      BY <1>1 DEF MediaInv
<1>8. MediaFits(manager[m])'
      BY <1>7 DEF MediaFits, Away
<1>9. \A i \in DOMAIN media : i \in DOMAIN media' /\ media'[i].owner = media[i].owner
      BY <1>4
<1> QED BY <1>4, <1>5, <1>6, <1>7, <1>8, <1>9, MediaStep

LEMMA DetachedRow ==
    ASSUME NEW e \in MediaRow, NEW s \in Int
    PROVE  LET row == [e EXCEPT !.active = FALSE, !.slot = s]
           IN  row \in MediaRow /\ ~row.active /\ row.slot = s /\ row.owner = e.owner
BY DEF MediaRow

LEMMA DetachMediaKeeps ==
    ASSUME MediaInv, NEW m \in Managers, DetachMedia(m) PROVE MediaInv'
<1> DEFINE r == manager[m]
           x == r.media
           row == [media[x] EXCEPT !.active = FALSE, !.slot = r.slot]
<1>1. /\ r.kind = "detach" /\ manager' = [manager EXCEPT ![m] = Away] /\ UNCHANGED mediaRaced
      /\ media' = [media EXCEPT ![x] = row]
      BY DEF DetachMedia, Finish
<1>2. r.slot \in Int
      BY <1>1 DEF MediaInv, MediaFits
<1>3. DOMAIN media' = DOMAIN media /\ media \in Seq(MediaRow)
      BY <1>1 DEF MediaInv
<1>4. \A i \in DOMAIN media :
         /\ media[i] \in MediaRow
         /\ i # x => media'[i] = media[i]
         /\ i = x => media'[i] \in MediaRow /\ ~media'[i].active /\ media'[i].slot = r.slot
                     /\ media'[i].owner = media[i].owner
      <2> SUFFICES ASSUME NEW i \in DOMAIN media
                   PROVE  /\ media[i] \in MediaRow
                          /\ i # x => media'[i] = media[i]
                          /\ i = x => media'[i] \in MediaRow /\ ~media'[i].active /\ media'[i].slot = r.slot
                                      /\ media'[i].owner = media[i].owner
          OBVIOUS
      <2>1. media[i] \in MediaRow
            BY <1>3
      <2>2. ASSUME i = x
            PROVE  row \in MediaRow /\ ~row.active /\ row.slot = r.slot /\ row.owner = media[i].owner
            <3>1. media[x] \in MediaRow
                  BY <2>1, <2>2
            <3> QED BY <1>2, <2>2, <3>1, DetachedRow
      <2> HIDE DEF row
      <2> QED BY <1>1, <2>1, <2>2
<1> HIDE DEF row
<1>5. media' \in Seq(MediaRow)
      <2>1. Len(media) \in Nat /\ DOMAIN media = 1 .. Len(media)
            BY <1>3
      <2>2. media' \in [1 .. Len(media) -> MediaRow]
            BY <1>1, <1>4, <2>1
      <2> QED BY <2>1, <2>2
<1>6. \E b \in Int : \A i \in DOMAIN media' : media'[i].slot <= b
      <2>1. PICK b \in Int : \A i \in DOMAIN media : media[i].slot <= b
            BY DEF MediaInv
      <2>2. PICK c \in Int : b <= c /\ r.slot <= c
            <3>1. b <= r.slot \/ r.slot <= b
                  BY <1>2
            <3> QED BY <1>2, <3>1
      <2>3. \A i \in DOMAIN media : media[i].slot \in Int
            BY <1>4 DEF MediaRow
      <2>4. \A i \in DOMAIN media' : media'[i].slot <= c
            BY <1>2, <1>3, <1>4, <2>1, <2>2, <2>3
      <2> QED BY <2>4
<1>7. ActiveSlotsDistinct'
      <2> SUFFICES ASSUME NEW o \in Owners \ mediaRaced,
                          NEW i \in ActiveMedia(o)', NEW j \in ActiveMedia(o)',
                          media'[i].slot = media'[j].slot
                   PROVE  i = j
          BY <1>1 DEF ActiveSlotsDistinct
      <2>1. i \in ActiveMedia(o) /\ j \in ActiveMedia(o) /\ i # x /\ j # x
            BY <1>3, <1>4 DEF ActiveMedia
      <2>2. media[i].slot = media[j].slot
            BY <1>4, <2>1 DEF ActiveMedia
      <2> QED BY <2>1, <2>2, Distinct
<1>8. /\ DOMAIN manager' = Managers /\ manager'[m] = Away
      /\ \A k \in Managers \ {m} : manager'[k] = manager[k]
      BY <1>1 DEF MediaInv
<1>9. MediaFits(manager[m])'
      BY <1>8 DEF MediaFits, Away
<1>10. \A i \in DOMAIN media : i \in DOMAIN media' /\ media'[i].owner = media[i].owner
      BY <1>3, <1>4
<1> QED BY <1>5, <1>6, <1>7, <1>8, <1>9, <1>10, MediaStep

LEMMA ReorderMediaKeeps ==
    ASSUME MediaInv, NEW m \in Managers, ReorderMedia(m) PROVE MediaInv'
<1> DEFINE r == manager[m]
           At(i) == CHOOSE n \in DOMAIN r.order : r.order[n] = i
           listed == Range(r.order)
<1>1. /\ r.kind = "reorder" /\ manager' = [manager EXCEPT ![m] = Away]
      /\ media' = [i \in DOMAIN media |->
                      IF i \in listed THEN [media[i] EXCEPT !.slot = At(i) - 1] ELSE media[i]]
      /\ mediaRaced' = mediaRaced \cup (IF ActiveMedia(r.owner) \subseteq listed THEN {} ELSE {r.owner})
      BY DEF ReorderMedia, Finish
<1>2. PICK c \in Nat : DOMAIN r.order = 1 .. c
      BY <1>1 DEF MediaInv, MediaFits
<1>3. \A i \in listed : /\ i \in DOMAIN media /\ media[i].owner = r.owner
                        /\ At(i) \in 1 .. c /\ r.order[At(i)] = i
      <2>1. \A k \in DOMAIN r.order : r.order[k] \in DOMAIN media /\ media[r.order[k]].owner = r.owner
            BY <1>1 DEF MediaInv, MediaFits
      <2> QED BY <1>2, <2>1 DEF Range
<1> HIDE DEF At, listed
<1>4. DOMAIN media' = DOMAIN media /\ media \in Seq(MediaRow)
      BY <1>1 DEF MediaInv
<1>5. \A i \in DOMAIN media :
         /\ media[i] \in MediaRow /\ media'[i] \in MediaRow
         /\ media'[i].owner = media[i].owner /\ media'[i].active = media[i].active
         /\ media'[i].slot = IF i \in listed THEN At(i) - 1 ELSE media[i].slot
      <2> SUFFICES ASSUME NEW i \in DOMAIN media
                   PROVE  /\ media[i] \in MediaRow /\ media'[i] \in MediaRow
                          /\ media'[i].owner = media[i].owner /\ media'[i].active = media[i].active
                          /\ media'[i].slot = IF i \in listed THEN At(i) - 1 ELSE media[i].slot
          OBVIOUS
      <2>1. media[i] \in MediaRow
            BY <1>4
      <2>2. CASE i \notin listed
            BY <1>1, <2>1, <2>2
      <2>3. CASE i \in listed
            <3> DEFINE e == media[i]
            <3>1. e = [owner |-> e.owner, slot |-> e.slot, active |-> e.active] /\ e.owner \in Owners
                  /\ e.active \in BOOLEAN
                  BY <2>1 DEF MediaRow
            <3>2. At(i) - 1 \in Int
                  BY <1>3, <2>3
            <3>3. media'[i] = [owner |-> e.owner, slot |-> At(i) - 1, active |-> e.active]
                  BY <1>1, <2>3, <3>1
            <3> QED BY <2>1, <2>3, <3>1, <3>2, <3>3 DEF MediaRow
      <2> QED BY <2>2, <2>3
<1>6. media' \in Seq(MediaRow)
      <2>1. Len(media) \in Nat /\ DOMAIN media = 1 .. Len(media)
            BY <1>4
      <2>2. media' \in [1 .. Len(media) -> MediaRow]
            BY <1>1, <1>5, <2>1
      <2> QED BY <2>1, <2>2
<1>7. \E b \in Int : \A i \in DOMAIN media' : media'[i].slot <= b
      <2>1. PICK b \in Int : \A i \in DOMAIN media : media[i].slot <= b
            BY DEF MediaInv
      <2>2. PICK d \in Int : b <= d /\ c <= d
            <3>1. b <= c \/ c <= b
                  BY <1>2
            <3> QED BY <1>2, <3>1
      <2>3. \A i \in DOMAIN media : media[i].slot \in Int
            BY <1>5 DEF MediaRow
      <2>4. \A i \in DOMAIN media' : media'[i].slot <= d
            BY <1>3, <1>4, <1>5, <2>1, <2>2, <2>3
      <2> QED BY <2>4
<1>8. ActiveSlotsDistinct'
      <2> SUFFICES ASSUME NEW o \in Owners \ mediaRaced',
                          NEW i \in ActiveMedia(o)', NEW j \in ActiveMedia(o)',
                          media'[i].slot = media'[j].slot
                   PROVE  i = j
          BY DEF ActiveSlotsDistinct
      <2>1. i \in ActiveMedia(o) /\ j \in ActiveMedia(o) /\ o \notin mediaRaced
            BY <1>1, <1>4, <1>5 DEF ActiveMedia
      <2>2. /\ i \in DOMAIN media /\ media[i].owner = o
            /\ j \in DOMAIN media /\ media[j].owner = o
            BY <2>1 DEF ActiveMedia
      <2>3. CASE o = r.owner
            <3>1. i \in listed /\ j \in listed
                  BY <1>1, <2>1, <2>3
            <3>2. At(i) - 1 = At(j) - 1 /\ At(i) \in Int /\ At(j) \in Int
                  BY <1>3, <1>5, <2>2, <3>1
            <3>3. At(i) = At(j)
                  BY <3>2
            <3> QED BY <1>3, <3>1, <3>3
      <2>4. CASE o # r.owner
            <3>1. i \notin listed /\ j \notin listed
                  BY <1>3, <2>2, <2>4
            <3>2. media[i].slot = media[j].slot
                  BY <1>5, <2>2, <3>1
            <3> QED BY <2>1, <3>2, Distinct
      <2> QED BY <2>3, <2>4
<1>9. /\ DOMAIN manager' = Managers /\ manager'[m] = Away
      /\ \A k \in Managers \ {m} : manager'[k] = manager[k]
      BY <1>1 DEF MediaInv
<1>10. MediaFits(manager[m])'
      BY <1>9 DEF MediaFits, Away
<1>11. \A i \in DOMAIN media : i \in DOMAIN media' /\ media'[i].owner = media[i].owner
      BY <1>4, <1>5
<1> QED BY <1>6, <1>7, <1>8, <1>9, <1>10, <1>11, MediaStep

\* A permutation of the active media is a list of them.
LEMMA PermutationFits ==
    ASSUME MediaInv, NEW o \in Owners, NEW order \in ExactPermutations(o)
    PROVE  /\ \E n \in Nat : DOMAIN order = 1 .. n
           /\ \A k \in DOMAIN order : order[k] \in DOMAIN media /\ media[order[k]].owner = o
<1> DEFINE S == ActiveMedia(o)
<1>1. Len(media) \in Nat /\ DOMAIN media = 1 .. Len(media)
      BY DEF MediaInv
<1>2. IsFiniteSet(1 .. Len(media)) /\ S \in SUBSET (1 .. Len(media))
      BY <1>1, FS_Interval DEF ActiveMedia
<1>3. IsFiniteSet(S)
      BY <1>2, FS_Subset
<1>4. Cardinality(S) \in Nat
      BY <1>3, FS_CardinalityType
<1>5. order \in [1 .. Cardinality(S) -> S]
      BY DEF ExactPermutations, SetToSeqs
<1> QED BY <1>4, <1>5 DEF ActiveMedia

LEMMA BeginKeepsMedia ==
    ASSUME MediaInv, NEW m \in Managers,
           \/ \E s \in Slugs : \/ BeginRegister(m, s)
                               \/ BeginPublish(m, s)
                               \/ BeginArchive(m, s)
           \/ \E s \in Slugs, v \in Variants : BeginAddVariant(m, s, v)
           \/ \E o \in Owners : BeginAttachMedia(m, o)
           \/ \E i \in 1 .. MaxMedia : BeginDetachMedia(m, i)
           \/ \E o \in Owners : \E order \in ExactPermutations(o) : BeginReorderMedia(m, o, order)
    PROVE  MediaInv'
<1>1. ASSUME NEW s \in Slugs, BeginRegister(m, s) PROVE MediaInv'
      <2> DEFINE r == [kind |-> "register", slug |-> s]
      <2>1. MediaFits(r)
            BY DEF MediaFits
      <2> QED BY <1>1, <2>1, MediaStand DEF BeginRegister, Take
<1>2. ASSUME NEW s \in Slugs, NEW v \in Variants, BeginAddVariant(m, s, v) PROVE MediaInv'
      <2> DEFINE r == [kind |-> "variant", slug |-> s, status |-> product[s], sku |-> v]
      <2>1. MediaFits(r)
            BY DEF MediaFits
      <2> QED BY <1>2, <2>1, MediaStand DEF BeginAddVariant, Take
<1>3. ASSUME NEW s \in Slugs, BeginPublish(m, s) PROVE MediaInv'
      <2> DEFINE r == [kind |-> "probe", slug |-> s, variants |-> VariantsOf(s)]
      <2>1. MediaFits(r)
            BY DEF MediaFits
      <2> QED BY <1>3, <2>1, MediaStand DEF BeginPublish, Take
<1>4. ASSUME NEW s \in Slugs, BeginArchive(m, s) PROVE MediaInv'
      <2> DEFINE r == [kind |-> "archive", slug |-> s, variants |-> VariantsOf(s)]
      <2>1. MediaFits(r)
            BY DEF MediaFits
      <2> QED BY <1>4, <2>1, MediaStand DEF BeginArchive, Take
<1>5. ASSUME NEW o \in Owners, BeginAttachMedia(m, o) PROVE MediaInv'
      <2> DEFINE r == [kind |-> "attach", owner |-> o, slot |-> NextSlot(o)]
      <2>1. NextSlot(o) \in Int
            BY SlotsBelowNext
      <2>2. MediaFits(r)
            BY <2>1 DEF MediaFits
      <2> QED BY <1>5, <2>2, MediaStand DEF BeginAttachMedia, Take
<1>6. ASSUME NEW i \in 1 .. MaxMedia, BeginDetachMedia(m, i) PROVE MediaInv'
      <2> DEFINE r == [kind |-> "detach", media |-> i, slot |-> media[i].slot]
      <2>1. media[i] \in MediaRow
            BY <1>6 DEF BeginDetachMedia, MediaInv
      <2>2. MediaFits(r)
            BY <2>1 DEF MediaFits, MediaRow
      <2> QED BY <1>6, <2>2, MediaStand DEF BeginDetachMedia, Take
<1>7. ASSUME NEW o \in Owners, NEW order \in ExactPermutations(o), BeginReorderMedia(m, o, order)
      PROVE  MediaInv'
      <2> DEFINE r == [kind |-> "reorder", owner |-> o, order |-> order]
      <2>1. MediaFits(r)
            BY PermutationFits DEF MediaFits
      <2> QED BY <1>7, <2>1, MediaStand DEF BeginReorderMedia, Take
<1> QED BY <1>1, <1>2, <1>3, <1>4, <1>5, <1>6, <1>7

LEMMA OtherSavesKeepMedia ==
    ASSUME SaleInv, MediaInv, NEW m \in Managers,
           RegisterProduct(m) \/ AddVariant(m) \/ ProbePrices(m) \/ SaveStatus(m)
    PROVE  MediaInv'
<1>1. CASE ProbePrices(m)
      <2> DEFINE r == manager[m]
                 next == IF MissingActivePrice(r.variants) = {} THEN [r EXCEPT !.kind = "publish"] ELSE Away
      <2>1. manager' = [manager EXCEPT ![m] = next] /\ UNCHANGED <<media, mediaRaced>> /\ r.kind = "probe"
            BY <1>1 DEF ProbePrices
      <2>2. r = [kind |-> "probe", slug |-> r.slug, variants |-> r.variants]
            BY <2>1 DEF SaleInv, ManagerInv, StillFits
      <2>3. MediaFits(next)
            <3>1. [r EXCEPT !.kind = "publish"].kind = "publish"
                  BY <2>2
            <3> QED BY <3>1, AwayFits DEF MediaFits
      <2> HIDE DEF next
      <2> QED BY <2>1, <2>3, MediaStand
<1>2. CASE RegisterProduct(m) \/ AddVariant(m) \/ SaveStatus(m)
      BY <1>2, AwayFits, MediaStand DEF RegisterProduct, AddVariant, SaveStatus, Finish
<1> QED BY <1>1, <1>2

LEMMA ShelfKeepsMedia == ASSUME SaleInv, MediaInv, [ShelfNext]_productVars PROVE MediaInv'
<1>1. ASSUME NEW m \in Managers, ManagerNext(m) PROVE MediaInv'
      BY <1>1, BeginKeepsMedia, OtherSavesKeepMedia, AttachMediaKeeps, DetachMediaKeeps,
         ReorderMediaKeeps DEF ManagerNext
<1>2. CASE UNCHANGED <<media, mediaRaced, manager>>
      BY <1>2 DEF MediaInv, MediaFits, ActiveSlotsDistinct, ActiveMedia
<1>3. UNCHANGED shelfVars => UNCHANGED <<media, mediaRaced, manager>>
      BY DEF shelfVars
<1> QED BY <1>1, <1>2, <1>3 DEF ShelfNext, productVars

LEMMA InitKeepsMedia == ShelfInit => MediaInv
<1> SUFFICES ASSUME ShelfInit PROVE MediaInv
    OBVIOUS
<1>1. media \in Seq(MediaRow) /\ DOMAIN media = {}
      BY DEF ShelfInit
<1>2. \E b \in Int : \A i \in DOMAIN media : media[i].slot <= b
      BY <1>1
<1>3. ActiveSlotsDistinct
      BY <1>1 DEF ActiveSlotsDistinct, ActiveMedia
<1>4. DOMAIN manager = Managers /\ \A m \in Managers : MediaFits(manager[m])
      BY AwayFits DEF ShelfInit
<1> QED BY <1>1, <1>2, <1>3, <1>4 DEF MediaInv

-----------------------------------------------------------------------------
ShelfInv == PricesInv /\ SaleInv /\ MediaInv

LEMMA ShelfStarts == Init => ShelfInv
BY InitKeepsSale, InitKeepsMedia DEF Init, ShelfInv

\* Every step of the service is one of the shelf, or leaves the shelf alone.
LEMMA ShelfGoesOn == ShelfInv /\ [Next]_vars => ShelfInv' /\ PriceKept
<1> SUFFICES ASSUME ShelfInv, [Next]_vars PROVE ShelfInv' /\ PriceKept
    OBVIOUS
<1>1. [ShelfNext]_productVars
      BY DEF Next, vars, BeginReclassify, AttachProductCategories, DetachProductCategories
<1> QED BY <1>1, ShelfKeepsSale, ShelfKeepsMedia DEF ShelfInv

\* Setting a price leaves no moment without one, in any ledger, unless a
\* request came late.
THEOREM PricedAlwaysStaysPriced == Spec => PricedStaysPriced
<1>1. ShelfInv /\ [Next]_vars => [PriceKept]_pricingVars
      BY ShelfGoesOn
<1>2. ShelfInv /\ [Next]_vars
        => [\A s \in Scope :
              clock' = clock /\ s \notin priceRaced' /\ FindInEffect(s, clock) # {}
                => FindInEffect(s, clock)' # {}]_pricingVars
      BY <1>1 DEF PriceKept
<1>3. ShelfInv /\ [Next]_vars => ShelfInv'
      BY ShelfGoesOn
<1> QED BY <1>2, <1>3, ShelfStarts, PTL DEF Spec, PricedStaysPriced

\* Whatever is or was on sale had a price when it was published.
THEOREM WhatIsOnSaleWasPriced == Spec => []OnSaleWasPriced
<1>1. ShelfInv /\ [Next]_vars => ShelfInv'
      BY ShelfGoesOn
<1>2. ShelfInv => OnSaleWasPriced
      BY DEF ShelfInv, SaleInv
<1> QED BY <1>1, <1>2, ShelfStarts, PTL DEF Spec

\* Active media of an owner have slots of their own, unless two requests
\* numbered them from one reading.
THEOREM SlotsStayDistinct == Spec => []ActiveSlotsDistinct
<1>1. ShelfInv /\ [Next]_vars => ShelfInv'
      BY ShelfGoesOn
<1>2. ShelfInv => ActiveSlotsDistinct
      BY DEF ShelfInv, MediaInv
<1> QED BY <1>1, <1>2, ShelfStarts, PTL DEF Spec

\* One path begins with the other.
Leads(a, b) == Len(a) <= Len(b) /\ \A i \in 1 .. Len(a) : a[i] = b[i]

LEMMA PathsLead ==
    ASSUME NEW S, NEW a \in Seq(S), NEW b \in Seq(S)
    PROVE  /\ IsAncestorOfOrSelf(a, b) <=> Leads(a, b)
           /\ Below(a, b) <=> Leads(a, b) /\ a # b
<1>1. /\ Len(a) \in Nat /\ Len(b) \in Nat
      /\ \A i \in 1 .. Len(a) : a[i] \in S
      /\ \A i \in 1 .. Len(b) : b[i] \in S
      OBVIOUS
<1>2. IsPrefix(a, b) <=> Leads(a, b)
      <2>1. CASE Len(a) <= Len(b)
            <3> DEFINE s == SubSeq(a, 1, Len(a))
                       t == SubSeq(b, 1, Len(a))
            <3>1. /\ s \in Seq(S) /\ Len(s) = Len(a) /\ \A i \in 1 .. Len(a) : s[i] = a[i]
                  <4>1. \A i \in 1 .. Len(a) : a[i] \in S
                        BY <1>1
                  <4> QED BY <1>1, <4>1, SubSeqProperties
            <3>2. /\ t \in Seq(S) /\ Len(t) = Len(a) /\ \A i \in 1 .. Len(a) : t[i] = b[i]
                  <4>1. \A i \in 1 .. Len(a) : b[i] \in S
                        BY <1>1, <2>1
                  <4> QED BY <1>1, <4>1, SubSeqProperties
            <3> HIDE DEF s, t
            <3>3. s = t <=> \A i \in 1 .. Len(a) : a[i] = b[i]
                  <4>1. ASSUME \A i \in 1 .. Len(a) : a[i] = b[i] PROVE s = t
                        BY <3>1, <3>2, <4>1, SeqEqual
                  <4> QED BY <3>1, <3>2, <4>1
            <3> QED BY <2>1, <3>3 DEF IsPrefix, Leads, s, t
      <2>2. CASE ~(Len(a) <= Len(b))
            BY <2>2 DEF IsPrefix, Leads
      <2> QED BY <2>1, <2>2
<1>3. Leads(a, a)
      BY <1>1 DEF Leads
<1> QED BY <1>2, <1>3 DEF IsAncestorOfOrSelf, Below, IsStrictPrefix

LEMMA LeadsToLonger ==
    ASSUME NEW S, NEW a \in Seq(S), NEW b \in Seq(S), NEW x \in S
    PROVE  Leads(a, Append(b, x)) <=> a = Append(b, x) \/ Leads(a, b)
<1> DEFINE c == Append(b, x)
<1>1. /\ c \in Seq(S) /\ Len(c) = Len(b) + 1 /\ c[Len(b) + 1] = x
      /\ \A i \in 1 .. Len(b) : c[i] = b[i]
      BY AppendProperties
<1>2. Len(a) \in Nat /\ Len(b) \in Nat
      OBVIOUS
<1> HIDE DEF c
<1>3. ASSUME Leads(a, c), ~Leads(a, b) PROVE a = c
      <2>1. Len(a) = Len(b) + 1
            BY <1>1, <1>2, <1>3 DEF Leads
      <2> QED BY <1>1, <1>3, <2>1, SeqEqual DEF Leads
<1>4. Leads(a, b) => Leads(a, c)
      BY <1>1, <1>2 DEF Leads
<1>5. Leads(c, c)
      BY <1>1, <1>2 DEF Leads
<1> QED BY <1>3, <1>4, <1>5 DEF c

LEMMA AppendIsInjective ==
    ASSUME NEW S, NEW a \in Seq(S), NEW b \in Seq(S), NEW x \in S, NEW y \in S,
           Append(a, x) = Append(b, y)
    PROVE  x = y /\ a = b
<1>1. Len(a) = Len(b) /\ Len(a) \in Nat
      BY AppendProperties
<1>2. x = y
      BY <1>1, AppendProperties
<1>3. \A i \in 1 .. Len(a) : a[i] = b[i]
      BY <1>1, AppendProperties
<1> QED BY <1>1, <1>2, <1>3, SeqEqual

\* A path whose first m - 1 slugs are replaced.
Rewrite(n, q, m) == n \o SubSeq(q, m, Len(q))

\* Rewriting a path and hanging a slug below it can be done in either order.
LEMMA RebaseAppend ==
    ASSUME NEW S, NEW n \in Seq(S), NEW q \in Seq(S), NEW x \in S, NEW k \in Nat,
           k <= Len(q), NEW m, m = k + 1
    PROVE  /\ Rewrite(n, q, m) \in Seq(S)
           /\ Rewrite(n, Append(q, x), m) = Append(Rewrite(n, q, m), x)
<1> DEFINE p == Append(q, x)
           s == SubSeq(q, m, Len(q))
           t == SubSeq(p, m, Len(p))
           l == Len(q)
<1>1. /\ l \in Nat /\ k \in Nat /\ k <= l /\ m = k + 1 /\ \A i \in 1 .. l : q[i] \in S
      OBVIOUS
<1>2. /\ p \in Seq(S) /\ Len(p) = l + 1 /\ p[l + 1] = x /\ \A i \in 1 .. l : p[i] = q[i]
      BY AppendProperties
<1>3. /\ s \in Seq(S) /\ Len(s) = l - k /\ \A i \in 1 .. l - k : s[i] = q[k + i]
      <2>1. \A i \in m .. l : q[i] \in S
            BY <1>1
      <2>2. m \in Int /\ l \in Int
            BY <1>1
      <2>3. /\ s \in Seq(S) /\ Len(s) = IF m <= l THEN l - m + 1 ELSE 0
            /\ \A i \in 1 .. l - m + 1 : s[i] = q[m + i - 1]
            BY <2>1, <2>2, SubSeqProperties
      <2> HIDE DEF s
      <2> QED BY <1>1, <2>3
<1>4. /\ t \in Seq(S) /\ Len(t) = l + 1 - k /\ \A i \in 1 .. l + 1 - k : t[i] = p[k + i]
      <2> HIDE DEF p
      <2>1. \A i \in m .. l + 1 : p[i] \in S
            BY <1>1, <1>2
      <2>2. m \in Int /\ l + 1 \in Int
            BY <1>1
      <2>3. /\ t \in Seq(S) /\ Len(t) = IF m <= l + 1 THEN l + 1 - m + 1 ELSE 0
            /\ \A i \in 1 .. l + 1 - m + 1 : t[i] = p[m + i - 1]
            BY <1>2, <2>1, <2>2, SubSeqProperties
      <2> HIDE DEF t
      <2> QED BY <1>1, <2>3
<1> HIDE DEF p, s, t, l
<1>5. /\ n \o s \in Seq(S) /\ Len(n \o s) = Len(n) + (l - k)
      /\ \A i \in 1 .. Len(n) + (l - k) : (n \o s)[i] = IF i <= Len(n) THEN n[i] ELSE s[i - Len(n)]
      BY <1>3, ConcatProperties
<1>6. /\ n \o t \in Seq(S) /\ Len(n \o t) = Len(n) + (l + 1 - k)
      /\ \A i \in 1 .. Len(n) + (l + 1 - k) : (n \o t)[i] = IF i <= Len(n) THEN n[i] ELSE t[i - Len(n)]
      <2>1. /\ n \o t \in Seq(S) /\ Len(n \o t) = Len(n) + Len(t)
            /\ \A i \in 1 .. Len(n) + Len(t) :
                  (n \o t)[i] = IF i <= Len(n) THEN n[i] ELSE t[i - Len(n)]
            <3>1. t \in Seq(S)
                  BY <1>4
            <3>2. \A y, z \in Seq(S) :
                     /\ y \o z \in Seq(S) /\ Len(y \o z) = Len(y) + Len(z)
                     /\ \A i \in 1 .. Len(y) + Len(z) :
                           (y \o z)[i] = IF i <= Len(y) THEN y[i] ELSE z[i - Len(y)]
                  BY ConcatProperties
            <3> QED BY <3>1, <3>2
      <2>2. Len(t) = l + 1 - k
            BY <1>4
      <2> QED BY <2>1, <2>2
<1>7. Len(n) \in Nat
      OBVIOUS
<1> DEFINE u == n \o s
           v == n \o t
           w == Append(u, x)
<1>8. /\ w \in Seq(S) /\ Len(w) = Len(u) + 1 /\ w[Len(u) + 1] = x
      /\ \A i \in 1 .. Len(u) : w[i] = u[i]
      <2> HIDE DEF u
      <2> QED BY <1>5, AppendProperties DEF u
<1> HIDE DEF u, v, w
<1>9. Len(v) = Len(w)
      BY <1>1, <1>5, <1>6, <1>7, <1>8 DEF u, v
<1>10. ASSUME NEW i \in 1 .. Len(v) PROVE v[i] = w[i]
      <2>1. i \in Int /\ Len(u) = Len(n) + (l - k) /\ Len(v) = Len(n) + (l - k) + 1
            BY <1>1, <1>5, <1>6, <1>7 DEF u, v
      <2>2. CASE i <= Len(n)
            <3>1. v[i] = n[i]
                  BY <1>1, <1>6, <1>7, <2>1, <2>2 DEF v
            <3>2. i \in 1 .. Len(u)
                  BY <1>1, <1>7, <2>1, <2>2
            <3>3. u[i] = n[i]
                  BY <1>1, <1>5, <1>7, <2>1, <2>2, <3>2 DEF u
            <3> QED BY <1>8, <3>1, <3>2, <3>3
      <2>3. CASE i > Len(n) /\ i <= Len(u)
            <3> DEFINE j == i - Len(n)
            <3>1. j \in 1 .. l - k /\ j \in 1 .. l + 1 - k /\ k + j \in 1 .. l /\ ~(i <= Len(n))
                  BY <1>1, <1>7, <2>1, <2>3
            <3>2. v[i] = t[j]
                  BY <1>1, <1>6, <1>7, <2>1, <2>3 DEF v
            <3>3. u[i] = s[j] /\ i \in 1 .. Len(u)
                  BY <1>1, <1>5, <1>7, <2>1, <2>3 DEF u
            <3>4. t[j] = p[k + j] /\ s[j] = q[k + j] /\ p[k + j] = q[k + j]
                  BY <1>2, <1>3, <1>4, <3>1
            <3> QED BY <1>8, <3>2, <3>3, <3>4
      <2>4. CASE i = Len(u) + 1
            <3> DEFINE j == i - Len(n)
            <3>1. j = l + 1 - k /\ j \in 1 .. l + 1 - k /\ k + j = l + 1 /\ ~(i <= Len(n))
                  BY <1>1, <1>7, <2>1, <2>4
            <3>2. v[i] = t[j]
                  BY <1>1, <1>6, <1>7, <2>1, <2>4 DEF v
            <3>3. t[j] = x
                  BY <1>2, <1>4, <3>1
            <3> QED BY <1>8, <2>4, <3>2, <3>3
      <2> QED BY <1>1, <1>7, <2>1, <2>2, <2>3, <2>4
<1>11. v = w
      <2>1. v \in Seq(S)
            BY <1>6 DEF v
      <2> QED BY <1>8, <1>9, <1>10, <2>1, SeqEqual
<1> QED BY <1>5, <1>11 DEF Rewrite, u, v, w, p, s, t, l

\* Every row hangs below an existing one or is a root, and its path spells the
\* way down to it.
Hangs(s) ==
    LET row == category[s] IN
    /\ row = [parent |-> row.parent, path |-> row.path]
    /\ row.path \in Seq(Categories)
    /\ row.parent \in DOMAIN category \cup {NoParent}
    /\ row.path = DerivePath(FindBySlug(row.parent), s)

TreeIsTrue ==
    /\ DOMAIN category \subseteq Categories /\ IsFiniteSet(DOMAIN category)
    /\ \A s \in DOMAIN category : Hangs(s)

\* What a request on the tree was let through with.
MoveFits(r) ==
    /\ r.kind = "create" =>
          /\ r.slug \in Categories /\ r.parentPath \in Seq(Categories)
          /\ r.parent \in DOMAIN category \cup {NoParent}
    /\ r.kind \in {"move", "moveUnder"} =>
          /\ r = [kind |-> r.kind, slug |-> r.slug, parent |-> r.parent, path |-> r.path,
                  parentPath |-> r.parentPath]
          /\ r.slug \in DOMAIN category /\ r.path \in Seq(Categories) /\ r.path # <<>>
    /\ r.kind = "move" =>
          /\ r.parentPath \in Seq(Categories)
          /\ \/ r.parent = NoParent
             \/ r.parent \in DOMAIN category /\ ~IsAncestorOfOrSelf(r.path, r.parentPath)

TreeInv ==
    /\ treeRaced \in BOOLEAN /\ DOMAIN moving = Editors
    /\ ~treeRaced => TreeIsTrue /\ \A e \in Editors : MoveFits(moving[e])

LEMMA EmptyPath == ASSUME NEW S PROVE <<>> \in Seq(S) /\ Len(<<>>) = 0
OBVIOUS

LEMMA FoundPaths ==
    ASSUME TreeIsTrue, NEW p \in DOMAIN category \cup {NoParent}
    PROVE  FindBySlug(p) \in Seq(Categories) /\ (p # NoParent => FindBySlug(p) = category[p].path)
<1>1. NoParent \notin DOMAIN category
      BY CategoryIds DEF TreeIsTrue
<1> QED BY <1>1, EmptyPath DEF TreeIsTrue, Hangs, FindBySlug

\* Two categories never have one path.
LEMMA PathsAreOwn ==
    ASSUME TreeIsTrue, NEW s \in DOMAIN category, NEW t \in DOMAIN category,
           category[s].path = category[t].path
    PROVE  s = t
<1>1. /\ FindBySlug(category[s].parent) \in Seq(Categories)
      /\ FindBySlug(category[t].parent) \in Seq(Categories)
      /\ s \in Categories /\ t \in Categories
      BY FoundPaths DEF TreeIsTrue, Hangs
<1>2. Append(FindBySlug(category[s].parent), s) = Append(FindBySlug(category[t].parent), t)
      BY DEF TreeIsTrue, Hangs, DerivePath
<1> QED BY <1>1, <1>2, AppendIsInjective

LEMMA PathsAreLong ==
    ASSUME TreeIsTrue, NEW s \in DOMAIN category
    PROVE  /\ category[s].path \in Seq(Categories)
           /\ Len(category[s].path) = Len(FindBySlug(category[s].parent)) + 1
           /\ category[s].path # <<>>
<1>1. /\ FindBySlug(category[s].parent) \in Seq(Categories) /\ s \in Categories
      /\ category[s].path = Append(FindBySlug(category[s].parent), s)
      /\ category[s].path \in Seq(Categories)
      BY FoundPaths DEF TreeIsTrue, Hangs, DerivePath
<1>2. Len(FindBySlug(category[s].parent)) \in Nat
      BY <1>1
<1> QED BY <1>1, <1>2, AppendProperties, EmptyPath

-----------------------------------------------------------------------------
(* The steps.                                                              *)

LEMMA CreatedHangs ==
    ASSUME TreeIsTrue, NEW s \in Categories, s \notin DOMAIN category,
           NEW p \in DOMAIN category \cup {NoParent},
           category' = [t \in DOMAIN category \cup {s} |->
                          IF t = s THEN NewCategory(p, FindBySlug(p), s) ELSE category[t]]
    PROVE  TreeIsTrue'
<1>1. /\ DOMAIN category' = DOMAIN category \cup {s}
      /\ category'[s] = [parent |-> p, path |-> Append(FindBySlug(p), s)]
      /\ \A t \in DOMAIN category : category'[t] = category[t]
      BY DEF NewCategory, DerivePath
<1>2. IsFiniteSet(DOMAIN category')
      BY <1>1, FS_AddElement DEF TreeIsTrue
<1>3. \A q \in DOMAIN category \cup {NoParent} : FindBySlug(q)' = FindBySlug(q)
      BY <1>1 DEF FindBySlug
<1>4. FindBySlug(p) \in Seq(Categories)
      BY FoundPaths
<1>5. Append(FindBySlug(p), s) \in Seq(Categories)
      BY <1>4, AppendProperties
<1>6. Hangs(s)'
      BY <1>1, <1>3, <1>5 DEF Hangs, DerivePath
<1>7. ASSUME NEW t \in DOMAIN category PROVE Hangs(t)'
      <2>1. Hangs(t) /\ category'[t] = category[t]
            BY <1>1 DEF TreeIsTrue
      <2>2. FindBySlug(category[t].parent)' = FindBySlug(category[t].parent)
            <3>1. category[t].parent \in DOMAIN category \cup {NoParent}
                  BY <2>1 DEF Hangs
            <3>2. category[t].parent = NoParent \/ category'[category[t].parent] = category[category[t].parent]
                  BY <1>1, <3>1
            <3> QED BY <2>1, <3>2 DEF FindBySlug
      <2> QED BY <1>1, <2>1, <2>2 DEF Hangs, DerivePath
<1> QED BY <1>1, <1>2, <1>6, <1>7 DEF TreeIsTrue

Row(parent, path) == [parent |-> parent, path |-> path]

\* What a move does to one row.
LEMMA Rebased ==
    ASSUME TreeIsTrue, NEW x \in DOMAIN category, NEW p, NEW o \in Seq(Categories), NEW n,
           NEW rows, rows = RebaseSubtree(category, x, p, o, n),
           NEW s \in DOMAIN category, NEW path, path = IF s = x THEN n ELSE category[s].path,
           NEW parent, parent = IF s = x THEN p ELSE category[s].parent
    PROVE  /\ DOMAIN rows = DOMAIN category
           /\ Below(o, path) => rows[s] = Row(parent, Rewrite(n, path, Len(o) + 1))
           /\ ~Below(o, path) => rows[s] = Row(parent, path)
<1> DEFINE moved == [category EXCEPT ![x] = [parent |-> p, path |-> n]]
<1>1. moved[s] = [parent |-> parent, path |-> path]
      <2>1. category[s] = [parent |-> category[s].parent, path |-> category[s].path]
            BY DEF TreeIsTrue, Hangs
      <2>2. moved[s] = IF s = x THEN [parent |-> p, path |-> n] ELSE category[s]
            OBVIOUS
      <2> QED BY <2>1, <2>2
<1>2. /\ DOMAIN rows = DOMAIN category
      /\ rows[s] = IF Below(o, moved[s].path)
                   THEN [moved[s] EXCEPT !.path = n \o SubSeq(moved[s].path, Len(o) + 1, Len(moved[s].path))]
                   ELSE moved[s]
      BY DEF RebaseSubtree
<1> HIDE DEF moved
<1>3. moved[s].path = path
      BY <1>1
<1>4. \A q : [moved[s] EXCEPT !.path = q] = [parent |-> parent, path |-> q]
      BY <1>1
<1> QED BY <1>1, <1>2, <1>3, <1>4 DEF Rewrite, Row

\* What a row is made of.
LEMMA RowFields ==
    ASSUME NEW row, NEW parent, NEW path, row = [parent |-> parent, path |-> path]
    PROVE  row.parent = parent /\ row.path = path
OBVIOUS

LEMMA MovedHangs ==
    ASSUME TreeIsTrue, NEW x \in DOMAIN category, NEW p \in DOMAIN category \cup {NoParent},
           NEW o, o = category[x].path,
           p # NoParent => ~IsAncestorOfOrSelf(o, FindBySlug(p)),
           category' = RebaseSubtree(category, x, p, o, DerivePath(FindBySlug(p), x))
    PROVE  TreeIsTrue'
<1> DEFINE u == FindBySlug(p)
           n == Append(u, x)
           Path(s) == IF s = x THEN n ELSE category[s].path
           Found(q) == IF q = NoParent THEN <<>> ELSE category'[q].path
           New(q) == IF Leads(o, q) /\ o # q THEN Rewrite(n, q, Len(o) + 1) ELSE q
<1>1. /\ x \in Categories /\ u \in Seq(Categories) /\ o \in Seq(Categories) /\ n \in Seq(Categories)
      /\ DOMAIN category \subseteq Categories /\ NoParent \notin DOMAIN category
      /\ IsFiniteSet(DOMAIN category)
      <2>1. x \in Categories /\ u \in Seq(Categories)
            BY FoundPaths DEF TreeIsTrue
      <2> QED BY <2>1, CategoryIds, AppendProperties DEF TreeIsTrue, Hangs
<1>2. \A s \in DOMAIN category : Path(s) \in Seq(Categories)
      BY <1>1 DEF TreeIsTrue, Hangs
<1> HIDE DEF u, n, Path
<1>3. DOMAIN category' = DOMAIN category
      BY DEF RebaseSubtree
<1>4. ASSUME NEW s \in DOMAIN category
      PROVE  category'[s] = [parent |-> IF s = x THEN p ELSE category[s].parent, path |-> New(Path(s))]
      <2>1. category' = RebaseSubtree(category, x, p, o, n)
            BY DEF DerivePath, n, u
      <2>2. category'[s] = [parent |-> IF s = x THEN p ELSE category[s].parent,
                            path |-> IF Below(o, Path(s))
                                     THEN Rewrite(n, Path(s), Len(o) + 1) ELSE Path(s)]
            <3> DEFINE parent == IF s = x THEN p ELSE category[s].parent
            <3>1. Path(s) = IF s = x THEN n ELSE category[s].path
                  BY DEF Path
            <3> HIDE DEF New, Found
            <3>2. category'[s] = [parent |-> parent,
                                  path |-> IF Below(o, Path(s))
                                           THEN Rewrite(n, Path(s), Len(o) + 1)
                                           ELSE Path(s)]
                  <4>1. o \in Seq(Categories) /\ category' = RebaseSubtree(category, x, p, o, n)
                        BY <1>1, <2>1
                  <4>2. parent = IF s = x THEN p ELSE category[s].parent
                        OBVIOUS
                  <4> HIDE DEF parent
                  <4>3. /\ Below(o, Path(s)) =>
                              category'[s] = Row(parent, Rewrite(n, Path(s), Len(o) + 1))
                        /\ ~Below(o, Path(s)) => category'[s] = Row(parent, Path(s))
                        BY <3>1, <4>1, <4>2, Rebased
                  <4> QED BY <4>3 DEF Row
            <3> QED BY <3>2
      <2>3. Below(o, Path(s)) <=> Leads(o, Path(s)) /\ o # Path(s)
            BY <1>1, <1>2, PathsLead
      <2> QED BY <2>2, <2>3
<1>5. /\ o # <<>> /\ o = Append(FindBySlug(category[x].parent), x)
      /\ FindBySlug(category[x].parent) \in Seq(Categories)
      <2>1. category[x].parent \in DOMAIN category \cup {NoParent}
            BY DEF TreeIsTrue, Hangs
      <2> QED BY <2>1, PathsAreLong, FoundPaths DEF TreeIsTrue, Hangs, DerivePath
<1>6. ~Leads(o, <<>>)
      BY <1>1, <1>5, EmptyPath DEF Leads
<1>7. ~Leads(o, u)
      <2>1. CASE p = NoParent
            BY <1>6, <2>1 DEF u, FindBySlug
      <2>2. CASE p # NoParent
            <3>1. ~IsAncestorOfOrSelf(o, u)
                  BY <2>2 DEF u
            <3> QED BY <1>1, <3>1, PathsLead
      <2> QED BY <2>1, <2>2
<1>8. New(n) = n
      BY <1>1, <1>7, LeadsToLonger DEF n
<1>9. New(u) = u
      BY <1>7
<1>10. \A s \in DOMAIN category : category'[s].path = New(Path(s))
      <2> SUFFICES ASSUME NEW s \in DOMAIN category PROVE category'[s].path = New(Path(s))
          OBVIOUS
      <2>1. category'[s] = [parent |-> IF s = x THEN p ELSE category[s].parent, path |-> New(Path(s))]
            BY <1>4
      <2> HIDE DEF New
      <2> QED BY <2>1
<1>11. \A s \in Categories, q \in Seq(Categories) : s # x => o # Append(q, s)
      BY <1>1, <1>5, AppendIsInjective
\* The new path of a row is its slug below the new path of what it hangs under.
<1>12. ASSUME NEW s \in DOMAIN category
       PROVE  Hangs(s)'
      <2>1. /\ s \in Categories /\ category[s].path \in Seq(Categories)
            /\ category[s].parent \in DOMAIN category \cup {NoParent}
            /\ category[s].path = Append(FindBySlug(category[s].parent), s)
            /\ FindBySlug(category[s].parent) \in Seq(Categories)
            BY <1>1, FoundPaths, SMTT(40) DEF TreeIsTrue, Hangs, DerivePath
      <2> SUFFICES LET parent == IF s = x THEN p ELSE category[s].parent
                   IN  /\ parent \in DOMAIN category \cup {NoParent}
                       /\ New(Path(s)) \in Seq(Categories)
                       /\ New(Path(s)) = Append(Found(parent), s)
          <3> HIDE DEF New
          <3>1. category'[s] = [parent |-> IF s = x THEN p ELSE category[s].parent, path |-> New(Path(s))]
                BY <1>4
          <3> DEFINE r == IF s = x THEN p ELSE category[s].parent
          <3>2. /\ category'[s] = [parent |-> r, path |-> New(Path(s))]
                /\ r \in DOMAIN category' \cup {NoParent}
                /\ New(Path(s)) \in Seq(Categories) /\ New(Path(s)) = Append(Found(r), s)
                BY <1>3, <3>1
          <3> HIDE DEF r
          <3>3. category'[s].parent = r /\ category'[s].path = New(Path(s))
                <4> DEFINE row == category'[s]
                           path == New(Path(s))
                <4>1. row = [parent |-> r, path |-> path]
                      BY <3>2, Zenon
                <4> HIDE DEF row, path
                <4>2. row.parent = r /\ row.path = path
                      BY <4>1, RowFields, Zenon
                <4> QED BY <4>2 DEF row, path
          <3> QED BY <3>2, <3>3, Zenon DEF Hangs, DerivePath, FindBySlug
      <2>2. CASE s = x
            <3>1. Path(s) = n
                  BY <2>2 DEF Path
            <3>2. Found(p) = u
                  <4>1. CASE p = NoParent
                        BY <4>1 DEF FindBySlug, u
                  <4>2. CASE p # NoParent
                        <5>1. p \in DOMAIN category /\ u = category[p].path
                              BY <4>2, FoundPaths DEF u
                        <5>2. p # x
                              BY <1>1, <1>7, <5>1 DEF Leads
                        <5>3. Path(p) = u
                              BY <5>1, <5>2 DEF Path
                        <5>4. category'[p].path = u
                              BY <1>9, <1>10, <5>1, <5>3
                        <5> QED BY <4>2, <5>4 DEF FindBySlug
                  <4> QED BY <4>1, <4>2
            <3> QED BY <1>1, <1>8, <2>2, <3>1, <3>2 DEF n
      <2>3. CASE s # x
            <3> DEFINE q == FindBySlug(category[s].parent)
            <3>1. Path(s) = Append(q, s) /\ q \in Seq(Categories) /\ o # Append(q, s)
                  BY <1>11, <2>1, <2>3 DEF Path
            <3>2. Leads(o, Append(q, s)) <=> Leads(o, q)
                  BY <1>1, <2>1, <3>1, LeadsToLonger
            <3>3. CASE category[s].parent = NoParent
                  <4>1. q = <<>> /\ Found(category[s].parent) = <<>>
                        BY <3>3 DEF FindBySlug
                  <4>2. New(Path(s)) = Append(q, s)
                        BY <1>6, <3>1, <3>2, <4>1
                  <4> QED BY <2>1, <2>3, <4>1, <4>2
            <3>4. CASE category[s].parent = x
                  <4>1. q = o
                        BY <1>1, <3>4 DEF FindBySlug
                  <4>2. Found(category[s].parent) = n
                        <5>1. Path(x) = n
                              BY DEF Path
                        <5>2. category'[x].path = n
                              BY <1>8, <1>10, <5>1
                        <5> QED BY <1>1, <3>4, <5>2 DEF FindBySlug
                  <4>3. Leads(o, o)
                        BY <1>1 DEF Leads
                  <4>4. New(Path(s)) = Rewrite(n, Append(q, s), Len(o) + 1)
                        BY <3>1, <3>2, <4>1, <4>3
                  <4>5. PICK k \in Nat, m \in Int : k = Len(o) /\ k <= Len(q) /\ m = k + 1
                        BY <1>1, <4>1
                  <4> HIDE DEF New, Found, q
                  <4>6. /\ Rewrite(n, q, m) \in Seq(Categories)
                        /\ Rewrite(n, Append(q, s), m)
                              = Append(Rewrite(n, q, m), s)
                        <5>1. n \in Seq(Categories) /\ q \in Seq(Categories) /\ s \in Categories
                              BY <1>1, <2>1, <3>1
                        <5>2. k \in Nat /\ m \in Int /\ k <= Len(q) /\ m = k + 1
                              BY <4>5
                        <5> QED BY <5>1, <5>2, RebaseAppend
                  <4>7. Rewrite(n, o, Len(o) + 1) = n
                        <5>1. SubSeq(o, Len(o) + 1, Len(o)) = <<>>
                              <6>1. Len(o) \in Nat
                                    BY <1>1
                              <6> QED BY <6>1, SubSeqEmpty
                        <5> QED BY <1>1, <5>1, ConcatEmptySeq DEF Rewrite
                  <4>8. New(Path(s)) = Append(n, s)
                        BY <4>1, <4>4, <4>5, <4>6, <4>7
                  <4>9. Append(n, s) \in Seq(Categories)
                        BY <1>1, <2>1, AppendProperties
                  <4> QED BY <2>1, <2>3, <4>2, <4>8, <4>9 DEF q
            <3>5. CASE category[s].parent \in DOMAIN category \ {x}
                  <4> DEFINE t == category[s].parent
                  <4>1. q = category[t].path /\ Path(t) = q /\ t # NoParent
                        BY <1>1, <3>5 DEF FindBySlug, Path
                  <4>2. Found(t) = New(q)
                        <5> HIDE DEF New
                        <5>1. category'[t].path = New(q)
                              BY <1>10, <3>5, <4>1
                        <5> QED BY <4>1, <5>1 DEF FindBySlug
                  <4>3. o # q
                        BY <3>5, <4>1, PathsAreOwn
                  <4>4. CASE Leads(o, q)
                        <5>1. PICK k \in Nat, m \in Int : k = Len(o) /\ k <= Len(q) /\ m = k + 1
                              BY <1>1, <3>1, <4>4 DEF Leads
                        <5>2. /\ New(Path(s)) = Rewrite(n, Append(q, s), Len(o) + 1)
                              /\ New(q) = Rewrite(n, q, Len(o) + 1)
                              BY <3>1, <3>2, <4>3, <4>4
                        <5> HIDE DEF New, Found, q
                        <5>3. /\ Rewrite(n, q, m) \in Seq(Categories)
                              /\ Rewrite(n, Append(q, s), m)
                                    = Append(Rewrite(n, q, m), s)
                              <6>1. n \in Seq(Categories) /\ q \in Seq(Categories) /\ s \in Categories
                                    BY <1>1, <2>1, <3>1
                              <6>2. k \in Nat /\ m \in Int /\ k <= Len(q) /\ m = k + 1
                                    BY <5>1
                              <6> QED BY <6>1, <6>2, RebaseAppend
                        <5>4. New(q) \in Seq(Categories) /\ New(Path(s)) = Append(New(q), s)
                              BY <5>1, <5>2, <5>3
                        <5>5. Append(New(q), s) \in Seq(Categories)
                              BY <2>1, <5>4, AppendProperties
                        <5> QED BY <2>1, <2>3, <4>2, <5>4, <5>5 DEF q
                  <4>5. CASE ~Leads(o, q)
                        <5>1. New(Path(s)) = Append(q, s) /\ New(q) = q
                              BY <3>1, <3>2, <4>5
                        <5> HIDE DEF New
                        <5> QED BY <2>1, <2>3, <4>2, <5>1
                  <4> QED BY <4>4, <4>5
            <3> QED BY <2>1, <3>3, <3>4, <3>5
      <2> QED BY <2>2, <2>3
<1> QED BY <1>1, <1>3, <1>12 DEF TreeIsTrue

\* Categories stay: what the other requests were let through with still holds.
LEMMA TreeStep ==
    ASSUME TreeInv, NEW e \in Editors, NEW r, moving' = [moving EXCEPT ![e] = r],
           treeRaced' \in BOOLEAN,
           ~treeRaced' => /\ ~treeRaced /\ TreeIsTrue'
                          /\ DOMAIN category \subseteq DOMAIN category'
                          /\ MoveFits(moving[e])'
    PROVE  TreeInv'
<1>1. ASSUME ~treeRaced', NEW f \in Editors, f # e PROVE MoveFits(moving[f])'
      <2>1. MoveFits(moving[f]) /\ moving'[f] = moving[f] /\ DOMAIN category \subseteq DOMAIN category'
            BY <1>1 DEF TreeInv
      <2> QED BY <2>1 DEF MoveFits
<1> QED BY <1>1 DEF TreeInv

LEMMA RestingFits ==
    ASSUME TreeInv, NEW e \in Editors, moving' = [moving EXCEPT ![e] = Resting]
    PROVE  MoveFits(moving[e])'
BY DEF TreeInv, MoveFits, Resting

LEMMA TreeStands ==
    ASSUME TreeIsTrue, UNCHANGED category PROVE TreeIsTrue'
BY DEF TreeIsTrue, Hangs, FindBySlug

LEMMA BeginCreateKeepsTree ==
    ASSUME TreeInv, NEW e \in Editors, NEW s \in Categories, NEW p \in Categories \cup {NoParent},
           BeginCreate(e, s, p)
    PROVE  TreeInv'
<1> DEFINE r == [kind |-> "create", slug |-> s, parent |-> p, path |-> <<>>,
                 parentPath |-> FindBySlug(p)]
<1>1. /\ moving' = [moving EXCEPT ![e] = r] /\ UNCHANGED <<category, treeRaced>>
      /\ p \in DOMAIN category \cup {NoParent}
      BY DEF BeginCreate, Exists
<1>2. moving'[e] = r
      BY <1>1 DEF TreeInv
<1>3. ASSUME ~treeRaced PROVE MoveFits(moving[e])'
      <2>1. FindBySlug(p) \in Seq(Categories)
            BY <1>1, <1>3, FoundPaths DEF TreeInv
      <2>2. /\ r.kind = "create" /\ r.slug = s /\ r.parent = p /\ r.parentPath \in Seq(Categories)
            BY <2>1
      <2> HIDE DEF r
      <2> QED BY <1>1, <1>2, <2>2 DEF MoveFits
<1> HIDE DEF r
<1> QED BY <1>1, <1>3, TreeStep, TreeStands DEF TreeInv

LEMMA SaveCategoryKeepsTree ==
    ASSUME TreeInv, NEW e \in Editors, SaveCategory(e)
    PROVE  TreeInv'
<1> DEFINE r == moving[e]
<1>1. /\ r.kind = "create" /\ moving' = [moving EXCEPT ![e] = Resting]
      BY DEF SaveCategory
<1>2. CASE UNCHANGED <<category, treeRaced>>
      BY <1>1, <1>2, RestingFits, TreeStep, TreeStands DEF TreeInv
<1>3. CASE /\ ~Exists(r.slug)
           /\ category' = [s \in DOMAIN category \cup {r.slug} |->
                  IF s = r.slug THEN NewCategory(r.parent, r.parentPath, r.slug) ELSE category[s]]
           /\ treeRaced' = (treeRaced \/ ~StillThere(r))
      <2>1. ASSUME ~treeRaced'
            PROVE  ~treeRaced /\ TreeIsTrue' /\ DOMAIN category \subseteq DOMAIN category'
            <3>1. ~treeRaced /\ r.parentPath = FindBySlug(r.parent)
                  BY <1>3, <2>1 DEF StillThere
            <3>2. /\ r.slug \in Categories /\ r.slug \notin DOMAIN category
                  /\ r.parent \in DOMAIN category \cup {NoParent} /\ TreeIsTrue
                  BY <1>1, <1>3, <3>1 DEF TreeInv, MoveFits, Exists
            <3> QED BY <1>3, <3>1, <3>2, CreatedHangs
      <2> QED BY <1>1, <1>3, <2>1, RestingFits, TreeStep DEF TreeInv
<1> QED BY <1>2, <1>3 DEF SaveCategory

LEMMA BeginMoveKeepsTree ==
    ASSUME TreeInv, NEW e \in Editors, NEW s \in Categories, NEW p \in Categories \cup {NoParent},
           BeginMove(e, s, p)
    PROVE  TreeInv'
<1> DEFINE kind == IF p = NoParent THEN "move" ELSE "moveUnder"
           r == [kind |-> kind, slug |-> s, parent |-> p, path |-> FindBySlug(s), parentPath |-> <<>>]
<1>1. /\ moving' = [moving EXCEPT ![e] = r] /\ UNCHANGED <<category, treeRaced>>
      /\ s \in DOMAIN category
      BY DEF BeginMove, Exists
<1>2. moving'[e] = r
      BY <1>1 DEF TreeInv
<1>3. ASSUME ~treeRaced PROVE MoveFits(moving[e])'
      <2>1. FindBySlug(s) = category[s].path /\ FindBySlug(s) \in Seq(Categories) /\ FindBySlug(s) # <<>>
            <3>1. s # NoParent
                  BY CategoryIds
            <3> QED BY <1>1, <1>3, <3>1, FoundPaths, PathsAreLong DEF TreeInv
      <2>2. <<>> \in Seq(Categories)
            BY EmptyPath
      <2>3. kind \in {"move", "moveUnder"} /\ (kind = "move" => p = NoParent)
            OBVIOUS
      <2> HIDE DEF kind
      <2>4. /\ r = [kind |-> r.kind, slug |-> r.slug, parent |-> r.parent, path |-> r.path,
                    parentPath |-> r.parentPath]
            /\ r.kind = kind /\ r.slug = s /\ r.parent = p /\ r.path = FindBySlug(s)
            /\ r.parentPath = <<>>
            OBVIOUS
      <2> HIDE DEF r
      <2> QED BY <1>1, <1>2, <2>1, <2>2, <2>3, <2>4 DEF MoveFits
<1> HIDE DEF r
<1> QED BY <1>1, <1>3, TreeStep, TreeStands DEF TreeInv

LEMMA ParentWasRead ==
    ASSUME NEW r, NEW q,
           r = [kind |-> r.kind, slug |-> r.slug, parent |-> r.parent, path |-> r.path,
                parentPath |-> r.parentPath]
    PROVE  [r EXCEPT !.kind = "move", !.parentPath = q]
              = [kind |-> "move", slug |-> r.slug, parent |-> r.parent, path |-> r.path, parentPath |-> q]
<1> DEFINE t == [r EXCEPT !.kind = "move"]
<1>1. t = [kind |-> "move", slug |-> r.slug, parent |-> r.parent, path |-> r.path,
           parentPath |-> r.parentPath]
      OBVIOUS
<1> HIDE DEF t
<1>2. [t EXCEPT !.parentPath = q]
         = [kind |-> "move", slug |-> r.slug, parent |-> r.parent, path |-> r.path, parentPath |-> q]
      BY <1>1
<1> QED BY <1>2 DEF t

LEMMA ReadNewParentKeepsTree ==
    ASSUME TreeInv, NEW e \in Editors, ReadNewParent(e)
    PROVE  TreeInv'
<1> DEFINE r == moving[e]
           n == [r EXCEPT !.kind = "move", !.parentPath = FindBySlug(r.parent)]
<1>1. r.kind = "moveUnder" /\ UNCHANGED <<category, treeRaced>> /\ DOMAIN moving = Editors
      BY DEF ReadNewParent, TreeInv
<1>2. CASE moving' = [moving EXCEPT ![e] = Resting]
      BY <1>1, <1>2, RestingFits, TreeStep, TreeStands DEF TreeInv
<1>3. CASE /\ moving' = [moving EXCEPT ![e] = n]
           /\ Exists(r.parent) /\ MayMove(r, FindBySlug(r.parent))
      <2>1. moving'[e] = n
            BY <1>1, <1>3
      <2>2. ASSUME ~treeRaced PROVE MoveFits(moving[e])'
            <3>1. /\ r = [kind |-> r.kind, slug |-> r.slug, parent |-> r.parent, path |-> r.path,
                          parentPath |-> r.parentPath]
                  /\ r.slug \in DOMAIN category /\ r.path \in Seq(Categories) /\ r.path # <<>>
                  BY <1>1, <2>2 DEF TreeInv, MoveFits
            <3>2. r.parent \in DOMAIN category /\ ~IsAncestorOfOrSelf(r.path, FindBySlug(r.parent))
                  BY <1>3 DEF Exists, MayMove
            <3>3. FindBySlug(r.parent) \in Seq(Categories)
                  BY <2>2, <3>2, FoundPaths DEF TreeInv
            <3>4. n = [kind |-> "move", slug |-> r.slug, parent |-> r.parent, path |-> r.path,
                       parentPath |-> FindBySlug(r.parent)]
                  BY <3>1, ParentWasRead
            <3> HIDE DEF r, n
            <3>5. /\ n = [kind |-> n.kind, slug |-> n.slug, parent |-> n.parent, path |-> n.path,
                          parentPath |-> n.parentPath]
                  /\ n.kind = "move" /\ n.slug = r.slug /\ n.parent = r.parent /\ n.path = r.path
                  /\ n.parentPath = FindBySlug(r.parent)
                  BY <3>4
            <3>6. /\ n.slug \in DOMAIN category' /\ n.path \in Seq(Categories) /\ n.path # <<>>
                  /\ n.parentPath \in Seq(Categories) /\ n.parent \in DOMAIN category'
                  /\ ~IsAncestorOfOrSelf(n.path, n.parentPath)
                  BY <1>1, <3>1, <3>2, <3>3, <3>5
            <3> QED BY <2>1, <3>5, <3>6 DEF MoveFits
      <2> HIDE DEF n
      <2> QED BY <1>1, <1>3, <2>2, TreeStep, TreeStands DEF TreeInv
<1> QED BY <1>2, <1>3 DEF ReadNewParent

LEMMA ReparentKeepsTree ==
    ASSUME TreeInv, NEW e \in Editors, ReparentSubtree(e)
    PROVE  TreeInv'
<1> DEFINE r == moving[e]
           newPath == DerivePath(r.parentPath, r.slug)
<1>1. r.kind = "move" /\ moving' = [moving EXCEPT ![e] = Resting]
      BY DEF ReparentSubtree
<1>2. CASE UNCHANGED <<category, treeRaced>>
      BY <1>1, <1>2, RestingFits, TreeStep, TreeStands DEF TreeInv
<1>3. CASE /\ category' = RebaseSubtree(category, r.slug, r.parent, r.path, newPath)
           /\ treeRaced' = (treeRaced \/ ~StillThere(r) \/ FindBySlug(r.slug) # r.path)
      <2>1. ASSUME ~treeRaced'
            PROVE  ~treeRaced /\ TreeIsTrue' /\ DOMAIN category \subseteq DOMAIN category'
            <3>1. ~treeRaced /\ r.parentPath = FindBySlug(r.parent) /\ r.path = FindBySlug(r.slug)
                  BY <1>3, <2>1 DEF StillThere
            <3>2. /\ r.slug \in DOMAIN category
                  /\ \/ r.parent = NoParent
                     \/ r.parent \in DOMAIN category /\ ~IsAncestorOfOrSelf(r.path, r.parentPath)
                  /\ TreeIsTrue
                  BY <1>1, <3>1 DEF TreeInv, MoveFits
            <3>3. r.path = category[r.slug].path
                  <4>1. r.slug # NoParent
                        BY <3>2, CategoryIds DEF TreeIsTrue
                  <4> QED BY <3>1, <4>1 DEF FindBySlug
            <3>4. category' = RebaseSubtree(category, r.slug, r.parent, r.path,
                                            DerivePath(FindBySlug(r.parent), r.slug))
                  BY <1>3, <3>1
            <3>5. /\ r.parent \in DOMAIN category \cup {NoParent}
                  /\ r.parent # NoParent => ~IsAncestorOfOrSelf(r.path, FindBySlug(r.parent))
                  BY <3>1, <3>2
            <3> HIDE DEF r, newPath
            <3>6. DOMAIN category' = DOMAIN category
                  BY <3>4 DEF RebaseSubtree
            <3> QED BY <3>1, <3>2, <3>3, <3>4, <3>5, <3>6, MovedHangs
      <2> QED BY <1>1, <1>3, <2>1, RestingFits, TreeStep DEF TreeInv
<1> QED BY <1>2, <1>3 DEF ReparentSubtree

LEMMA TreeStarts == Init => TreeInv
<1> SUFFICES ASSUME Init PROVE TreeInv
    OBVIOUS
<1>1. /\ category = <<>> /\ treeRaced = FALSE /\ moving = [e \in Editors |-> Resting]
      BY DEF Init, TreeInit
<1>2. DOMAIN category = {}
      BY <1>1
<1>3. IsFiniteSet(DOMAIN category)
      BY <1>2, FS_EmptySet
<1> QED BY <1>1, <1>2, <1>3 DEF TreeInv, TreeIsTrue, MoveFits, Resting

LEMMA TreeGoesOn == TreeInv /\ [Next]_vars => TreeInv'
<1> SUFFICES ASSUME TreeInv, [Next]_vars PROVE TreeInv'
    OBVIOUS
<1>1. CASE UNCHANGED <<category, moving, treeRaced>>
      BY <1>1, TreeStands DEF TreeInv, MoveFits
<1>2. CASE TreeNext
      BY <1>2, BeginCreateKeepsTree, BeginMoveKeepsTree, SaveCategoryKeepsTree, ReadNewParentKeepsTree,
         ReparentKeepsTree DEF TreeNext
<1>3. UNCHANGED <<category, moving, treeRaced>> \/ TreeNext
      BY DEF Next, vars, treeVars, BeginReclassify, AttachProductCategories, DetachProductCategories
<1> QED BY <1>1, <1>2, <1>3

Depth(c, s) == Len(category[s].path) - Len(category[c].path)

\* What listing the subtree of a category finds of a row.
LEMMA ListedRows ==
    ASSUME TreeIsTrue, NEW c \in DOMAIN category
    PROVE  /\ \A s : s \in ListSubtree(c)
                 <=> s \in DOMAIN category /\ Leads(category[c].path, category[s].path)
           /\ c \in ListSubtree(c)
           /\ IsFiniteSet(ListSubtree(c))
           /\ \A s \in DOMAIN category : Depth(c, s) \in Int
<1>1. \A s \in DOMAIN category : category[s].path \in Seq(Categories)
      BY DEF TreeIsTrue, Hangs
<1>2. ASSUME NEW s \in DOMAIN category
      PROVE  IsAncestorOfOrSelf(category[c].path, category[s].path)
                <=> Leads(category[c].path, category[s].path)
      BY <1>1, PathsLead
<1>3. Leads(category[c].path, category[c].path)
      BY <1>1 DEF Leads
<1>4. ListSubtree(c) \in SUBSET DOMAIN category
      BY DEF ListSubtree
<1>5. IsFiniteSet(ListSubtree(c))
      BY <1>4, FS_Subset DEF TreeIsTrue
<1>6. \A s \in DOMAIN category : Depth(c, s) \in Int
      <2>1. \A s \in DOMAIN category : Len(category[s].path) \in Nat
            BY <1>1
      <2> QED BY <2>1 DEF Depth
<1> QED BY <1>2, <1>3, <1>5, <1>6 DEF ListSubtree

\* A listed row other than the top hangs below a listed one, a level higher;
\* and what hangs below a listed row is listed.
LEMMA ListedHangs ==
    ASSUME TreeIsTrue, NEW c \in DOMAIN category, NEW s \in DOMAIN category,
           NEW t, t = category[s].parent
    PROVE  /\ s \in ListSubtree(c) /\ s # c
                 => t \in ListSubtree(c) /\ Depth(c, s) = Depth(c, t) + 1 /\ Depth(c, t) >= 0
           /\ t \in ListSubtree(c)
                 => s \in ListSubtree(c) /\ Depth(c, s) = Depth(c, t) + 1 /\ Depth(c, t) >= 0
<1> DEFINE o == category[c].path
           p == category[s].path
           q == FindBySlug(t)
<1>1. /\ o \in Seq(Categories) /\ p \in Seq(Categories) /\ q \in Seq(Categories)
      /\ s \in Categories /\ p = Append(q, s)
      /\ t \in DOMAIN category \cup {NoParent}
      /\ NoParent \notin DOMAIN category
      /\ o # <<>>
      BY FoundPaths, PathsAreLong, CategoryIds DEF TreeIsTrue, Hangs, DerivePath
<1>2. t \in DOMAIN category => q = category[t].path
      BY <1>1 DEF FindBySlug
<1>3. t \notin DOMAIN category => q = <<>>
      BY <1>1 DEF FindBySlug
<1>4. s # c => o # p
      BY PathsAreOwn
<1>5. s \in ListSubtree(c) <=> Leads(o, p)
      BY ListedRows
<1>6. t \in ListSubtree(c) <=> t \in DOMAIN category /\ Leads(o, category[t].path)
      BY ListedRows
<1> HIDE DEF o, p, q
<1>7. Leads(o, p) <=> o = p \/ Leads(o, q)
      BY <1>1, LeadsToLonger
<1>8. ~Leads(o, <<>>)
      BY <1>1, EmptyPath DEF Leads
<1>9. Len(p) = Len(q) + 1 /\ Len(q) \in Nat /\ Len(o) \in Nat
      BY <1>1, AppendProperties
<1>10. ASSUME t \in DOMAIN category, Leads(o, q)
       PROVE  Depth(c, s) = Depth(c, t) + 1 /\ Depth(c, t) >= 0
      <2>1. Depth(c, s) = Len(p) - Len(o) /\ Depth(c, t) = Len(q) - Len(o)
            BY <1>2, <1>10 DEF Depth, o, p
      <2>2. Len(o) <= Len(q)
            BY <1>10 DEF Leads
      <2> QED BY <1>9, <2>1, <2>2
<1> QED BY <1>2, <1>3, <1>4, <1>5, <1>6, <1>7, <1>8, <1>10

LEMMA TopIsAlone ==
    ASSUME TreeIsTrue, NEW c \in DOMAIN category, NEW s \in ListSubtree(c)
    PROVE  /\ s \in DOMAIN category /\ Depth(c, s) \in Nat
           /\ Depth(c, s) = 0 <=> s = c
<1>1. s \in DOMAIN category /\ Leads(category[c].path, category[s].path)
      BY ListedRows
<1>2. Depth(c, s) \in Int
      BY <1>1, ListedRows
<1>3. s = c => Depth(c, s) = 0
      <2>1. Len(category[c].path) \in Nat
            BY DEF TreeIsTrue, Hangs
      <2> QED BY <2>1 DEF Depth
<1>4. s # c => Depth(c, s) > 0
      <2> SUFFICES ASSUME s # c PROVE Depth(c, s) > 0
          OBVIOUS
      <2>1. PICK t : t = category[s].parent
            OBVIOUS
      <2>2. t \in ListSubtree(c) /\ Depth(c, s) = Depth(c, t) + 1 /\ Depth(c, t) >= 0
            BY <1>1, <2>1, ListedHangs
      <2>3. Depth(c, t) \in Int
            BY <2>2, ListedRows
      <2> QED BY <2>2, <2>3
<1> QED BY <1>1, <1>2, <1>3, <1>4

Level(c, n) == {s \in ListSubtree(c) : Depth(c, s) = n}

\* No listed row hangs as deep as there are listed rows.
LEMMA LevelsEnd ==
    ASSUME TreeIsTrue, NEW c \in DOMAIN category, NEW n \in Nat, n >= Cardinality(ListSubtree(c))
    PROVE  Level(c, n) = {}
<1> SUFFICES ASSUME Level(c, n) # {} PROVE FALSE
    OBVIOUS
<1> DEFINE N == Cardinality(ListSubtree(c))
<1>1. IsFiniteSet(ListSubtree(c)) /\ N \in Nat
      BY ListedRows, FS_CardinalityType
\* Going up from there, every level has a row.
<1>2. \A j \in 0 .. n : Level(c, n - j) # {}
      <2> SUFFICES ASSUME \E j \in 0 .. n : Level(c, n - j) = {} PROVE FALSE
          OBVIOUS
      <2>0. PICK k \in 0 .. n : Level(c, n - k) = {}
            OBVIOUS
      <2> DEFINE T == {j \in 0 .. n : Level(c, n - j) = {}}
      <2>1. T \in SUBSET Nat /\ T # {}
            <3>1. k \in T
                  BY <2>0
            <3>2. 0 .. n \subseteq Nat
                  OBVIOUS
            <3> QED BY <3>1, <3>2
      <2>2. PICK j \in T : \A i \in T : j <= i
            BY <2>1, Least
      <2>3. j # 0 /\ j \in 1 .. n
            <3>1. j \in 0 .. n /\ Level(c, n - j) = {}
                  BY <2>2
            <3>2. n - 0 = n
                  OBVIOUS
            <3> QED BY <3>1, <3>2
      <2>4. Level(c, n - j) = {} /\ Level(c, n - (j - 1)) # {}
            <3>1. j - 1 \in 0 .. n /\ ~(j <= j - 1)
                  BY <2>3
            <3>2. j - 1 \notin T
                  BY <2>2, <3>1
            <3> QED BY <2>2, <3>1, <3>2
      <2> HIDE DEF T
      <2>5. PICK s \in ListSubtree(c) : Depth(c, s) = n - (j - 1)
            BY <2>4 DEF Level
      <2>6. s # c /\ s \in DOMAIN category
            <3>1. n - (j - 1) > 0
                  BY <2>3
            <3> QED BY <2>5, <3>1, TopIsAlone
      <2>7. PICK t : t = category[s].parent
            OBVIOUS
      <2>8. t \in ListSubtree(c) /\ Depth(c, s) = Depth(c, t) + 1
            BY <2>6, <2>7, ListedHangs
      <2>9. Depth(c, t) \in Int
            BY <2>8, TopIsAlone
      <2>10. Depth(c, t) = n - j
            BY <2>3, <2>5, <2>8, <2>9
      <2> QED BY <2>4, <2>8, <2>10 DEF Level
<1>3. \A i \in 0 .. N : Level(c, i) # {}
      <2> SUFFICES ASSUME NEW i \in 0 .. N PROVE Level(c, i) # {}
          OBVIOUS
      <2>1. n - i \in 0 .. n /\ n - (n - i) = i
            BY <1>1
      <2> HIDE DEF N
      <2> QED BY <1>2, <2>1
<1> DEFINE f == [i \in 0 .. N |-> CHOOSE s \in Level(c, i) : TRUE]
<1>4. \A i \in 0 .. N : f[i] \in ListSubtree(c) /\ Depth(c, f[i]) = i
      <2> SUFFICES ASSUME NEW i \in 0 .. N PROVE f[i] \in Level(c, i)
          BY DEF Level
      <2> QED BY <1>3
<1>5. f \in [0 .. N -> ListSubtree(c)]
      BY <1>4
<1> HIDE DEF f, N
<1>6. IsFiniteSet(0 .. N) /\ Cardinality(0 .. N) = N + 1
      BY <1>1, FS_Interval
<1>7. \E x, y \in 0 .. N : x # y /\ f[x] = f[y]
      BY <1>1, <1>5, <1>6, FS_PigeonHole DEF N
<1> QED BY <1>4, <1>7

\* The levels the tree is drawn from are the depths of the listed rows.
LEMMA LevelsAreDepths ==
    ASSUME TreeIsTrue, NEW c \in DOMAIN category
    PROVE  TreeLevels(c) = [n \in 0 .. Cardinality(ListSubtree(c)) |-> Level(c, n)]
<1> DEFINE listed == ListSubtree(c)
           N == Cardinality(listed)
           Step(f, n) == IF n = 0 THEN {c} ELSE {s \in listed : category[s].parent \in f[n - 1]}
           W == [n \in 0 .. N |-> Level(c, n)]
<1>1. N \in Nat
      BY ListedRows, FS_CardinalityType
<1>2. TreeLevels(c) = CHOOSE f : f = [n \in 0 .. N |-> Step(f, n)]
      BY DEF TreeLevels
<1>3. \A n \in 0 .. N : W[n] = Step(W, n)
      <2> SUFFICES ASSUME NEW n \in 0 .. N PROVE Level(c, n) = Step(W, n)
          OBVIOUS
      <2>1. CASE n = 0
            <3>1. Level(c, 0) = {c}
                  BY ListedRows, TopIsAlone DEF Level
            <3> QED BY <2>1, <3>1
      <2>2. CASE n # 0
            <3>1. n - 1 \in 0 .. N /\ n \in Int /\ n > 0
                  BY <1>1, <2>2
            <3>2. Step(W, n) = {s \in listed : category[s].parent \in Level(c, n - 1)}
                  BY <2>2, <3>1
            <3>3. ASSUME NEW s \in listed
                  PROVE  Depth(c, s) = n <=> category[s].parent \in Level(c, n - 1)
                  <4>1. s \in DOMAIN category /\ (Depth(c, s) = 0 <=> s = c) /\ Depth(c, s) \in Nat
                        BY TopIsAlone
                  <4>2. PICK t : t = category[s].parent
                        OBVIOUS
                  <4>3. t \in listed => Depth(c, t) \in Nat
                        BY TopIsAlone
                  <4>4. /\ s # c => t \in listed /\ Depth(c, s) = Depth(c, t) + 1
                        /\ t \in listed => Depth(c, s) = Depth(c, t) + 1
                        BY <4>1, <4>2, ListedHangs
                  <4> HIDE DEF listed
                  <4>5. Depth(c, s) = n <=> t \in listed /\ Depth(c, t) = n - 1
                        BY <3>1, <4>1, <4>3, <4>4
                  <4> QED BY <4>2, <4>5 DEF Level, listed
            <3> QED BY <3>2, <3>3 DEF Level
      <2> QED BY <2>1, <2>2
<1>4. W = [n \in 0 .. N |-> Step(W, n)]
      <2> HIDE DEF Step
      <2> QED BY <1>3
<1> DEFINE f == TreeLevels(c)
<1>5. f = [n \in 0 .. N |-> Step(f, n)]
      <2> HIDE DEF W, Step, N
      <2> QED BY <1>2, <1>4
<1>6. \A n \in 0 .. N : f[n] = Step(f, n)
      <2> HIDE DEF f, Step, N
      <2> QED BY <1>5
<1>7. \A n \in 0 .. N : f[n] = W[n]
      <2> SUFFICES ASSUME \E n \in 0 .. N : f[n] # W[n] PROVE FALSE
          OBVIOUS
      <2> HIDE DEF f, W, N, listed
      <2> DEFINE T == {n \in 0 .. N : f[n] # W[n]}
      <2>1. T \in SUBSET Nat /\ T # {}
            OBVIOUS
      <2>2. PICK n \in T : \A i \in T : n <= i
            BY <2>1, Least
      <2>3. n \in 0 .. N /\ f[n] # W[n]
            BY <2>2
      <2>4. n # 0
            BY <1>3, <1>6, <2>3
      <2>5. n - 1 \in 0 .. N /\ ~(n <= n - 1)
            BY <1>1, <2>3, <2>4
      <2>6. f[n - 1] = W[n - 1]
            BY <2>2, <2>5
      <2>7. Step(f, n) = Step(W, n)
            BY <2>4, <2>6
      <2>8. f[n] = Step(f, n) /\ W[n] = Step(W, n)
            BY <1>3, <1>6, <2>3
      <2> QED BY <2>3, <2>7, <2>8
<1>8. DOMAIN f = 0 .. N
      <2> HIDE DEF f, Step, N
      <2> QED BY <1>5
<1>9. f = [n \in 0 .. N |-> W[n]]
      <2>1. f = [n \in 0 .. N |-> f[n]]
            <3> HIDE DEF f, Step, N
            <3> QED BY <1>5
      <2> HIDE DEF f, W, N
      <2> QED BY <1>7, <2>1
<1> QED BY <1>9

\* The tree of a category shows what its paths list, and building it ends.
LEMMA TreeShowsSubtree ==
    ASSUME TreeIsTrue, NEW c \in DOMAIN category
    PROVE  BuildEnds(c) /\ CategoryTree(c) = ListSubtree(c)
<1> DEFINE listed == ListSubtree(c)
           N == Cardinality(listed)
           f == TreeLevels(c)
<1>1. N \in Nat /\ f = [n \in 0 .. N |-> Level(c, n)]
      BY ListedRows, FS_CardinalityType, LevelsAreDepths
<1>2. BuildEnds(c)
      <2>1. Level(c, N) = {}
            BY <1>1, LevelsEnd
      <2>2. f[N] = Level(c, N)
            <3> HIDE DEF f, N
            <3> QED BY <1>1
      <2> QED BY <2>1, <2>2 DEF BuildEnds
<1>3. ASSUME NEW s \in listed PROVE \E n \in 0 .. N : s \in Level(c, n)
      <2>1. Depth(c, s) \in Nat
            BY TopIsAlone
      <2>2. PICK n \in Nat : n = Depth(c, s)
            BY <2>1
      <2>3. s \in Level(c, n)
            BY <2>2 DEF Level
      <2>4. ~(n >= N)
            BY <2>3, LevelsEnd
      <2> HIDE DEF N
      <2> QED BY <1>1, <2>3, <2>4
<1>4. CategoryTree(c) = UNION {f[n] : n \in DOMAIN f}
      BY DEF CategoryTree, Range
<1>5. UNION {f[n] : n \in DOMAIN f} = UNION {Level(c, n) : n \in 0 .. N}
      <2> HIDE DEF f, N
      <2> QED BY <1>1
<1>6. UNION {Level(c, n) : n \in 0 .. N} = listed
      <2> HIDE DEF N
      <2> QED BY <1>3 DEF Level
<1> QED BY <1>2, <1>4, <1>5, <1>6

LEMMA ListsTellTheTree == TreeInv => ListedWhereFiled
<1> SUFFICES ASSUME TreeInv, ~treeRaced, NEW c \in DOMAIN category
             PROVE  /\ BuildEnds(c)
                    /\ ListCategoryProducts(c) =
                          {s \in ListActive : \E d \in CategoryTree(c) : <<s, d>> \in filed}
    BY DEF ListedWhereFiled
<1>1. TreeIsTrue
      BY DEF TreeInv
<1>2. BuildEnds(c) /\ CategoryTree(c) = ListSubtree(c)
      BY <1>1, TreeShowsSubtree
<1>3. {c} \cup ListSubtree(c) = ListSubtree(c)
      BY <1>1, ListedRows
<1> QED BY <1>2, <1>3 DEF ListCategoryProducts, ListActiveByCategoryIds

\* Unless a write met rows that had changed since they were read, a category
\* lists what is filed below it and its tree can be drawn, whatever the moves.
THEOREM ListsFollowTheTree == Spec => []ListedWhereFiled
<1>1. TreeInv /\ [Next]_vars => TreeInv'
      BY TreeGoesOn
<1> QED BY <1>1, TreeStarts, ListsTellTheTree, PTL DEF Spec

=============================================================================
