------------------------------ MODULE Products ------------------------------
(***************************************************************************)
(* Products, variants and media of the catalog service, beside the prices  *)
(* that publishing asks for.                                               *)
(*                                                                         *)
(* A request reads the product with its variants, decides, and saves every *)
(* row it read; no version is checked, so the later of two saves decides   *)
(* the status.  A product is known by its slug and a variant by its sku:   *)
(* both are unique and never change.                                       *)
(***************************************************************************)
EXTENDS Pricing

CONSTANTS
    Managers,           \* requests served at a time
    Slugs,              \* products
    DefaultCurrency,    \* CATALOG_DEFAULT_CURRENCY
    SeededVariants,     \* sku -> product, of the catalog the service starts with
    MaxMedia,           \* bound: media assets ever attached
    MaxEdits            \* bound: product and media requests over a run

Owners == Slugs \cup Variants

ASSUME ProductIds == Slugs \cap Variants = {} /\ DefaultCurrency \in Currencies
ASSUME ProductSeed ==
    /\ DOMAIN SeededVariants \subseteq Variants /\ Range(SeededVariants) \subseteq Slugs
    /\ IsFiniteSet(DOMAIN SeededVariants)
ASSUME ProductBounds == {MaxMedia, MaxEdits} \subseteq Nat

VARIABLES
    product,        \* slug -> status, for the rows that exist
    variantOf,      \* sku -> its product, for the rows of product_variant
    media,          \* the rows of media_asset, in the order they were inserted
    manager,        \* the requests being served
    announced,      \* events handed to the publisher
    mediaRaced,     \* owners whose media were numbered from an outdated list
    edits

shelfVars == <<product, variantOf, media, manager, announced, mediaRaced, edits>>
productVars == <<pricingVars, shelfVars>>

Away == [kind |-> "away"]

Events == [kind : {"catalog.variant.created"}, id : Variants]
            \cup [kind : {"catalog.product.published", "catalog.product.archived"}, id : Slugs]

\* CatalogRepository.findById: the product with its variants.
VariantsOf(slug) == {v \in DOMAIN variantOf : variantOf[v] = slug}

\* CatalogTypeormRepository.save: the row of the product, whatever it holds by
\* now; the variants are written back as they are, for no column of theirs changes.
Save(slug, status) ==
    [s \in DOMAIN product \cup {slug} |-> IF s = slug THEN status ELSE product[s]]

\* What CatalogRabbitmqPublisher is handed after the commit; a failure there is
\* logged and loses the event.
Announce(kind, id) == announced' = announced \cup {[kind |-> kind, id |-> id]}

Take(m, request) ==
    /\ manager[m] = Away /\ edits < MaxEdits
    /\ manager' = [manager EXCEPT ![m] = request]
    /\ edits' = edits + 1
    /\ UNCHANGED <<pricingVars, product, variantOf, media, announced, mediaRaced>>

Finish(m) == manager' = [manager EXCEPT ![m] = Away] /\ UNCHANGED edits

-----------------------------------------------------------------------------
(* Products and variants.                                                  *)

\* RegisterProductUseCase: the slug is free ...
BeginRegister(m, slug) ==
    /\ slug \notin DOMAIN product
    /\ Take(m, [kind |-> "register", slug |-> slug])

\* ... and UC_PRODUCT_SLUG refuses the second row.
RegisterProduct(m) ==
    LET slug == manager[m].slug IN
    /\ manager[m].kind = "register"
    /\ product' = IF slug \in DOMAIN product
                  THEN product
                  ELSE Save(slug, "draft")
    /\ Finish(m)
    /\ UNCHANGED <<pricingVars, variantOf, media, announced, mediaRaced>>

\* AddVariantUseCase: the product in any status, and a free sku.
BeginAddVariant(m, slug, sku) ==
    /\ slug \in DOMAIN product /\ sku \notin DOMAIN variantOf
    /\ Take(m, [kind |-> "variant", slug |-> slug, status |-> product[slug], sku |-> sku])

\* The save writes the status that was read back; UC_PRODUCT_VARIANT_SKU
\* refuses a second row, and with it the whole save.
AddVariant(m) ==
    LET r == manager[m] IN
    /\ r.kind = "variant"
    /\ IF r.sku \in DOMAIN variantOf
       THEN UNCHANGED <<product, variantOf, variantRows, taxOf, announced>>
       ELSE /\ product' = Save(r.slug, r.status)
            /\ variantOf' = [v \in DOMAIN variantOf \cup {r.sku} |->
                                IF v = r.sku THEN r.slug ELSE variantOf[v]]
            /\ variantRows' = variantRows \cup {r.sku}
            /\ taxOf' = [v \in variantRows' |-> IF v = r.sku THEN NoTax ELSE taxOf[v]]
            /\ Announce("catalog.variant.created", r.sku)
    /\ Finish(m)
    /\ UNCHANGED <<clock, prices, taxCategories, clerk, priceEvents, priceRaced, priceRequests,
                  media, mediaRaced>>

\* Mutant of MissingActivePrice: a price that is only scheduled counts.
MissingAnyPrice(variants) ==
    {v \in variants : ~\E i \in DOMAIN prices : prices[i].scope = <<v, DefaultCurrency>>}

\* ActivePriceProbe.findVariantsMissingActivePrice
MissingActivePrice(variants) ==
    {v \in variants : FindInEffect(<<v, DefaultCurrency>>, clock) = {}}

\* Product.publish
MayPublish(status, variants) == status = "draft" /\ variants # {}

\* Product.archive
MayArchive(status) == status = "active"

\* PublishProductUseCase: the product is read ...
BeginPublish(m, slug) ==
    /\ slug \in DOMAIN product /\ MayPublish(product[slug], VariantsOf(slug))
    /\ Take(m, [kind |-> "probe", slug |-> slug, variants |-> VariantsOf(slug)])

\* ... and the variants that were read are probed for a price.
ProbePrices(m) ==
    LET r == manager[m] IN
    /\ r.kind = "probe"
    /\ manager' = [manager EXCEPT ![m] =
          IF MissingActivePrice(r.variants) = {}
          THEN [r EXCEPT !.kind = "publish"]
          ELSE Away]
    /\ UNCHANGED <<pricingVars, product, variantOf, media, announced, mediaRaced, edits>>

\* ArchiveProductUseCase: an active product only.
BeginArchive(m, slug) ==
    /\ slug \in DOMAIN product /\ MayArchive(product[slug])
    /\ Take(m, [kind |-> "archive", slug |-> slug, variants |-> VariantsOf(slug)])

\* The save of a product whose status was changed, then its event.
SaveStatus(m) ==
    LET r == manager[m] IN
    /\ r.kind \in {"publish", "archive"}
    /\ product' = Save(r.slug, IF r.kind = "publish" THEN "active" ELSE "archived")
    /\ Announce(IF r.kind = "publish" THEN "catalog.product.published"
                ELSE "catalog.product.archived", r.slug)
    /\ Finish(m)
    /\ UNCHANGED <<pricingVars, variantOf, media, mediaRaced>>

-----------------------------------------------------------------------------
(* Media.                                                                  *)

\* MediaAssetRepository.listByOwner, active ones only.
ActiveMedia(owner) == {i \in DOMAIN media : media[i].owner = owner /\ media[i].active}

\* Mutant of NextSlot: as many as there are active ones.
CountedSlot(owner) == Cardinality(ActiveMedia(owner))

\* maxSortOrder + 1, over archived rows too.
NextSlot(owner) ==
    1 + Max({-1} \cup {media[i].slot : i \in {j \in DOMAIN media : media[j].owner = owner}})

\* AttachMediaUseCase.assertOwnerExists: a product or a variant, in any status.
OwnerExists(owner) == owner \in DOMAIN product \cup DOMAIN variantOf

\* AttachMediaUseCase: the last slot is read.
BeginAttachMedia(m, owner) ==
    /\ OwnerExists(owner)
    /\ Len(media) < MaxMedia
    /\ Take(m, [kind |-> "attach", owner |-> owner, slot |-> NextSlot(owner)])

\* MediaAsset.create
NewMedia(owner, slot) == [owner |-> owner, slot |-> slot, active |-> TRUE]

AttachMedia(m) ==
    LET r == manager[m] IN
    /\ r.kind = "attach" /\ Len(media) < MaxMedia
    /\ media' = Append(media, NewMedia(r.owner, r.slot))
    /\ mediaRaced' = mediaRaced \cup (IF NextSlot(r.owner) > r.slot THEN {r.owner} ELSE {})
    /\ Finish(m)
    /\ UNCHANGED <<pricingVars, product, variantOf, announced>>

\* MediaAsset.archive
MayDetach(asset) == asset.active

\* DetachMediaUseCase
BeginDetachMedia(m, i) ==
    /\ i \in DOMAIN media /\ MayDetach(media[i])
    /\ Take(m, [kind |-> "detach", media |-> i, slot |-> media[i].slot])

\* The save writes the slot that was read back.
DetachMedia(m) ==
    LET r == manager[m] IN
    /\ r.kind = "detach"
    /\ media' = [media EXCEPT ![r.media].active = FALSE, ![r.media].slot = r.slot]
    /\ Finish(m)
    /\ UNCHANGED <<pricingVars, product, variantOf, announced, mediaRaced>>

\* ReorderMediaUseCase: exactly the active assets, in an order of the caller's.
ExactPermutations(owner) == SetToSeqs(ActiveMedia(owner)) \ {<<>>}

BeginReorderMedia(m, owner, order) ==
    /\ order \in ExactPermutations(owner)
    /\ Take(m, [kind |-> "reorder", owner |-> owner, order |-> order])

\* MediaAssetTypeormRepository.reorder, one transaction.
ReorderMedia(m) ==
    LET r == manager[m]
        SlotOf(i) == CHOOSE n \in DOMAIN r.order : r.order[n] = i
    IN
    /\ r.kind = "reorder"
    /\ media' = [i \in DOMAIN media |->
          IF i \in Range(r.order) THEN [media[i] EXCEPT !.slot = SlotOf(i) - 1] ELSE media[i]]
    /\ mediaRaced' = mediaRaced \cup
          (IF ActiveMedia(r.owner) \subseteq Range(r.order) THEN {} ELSE {r.owner})
    /\ Finish(m)
    /\ UNCHANGED <<pricingVars, product, variantOf, announced>>

-----------------------------------------------------------------------------
\* Every seeded product is on sale, with an open price for each of its variants.
SeededPrice(v) == [scope |-> <<v, DefaultCurrency>>, from |-> 0, to |-> Open, priority |-> 0]

ShelfInit ==
    /\ product = [s \in Range(SeededVariants) |-> "active"]
    /\ variantOf = SeededVariants /\ variantRows = DOMAIN SeededVariants
    /\ prices = [i \in 1 .. Cardinality(variantRows) |-> SeededPrice(SetToSeq(variantRows)[i])]
    /\ media = <<>>
    /\ manager = [m \in Managers |-> Away]
    /\ announced = {} /\ mediaRaced = {} /\ edits = 0
    /\ PricingInit

ManagerNext(m) ==
    \/ \E s \in Slugs : BeginRegister(m, s)
    \/ RegisterProduct(m)
    \/ \E s \in Slugs, v \in Variants : BeginAddVariant(m, s, v)
    \/ AddVariant(m)
    \/ \E s \in Slugs : BeginPublish(m, s)
    \/ ProbePrices(m)
    \/ \E s \in Slugs : BeginArchive(m, s)
    \/ SaveStatus(m)
    \/ \E o \in Owners : BeginAttachMedia(m, o)
    \/ AttachMedia(m)
    \/ \E i \in 1 .. MaxMedia : BeginDetachMedia(m, i)
    \/ DetachMedia(m)
    \/ \E o \in Owners : \E order \in ExactPermutations(o) : BeginReorderMedia(m, o, order)
    \/ ReorderMedia(m)

ShelfNext ==
    \/ \E m \in Managers : ManagerNext(m)
    \/ PricingNext /\ UNCHANGED shelfVars

\* A product that is or was on sale has a variant that had a price in the
\* default currency when it was published, whatever was added, priced, saved
\* late or archived meanwhile.  (PublishProductUseCase)
OnSaleWasPriced ==
    \A s \in DOMAIN product : product[s] # "draft" =>
        \E v \in VariantsOf(s), i \in DOMAIN prices :
            prices[i].scope = <<v, DefaultCurrency>> /\ prices[i].from <= clock

\* The active media of an owner stand in one order, in slots of their own,
\* through attaching, detaching and reordering, unless an asset was numbered
\* or the list reordered from a reading that had become outdated.
ActiveSlotsDistinct ==
    \A o \in Owners \ mediaRaced : \A i, j \in ActiveMedia(o) :
        media[i].slot = media[j].slot => i = j
=============================================================================
