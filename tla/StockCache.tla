----------------------------- MODULE StockCache -----------------------------
(***************************************************************************)
(* The cache of what is available of one variant, read through by the      *)
(* availability query and dropped by every use case that changes a level.  *)
(* The keys of a variant are its prefix and a facet: the locations asked   *)
(* for, or all of them.  Keys of two variants share no prefix, so one      *)
(* variant stands for each.                                                *)
(*                                                                         *)
(* A reader loads the levels and stores them later; a writer commits and   *)
(* drops the keys later.  Nothing orders the two, so an entry may be       *)
(* stored that is already out of date: it stays until it expires.          *)
(***************************************************************************)
EXTENDS Integers, FiniteSets, Functions

CONSTANTS
    StockLocations, \* locations that hold the variant
    Facets,         \* the sets of locations readers ask for
    StockWriters,   \* use cases that change a level at a time
    MaxStock        \* bound on a level

ASSUME StockCacheBounds == MaxStock \in Nat /\ Facets \subseteq SUBSET StockLocations

VARIABLES
    onHand,         \* location -> quantity in the database
    cached,         \* facet -> the view in Redis, for the keys that are set
    inFlight,       \* facet -> the load under way in this process
    writing,        \* writer -> what is left of its request
    late            \* facets whose entry was stored or kept past a write

cacheVars == <<onHand, cached, inFlight, writing, late>>

\* CACHE_KEYS.inventoryStock: the locations in any order, none for all of them.
Covered(facet) == IF facet = {} THEN StockLocations ELSE facet

\* QueryAvailabilityUseCase.load: the levels of the locations asked for.
Load(facet) == [l \in Covered(facet) |-> onHand[l]]

NotWriting == [stage |-> "idle"]
Committed == [stage |-> "committed"]
Scanned(keys) == [stage |-> "scanned", keys |-> keys]

Without(f, keys) == [k \in DOMAIN f \ keys |-> f[k]]
With(f, k, v) == [x \in DOMAIN f \cup {k} |-> IF x = k THEN v ELSE f[x]]

-----------------------------------------------------------------------------
(* Reading.                                                                *)

\* StockCache.getOrLoad misses: it leads a flight of the key, or joins the one there is.
\* A hit answers at once, and with Redis down the reader loads for itself.
LeadFlight(facet) ==
    /\ facet \notin DOMAIN cached /\ facet \notin DOMAIN inFlight
    /\ inFlight' = With(inFlight, facet, [stage |-> "leading"])
    /\ UNCHANGED <<onHand, cached, writing, late>>

Land(facet) == inFlight' = Without(inFlight, {facet})

\* The leader looks again, and another process may have stored the entry by now.
LeaderHits(facet) ==
    /\ facet \in DOMAIN inFlight /\ inFlight[facet].stage = "leading"
    /\ facet \in DOMAIN cached
    /\ Land(facet)
    /\ UNCHANGED <<onHand, cached, writing, late>>

\* With Redis down at the second look, the view is loaded and not stored.
LeaderLoads(facet) ==
    /\ facet \in DOMAIN inFlight /\ inFlight[facet].stage = "leading"
    /\ facet \notin DOMAIN cached
    /\ \/ inFlight' = With(inFlight, facet, [stage |-> "loaded", view |-> Load(facet)])
       \/ Land(facet)
    /\ UNCHANGED <<onHand, cached, writing, late>>

\* StockCache.set; the flight lands whether or not Redis takes the entry.
StoreView(facet) ==
    /\ facet \in DOMAIN inFlight /\ inFlight[facet].stage = "loaded"
    /\ Land(facet)
    /\ \/ /\ cached' = With(cached, facet, inFlight[facet].view)
          /\ late' = IF inFlight[facet].view = Load(facet) THEN late \ {facet} ELSE late \cup {facet}
       \/ UNCHANGED <<cached, late>>
    /\ UNCHANGED <<onHand, writing>>

\* Another process of the service reads and stores in the same Redis.
StoredElsewhere(facet) ==
    /\ facet \notin DOMAIN cached
    /\ cached' = With(cached, facet, Load(facet))
    /\ late' = late \ {facet}
    /\ UNCHANGED <<onHand, inFlight, writing>>

\* The entry's time to live runs out.
Expire(facet) ==
    /\ facet \in DOMAIN cached
    /\ cached' = Without(cached, {facet})
    /\ late' = late \ {facet}
    /\ UNCHANGED <<onHand, inFlight, writing>>

-----------------------------------------------------------------------------
(* Writing.                                                                *)

\* StockCache.withInvalidation: the work commits first.
CommitWork(w, l) ==
    /\ writing[w] = NotWriting /\ onHand[l] < MaxStock
    /\ onHand' = [onHand EXCEPT ![l] = @ + 1]
    /\ writing' = [writing EXCEPT ![w] = Committed]
    /\ UNCHANGED <<cached, inFlight, late>>

\* Mutant of KeysOfPrefix: only the entry for all locations is dropped.
AllFacetOnly == DOMAIN cached \cap {{}}

\* SCAN MATCH <prefix>*
KeysOfPrefix == DOMAIN cached

\* RedisCacheAdapter.delByPrefix: the keys are collected first ...
ScanKeys(w) ==
    /\ writing[w] = Committed
    /\ writing' = [writing EXCEPT ![w] = Scanned(KeysOfPrefix)]
    /\ UNCHANGED <<onHand, cached, inFlight, late>>

\* ... and unlinked together.
UnlinkKeys(w) ==
    /\ writing[w].stage = "scanned"
    /\ cached' = Without(cached, writing[w].keys)
    /\ late' = late \ writing[w].keys
    /\ writing' = [writing EXCEPT ![w] = NotWriting]
    /\ UNCHANGED <<onHand, inFlight>>

\* Redis fails, which is logged, or the process stops after the commit.
InvalidationFails(w) ==
    /\ writing[w] # NotWriting
    /\ late' = late \cup DOMAIN cached
    /\ writing' = [writing EXCEPT ![w] = NotWriting]
    /\ UNCHANGED <<onHand, cached, inFlight>>

\* The process stops: the flights and the invalidations under way are gone.
StockServiceStops ==
    /\ inFlight' = <<>>
    /\ late' = IF \E w \in StockWriters : writing[w] # NotWriting THEN late \cup DOMAIN cached ELSE late
    /\ writing' = [w \in StockWriters |-> NotWriting]
    /\ UNCHANGED <<onHand, cached>>

-----------------------------------------------------------------------------
CacheInit ==
    /\ onHand = [l \in StockLocations |-> 0]
    /\ cached = <<>> /\ inFlight = <<>>
    /\ writing = [w \in StockWriters |-> NotWriting]
    /\ late = {}

CacheNext ==
    \/ \E f \in Facets :
           \/ LeadFlight(f) \/ LeaderHits(f) \/ LeaderLoads(f) \/ StoreView(f)
           \/ StoredElsewhere(f) \/ Expire(f)
    \/ \E w \in StockWriters :
           \/ \E l \in StockLocations : CommitWork(w, l)
           \/ ScanKeys(w) \/ UnlinkKeys(w) \/ InvalidationFails(w)
    \/ StockServiceStops

CacheSpec == CacheInit /\ [][CacheNext]_cacheVars

-----------------------------------------------------------------------------
\* Some writer has still to drop the key.
ToBeDropped(facet) ==
    \E w \in StockWriters :
        \/ writing[w] = Committed
        \/ writing[w].stage = "scanned" /\ facet \in writing[w].keys

\* An entry shows the levels as they are, whatever the facet, unless its writer is
\* about to drop it, its load was overtaken by a write, or an invalidation failed.
StaleWasOvertaken ==
    \A f \in DOMAIN cached : cached[f] = Load(f) \/ f \in late \/ ToBeDropped(f)
=============================================================================
