----------------------------- MODULE EdgeProofs -----------------------------
(***************************************************************************)
(* Proofs about four parts at the edge of the system that share no state:  *)
(* the stock cache, the event store, a request at the gateway and the      *)
(* accounts of the gateway.                                                *)
(*                                                                         *)
(* The cache, for any number of locations, facets and writers: an entry    *)
(* that differs from the levels is about to be dropped, was loaded before  *)
(* a write that overtook it, or outlived an invalidation that failed.      *)
(*                                                                         *)
(* The event store, for any set of events and publishers: a row is made of *)
(* a message that went through the firehose, and so through the queues the *)
(* event was published to before it.                                       *)
(*                                                                         *)
(* The request, for any customers and every route: a command reaches an    *)
(* operation of retail with the permission for it or with the name of its  *)
(* caller and no claim to be staff (CommandFits).                          *)
(*                                                                         *)
(* The accounts, for any number of accounts, concurrent requests, tokens   *)
(* and roles: one that no stale save wrote over is known by what its last  *)
(* save left.  The stored hash is of a token that was neither exchanged    *)
(* nor revoked (SessionInv), its roles are those that were decided         *)
(* (RolesInv), and a request can only be on its way to it if it was not    *)
(* erased yet (InFlight).                                                  *)
(***************************************************************************)
EXTENDS StockCache, EventStore, Gateway, Identity, TLAPS

(* The stock cache.                                                        *)

WriterState == {NotWriting, Committed} \cup {Scanned(keys) : keys \in SUBSET Facets}

CacheTypeOK ==
    /\ onHand \in [StockLocations -> 0 .. MaxStock]
    /\ DOMAIN cached \subseteq Facets /\ DOMAIN inFlight \subseteq Facets
    /\ writing \in [StockWriters -> WriterState]
    /\ late \subseteq DOMAIN cached

\* The types carry the argument: what a writer still has to drop is in its
\* state, and only keys that are set are marked.
CacheInv == CacheTypeOK /\ StaleWasOvertaken

-----------------------------------------------------------------------------
(* Dictionaries.                                                           *)

LEMMA WithoutKeys ==
    ASSUME NEW f, NEW keys
    PROVE  /\ DOMAIN Without(f, keys) = DOMAIN f \ keys
           /\ \A k \in DOMAIN f \ keys : Without(f, keys)[k] = f[k]
BY DEF Without

\* The states of a writer are told apart by their stage.
LEMMA Stages ==
    /\ NotWriting # Committed
    /\ NotWriting.stage # "scanned" /\ Committed.stage # "scanned"
    /\ \A keys \in SUBSET Facets :
          /\ Scanned(keys) # NotWriting /\ Scanned(keys) # Committed
          /\ Scanned(keys).stage = "scanned" /\ Scanned(keys).keys = keys
<1>1. NotWriting.stage = "idle" /\ Committed.stage = "committed"
      BY DEF NotWriting, Committed
<1>2. ASSUME NEW keys \in SUBSET Facets
      PROVE  Scanned(keys).stage = "scanned" /\ Scanned(keys).keys = keys
      BY DEF Scanned
<1> QED BY <1>1, <1>2

-----------------------------------------------------------------------------
LEMMA CacheStarts == CacheInit => CacheInv
<1> SUFFICES ASSUME CacheInit PROVE CacheInv
    OBVIOUS
<1>1. DOMAIN cached = {} /\ DOMAIN inFlight = {}
      BY DEF CacheInit
<1>2. CacheTypeOK
      BY <1>1, StockCacheBounds DEF CacheInit, CacheTypeOK, WriterState
<1>3. StaleWasOvertaken
      BY <1>1 DEF StaleWasOvertaken
<1> QED BY <1>2, <1>3 DEF CacheInv

\* A step that leaves the levels, the entries and the writers alone.
LEMMA FlightStep ==
    ASSUME CacheInv, UNCHANGED <<onHand, cached, writing, late>>, DOMAIN inFlight' \subseteq Facets
    PROVE  CacheInv'
<1>1. CacheTypeOK'
      BY DEF CacheInv, CacheTypeOK
<1>2. StaleWasOvertaken'
      BY DEF CacheInv, StaleWasOvertaken, Load, ToBeDropped
<1> QED BY <1>1, <1>2 DEF CacheInv

LEMMA ReadingKeepsIInv ==
    ASSUME CacheInv, NEW f \in Facets,
           LeadFlight(f) \/ LeaderHits(f) \/ LeaderLoads(f)
    PROVE  CacheInv'
<1>1. DOMAIN inFlight \subseteq Facets
      BY DEF CacheInv, CacheTypeOK
<1>2. CASE LeadFlight(f)
      <2>1. DOMAIN inFlight' = DOMAIN inFlight \cup {f}
            BY <1>2 DEF LeadFlight, With
      <2>2. DOMAIN inFlight' \subseteq Facets
            BY <1>1, <2>1
      <2> QED BY <1>2, <2>2, FlightStep DEF LeadFlight
<1>3. CASE LeaderHits(f)
      BY <1>1, <1>3, WithoutKeys, FlightStep DEF LeaderHits, Land
<1>4. CASE LeaderLoads(f)
      <2>1. CASE inFlight' = With(inFlight, f, [stage |-> "loaded", view |-> Load(f)])
            <3>1. DOMAIN inFlight' = DOMAIN inFlight \cup {f}
                  BY <2>1 DEF With
            <3>2. DOMAIN inFlight' \subseteq Facets
                  BY <1>1, <3>1
            <3> QED BY <1>4, <3>2, FlightStep DEF LeaderLoads
      <2>2. CASE Land(f)
            <3>1. DOMAIN inFlight' = DOMAIN inFlight \ {f}
                  BY <2>2, WithoutKeys DEF Land
            <3>2. DOMAIN inFlight' \subseteq Facets
                  BY <1>1, <3>1
            <3> QED BY <1>4, <3>2, FlightStep DEF LeaderLoads
      <2> QED BY <1>4, <2>1, <2>2 DEF LeaderLoads
<1> QED BY <1>2, <1>3, <1>4

\* Putting or dropping the entry of one facet, with the mark it deserves.
LEMMA EntryStep ==
    ASSUME CacheInv, NEW f \in Facets,
           UNCHANGED <<onHand, writing>>, DOMAIN inFlight' \subseteq Facets,
           DOMAIN cached' \subseteq DOMAIN cached \cup {f},
           \A g \in DOMAIN cached \ {f} : g \in DOMAIN cached' /\ cached'[g] = cached[g],
           late' \subseteq DOMAIN cached', late \ {f} \subseteq late',
           f \in DOMAIN cached' => cached'[f] = Load(f) \/ f \in late'
    PROVE  CacheInv'
<1>1. CacheTypeOK'
      BY DEF CacheInv, CacheTypeOK
<1>2. StaleWasOvertaken'
      <2> SUFFICES ASSUME NEW g \in DOMAIN cached'
                   PROVE  cached'[g] = Load(g)' \/ g \in late' \/ ToBeDropped(g)'
          BY DEF StaleWasOvertaken
      <2>1. Load(g)' = Load(g) /\ (ToBeDropped(g) => ToBeDropped(g)')
            BY DEF Load, ToBeDropped
      <2>2. CASE g = f
            BY <2>1, <2>2
      <2>3. CASE g # f
            BY <2>1, <2>3 DEF CacheInv, StaleWasOvertaken
      <2> QED BY <2>2, <2>3
<1> QED BY <1>1, <1>2 DEF CacheInv

LEMMA StoreViewKeepsIInv == ASSUME CacheInv, NEW f \in Facets, StoreView(f) PROVE CacheInv'
<1>1. DOMAIN inFlight' = DOMAIN inFlight \ {f} /\ DOMAIN inFlight \subseteq Facets
      BY WithoutKeys DEF StoreView, Land, CacheInv, CacheTypeOK
<1>2. CASE UNCHANGED <<cached, late>>
      BY <1>1, <1>2, FlightStep DEF StoreView
<1>3. CASE /\ cached' = With(cached, f, inFlight[f].view)
           /\ late' = IF inFlight[f].view = Load(f) THEN late \ {f} ELSE late \cup {f}
      <2>1. /\ DOMAIN cached' = DOMAIN cached \cup {f} /\ cached'[f] = inFlight[f].view
            /\ \A g \in DOMAIN cached \ {f} : cached'[g] = cached[g]
            BY <1>3 DEF With
      <2>2. late' \subseteq DOMAIN cached' /\ late \ {f} \subseteq late'
            BY <1>3, <2>1 DEF CacheInv, CacheTypeOK
      <2> QED BY <1>1, <1>3, <2>1, <2>2, EntryStep DEF StoreView
<1> QED BY <1>2, <1>3 DEF StoreView

LEMMA StoredElsewhereKeepsIInv == ASSUME CacheInv, NEW f \in Facets, StoredElsewhere(f) PROVE CacheInv'
<1>1. /\ DOMAIN cached' = DOMAIN cached \cup {f} /\ cached'[f] = Load(f)
      /\ \A g \in DOMAIN cached \ {f} : cached'[g] = cached[g]
      BY DEF StoredElsewhere, With
<1>2. /\ DOMAIN inFlight' \subseteq Facets
      /\ late' \subseteq DOMAIN cached' /\ late \ {f} \subseteq late'
      BY <1>1 DEF StoredElsewhere, CacheInv, CacheTypeOK
<1> QED BY <1>1, <1>2, EntryStep DEF StoredElsewhere

LEMMA ExpireKeepsIInv == ASSUME CacheInv, NEW f \in Facets, Expire(f) PROVE CacheInv'
<1>1. /\ DOMAIN cached' = DOMAIN cached \ {f}
      /\ \A g \in DOMAIN cached \ {f} : cached'[g] = cached[g]
      BY WithoutKeys DEF Expire
<1>2. /\ DOMAIN inFlight' \subseteq Facets
      /\ late' \subseteq DOMAIN cached' /\ late \ {f} \subseteq late'
      BY <1>1 DEF Expire, CacheInv, CacheTypeOK
<1> QED BY <1>1, <1>2, EntryStep DEF Expire

-----------------------------------------------------------------------------
\* A writer that has committed owes every entry its drop.
LEMMA CommitWorkKeepsIInv ==
    ASSUME CacheInv, NEW w \in StockWriters, NEW l \in StockLocations, CommitWork(w, l) PROVE CacheInv'
<1>1. writing' = [writing EXCEPT ![w] = Committed] /\ writing'[w] = Committed
      BY DEF CommitWork, CacheInv, CacheTypeOK
<1>2. CacheTypeOK'
      <2>1. onHand' \in [StockLocations -> 0 .. MaxStock]
            BY StockCacheBounds DEF CommitWork, CacheInv, CacheTypeOK
      <2>2. writing' \in [StockWriters -> WriterState]
            BY <1>1 DEF CacheInv, CacheTypeOK, WriterState
      <2> QED BY <2>1, <2>2 DEF CommitWork, CacheInv, CacheTypeOK
<1>3. \A f : ToBeDropped(f)'
      BY <1>1 DEF ToBeDropped
<1> QED BY <1>2, <1>3 DEF CacheInv, StaleWasOvertaken

\* Its keys are those that are set: no entry escapes it by being scanned.
LEMMA ScanKeysKeepsIInv == ASSUME CacheInv, NEW w \in StockWriters, ScanKeys(w) PROVE CacheInv'
<1>1. /\ writing' = [writing EXCEPT ![w] = Scanned(DOMAIN cached)]
      /\ writing'[w] = Scanned(DOMAIN cached) /\ DOMAIN cached \in SUBSET Facets
      BY DEF ScanKeys, KeysOfPrefix, CacheInv, CacheTypeOK
<1>2. CacheTypeOK'
      <2>1. Scanned(DOMAIN cached) \in WriterState
            BY <1>1 DEF WriterState
      <2>2. writing' \in [StockWriters -> WriterState]
            BY <1>1, <2>1 DEF CacheInv, CacheTypeOK
      <2> QED BY <2>2 DEF ScanKeys, CacheInv, CacheTypeOK
<1>3. \A f \in DOMAIN cached : ToBeDropped(f)'
      BY <1>1, Stages DEF ToBeDropped
<1> QED BY <1>2, <1>3 DEF CacheInv, StaleWasOvertaken, ScanKeys

\* The entries that stay were not on its list, so nobody loses a claim on them.
LEMMA UnlinkKeysKeepsIInv == ASSUME CacheInv, NEW w \in StockWriters, UnlinkKeys(w) PROVE CacheInv'
<1> DEFINE keys == writing[w].keys
<1>1. /\ DOMAIN cached' = DOMAIN cached \ keys
      /\ \A f \in DOMAIN cached \ keys : cached'[f] = cached[f]
      BY WithoutKeys, ZenonT(60) DEF UnlinkKeys
<1>2. writing' = [writing EXCEPT ![w] = NotWriting]
      BY DEF UnlinkKeys
<1>3. CacheTypeOK'
      <2>1. writing' \in [StockWriters -> WriterState]
            BY <1>2 DEF CacheInv, CacheTypeOK, WriterState
      <2> QED BY <1>1, <2>1 DEF UnlinkKeys, CacheInv, CacheTypeOK
<1>4. StaleWasOvertaken'
      <2> SUFFICES ASSUME NEW f \in DOMAIN cached'
                   PROVE  cached'[f] = Load(f)' \/ f \in late' \/ ToBeDropped(f)'
          BY DEF StaleWasOvertaken
      <2>1. f \in DOMAIN cached /\ f \notin keys /\ cached'[f] = cached[f] /\ Load(f)' = Load(f)
            BY <1>1 DEF UnlinkKeys, Load
      <2>2. CASE f \in late
            BY <2>1, <2>2 DEF UnlinkKeys
      <2>3. CASE ToBeDropped(f)
            <3>1. PICK x \in StockWriters :
                      \/ writing[x] = Committed
                      \/ writing[x].stage = "scanned" /\ f \in writing[x].keys
                  BY <2>3 DEF ToBeDropped
            <3>2. x # w
                  BY <2>1, <3>1, Stages DEF UnlinkKeys
            <3>3. writing'[x] = writing[x]
                  BY <1>2, <3>2 DEF CacheInv, CacheTypeOK
            <3> QED BY <3>1, <3>3 DEF ToBeDropped
      <2> QED BY <2>1, <2>2, <2>3 DEF CacheInv, StaleWasOvertaken
<1> QED BY <1>3, <1>4 DEF CacheInv

LEMMA InvalidationFailsKeepsIInv ==
    ASSUME CacheInv, NEW w \in StockWriters, InvalidationFails(w) PROVE CacheInv'
<1>1. writing' \in [StockWriters -> WriterState]
      BY DEF InvalidationFails, CacheInv, CacheTypeOK, WriterState
<1>2. CacheTypeOK'
      BY <1>1 DEF InvalidationFails, CacheInv, CacheTypeOK
<1> QED BY <1>2 DEF InvalidationFails, CacheInv, StaleWasOvertaken

LEMMA StopKeepsIInv == ASSUME CacheInv, StockServiceStops PROVE CacheInv'
<1>1. CacheTypeOK'
      <2>1. writing' \in [StockWriters -> WriterState]
            BY DEF StockServiceStops, WriterState
      <2>2. DOMAIN inFlight' = {}
            BY DEF StockServiceStops
      <2> QED BY <2>1, <2>2 DEF StockServiceStops, CacheInv, CacheTypeOK
<1>2. CASE \E w \in StockWriters : writing[w] # NotWriting
      BY <1>1, <1>2 DEF StockServiceStops, CacheInv, StaleWasOvertaken
<1>3. CASE \A w \in StockWriters : writing[w] = NotWriting
      <2>1. \A f : ~ToBeDropped(f)
            BY <1>3, Stages DEF ToBeDropped
      <2> QED BY <1>1, <1>3, <2>1 DEF StockServiceStops, CacheInv, StaleWasOvertaken, Load
<1> QED BY <1>2, <1>3

-----------------------------------------------------------------------------
LEMMA CacheGoesOn == CacheInv /\ [CacheNext]_cacheVars => CacheInv'
<1> SUFFICES ASSUME CacheInv, [CacheNext]_cacheVars PROVE CacheInv'
    OBVIOUS
<1>1. CASE UNCHANGED cacheVars
      BY <1>1, FlightStep DEF cacheVars, CacheInv, CacheTypeOK
<1>2. CASE CacheNext
      BY <1>2, ReadingKeepsIInv, StoreViewKeepsIInv, StoredElsewhereKeepsIInv, ExpireKeepsIInv,
         CommitWorkKeepsIInv, ScanKeysKeepsIInv, UnlinkKeysKeepsIInv,
         InvalidationFailsKeepsIInv, StopKeepsIInv
         DEF CacheNext
<1> QED BY <1>1, <1>2

\* An entry that does not show the levels as they are has an excuse, for any
\* number of readers, writers, processes, failures and restarts.
THEOREM StaleEntriesWereOvertaken == CacheSpec => []StaleWasOvertaken
<1>1. CacheInv => StaleWasOvertaken
      BY DEF CacheInv
<1> QED BY <1>1, CacheStarts, CacheGoesOn, PTL DEF CacheSpec

\* Rows, flights and writers keep their types.
THEOREM CacheTypesCorrect == CacheSpec => []CacheTypeOK
<1>1. CacheInv => CacheTypeOK
      BY DEF CacheInv
<1> QED BY <1>1, CacheStarts, CacheGoesOn, PTL DEF CacheSpec

-----------------------------------------------------------------------------
(* The event store.                                                        *)

Queues == UNION {e.to : e \in Published}
Rows == {DomainEvent(i, e) : i \in Nat, e \in Published}

StoreTypeOK ==
    /\ sent \in Seq(Published) /\ announced \in Seq(SUBSET Queues)
    /\ Len(announced) = Len(sent)
    /\ publishing \in [Publishers -> 0 .. Len(sent)]
    /\ DOMAIN firehose \subseteq 1 .. Len(sent)
    /\ domainEvent \in Seq(Rows)

\* The event's own queues have it, or were not asked to take it at all costs.
Offered(i) == sent[i].key[1] = "customer" \/ announced[i] = sent[i].to

\* A publisher that has the mirror still before it has been through its queues,
\* and so has whoever put the message into the firehose.
OfferedInv ==
    /\ \A p \in Publishers : publishing[p] # 0 => Offered(publishing[p])
    /\ \A i \in DOMAIN firehose : Offered(i)

\* A row is made of a message that is in the firehose, and still is there.
LogRowsInv ==
    \A k \in DOMAIN domainEvent :
        /\ domainEvent[k].of \in DOMAIN firehose
        /\ domainEvent[k] = DomainEvent(domainEvent[k].of, sent[domainEvent[k].of])

\* UC_DOMAIN_EVENT_IDEMPOTENCY holds of the table.
KeysInv ==
    \A j, k \in DOMAIN domainEvent : DedupeKey(domainEvent[j]) = DedupeKey(domainEvent[k]) => j = k

LogInv == StoreTypeOK /\ OfferedInv /\ LogRowsInv /\ KeysInv

-----------------------------------------------------------------------------
LEMMA Appended ==
    ASSUME NEW S, NEW s \in Seq(S), NEW x \in S
    PROVE  /\ Append(s, x) \in Seq(S) /\ Len(Append(s, x)) = Len(s) + 1 /\ Len(s) \in Nat
           /\ DOMAIN s = 1 .. Len(s) /\ DOMAIN Append(s, x) = 1 .. Len(s) + 1
           /\ Append(s, x)[Len(s) + 1] = x
           /\ \A i \in 1 .. Len(s) : Append(s, x)[i] = s[i]
OBVIOUS

LEMMA LogStarts == StoreInit => LogInv
<1> SUFFICES ASSUME StoreInit PROVE LogInv
    OBVIOUS
<1>1. /\ sent \in Seq(Published) /\ Len(sent) = 0
      /\ announced \in Seq(SUBSET Queues) /\ Len(announced) = 0
      /\ domainEvent \in Seq(Rows) /\ DOMAIN domainEvent = {} /\ DOMAIN firehose = {}
      BY DEF StoreInit
<1>2. publishing \in [Publishers -> 0 .. 0] /\ \A p \in Publishers : publishing[p] = 0
      BY DEF StoreInit
<1> QED BY <1>1, <1>2 DEF LogInv, StoreTypeOK, OfferedInv, LogRowsInv, KeysInv

\* An event that is published: what was there before stands, and the publisher
\* is left with the mirror before it only if the queues took the event.
LEMMA SendKeepsLogInv ==
    ASSUME LogInv, NEW p \in Publishers, NEW e \in Published, NEW reached \in SUBSET e.to,
           Send(e, reached),
           publishing' \in {[publishing EXCEPT ![p] = 0], [publishing EXCEPT ![p] = Len(sent) + 1]},
           publishing'[p] # 0 => e.key[1] = "customer" \/ reached = e.to,
           UNCHANGED <<firehose, domainEvent>>
    PROVE  LogInv'
<1> DEFINE n == Len(sent)
<1>1. /\ sent \in Seq(Published) /\ announced \in Seq(SUBSET Queues) /\ Len(announced) = n
      /\ publishing \in [Publishers -> 0 .. n] /\ n \in Nat
      BY DEF LogInv, StoreTypeOK
<1>2. reached \in SUBSET Queues
      BY DEF Queues
<1>3. /\ sent' \in Seq(Published) /\ Len(sent') = n + 1
      /\ sent'[n + 1] = e /\ \A i \in 1 .. n : sent'[i] = sent[i]
      BY <1>1, Appended DEF Send
<1>4. /\ announced' \in Seq(SUBSET Queues) /\ Len(announced') = n + 1
      /\ announced'[n + 1] = reached /\ \A i \in 1 .. n : announced'[i] = announced[i]
      BY <1>1, <1>2, Appended DEF Send
<1>5. publishing' \in [Publishers -> 0 .. n + 1]
      BY <1>1
<1>6. StoreTypeOK'
      BY <1>1, <1>3, <1>4, <1>5 DEF LogInv, StoreTypeOK
<1>7. \A i \in 1 .. n : Offered(i)' <=> Offered(i)
      BY <1>3, <1>4 DEF Offered
<1>8. OfferedInv'
      <2>1. \A i \in DOMAIN firehose' : Offered(i)'
            BY <1>7 DEF LogInv, StoreTypeOK, OfferedInv
      <2>2. ASSUME NEW q \in Publishers, publishing'[q] # 0 PROVE Offered(publishing[q])'
            <3>1. CASE q = p
                  <4>1. publishing'[q] = n + 1
                        BY <1>1, <2>2, <3>1
                  <4> QED BY <1>3, <1>4, <2>2, <3>1, <4>1 DEF Offered
            <3>2. CASE q # p
                  <4>1. publishing'[q] = publishing[q] /\ publishing[q] \in 1 .. n
                        BY <1>1, <2>2, <3>2
                  <4> QED BY <1>7, <2>2, <4>1 DEF LogInv, OfferedInv
            <3> QED BY <3>1, <3>2
      <2> QED BY <2>1, <2>2 DEF OfferedInv
<1>9. LogRowsInv'
      <2> SUFFICES ASSUME NEW k \in DOMAIN domainEvent
                   PROVE  /\ domainEvent[k].of \in DOMAIN firehose
                          /\ domainEvent[k] = DomainEvent(domainEvent[k].of, sent'[domainEvent[k].of])
          BY DEF LogRowsInv
      <2>1. domainEvent[k].of \in DOMAIN firehose
            BY DEF LogInv, LogRowsInv
      <2>2. sent'[domainEvent[k].of] = sent[domainEvent[k].of]
            BY <1>3, <2>1 DEF LogInv, StoreTypeOK
      <2>3. domainEvent[k] = DomainEvent(domainEvent[k].of, sent[domainEvent[k].of])
            BY DEF LogInv, LogRowsInv
      <2> QED BY <2>1, <2>2, <2>3
<1>10. KeysInv'
      BY DEF LogInv, KeysInv, DedupeKey
<1> QED BY <1>6, <1>8, <1>9, <1>10 DEF LogInv

\* The mirror, and whatever the queue does with what it has.
LEMMA QueueKeepsLogInv ==
    ASSUME LogInv, UNCHANGED <<sent, announced, domainEvent>>,
           publishing' \in [Publishers -> 0 .. Len(sent)],
           \A p \in Publishers : publishing'[p] # 0 => publishing'[p] = publishing[p],
           DOMAIN firehose \subseteq DOMAIN firehose', DOMAIN firehose' \subseteq 1 .. Len(sent),
           \A i \in DOMAIN firehose' : Offered(i)
    PROVE  LogInv'
<1>1. StoreTypeOK'
      BY DEF LogInv, StoreTypeOK
<1>2. OfferedInv'
      BY DEF LogInv, OfferedInv, Offered
<1>3. LogRowsInv'
      <2>1. \A k \in DOMAIN domainEvent :
                /\ domainEvent[k].of \in DOMAIN firehose'
                /\ domainEvent[k] = DomainEvent(domainEvent[k].of, sent[domainEvent[k].of])
            BY DEF LogInv, LogRowsInv
      <2> QED BY <2>1 DEF LogRowsInv
<1>4. KeysInv'
      BY DEF LogInv, KeysInv, DedupeKey
<1> QED BY <1>1, <1>2, <1>3, <1>4 DEF LogInv

LEMMA MirrorKeepsLogInv ==
    ASSUME LogInv, NEW p \in Publishers, Mirror(p) \/ MirrorIsLost(p)
    PROVE  LogInv'
<1> DEFINE i == publishing[p]
<1>1. /\ publishing \in [Publishers -> 0 .. Len(sent)] /\ Len(sent) \in Nat
      /\ DOMAIN firehose \subseteq 1 .. Len(sent) /\ \A j \in DOMAIN firehose : Offered(j)
      BY DEF LogInv, StoreTypeOK, OfferedInv
<1>2. /\ publishing' = [publishing EXCEPT ![p] = 0] /\ i # 0
      /\ UNCHANGED <<sent, announced, domainEvent>>
      BY DEF Mirror, MirrorIsLost
<1>3. /\ publishing' \in [Publishers -> 0 .. Len(sent)]
      /\ \A q \in Publishers : publishing'[q] # 0 => publishing'[q] = publishing[q]
      BY <1>1, <1>2
<1>4. i \in 1 .. Len(sent) /\ Offered(i)
      BY <1>1, <1>2 DEF LogInv, OfferedInv
<1>5. DOMAIN firehose' = DOMAIN firehose \/ DOMAIN firehose' = DOMAIN firehose \cup {i}
      BY DEF Mirror, MirrorIsLost
<1> QED BY <1>1, <1>2, <1>3, <1>4, <1>5, QueueKeepsLogInv

LEMMA QueueOnlyKeepsLogInv ==
    ASSUME LogInv, UNCHANGED <<sent, announced, publishing, domainEvent>>,
           DOMAIN firehose' = DOMAIN firehose
    PROVE  LogInv'
<1>1. /\ publishing \in [Publishers -> 0 .. Len(sent)]
      /\ DOMAIN firehose \subseteq 1 .. Len(sent) /\ \A j \in DOMAIN firehose : Offered(j)
      BY DEF LogInv, StoreTypeOK, OfferedInv
<1> QED BY <1>1, QueueKeepsLogInv

\* A row that is added has a key no other row has, and comes from the message
\* in hand.
LEMMA IngestKeepsLogInv ==
    ASSUME LogInv, NEW i \in EventIds, OnFirehoseEvent(i)
    PROVE  LogInv'
<1> DEFINE row == DomainEvent(i, sent[i])
<1>1. /\ i \in DOMAIN firehose /\ DOMAIN firehose' = DOMAIN firehose
      /\ UNCHANGED <<sent, announced, publishing>>
      BY DEF OnFirehoseEvent, Deliver
<1>2. CASE UNCHANGED domainEvent
      BY <1>1, <1>2, QueueOnlyKeepsLogInv
<1>3. CASE domainEvent' = Append(domainEvent, row) /\ ~IsDuplicateEntry(row)
      <2> DEFINE n == Len(domainEvent)
      <2>1. i \in Nat /\ sent[i] \in Published
            BY <1>1 DEF LogInv, StoreTypeOK
      <2>2. row \in Rows
            BY <2>1 DEF Rows
      <2>3. row.of = i
            BY DEF DomainEvent
      <2> HIDE DEF row
      <2>4. /\ domainEvent' \in Seq(Rows) /\ n \in Nat /\ DOMAIN domainEvent = 1 .. n
            /\ DOMAIN domainEvent' = 1 .. n + 1 /\ domainEvent'[n + 1] = row
            /\ \A k \in 1 .. n : domainEvent'[k] = domainEvent[k]
            BY <1>3, <2>2, Appended DEF LogInv, StoreTypeOK
      <2>5. StoreTypeOK'
            BY <1>1, <2>4 DEF LogInv, StoreTypeOK
      <2>6. OfferedInv'
            BY <1>1 DEF LogInv, OfferedInv, Offered
      <2>7. LogRowsInv'
            <3> SUFFICES ASSUME NEW k \in DOMAIN domainEvent'
                         PROVE  /\ domainEvent'[k].of \in DOMAIN firehose
                                /\ domainEvent'[k] = DomainEvent(domainEvent'[k].of, sent[domainEvent'[k].of])
                BY <1>1 DEF LogRowsInv
            <3>1. CASE k = n + 1
                  BY <1>1, <2>3, <2>4, <3>1 DEF row
            <3>2. CASE k # n + 1
                  <4>1. k \in DOMAIN domainEvent /\ domainEvent'[k] = domainEvent[k]
                        BY <2>4, <3>2
                  <4> QED BY <4>1 DEF LogInv, LogRowsInv
            <3> QED BY <3>1, <3>2
      <2>8. KeysInv'
            <3>1. \A k \in 1 .. n : DedupeKey(domainEvent[k]) # DedupeKey(row)
                  BY <1>3, <2>4 DEF IsDuplicateEntry
            <3>2. \A j, k \in 1 .. n : DedupeKey(domainEvent[j]) = DedupeKey(domainEvent[k]) => j = k
                  BY <2>4 DEF LogInv, KeysInv
            <3> SUFFICES ASSUME NEW j \in 1 .. n + 1, NEW k \in 1 .. n + 1,
                                DedupeKey(domainEvent'[j]) = DedupeKey(domainEvent'[k])
                         PROVE  j = k
                BY <2>4 DEF KeysInv, DedupeKey
            <3>3. CASE j = n + 1 /\ k # n + 1
                  <4>1. k \in 1 .. n /\ domainEvent'[k] = domainEvent[k] /\ domainEvent'[j] = row
                        BY <2>4, <3>3
                  <4> QED BY <3>1, <4>1
            <3>4. CASE k = n + 1 /\ j # n + 1
                  <4>1. j \in 1 .. n /\ domainEvent'[j] = domainEvent[j] /\ domainEvent'[k] = row
                        BY <2>4, <3>4
                  <4> QED BY <3>1, <4>1
            <3>5. CASE j # n + 1 /\ k # n + 1
                  <4>1. /\ j \in 1 .. n /\ k \in 1 .. n
                        /\ domainEvent'[j] = domainEvent[j] /\ domainEvent'[k] = domainEvent[k]
                        BY <2>4, <3>5
                  <4> QED BY <3>2, <4>1
            <3> QED BY <3>3, <3>4, <3>5
      <2> QED BY <2>5, <2>6, <2>7, <2>8 DEF LogInv
<1> QED BY <1>2, <1>3 DEF OnFirehoseEvent, IngestAuditLog, IngestDomainEvent, AppendDomainEvent

LEMMA NextKeepsLogInv == LogInv /\ [StoreNext]_storeVars => LogInv'
<1> SUFFICES ASSUME LogInv, [StoreNext]_storeVars PROVE LogInv'
    OBVIOUS
<1>1. ASSUME NEW p \in Publishers, NEW e \in Published, AnnounceDirectly(p, e) PROVE LogInv'
      BY <1>1, SendKeepsLogInv DEF AnnounceDirectly
<1>2. ASSUME NEW p \in Publishers, NEW e \in Published, AnnounceFails(p, e) PROVE LogInv'
      <2>1. PICK reached \in SUBSET e.to : Send(e, reached)
            BY <1>2 DEF AnnounceFails
      <2>2. publishing \in [Publishers -> 0 .. Len(sent)]
            BY DEF LogInv, StoreTypeOK
      <2>3. CASE BestEffort(e)
            BY <1>2, <2>1, <2>3, SendKeepsLogInv DEF AnnounceFails, BestEffort
      <2>4. CASE ~BestEffort(e)
            <3>1. publishing' = [publishing EXCEPT ![p] = 0] /\ UNCHANGED <<firehose, domainEvent>>
                  BY <1>2, <2>4 DEF AnnounceFails
            <3>2. publishing'[p] = 0
                  BY <2>2, <3>1
            <3> QED BY <2>1, <3>1, <3>2, SendKeepsLogInv
      <2> QED BY <2>3, <2>4
<1>3. ASSUME NEW p \in Publishers, Mirror(p) \/ MirrorIsLost(p) PROVE LogInv'
      BY <1>3, MirrorKeepsLogInv
<1>4. ASSUME NEW i \in EventIds, OnFirehoseEvent(i) PROVE LogInv'
      BY <1>4, IngestKeepsLogInv
<1>5. ASSUME NEW i \in EventIds, IngestFails(i) PROVE LogInv'
      BY <1>5, QueueOnlyKeepsLogInv DEF IngestFails, Deliver
<1>6. CASE ChannelCloses
      BY <1>6, QueueOnlyKeepsLogInv DEF ChannelCloses
<1>7. CASE UNCHANGED storeVars
      BY <1>7, QueueOnlyKeepsLogInv DEF storeVars
<1> QED BY <1>1, <1>2, <1>3, <1>4, <1>5, <1>6, <1>7 DEF StoreNext

LEMMA LogInvIsEnough == LogInv => LogIsTrue
<1> SUFFICES ASSUME LogInv PROVE LogIsTrue
    OBVIOUS
<1>1. LoggedWasAnnounced
      BY DEF LogInv, LogRowsInv, OfferedInv, Offered, LoggedWasAnnounced
<1>2. OneRowPerMessage
      <2> SUFFICES ASSUME NEW j \in DOMAIN domainEvent, NEW k \in DOMAIN domainEvent,
                          domainEvent[j].of = domainEvent[k].of
                   PROVE  j = k
          BY DEF OneRowPerMessage
      <2>1. domainEvent[j] = domainEvent[k]
            BY DEF LogInv, LogRowsInv
      <2> QED BY <2>1 DEF LogInv, KeysInv
<1> QED BY <1>1, <1>2 DEF LogIsTrue

\* The log holds every message once at most, whatever is delivered again, and
\* none whose own queues were not offered the event.
THEOREM LogStaysTrue == StoreInit /\ [][StoreNext]_storeVars => []LogIsTrue
<1> QED BY LogStarts, NextKeepsLogInv, LogInvIsEnough, PTL

-----------------------------------------------------------------------------
(* A request at the gateway.                                               *)

StaffKeys == {right[2] : right \in StaffRights}

\* A permission of the user is one that the operation is for.
Entitled(user, key) == \E p \in user.permissions : <<p, key>> \in StaffRights

\* The operations that retail leaves to the permission at the gateway.
GuardedKeys == StaffReturnKeys \cup {"retail.refund.issue"}

\* What a command brings to the access rule of retail: the permission, or the
\* name of the user and no claim to be staff.
CommandFits(user, command) ==
    command.to.key \in StaffKeys =>
        \/ Entitled(user, command.to.key)
        \/ ~command.staff /\ command.actor = user.id /\ command.to.key \notin GuardedKeys

CallInv ==
    /\ call.phase = "arrived" => call.endpoint \in Endpoints
    /\ call.phase = "sent" => CommandFits(call.user, call.command)
    /\ call.phase = "probing" => call = [phase |-> "probing", probes |-> call.probes]
    /\ AnswersAreRight

-----------------------------------------------------------------------------
(* The status of an answer.                                                *)

Errors == {400, 403, 404, 409, 422}

LEMMA DomainStatuses == \A controller : DomainErrors(controller) \subseteq Errors
BY DEF DomainErrors, Errors, CatalogErrors, PricingErrors, InventoryErrors, NotificationErrors,
   CartErrors, OrderErrors, ReturnErrors

LEMMA ErrorsCross ==
    ASSUME NEW status \in Errors
    PROVE  ThrowRpcError(Rejection(status, TRUE)) = status
BY DEF Errors, ThrowRpcError, Rejection

LEMMA RefusalStatuses ==
    ASSUME NEW command, NEW owner
    PROVE  RefuseStranger(command, owner) \in {0, 403, 404}
BY DEF RefuseStranger

LEMMA AccessStatuses ==
    ASSUME NEW command, NEW owner
    PROVE  Access(command, owner) \in {0, 403, 404}
<1>1. \A c : RefuseStranger(c, owner) \in {0, 403, 404}
      BY RefusalStatuses
<1>2. CancelLineAccess(command, owner) \in {0, 403, 404} /\ LoadReturnById(owner) \in {0, 404}
      BY DEF CancelLineAccess, LoadReturnById
<1> QED BY <1>1, <1>2 DEF Access, LoadAuthorizedOrder, LoadOwnedCart, LoadOwnedReturn, PlaceAccess,
       ListRefundsAccess, OpenReturnAccess, ListReturnsAccess

\* Retail lets nobody but the owner through who does not come as staff.
LEMMA OwnersOnly ==
    ASSUME NEW command, NEW owner, ~command.staff, command.to.key \in StaffKeys \ GuardedKeys,
           Access(command, owner) = 0
    PROVE  owner = command.actor
<1> DEFINE key == command.to.key
<1>1. key \in AuthorizedOrderKeys \cup {"retail.order.cancel-line", "retail.refund.list",
                                        "retail.return.open", "retail.return.list",
                                        "retail.return.get"}
      BY DEF StaffKeys, StaffRights, GuardedKeys, StaffReturnKeys, AuthorizedOrderKeys
<1>2. Access(command, owner) = RefuseStranger(command, owner) \/ key = "retail.order.cancel-line"
      BY <1>1 DEF Access, AuthorizedOrderKeys, OwnedCartKeys, StaffReturnKeys, LoadAuthorizedOrder,
         LoadOwnedReturn, ListRefundsAccess, OpenReturnAccess, ListReturnsAccess
<1>3. key = "retail.order.cancel-line" => Access(command, owner) = CancelLineAccess(command, owner)
      BY DEF Access, AuthorizedOrderKeys, OwnedCartKeys, StaffReturnKeys
<1>4. CancelLineAccess(command, owner) # 0
      BY DEF CancelLineAccess
<1>5. RefuseStranger(command, owner) = 0 => owner = command.actor
      BY DEF RefuseStranger
<1> QED BY <1>2, <1>3, <1>4, <1>5

-----------------------------------------------------------------------------
(* The command of an admitted request.                                     *)

\* The use case compares the permission of the operation, or else the
\* service compares the name.
LEMMA FlaggedFits ==
    ASSUME NEW p, NEW to, <<p, to.key>> \in StaffRights, to.key \notin GuardedKeys, NEW user
    PROVE  CommandFits(user, AsStaffWith(p, user, to))
BY DEF CommandFits, AsStaffWith, Command, Entitled

\* The guard of the route compared it before.
LEMMA GuardedFits ==
    ASSUME NEW p, NEW to, <<p, to.key>> \in StaffRights, NEW user, p \in user.permissions
    PROVE  CommandFits(user, As(user, to))
BY DEF CommandFits, As, Command, Entitled

LEMMA RequiredIsHeld ==
    ASSUME NEW p, NEW user, NEW route, route.required = {p}, PermissionsGuard(route, user)
    PROVE  p \in user.permissions
BY DEF PermissionsGuard, EnforceRequiredClaim

\* The other controllers reach no operation on an order, a refund or a return.
LEMMA ElsewhereFits ==
    ASSUME NEW user, NEW from, NEW c \in DOMAIN ForwardedRoutes \ {"orders", "refunds", "returns"},
           NEW r \in DOMAIN ForwardedRoutes[c]
    PROVE  CommandFits(user, Commands(user, from)[c][r])
<1> DEFINE Sent(port) == {port[m] : m \in DOMAIN port}
<1>1. \A to \in Sent(CatalogPort) \cup Sent(InventoryPort) \cup Sent(CartPort)
              \cup Sent(NotificationsPort) \cup Sent(AuditPort) : to.key \notin StaffKeys
      BY SMTT(40) DEF CatalogPort, InventoryPort, CartPort, NotificationsPort, AuditPort, To, StaffKeys,
         StaffRights
<1>2. CASE c = "catalog"
      <2>1. r \in DOMAIN CatalogRoutes
            BY <1>2 DEF ForwardedRoutes
      <2>2. Commands(user, from).catalog[r].to \in Sent(CatalogPort)
            <3> DEFINE Those == {RegisterProduct, AddVariant, PublishProduct, ArchiveProduct, ListProducts,
                                 GetProduct, GetVariant, SetPrice, ListPrices, GetApplicablePrice,
                                 CreateTaxCategory, ListTaxCategories, AttachVariantTaxCategory}
            <3>1. Commands(user, from).catalog[r] \in Those
                  BY <2>1 DEF CatalogRoutes, Commands
            <3>2. \A x \in Those : x.to \in Sent(CatalogPort)
                  BY DEF RegisterProduct, AddVariant, PublishProduct, ArchiveProduct, ListProducts,
                     GetProduct, GetVariant, SetPrice, ListPrices, GetApplicablePrice,
                     CreateTaxCategory, ListTaxCategories, AttachVariantTaxCategory, Forward,
                     Command, CatalogPort
            <3> QED BY <3>1, <3>2
      <2> QED BY <1>1, <1>2, <2>2 DEF CommandFits
<1>3. CASE c = "category"
      <2>1. r \in DOMAIN CategoryRoutes
            BY <1>3 DEF ForwardedRoutes
      <2>2. Commands(user, from).category[r].to \in Sent(CatalogPort)
            BY <2>1 DEF CategoryRoutes, Commands, CreateCategory, ReparentCategory, ListCategories,
               GetCategoryTree, ListCategoryProducts, AttachProductCategories, DetachProductCategory,
               Forward, Command, CatalogPort
      <2> QED BY <1>1, <1>3, <2>2 DEF CommandFits
<1>4. CASE c = "media"
      <2>1. r \in DOMAIN MediaRoutes
            BY <1>4 DEF ForwardedRoutes
      <2>2. Commands(user, from).media[r].to \in Sent(CatalogPort)
            BY <2>1 DEF MediaRoutes, Commands, AttachMedia, ReorderMedia, DetachMedia, ListMedia,
               Forward, Command, CatalogPort
      <2> QED BY <1>1, <1>4, <2>2 DEF CommandFits
<1>5. CASE c = "inventory"
      <2>1. r \in DOMAIN InventoryRoutes
            BY <1>5 DEF ForwardedRoutes
      <2>2. Commands(user, from).inventory[r].to \in Sent(InventoryPort)
            BY <2>1 DEF InventoryRoutes, Commands, ListLocations, GetVariantStock,
               ListVariantMovements, ReceiveStock, AdjustStock, TransferStock, SweepReservations,
               ReleaseReservation, As, Forward, Command, InventoryPort
      <2> QED BY <1>1, <1>5, <2>2 DEF CommandFits
<1>6. CASE c = "cart"
      <2>1. r \in DOMAIN CartRoutes
            BY <1>6 DEF ForwardedRoutes
      <2>2. Commands(user, from).cart[r].to \in Sent(CartPort)
            BY <2>1 DEF CartRoutes, Commands, CreateCart, GetCart, AddToCart,
               ChangeCartLineQuantity, RemoveFromCart, ClaimCart, PlaceCartOrder, As, Command, CartPort
      <2> QED BY <1>1, <1>6, <2>2 DEF CommandFits
<1>7. CASE c = "notifications"
      <2>1. r \in DOMAIN NotificationRoutes
            BY <1>7 DEF ForwardedRoutes
      <2>2. Commands(user, from).notifications[r].to \in Sent(NotificationsPort)
            BY <2>1 DEF NotificationRoutes, Commands, ListTemplates, AuthorTemplate,
               SetTemplateActive, ListDeliveries, GetDelivery, RetryDelivery, SendMarketing, Forward,
               Command, NotificationsPort
      <2> QED BY <1>1, <1>7, <2>2 DEF CommandFits
<1>8. CASE c = "audit"
      <2>1. r \in DOMAIN AuditRoutes
            BY <1>8 DEF ForwardedRoutes
      <2>2. Commands(user, from).audit[r].to \in Sent(AuditPort)
            BY <2>1 DEF AuditRoutes, Commands, QueryEvents, QueryEntries, QueryTrace, Forward,
               Command, AuditPort
      <2> QED BY <1>1, <1>8, <2>2 DEF CommandFits
<1> QED BY <1>2, <1>3, <1>4, <1>5, <1>6, <1>7, <1>8 DEF ForwardedRoutes

LEMMA OrderCommandsFit ==
    ASSUME NEW user, NEW from, NEW r \in DOMAIN OrderRoutes
    PROVE  CommandFits(user, Commands(user, from).orders[r])
<1>1. \A p, to : <<p, to.key>> \in StaffRights /\ to.key \notin GuardedKeys
                    => CommandFits(user, AsStaffWith(p, user, to))
      BY FlaggedFits
<1>2. /\ CommandFits(user, GetOrder(user)) /\ CommandFits(user, CapturePayment(user))
      /\ CommandFits(user, ListFulfillments(user)) /\ CommandFits(user, MarkDelivered(user))
      /\ CommandFits(user, CreateFulfillment(user)) /\ CommandFits(user, ShipFulfillment(user))
      /\ CommandFits(user, CancelOrder(user)) /\ CommandFits(user, CancelLine(user))
      BY <1>1 DEF GetOrder, CapturePayment, ListFulfillments, MarkDelivered, CreateFulfillment,
         ShipFulfillment, CancelOrder, CancelLine, OrdersPort, To, StaffRights, GuardedKeys,
         StaffReturnKeys
<1>3. CommandFits(user, ListMyOrders(user))
      BY DEF CommandFits, ListMyOrders, As, Command, OrdersPort, To, StaffKeys, StaffRights
<1>4. Commands(user, from).orders[r] \in
         {ListMyOrders(user), GetOrder(user), CapturePayment(user), CreateFulfillment(user),
          ListFulfillments(user), ShipFulfillment(user), MarkDelivered(user), CancelOrder(user),
          CancelLine(user)}
      BY DEF OrderRoutes, Commands
<1> QED BY <1>2, <1>3, <1>4

LEMMA RefundCommandsFit ==
    ASSUME NEW user, NEW from, NEW r \in DOMAIN RefundRoutes,
           PermissionsGuard(RefundRoutes[r], user)
    PROVE  CommandFits(user, Commands(user, from).refunds[r])
<1>1. CASE r = "listRefunds"
      <2>1. CommandFits(user, ListRefunds(user))
            BY FlaggedFits DEF ListRefunds, OrdersPort, To, StaffRights, GuardedKeys,
               StaffReturnKeys
      <2> QED BY <1>1, <2>1 DEF Commands
<1>2. CASE r = "issueRefund"
      <2>1. RefundRoutes[r].required = {"order:refund"}
            BY <1>2 DEF RefundRoutes, WithIdempotencyKey, RequiresPermission, Route
      <2>2. CommandFits(user, IssueRefund(user))
            BY <2>1, RequiredIsHeld, GuardedFits DEF IssueRefund, OrdersPort, To, StaffRights
      <2> QED BY <1>2, <2>2 DEF Commands
<1> QED BY <1>1, <1>2 DEF RefundRoutes

LEMMA ReturnCommandsFit ==
    ASSUME NEW user, NEW from, NEW r \in DOMAIN ReturnRoutes,
           PermissionsGuard(ReturnRoutes[r], user)
    PROVE  CommandFits(user, Commands(user, from).returns[r])
<1>1. CASE r \in {"openReturn", "listOrderReturns", "getReturn"}
      <2>1. \A p, to : <<p, to.key>> \in StaffRights /\ to.key \notin GuardedKeys
                          => CommandFits(user, AsStaffWith(p, user, to))
            BY FlaggedFits
      <2>2. /\ CommandFits(user, OpenReturn(user)) /\ CommandFits(user, GetReturn(user))
            /\ CommandFits(user, ListOrderReturns(user))
            BY <2>1 DEF OpenReturn, GetReturn, ListOrderReturns, ReturnsPort, To, StaffRights,
               GuardedKeys, StaffReturnKeys
      <2> QED BY <1>1, <2>2 DEF Commands
<1>2. CASE r \in {"authorizeReturn", "rejectReturn", "closeReturn"}
      <2>1. ReturnRoutes[r].required = {"order:return-authorize"}
            BY <1>2 DEF ReturnRoutes, RequiresPermission, Route
      <2>2. \A to : <<"order:return-authorize", to.key>> \in StaffRights
                       => CommandFits(user, As(user, to))
            BY <2>1, RequiredIsHeld, GuardedFits
      <2>3. /\ CommandFits(user, AuthorizeReturn(user)) /\ CommandFits(user, RejectReturn(user))
            /\ CommandFits(user, CloseReturn(user))
            BY <2>2 DEF AuthorizeReturn, RejectReturn, CloseReturn, ReturnsPort, To, StaffRights
      <2> QED BY <1>2, <2>3 DEF Commands
<1>3. CASE r \in {"receiveReturn", "inspectReturn"}
      <2>1. ReturnRoutes[r].required = {"inventory:receive-return"}
            BY <1>3 DEF ReturnRoutes, RequiresPermission, Route
      <2>2. \A to : <<"inventory:receive-return", to.key>> \in StaffRights
                       => CommandFits(user, As(user, to))
            BY <2>1, RequiredIsHeld, GuardedFits
      <2>3. CommandFits(user, ReceiveReturn(user)) /\ CommandFits(user, InspectReturn(user))
            BY <2>2 DEF ReceiveReturn, InspectReturn, ReturnsPort, To, StaffRights
      <2> QED BY <1>3, <2>3 DEF Commands
<1> QED BY <1>1, <1>2, <1>3 DEF ReturnRoutes

LEMMA AdmittedCommandsFit ==
    ASSUME NEW user, NEW from, NEW c \in DOMAIN ForwardedRoutes,
           NEW r \in DOMAIN ForwardedRoutes[c], PermissionsGuard(ForwardedRoutes[c][r], user)
    PROVE  CommandFits(user, Commands(user, from)[c][r])
<1>1. CASE c = "orders"
      BY <1>1, OrderCommandsFit DEF ForwardedRoutes
<1>2. CASE c = "refunds"
      BY <1>2, RefundCommandsFit DEF ForwardedRoutes
<1>3. CASE c = "returns"
      BY <1>3, ReturnCommandsFit DEF ForwardedRoutes
<1> QED BY <1>1, <1>2, <1>3, ElsewhereFits

\* What the guards admit of a request that has arrived.
LEMMA AdmittedForwards ==
    ASSUME CallInv, Admitted, call.endpoint[1] \in DOMAIN ForwardedRoutes, NEW from
    PROVE  CommandFits(call.user, Commands(call.user, from)[call.endpoint[1]][call.endpoint[2]])
<1> DEFINE c == call.endpoint[1]
           r == call.endpoint[2]
<1>1. /\ call.endpoint \in Endpoints
      /\ PermissionsGuard(RouteTable(c)[r], call.user)
      BY DEF CallInv, Admitted, RouteAt
<1>2. c \notin DOMAIN LocalRoutes /\ c # "health"
      BY DEF LocalRoutes, ForwardedRoutes
<1>3. r \in DOMAIN ForwardedRoutes[c]
      <2>1. \A table : call.endpoint \in RouteOf(table) =>
                           c \in DOMAIN table /\ r \in DOMAIN table[c]
            BY DEF RouteOf
      <2>2. call.endpoint \notin RouteOf(LocalRoutes)
            BY <1>2, <2>1
      <2>3. call.endpoint # <<"health", "check">>
            BY <1>2
      <2>4. call.endpoint \in RouteOf(ForwardedRoutes)
            BY <1>1, <2>2, <2>3 DEF Endpoints
      <2> QED BY <2>1, <2>4
<1>4. RouteTable(c) = ForwardedRoutes[c]
      BY <1>2 DEF RouteTable
<1> QED BY <1>1, <1>3, <1>4, AdmittedCommandsFit

-----------------------------------------------------------------------------
(* Every step.                                                             *)

\* An answer of a service.
LEMMA ReplyFits ==
    ASSUME NEW key, NEW raised, NEW status, call' = Reply(key, raised, status),
           raised # 0 => status = raised,
           status = 200 /\ key \in StaffKeys => call.user.id = call.owner \/ Entitled(call.user, key)
    PROVE  CallInv'
<1>1. /\ call'.phase = "answered" /\ call'.user = call.user /\ call'.owner = call.owner
      /\ call'.key = key /\ call'.raised = raised /\ call'.status = status
      BY DEF Reply
<1>2. ServedByRight'
      BY <1>1 DEF ServedByRight, StaffKeys, Entitled
<1>3. StatusSurvives'
      BY <1>1 DEF StatusSurvives
<1> QED BY <1>1, <1>2, <1>3 DEF CallInv, AnswersAreRight

\* A request that is not answered yet keeps the promises about answers.
LEMMA Unanswered ==
    ASSUME call'.phase # "answered"
    PROVE  AnswersAreRight'
BY DEF AnswersAreRight, ServedByRight, StatusSurvives

LEMMA HandleFits == ASSUME CallInv, Handle PROVE CallInv'
<1> DEFINE command == call.command
           key == command.to.key
           refusal == Access(command, call.owner)
<1>1. CommandFits(call.user, command)
      BY DEF CallInv, Handle
<1>2. ASSUME refusal = 0, key \in StaffKeys
      PROVE  call.user.id = call.owner \/ Entitled(call.user, key)
      BY <1>1, <1>2, OwnersOnly DEF CommandFits
<1>3. refusal \in {0, 403, 404}
      BY AccessStatuses
<1>4. ASSUME NEW status \in Errors,
             \/ call' = Reply(key, status, ThrowRpcError(Rejection(status, TRUE)))
             \/ call' = Reply(key, status, ThrowRpcError(SendPreservingRpcError(Rejection(status, TRUE))))
      PROVE  CallInv'
      <2>1. call' = Reply(key, status, status)
            BY <1>4, ErrorsCross DEF SendPreservingRpcError
      <2>2. status # 200
            BY DEF Errors
      <2> HIDE DEF key
      <2> QED BY <2>1, <2>2, ReplyFits
<1>5. ASSUME refusal = 0, call' = Reply(key, 0, 200) PROVE CallInv'
      <2> HIDE DEF key
      <2> QED BY <1>2, <1>5, ReplyFits
<1>6. ASSUME call' = Reply(key, 0, ThrowRpcError(Unknown)) PROVE CallInv'
      <2>1. ThrowRpcError(Unknown) = 500
            BY DEF ThrowRpcError, Unknown, Rejection
      <2> HIDE DEF key
      <2> QED BY <1>6, <2>1, ReplyFits
<1>7. PICK controller : HandledBy(controller)
      BY DEF Handle
<1>8. CASE refusal # 0
      <2>1. refusal \in Errors
            BY <1>3, <1>8 DEF Errors
      <2>2. call' = Reply(key, refusal, ThrowRpcError(Rejection(refusal, TRUE)))
            BY <1>7, <1>8 DEF HandledBy
      <2> QED BY <1>4, <2>1, <2>2
<1>9. CASE refusal = 0
      <2>1. InventoryErrors \subseteq Errors /\ DomainErrors(controller) \subseteq Errors
            BY DomainStatuses DEF InventoryErrors, Errors
      <2> HIDE DEF refusal, key
      <2>2. \/ call' = Reply(key, 0, 200)
            \/ \E status \in DomainErrors(controller) :
                  call' = Reply(key, status, ThrowRpcError(Rejection(status, TRUE)))
            \/ \E status \in InventoryErrors :
                  call' = Reply(key, status,
                                ThrowRpcError(SendPreservingRpcError(Rejection(status, TRUE))))
            \/ call' = Reply(key, 0, ThrowRpcError(Unknown))
            BY <1>7, <1>9 DEF HandledBy, refusal, key
      <2> QED BY <1>4, <1>5, <1>6, <1>9, <2>1, <2>2
<1> QED BY <1>8, <1>9

\* The gateway's own answers are for no operation of retail.
LEMMA AnsweredFits == ASSUME NEW status, call' = Answered(status) PROVE CallInv'
<1>1. call'.phase = "answered" /\ call'.key = "none" /\ call'.raised = 0
      BY DEF Answered
<1>2. "none" \notin {right[2] : right \in StaffRights}
      BY DEF StaffRights
<1> QED BY <1>1, <1>2 DEF CallInv, AnswersAreRight, ServedByRight, StatusSurvives

LEMMA ProbeFits ==
    ASSUME CallInv,
           ProbeAll \/ CheckHealth \/ \E s, result : Settle(s, result)
    PROVE  CallInv'
<1>1. CASE ProbeAll
      <2>1. call'.phase = "probing" /\ call' = [phase |-> "probing", probes |-> call'.probes]
            BY <1>1 DEF ProbeAll
      <2> QED BY <2>1, Unanswered DEF CallInv
<1>2. CASE CheckHealth
      <2>1. call'.phase = "reported"
            BY <1>2 DEF CheckHealth
      <2> QED BY <2>1, Unanswered DEF CallInv
<1>3. ASSUME NEW s, NEW result, Settle(s, result) PROVE CallInv'
      <2>1. call = [phase |-> "probing", probes |-> call.probes]
            BY <1>3 DEF Settle, CallInv
      <2>2. call' = [call EXCEPT !.probes = [call.probes EXCEPT ![s] = result]]
            BY <1>3 DEF Settle
      <2>3. call'.phase = "probing" /\ call' = [phase |-> "probing", probes |-> call'.probes]
            BY <2>1, <2>2
      <2> QED BY <2>3, Unanswered DEF CallInv
<1> QED BY <1>1, <1>2, <1>3

LEMMA CallGoesOn == CallInv /\ [GatewayNext]_call => CallInv'
<1> SUFFICES ASSUME CallInv, [GatewayNext]_call PROVE CallInv'
    OBVIOUS
<1>1. CASE Arrive
      <2>1. call'.phase = "arrived" /\ call'.endpoint \in Endpoints
            BY <1>1 DEF Arrive, HttpRequest
      <2> QED BY <2>1, Unanswered DEF CallInv
<1>2. CASE Refuse \/ AnswerLocally
      BY <1>2, AnsweredFits DEF Refuse, AnswerLocally
<1>3. CASE SendCommand
      <2>1. PICK from :
               call' = [phase |-> "sent", endpoint |-> call.endpoint, user |-> call.user,
                        owner |-> call.owner,
                        command |-> Commands(call.user, from)[call.endpoint[1]][call.endpoint[2]]]
            BY <1>3 DEF SendCommand
      <2>2. CommandFits(call.user, Commands(call.user, from)[call.endpoint[1]][call.endpoint[2]])
            BY <1>3, AdmittedForwards DEF SendCommand
      <2>3. call'.phase = "sent" /\ CommandFits(call'.user, call'.command)
            BY <2>1, <2>2
      <2> QED BY <2>3, Unanswered DEF CallInv
<1>4. CASE Handle
      BY <1>4, HandleFits
<1>5. CASE ServiceStops
      <2>1. call'.phase = "waiting"
            BY <1>5 DEF ServiceStops
      <2> QED BY <2>1, Unanswered DEF CallInv
<1>6. CASE ClientLeaves \/ HealthRead
      <2>1. call'.phase = "none"
            BY <1>6 DEF ClientLeaves, HealthRead, NoCall
      <2> QED BY <2>1, Unanswered DEF CallInv
<1>7. CASE ProbeAll \/ CheckHealth \/ \E s \in DOMAIN HealthTargets :
                                         PingAnswered(s) \/ PingFails(s) \/ ProbeOne(s)
      BY <1>7, ProbeFits DEF PingAnswered, PingFails, ProbeOne
<1>8. CASE call' = call
      BY <1>8 DEF CallInv, AnswersAreRight, ServedByRight, StatusSurvives
<1> QED BY <1>1, <1>2, <1>3, <1>4, <1>5, <1>6, <1>7, <1>8 DEF GatewayNext

\* Whoever gets an answer may have it, and a refusal comes as the service
\* meant it, for any set of customers and whoever calls: the guard of each
\* route, the flag of its command and the access rule behind it leave no gap.
THEOREM AnswersStayRight == GatewayInit /\ [][GatewayNext]_call => []AnswersAreRight
<1>1. GatewayInit => CallInv
      BY Unanswered DEF GatewayInit, NoCall, CallInv, AnswersAreRight, ServedByRight, StatusSurvives
<1>2. CallInv => AnswersAreRight
      BY DEF CallInv
<1> QED BY <1>1, <1>2, CallGoesOn, PTL

-----------------------------------------------------------------------------
(* The accounts.                                                           *)

IsRow(x) ==
    x = [status |-> x.status, email |-> x.email, password |-> x.password,
         profile |-> x.profile, hash |-> x.hash, roles |-> x.roles]

IsRequest(x) ==
    x = [kind |-> x.kind, id |-> x.id, read |-> x.read, copy |-> x.copy, given |-> x.given,
         permissions |-> x.permissions, fresh |-> x.fresh, consent |-> x.consent]

\* What a request may rely on, and what it will write.
InFlight(x) ==
    /\ IsRequest(x) /\ x.kind \in Kinds /\ x.id \in Accounts
    /\ IsRow(x.read) /\ IsRow(x.copy)
    /\ x.read.status # "deleted"
    /\ x.read.roles \subseteq DOMAIN grants /\ (x.id \in Customers => x.read.roles = {})
    /\ x.permissions \subseteq Permissions
    /\ x.kind = "refresh" =>
          x.given = x.read.hash /\ x.given \in DOMAIN tokens /\ tokens[x.given].owner = x.id
    /\ x.kind \in Minting =>
          /\ x.copy = x.read
          /\ x.fresh /\ x.id \in Staff => x.permissions = PermissionCodes(x.read.roles)
    /\ x.kind \in {"register", "reuse", "logout"} =>
          /\ x.copy.hash = 0 /\ x.copy.roles = x.read.roles
    /\ x.kind \in Minting \cup {"roles"} => x.copy.status # "none"
    /\ x.kind = "roles" =>
          /\ x.id \in Staff /\ x.copy.hash = x.read.hash
          /\ x.copy.roles \subseteq DOMAIN grants
    /\ x.kind = "erase" => x.id \in Customers /\ x.copy = Tombstone
    /\ x.id \in Staff => x.copy.status # "deleted"

RowsInv ==
    /\ rows = [i \in Accounts |-> rows[i]]
    /\ \A i \in Accounts :
          /\ IsRow(rows[i]) /\ (rows[i].status = "none" => rows[i].hash = 0)
          /\ i \in Staff => rows[i].status # "deleted"
          /\ rows[i].roles \subseteq DOMAIN grants /\ (i \in Customers => rows[i].roles = {})

ActorsInv ==
    /\ actor = [a \in Actors |-> actor[a]]
    /\ \A a \in Actors : actor[a] # Idle => InFlight(actor[a])

GrantsInv ==
    /\ grants = [r \in DOMAIN grants |-> grants[r]]
    /\ \A r \in DOMAIN grants : grants[r] \subseteq Permissions

TokensInv ==
    /\ tokens \in Seq([owner : Accounts, permissions : SUBSET Permissions])
    /\ Len(tokens) <= MaxTokens
    /\ exchanged \in [Tokens -> Nat]
    /\ \A t \in Tokens : t > Len(tokens) => exchanged[t] = 0
    /\ revoked \subseteq DOMAIN tokens /\ current \subseteq DOMAIN tokens

SessionInv ==
    \A i \in Accounts \ raced :
        rows[i].hash # 0 => /\ rows[i].hash \in DOMAIN tokens /\ tokens[rows[i].hash].owner = i
                            /\ exchanged[rows[i].hash] = 0
                            /\ rows[i].hash \notin revoked

RolesInv ==
    /\ decided = [s \in Staff |-> decided[s]]
    /\ \A s \in Staff : decided[s] \subseteq DOMAIN grants
    /\ \A s \in Staff \ raced : rows[s].roles = decided[s]

AccountInv ==
    /\ RowsInv /\ ActorsInv /\ GrantsInv /\ TokensInv /\ SessionInv /\ RolesInv
    /\ TokenWorksOnce /\ NextTokenFollowsRoles /\ ErasedStaysErased

-----------------------------------------------------------------------------
(* Rows.                                                                   *)

\* A new staff user.
ActiveStaff(s, held) == [NoRow(s) EXCEPT !.status = "active", !.roles = held]

LEMMA NoRowIsARow ==
    ASSUME NEW i
    PROVE  /\ IsRow(NoRow(i)) /\ NoRow(i).status = "none" /\ NoRow(i).hash = 0
           /\ NoRow(i).roles = {}
BY DEF NoRow, IsRow

LEMMA RotatedRow ==
    ASSUME NEW row, IsRow(row), NEW t
    PROVE  /\ IsRow(RotateRefreshTokenHash(row, t)) /\ RotateRefreshTokenHash(row, t).hash = t
           /\ RotateRefreshTokenHash(row, t).roles = row.roles
           /\ RotateRefreshTokenHash(row, t).status = row.status
BY DEF RotateRefreshTokenHash, IsRow

LEMMA RoleRow ==
    ASSUME NEW row, IsRow(row), NEW held
    PROVE  LET new == [row EXCEPT !.roles = held]
           IN  IsRow(new) /\ new.hash = row.hash /\ new.roles = held /\ new.status = row.status
BY DEF IsRow

\* A new staff user.
LEMMA StaffRow ==
    ASSUME NEW s, NEW held
    PROVE  /\ IsRow(ActiveStaff(s, held)) /\ ActiveStaff(s, held).hash = 0
           /\ ActiveStaff(s, held).roles = held /\ ActiveStaff(s, held).status = "active"
<1> DEFINE a == [NoRow(s) EXCEPT !.status = "active"]
           b == [a EXCEPT !.roles = held]
<1>1. IsRow(a) /\ a.hash = 0 /\ a.status = "active"
      BY NoRowIsARow DEF IsRow
<1>2. ActiveStaff(s, held) = b
      BY DEF ActiveStaff
<1> HIDE DEF a
<1>3. IsRow(b) /\ b.hash = 0 /\ b.roles = held /\ b.status = "active"
      BY <1>1 DEF IsRow
<1> HIDE DEF b
<1> QED BY <1>2, <1>3

LEMMA ErasedRow ==
    ASSUME NEW row, IsRow(row), row.roles = {}
    PROVE  Erase(row) = Tombstone
<1> DEFINE no == FALSE
           a == [row EXCEPT !.status = "deleted"]
           b == [a EXCEPT !.email = NoEmail]
           c == [b EXCEPT !.password = no]
           d == [c EXCEPT !.profile = no]
           e == [d EXCEPT !.hash = 0]
<1>1. Erase(row) = e
      BY DEF Erase
<1> HIDE DEF no
<1>2. IsRow(a) /\ a.status = "deleted" /\ a.roles = {}
      BY DEF IsRow
<1> HIDE DEF a
<1>3. IsRow(b) /\ b.status = "deleted" /\ b.roles = {} /\ b.email = NoEmail
      BY <1>2 DEF IsRow
<1> HIDE DEF b
<1>4. IsRow(c) /\ c.status = "deleted" /\ c.roles = {} /\ c.email = NoEmail /\ c.password = no
      BY <1>3 DEF IsRow
<1> HIDE DEF c
<1>5. /\ IsRow(d) /\ d.status = "deleted" /\ d.roles = {} /\ d.email = NoEmail
      /\ d.password = no /\ d.profile = no
      BY <1>4 DEF IsRow
<1> HIDE DEF d
<1>6. /\ IsRow(e) /\ e.status = "deleted" /\ e.roles = {} /\ e.email = NoEmail
      /\ e.password = no /\ e.profile = no /\ e.hash = 0
      BY <1>5 DEF IsRow
<1> HIDE DEF e
<1>7. e = [status |-> "deleted", email |-> NoEmail, password |-> no,
           profile |-> no, hash |-> 0, roles |-> {}]
      BY <1>6 DEF IsRow
<1> QED BY <1>1, <1>7 DEF Tombstone, no

LEMMA TombstoneIsARow ==
    IsRow(Tombstone) /\ Tombstone.status = "deleted" /\ Tombstone.hash = 0 /\ Tombstone.roles = {}
BY DEF IsRow, Tombstone

LEMMA ActiveCustomerIsARow ==
    ASSUME NEW e
    PROVE  IsRow(ActiveCustomer(e)) /\ ActiveCustomer(e).hash = 0 /\ ActiveCustomer(e).roles = {}
BY DEF IsRow, ActiveCustomer

LEMMA CodesArePermissions ==
    ASSUME GrantsInv, NEW held, held \subseteq DOMAIN grants
    PROVE  PermissionCodes(held) \subseteq Permissions
BY DEF GrantsInv, PermissionCodes

\* Every pair belongs to an account.
LEMMA OwnerIsAnAccount ==
    ASSUME TokensInv, NEW t \in DOMAIN tokens
    PROVE  tokens[t].owner \in Accounts
<1> DEFINE Pair == [owner : Accounts, permissions : SUBSET Permissions]
<1>1. tokens \in Seq(Pair)
      BY DEF TokensInv
<1>2. \A pair \in Pair : pair.owner \in Accounts
      OBVIOUS
<1> HIDE DEF Pair
<1>3. t \in 1 .. Len(tokens)
      BY <1>1
<1>4. tokens[t] \in Pair
      BY <1>1, <1>3
<1> QED BY <1>2, <1>4

-----------------------------------------------------------------------------
LEMMA AccountsStart == Init => AccountInv
<1> SUFFICES ASSUME Init PROVE AccountInv
    OBVIOUS
<1>1. ASSUME NEW i \in Accounts
      PROVE  /\ IsRow(rows[i]) /\ rows[i].hash = 0 /\ (i \in Staff => rows[i].status # "deleted")
             /\ rows[i].roles \subseteq DOMAIN grants /\ (i \in Customers => rows[i].roles = {})
      <2>1. rows[i] \in InitialRows(i) /\ grants = InitialGrants
            BY DEF Init
      <2>2. CASE rows[i] = NoRow(i)
            BY <2>2, NoRowIsARow
      <2>3. CASE i \in Customers /\ \E e \in Emails : rows[i] = ActiveCustomer(e)
            BY <2>3, ActiveCustomerIsARow, IdentityIds
      <2>4. CASE /\ i \notin Customers
                 /\ \E held \in SUBSET DOMAIN InitialGrants \ {{}} :
                       rows[i] = ActiveStaff(i, held)
            <3>1. PICK held \in SUBSET DOMAIN InitialGrants \ {{}} : rows[i] = ActiveStaff(i, held)
                  BY <2>4
            <3> QED BY <2>1, <2>4, <3>1, StaffRow
      <2> QED BY <2>1, <2>2, <2>3, <2>4 DEF InitialRows, ActiveStaff
<1>2. rows = [i \in Accounts |-> rows[i]] /\ Len(tokens) = 0 /\ DOMAIN tokens = {}
      BY DEF Init
<1>3. RowsInv
      BY <1>1, <1>2 DEF RowsInv
<1>4. ActorsInv
      BY DEF Init, ActorsInv
<1>5. GrantsInv
      BY IdentityGrants DEF Init, GrantsInv, RolePermissions, RoleAggregate
<1>6. TokensInv
      BY <1>2, IdentityBounds DEF Init, TokensInv
<1>7. SessionInv
      BY <1>1 DEF SessionInv
<1>8. RolesInv
      BY <1>1 DEF Init, RolesInv, Accounts
<1>9. TokenWorksOnce /\ NextTokenFollowsRoles /\ ErasedStaysErased
      BY <1>2 DEF Init, TokenWorksOnce, NextTokenFollowsRoles, ErasedStaysErased
<1> QED BY <1>3, <1>4, <1>5, <1>6, <1>7, <1>8, <1>9 DEF AccountInv

-----------------------------------------------------------------------------
(* A request reads and decides.                                            *)

\* What was granted stays granted, and pairs are only added.
Extends ==
    /\ \A r \in DOMAIN grants : r \in DOMAIN grants' /\ grants'[r] = grants[r]
    /\ \A t \in DOMAIN tokens : t \in DOMAIN tokens' /\ tokens'[t] = tokens[t]

LEMMA CodesStay ==
    ASSUME Extends, NEW held, held \subseteq DOMAIN grants
    PROVE  UNION {grants'[r] : r \in held} = UNION {grants[r] : r \in held}
<1>1. \A r \in held : grants'[r] = grants[r]
      BY DEF Extends
<1> QED BY <1>1

LEMMA RequestStays ==
    ASSUME NEW g \in Actors, actor'[g] = actor[g], InFlight(actor[g]), Extends
    PROVE  InFlight(actor[g])'
<1>1. PermissionCodes(actor[g].read.roles)' = PermissionCodes(actor[g].read.roles)
      BY CodesStay DEF InFlight, PermissionCodes
<1>2. DOMAIN grants \subseteq DOMAIN grants'
      BY DEF Extends
<1>3. \A t \in DOMAIN tokens : t \in DOMAIN tokens' /\ tokens'[t] = tokens[t]
      BY DEF Extends
<1> QED BY <1>1, <1>2, <1>3 DEF InFlight, IsRequest, IsRow

LEMMA StartKeepsIInv ==
    ASSUME AccountInv, NEW a \in Actors, NEW x, Start(a, x), InFlight(x)
    PROVE  AccountInv'
<1>1. /\ actor' = [g \in Actors |-> actor'[g]] /\ actor'[a] = x
      /\ \A g \in Actors : g # a => actor'[g] = actor[g]
      BY DEF Start, AccountInv, ActorsInv
<1>2. UNCHANGED <<rows, consent, carts, grants, tokens, exchanged, revoked, current, decided,
                  erased, raced>>
      BY DEF Start, accounts, ghosts
<1>3. Extends
      BY <1>2 DEF Extends
<1>4. ActorsInv'
      <2> SUFFICES ASSUME NEW g \in Actors, actor'[g] # Idle PROVE InFlight(actor[g])'
          BY <1>1 DEF ActorsInv, Idle
      <2>1. CASE g = a
            BY <2>1, <1>1, <1>2 DEF InFlight, IsRequest, IsRow, PermissionCodes
      <2>2. CASE g # a
            BY <2>2, <1>1, <1>3, RequestStays DEF AccountInv, ActorsInv
      <2> QED BY <2>1, <2>2
<1>5. RowsInv' /\ GrantsInv' /\ TokensInv' /\ SessionInv' /\ RolesInv'
      BY <1>2 DEF AccountInv, RowsInv, IsRow, GrantsInv, TokensInv, SessionInv, RolesInv
<1>6. TokenWorksOnce' /\ NextTokenFollowsRoles' /\ ErasedStaysErased'
      BY <1>2 DEF AccountInv, TokenWorksOnce, NextTokenFollowsRoles, PermissionCodes, ErasedStaysErased
<1> QED BY <1>4, <1>5, <1>6 DEF AccountInv

LEMMA HoldingRequest ==
    ASSUME NEW kind, NEW id, NEW copy
    PROVE  /\ IsRequest(Holding(kind, id, copy))
           /\ Holding(kind, id, copy).kind = kind /\ Holding(kind, id, copy).id = id
           /\ Holding(kind, id, copy).read = rows[id] /\ Holding(kind, id, copy).copy = copy
           /\ Holding(kind, id, copy).permissions = {}
BY DEF Holding, IsRequest

\* A request that read the row as it is, and will write what its kind writes.
LEMMA RequestFits ==
    ASSUME AccountInv, NEW x, IsRequest(x), x.kind \in Kinds, x.id \in Accounts,
           x.read = rows[x.id], rows[x.id].status # "deleted", IsRow(x.copy),
           x.permissions \subseteq Permissions,
           x.kind = "refresh" => /\ x.given = rows[x.id].hash /\ x.given \in DOMAIN tokens
                                 /\ tokens[x.given].owner = x.id,
           x.kind \in Minting => /\ x.copy = rows[x.id]
                                 /\ x.id \in Staff => x.permissions = PermissionCodes(rows[x.id].roles),
           x.kind \in {"register", "reuse", "logout"} =>
               x.copy.hash = 0 /\ x.copy.roles = rows[x.id].roles,
           x.kind \in Minting \cup {"roles"} => x.copy.status # "none",
           x.kind = "roles" => /\ x.id \in Staff /\ x.copy.hash = rows[x.id].hash
                               /\ x.copy.roles \subseteq DOMAIN grants,
           x.kind = "erase" => x.id \in Customers /\ x.copy = Tombstone,
           x.id \in Staff => x.copy.status # "deleted"
    PROVE  InFlight(x)
<1>1. /\ IsRow(rows[x.id]) /\ rows[x.id].roles \subseteq DOMAIN grants
      /\ x.id \in Customers => rows[x.id].roles = {}
      BY DEF AccountInv, RowsInv
<1> QED BY <1>1 DEF InFlight

\* A request that carries nothing but its row.
LEMMA PlainRequest ==
    ASSUME AccountInv, NEW a \in Actors, NEW kind \in {"register", "reuse", "logout", "roles", "erase", "cart"},
           NEW id \in Accounts, NEW copy, Start(a, Holding(kind, id, copy)),
           rows[id].status # "deleted", IsRow(copy),
           kind \in {"register", "reuse", "logout"} => copy.hash = 0 /\ copy.roles = rows[id].roles,
           kind = "roles" => /\ id \in Staff /\ copy.hash = rows[id].hash
                             /\ copy.roles \subseteq DOMAIN grants /\ copy.status # "none",
           kind = "erase" => id \in Customers /\ copy = Tombstone,
           id \in Staff => copy.status # "deleted"
    PROVE  AccountInv'
<1> DEFINE x == Holding(kind, id, copy)
<1>1. /\ IsRequest(x) /\ x.kind = kind /\ x.id = id /\ x.read = rows[id] /\ x.copy = copy
      /\ x.permissions = {}
      BY HoldingRequest
<1>2. Start(a, x)
      OBVIOUS
<1> HIDE DEF x
<1>3. InFlight(x)
      BY <1>1, RequestFits DEF Kinds, Minting
<1> QED BY <1>2, <1>3, StartKeepsIInv

LEMMA SessionRequestsKeepIInv ==
    ASSUME AccountInv, NEW a \in Actors, NEW id \in Accounts, Logout(a, id)
    PROVE  AccountInv'
<1>1. rows[id].status # "deleted" /\ IsRow(rows[id])
      BY DEF Logout, Authenticated, ValidateJwtSubject, ExistsActive, ExistsAuthenticatable,
             AccountInv, RowsInv
<1> QED BY <1>1, PlainRequest, RotatedRow DEF Logout

LEMMA RegisterKeepsIInv ==
    ASSUME AccountInv, NEW a \in Actors, NEW c \in Customers, NEW e \in Emails, RegisterCustomer(a, c, e)
    PROVE  AccountInv'
<1>1. c \in Accounts /\ rows[c].status # "deleted" /\ rows[c].roles = {}
      BY DEF RegisterCustomer, Unused, Accounts, AccountInv, RowsInv
<1> QED BY <1>1, PlainRequest, ActiveCustomerIsARow, IdentityIds DEF RegisterCustomer

LEMMA RegisterStaffKeepsIInv ==
    ASSUME AccountInv, NEW a \in Actors, NEW s \in Staff, NEW names, RegisterStaffUser(a, s, names)
    PROVE  AccountInv'
<1> DEFINE copy == ActiveStaff(s, names)
<1>1. s \in Accounts /\ rows[s].status = "none" /\ names \subseteq DOMAIN grants
      BY DEF RegisterStaffUser, Unused, Accounts, RolesExist, FindAllByNames
<1>2. rows[s].hash = 0
      BY <1>1 DEF AccountInv, RowsInv
<1>3. /\ IsRow(copy) /\ copy.hash = 0 /\ copy.roles = names /\ copy.status = "active"
      BY StaffRow
<1>4. Start(a, Holding("roles", s, copy))
      BY DEF RegisterStaffUser, ActiveStaff
<1> HIDE DEF copy
<1> QED BY <1>1, <1>2, <1>3, <1>4, PlainRequest

LEMMA AssignKeepsIInv ==
    ASSUME AccountInv, NEW a \in Actors, NEW s \in Staff, NEW names, AssignStaffRole(a, s, names)
    PROVE  AccountInv'
<1> DEFINE copy == AssignRole(rows[s], names)
<1>1. /\ s \in Accounts /\ rows[s].status = "active" /\ names \subseteq DOMAIN grants
      /\ IsRow(rows[s]) /\ rows[s].roles \subseteq DOMAIN grants
      BY DEF AssignStaffRole, Accounts, RolesExist, FindAllByNames, AccountInv, RowsInv
<1>2. /\ IsRow(copy) /\ copy.hash = rows[s].hash /\ copy.roles = rows[s].roles \cup names
      /\ copy.status = rows[s].status
      BY <1>1 DEF AssignRole, IsRow
<1>3. Start(a, Holding("roles", s, copy))
      BY DEF AssignStaffRole
<1> HIDE DEF copy
<1> QED BY <1>1, <1>2, <1>3, PlainRequest

LEMMA RevokeKeepsIInv ==
    ASSUME AccountInv, NEW a \in Actors, NEW s \in Staff, NEW role, RevokeStaffRole(a, s, role)
    PROVE  AccountInv'
<1> DEFINE copy == RevokeRole(rows[s], role)
<1>1. /\ s \in Accounts /\ rows[s].status # "none"
      /\ IsRow(rows[s]) /\ rows[s].roles \subseteq DOMAIN grants
      BY DEF RevokeStaffRole, Accounts, FindStaff, AccountInv, RowsInv
<1>2. /\ IsRow(copy) /\ copy.hash = rows[s].hash /\ copy.roles = rows[s].roles \ {role}
      /\ copy.status = rows[s].status
      BY <1>1 DEF RevokeRole, IsRow
<1>3. Start(a, Holding("roles", s, copy))
      BY DEF RevokeStaffRole
<1> HIDE DEF copy
<1>4. rows[s].status # "deleted"
      BY <1>1 DEF AccountInv, RowsInv
<1> QED BY <1>1, <1>2, <1>3, <1>4, PlainRequest

LEMMA EraseKeepsIInv ==
    ASSUME AccountInv, NEW a \in Actors, NEW c \in Customers, NEW e, EraseCustomer(a, c, e)
    PROVE  AccountInv'
<1>1. /\ c \in Accounts /\ rows[c].status # "deleted" /\ IsRow(rows[c]) /\ rows[c].roles = {}
      BY DEF EraseCustomer, Accounts, AccountInv, RowsInv
<1>2. Start(a, Holding("erase", c, Tombstone))
      BY <1>1, ErasedRow DEF EraseCustomer
<1> QED BY <1>1, <1>2, TombstoneIsARow, PlainRequest, IdentityIds

\* A customer with a session is there.
LEMMA AuthenticatedCustomer ==
    ASSUME AccountInv, NEW c \in Customers, Authenticated(c)
    PROVE  c \in Accounts /\ rows[c].status # "deleted" /\ IsRow(rows[c])
BY DEF Authenticated, ValidateJwtSubject, ExistsActive, ExistsAuthenticatable, Accounts, AccountInv, RowsInv

LEMMA OpenCartKeepsIInv ==
    ASSUME AccountInv, NEW a \in Actors, NEW c \in Customers, OpenCart(a, c)
    PROVE  AccountInv'
<1>1. c \in Accounts /\ rows[c].status # "deleted" /\ IsRow(rows[c])
      BY AuthenticatedCustomer DEF OpenCart
<1>2. Start(a, Holding("cart", c, rows[c]))
      BY DEF OpenCart
<1> QED BY <1>1, <1>2, PlainRequest

LEMMA ConsentKeepsIInv ==
    ASSUME AccountInv, NEW a \in Actors, NEW c \in Customers, NEW patch, RecordConsent(a, c, patch)
    PROVE  AccountInv'
<1> DEFINE plain == Holding("consent", c, rows[c])
           merged == Apply(FindConsent(c), patch)
           x == [plain EXCEPT !.consent = merged]
<1>1. c \in Accounts /\ rows[c].status # "deleted" /\ IsRow(rows[c])
      BY AuthenticatedCustomer DEF RecordConsent
<1>2. Start(a, x)
      BY DEF RecordConsent
<1>3. /\ IsRequest(plain) /\ plain.kind = "consent" /\ plain.id = c /\ plain.read = rows[c]
      /\ plain.copy = rows[c] /\ plain.permissions = {}
      BY HoldingRequest
<1> HIDE DEF plain, merged
<1>4. /\ IsRequest(x) /\ x.kind = "consent" /\ x.id = c /\ x.read = rows[c]
      /\ x.copy = rows[c] /\ x.permissions = {}
      BY <1>3 DEF IsRequest
<1> HIDE DEF x
<1>5. InFlight(x)
      BY <1>1, <1>4, RequestFits DEF Kinds, Minting
<1> QED BY <1>2, <1>5, StartKeepsIInv

LEMMA LoginCustomerKeepsIInv ==
    ASSUME AccountInv, NEW a \in Actors, NEW c \in Customers, LoginCustomer(a, c)
    PROVE  AccountInv'
<1> DEFINE x == Holding("login", c, rows[c])
<1>1. /\ c \in Accounts /\ c \notin Staff /\ rows[c].status = "active" /\ IsRow(rows[c])
      BY IdentityIds DEF LoginCustomer, Accounts, AccountInv, RowsInv
<1>2. Start(a, x)
      BY DEF LoginCustomer
<1>3. /\ IsRequest(x) /\ x.kind = "login" /\ x.id = c /\ x.read = rows[c]
      /\ x.copy = rows[c] /\ x.permissions = {}
      BY HoldingRequest
<1> HIDE DEF x
<1>4. InFlight(x)
      BY <1>1, <1>3, RequestFits DEF Kinds, Minting
<1> QED BY <1>2, <1>4, StartKeepsIInv

LEMMA LoginKeepsIInv ==
    ASSUME AccountInv, NEW a \in Actors, NEW s \in Staff, Login(a, s)
    PROVE  AccountInv'
<1> DEFINE plain == Holding("login", s, rows[s])
           codes == PermissionCodes(rows[s].roles)
           x == [plain EXCEPT !.permissions = codes]
<1>1. /\ s \in Accounts /\ rows[s].status = "active" /\ IsRow(rows[s])
      /\ rows[s].roles \subseteq DOMAIN grants
      BY DEF Login, Accounts, AccountInv, RowsInv
<1>2. Start(a, x) /\ codes \subseteq Permissions
      BY <1>1, CodesArePermissions DEF Login, AccountInv
<1>3. /\ IsRequest(plain) /\ plain.kind = "login" /\ plain.id = s /\ plain.read = rows[s]
      /\ plain.copy = rows[s]
      BY HoldingRequest
<1>4. codes = PermissionCodes(rows[s].roles)
      OBVIOUS
<1> HIDE DEF plain, codes
<1>5. /\ IsRequest(x) /\ x.kind = "login" /\ x.id = s /\ x.read = rows[s]
      /\ x.copy = rows[s] /\ x.permissions = codes
      BY <1>3 DEF IsRequest
<1> HIDE DEF x
<1>6. InFlight(x)
      BY <1>1, <1>2, <1>4, <1>5, RequestFits DEF Kinds, Minting
<1> QED BY <1>2, <1>6, StartKeepsIInv

\* The last token of a session is exchanged, any other ends it.
LEMMA RefreshKeepsIInv ==
    ASSUME AccountInv, NEW a \in Actors, NEW t \in DOMAIN tokens, Refresh(a, t)
    PROVE  AccountInv'
<1> DEFINE id == tokens[t].owner
           plain == Holding("refresh", id, rows[id])
           codes == Inflated(rows[id], t)
           b == [plain EXCEPT !.given = t]
           x == [b EXCEPT !.permissions = codes]
<1>1. id \in Accounts
      BY OwnerIsAnAccount DEF AccountInv
<1>2. /\ rows[id].status = "active" /\ IsRow(rows[id]) /\ rows[id].roles \subseteq DOMAIN grants
      BY <1>1 DEF Refresh, AccountInv, RowsInv
<1>3. CASE Start(a, Holding("reuse", id, RotateRefreshTokenHash(rows[id], 0)))
      BY <1>1, <1>2, <1>3, RotatedRow, PlainRequest
<1>4. CASE Matches(rows[id], t) /\ Start(a, x)
      <2>1. rows[id].hash = t /\ Start(a, x)
            BY <1>4 DEF Matches
      <2>2. codes = PermissionCodes(rows[id].roles) /\ codes \subseteq Permissions
            BY <1>2, CodesArePermissions DEF Inflated, AccountInv
      <2>3. /\ IsRequest(plain) /\ plain.kind = "refresh" /\ plain.id = id
            /\ plain.read = rows[id] /\ plain.copy = rows[id]
            BY HoldingRequest
      <2>4. id = tokens[t].owner
            OBVIOUS
      <2> HIDE DEF id, plain, codes
      <2>5. /\ IsRequest(b) /\ b.kind = "refresh" /\ b.id = id
            /\ b.read = rows[id] /\ b.copy = rows[id] /\ b.given = t
            BY <2>3 DEF IsRequest
      <2> HIDE DEF b
      <2>6. /\ IsRequest(x) /\ x.kind = "refresh" /\ x.id = id
            /\ x.read = rows[id] /\ x.copy = rows[id] /\ x.given = t /\ x.permissions = codes
            BY <2>5 DEF IsRequest
      <2> HIDE DEF x
      <2>7. InFlight(x)
            BY <1>1, <1>2, <2>1, <2>2, <2>4, <2>6, RequestFits DEF Kinds, Minting
      <2> QED BY <2>1, <2>7, StartKeepsIInv
<1> QED BY <1>3, <1>4 DEF Refresh

\* A save of a row that nobody wrote since it was read.
LEMMA ReadStands ==
    ASSUME NEW a, raced' = Raced(a), actor[a].id \notin raced'
    PROVE  rows[actor[a].id] = actor[a].read
BY DEF Raced

LEMMA RacedGrows ==
    ASSUME NEW a, raced' = Raced(a)
    PROVE  raced \subseteq raced'
BY DEF Raced

\* A request is over; the others go on.
LEMMA DoneKeepsActors ==
    ASSUME ActorsInv, NEW a \in Actors, Done(a), Extends
    PROVE  ActorsInv'
<1>1. actor' = [g \in Actors |-> actor'[g]] /\ actor'[a] = Idle
      BY DEF Done, ActorsInv
<1>2. \A g \in Actors : g # a => actor'[g] = actor[g]
      BY DEF Done, ActorsInv
<1> SUFFICES ASSUME NEW g \in Actors, actor'[g] # Idle PROVE InFlight(actor[g])'
    BY <1>1 DEF ActorsInv, Idle
<1> QED BY <1>1, <1>2, RequestStays DEF ActorsInv

\* One row changes.
LEMMA WriteKeepsRows ==
    ASSUME RowsInv, NEW id \in Accounts, NEW row, rows' = [rows EXCEPT ![id] = row],
           IsRow(row), row.status = "none" => row.hash = 0,
           id \in Staff => row.status # "deleted",
           row.roles \subseteq DOMAIN grants, id \in Customers => row.roles = {},
           UNCHANGED grants
    PROVE  /\ RowsInv' /\ rows'[id] = row
           /\ \A i \in Accounts : i # id => rows'[i] = rows[i]
<1>1. /\ rows' = [i \in Accounts |-> rows'[i]] /\ rows'[id] = row
      /\ \A i \in Accounts : i # id => rows'[i] = rows[i]
      BY DEF RowsInv
<1>2. ASSUME NEW i \in Accounts
      PROVE  /\ IsRow(rows'[i]) /\ (rows'[i].status = "none" => rows'[i].hash = 0)
             /\ i \in Staff => rows'[i].status # "deleted"
             /\ rows'[i].roles \subseteq DOMAIN grants /\ (i \in Customers => rows'[i].roles = {})
      BY <1>1, i = id \/ i # id DEF RowsInv
<1>3. RowsInv'
      BY <1>1, <1>2 DEF RowsInv, IsRow
<1> QED BY <1>1, <1>3

LEMMA SaveCustomerKeepsIInv ==
    ASSUME AccountInv, NEW a \in Actors, SaveCustomer(a)
    PROVE  AccountInv'
<1> DEFINE id == actor[a].id
           row == actor[a].copy
<1>1. /\ InFlight(actor[a]) /\ actor[a].kind \in {"register", "reuse", "logout"} /\ id \in Accounts
      /\ rows' = [rows EXCEPT ![id] = row] /\ raced' = Raced(a) /\ Done(a)
      /\ UNCHANGED <<consent, carts, grants, tokens, exchanged, current, decided, erased>>
      BY DEF SaveCustomer, Write, AccountInv, ActorsInv, InFlight
<1>2. /\ IsRow(row) /\ row.hash = 0 /\ row.roles = actor[a].read.roles
      /\ row.roles \subseteq DOMAIN grants /\ (id \in Customers => row.roles = {})
      /\ id \in Staff => row.status # "deleted"
      /\ actor[a].read.status # "deleted"
      BY <1>1 DEF InFlight
<1>3. id \notin raced' => rows[id] = actor[a].read
      BY <1>1, ReadStands
<1>4. raced \subseteq raced'
      BY <1>1, RacedGrows
<1>5. revoked' \subseteq revoked \cup TokensOf(id)
      BY DEF SaveCustomer
<1> HIDE DEF id, row
<1>6. /\ RowsInv' /\ rows'[id] = row
      /\ \A i \in Accounts : i # id => rows'[i] = rows[i]
      BY <1>1, <1>2, WriteKeepsRows DEF AccountInv
<1>7. ActorsInv'
      BY <1>1, DoneKeepsActors DEF Extends, AccountInv
<1>8. GrantsInv'
      BY <1>1 DEF AccountInv, GrantsInv
<1>9. TokensInv'
      BY <1>1, <1>5 DEF AccountInv, TokensInv, TokensOf
<1>10. SessionInv'
      BY <1>1, <1>2, <1>4, <1>5, <1>6 DEF AccountInv, SessionInv, TokensOf
<1>11. RolesInv'
      BY <1>1, <1>2, <1>3, <1>4, <1>6 DEF AccountInv, RolesInv, Accounts
<1>12. TokenWorksOnce' /\ NextTokenFollowsRoles'
      BY <1>1, <1>4 DEF AccountInv, TokenWorksOnce, NextTokenFollowsRoles, PermissionCodes
<1>13. ErasedStaysErased'
      BY <1>1, <1>2, <1>3, <1>4, <1>6, TombstoneIsARow DEF AccountInv, ErasedStaysErased
<1> QED BY <1>6, <1>7, <1>8, <1>9, <1>10, <1>11, <1>12, <1>13 DEF AccountInv

\* The stored hash of an account nobody raced is the one the request holds.
LEMMA SaveSessionKeepsIInv ==
    ASSUME AccountInv, NEW a \in Actors, SaveSession(a)
    PROVE  AccountInv' /\ (\A t \in revoked : exchanged'[t] = exchanged[t] \/ tokens[t].owner \in raced')
<1> DEFINE id == actor[a].id
           t == Len(tokens) + 1
           given == actor[a].given
           row == RotateRefreshTokenHash(actor[a].copy, t)
           codes == actor[a].permissions
           refreshing == actor[a].kind = "refresh"
<1>1. /\ InFlight(actor[a]) /\ actor[a].kind \in Minting /\ id \in Accounts
      /\ rows' = [rows EXCEPT ![id] = row] /\ raced' = Raced(a) /\ Done(a)
      /\ tokens' = Append(tokens, [owner |-> id, permissions |-> codes]) /\ Len(tokens) < MaxTokens
      /\ UNCHANGED <<consent, carts, grants, revoked, decided, erased>>
      BY DEF SaveSession, Write, Issue, AccountInv, ActorsInv, InFlight
<1>2. /\ actor[a].copy = actor[a].read /\ IsRow(actor[a].copy)
      /\ actor[a].read.roles \subseteq DOMAIN grants
      /\ id \in Customers => actor[a].read.roles = {}
      /\ id \in Staff => actor[a].copy.status # "deleted"
      /\ actor[a].copy.status # "none" /\ actor[a].read.status # "deleted"
      /\ codes \subseteq Permissions
      /\ actor[a].fresh /\ id \in Staff => codes = PermissionCodes(actor[a].read.roles)
      /\ refreshing => /\ given = actor[a].read.hash /\ given \in DOMAIN tokens
                        /\ tokens[given].owner = id
      BY <1>1 DEF InFlight
<1>3. id \notin raced' => rows[id] = actor[a].read
      BY <1>1, ReadStands
<1>4. raced \subseteq raced'
      BY <1>1, RacedGrows
<1>5. /\ IsRow(row) /\ row.hash = t /\ row.roles = actor[a].read.roles
      /\ row.status = actor[a].copy.status
      BY <1>2, RotatedRow
<1>6. exchanged' = IF refreshing THEN [exchanged EXCEPT ![given] = @ + 1] ELSE exchanged
      BY DEF SaveSession
<1>7. current' = IF actor[a].fresh THEN current \cup {t} ELSE current
      BY DEF SaveSession
<1> DEFINE Pair == [owner : Accounts, permissions : SUBSET Permissions]
           pair == [owner |-> id, permissions |-> codes]
<1>8. pair \in Pair /\ pair.owner = id /\ pair.permissions = codes
      BY <1>1, <1>2
<1>9. tokens \in Seq(Pair) /\ tokens' = Append(tokens, pair)
      BY <1>1 DEF AccountInv, TokensInv
<1>10. t = Len(tokens) + 1 /\ Len(tokens) \in Nat
      BY <1>9
<1> HIDE DEF id, t, given, row, codes, refreshing, Pair, pair
<1>11. /\ tokens' \in Seq(Pair) /\ Len(tokens') = t /\ DOMAIN tokens = 1 .. Len(tokens)
       /\ DOMAIN tokens' = 1 .. t /\ tokens'[t] = pair
       /\ \A u \in 1 .. Len(tokens) : tokens'[u] = tokens[u]
      BY <1>8, <1>9, <1>10
<1>12. Extends
      BY <1>1, <1>10, <1>11 DEF Extends
<1>13. ActorsInv'
      BY <1>1, <1>12, DoneKeepsActors DEF AccountInv
<1>14. /\ RowsInv' /\ rows'[id] = row
       /\ \A i \in Accounts : i # id => rows'[i] = rows[i]
      BY <1>1, <1>2, <1>5, WriteKeepsRows DEF AccountInv
<1>15. GrantsInv'
      BY <1>1 DEF AccountInv, GrantsInv
<1>16. /\ exchanged' \in [Tokens -> Nat]
       /\ refreshing => exchanged'[given] = exchanged[given] + 1
       /\ \A u \in Tokens : ~refreshing \/ u # given => exchanged'[u] = exchanged[u]
      <2>1. exchanged \in [Tokens -> Nat] /\ (refreshing => given \in Tokens)
            BY <1>1, <1>2, <1>10, <1>11, IdentityBounds DEF AccountInv, TokensInv, Tokens
      <2> QED BY <1>6, <2>1
<1>17. TokensInv'
      <2>1. Len(tokens') <= MaxTokens
            BY <1>1, <1>10, <1>11, IdentityBounds DEF AccountInv, TokensInv
      <2>2. \A u \in Tokens : u > Len(tokens') => exchanged'[u] = 0
            BY <1>2, <1>10, <1>11, <1>16 DEF AccountInv, TokensInv, Tokens
      <2>3. revoked' \subseteq DOMAIN tokens' /\ current' \subseteq DOMAIN tokens'
            BY <1>1, <1>7, <1>10, <1>11 DEF AccountInv, TokensInv
      <2> QED BY <1>11, <1>16, <2>1, <2>2, <2>3 DEF TokensInv, Pair
<1>18. ASSUME id \notin raced', refreshing
       PROVE  exchanged[given] = 0 /\ given \notin revoked
      <2>1. rows[id].hash = given /\ id \notin raced
            BY <1>2, <1>3, <1>4, <1>18
      <2>2. given # 0
            BY <1>2, <1>11, <1>10, <1>18
      <2> QED BY <1>1, <2>1, <2>2 DEF AccountInv, SessionInv
<1>19. SessionInv'
      <2> SUFFICES ASSUME NEW i \in Accounts \ raced', rows'[i].hash # 0
                   PROVE  /\ rows'[i].hash \in DOMAIN tokens' /\ tokens'[rows'[i].hash].owner = i
                          /\ exchanged'[rows'[i].hash] = 0 /\ rows'[i].hash \notin revoked'
          BY DEF SessionInv
      <2>1. CASE i = id
            <3>1. rows'[i].hash = t
                  BY <1>5, <1>14, <2>1
            <3>2. t \in Tokens /\ t > Len(tokens) /\ t \notin DOMAIN tokens
                  BY <1>1, <1>10, <1>11, IdentityBounds DEF Tokens
            <3>3. exchanged[t] = 0 /\ t \notin revoked
                  BY <3>2 DEF AccountInv, TokensInv
            <3>4. exchanged'[t] = 0
                  BY <1>2, <1>16, <3>2, <3>3
            <3> QED BY <1>1, <1>8, <1>10, <1>11, <2>1, <3>1, <3>3, <3>4
      <2>2. CASE i # id
            <3> DEFINE h == rows[i].hash
            <3>1. rows'[i].hash = h /\ h # 0 /\ i \notin raced
                  BY <1>4, <1>14, <2>2
            <3>2. h \in DOMAIN tokens /\ tokens[h].owner = i /\ exchanged[h] = 0 /\ h \notin revoked
                  BY <3>1 DEF AccountInv, SessionInv
            <3> HIDE DEF h
            <3>3. h \in DOMAIN tokens' /\ tokens'[h] = tokens[h]
                  BY <1>12, <3>2 DEF Extends
            <3>4. h \in Tokens
                  BY <1>1, <1>10, <1>11, <3>2, IdentityBounds DEF Tokens
            <3>5. exchanged'[h] = 0
                  BY <1>2, <1>16, <2>2, <3>2, <3>4
            <3> QED BY <1>1, <3>1, <3>2, <3>3, <3>5
      <2> QED BY <2>1, <2>2
<1>20. RolesInv'
      BY <1>1, <1>3, <1>4, <1>5, <1>14 DEF AccountInv, RolesInv, Accounts
<1>21. TokenWorksOnce'
      <2> SUFFICES ASSUME NEW u \in DOMAIN tokens', tokens'[u].owner \notin raced'
                   PROVE  exchanged'[u] <= 1
          BY DEF TokenWorksOnce
      <2>1. u \in Tokens
            BY <1>1, <1>10, <1>11, IdentityBounds DEF Tokens
      <2>2. CASE u = t
            <3>1. exchanged[t] = 0 /\ ~(refreshing /\ t = given)
                  BY <1>2, <1>10, <1>11, <2>1, <2>2 DEF AccountInv, TokensInv
            <3> QED BY <1>16, <2>1, <2>2, <3>1
      <2>3. CASE u \in DOMAIN tokens /\ refreshing /\ u = given
            BY <1>2, <1>11, <1>16, <1>18, <2>3
      <2>4. CASE u \in DOMAIN tokens /\ ~(refreshing /\ u = given)
            <3>1. exchanged'[u] = exchanged[u] /\ tokens'[u] = tokens[u]
                  BY <1>11, <1>16, <2>1, <2>4
            <3> QED BY <1>4, <2>4, <3>1 DEF AccountInv, TokenWorksOnce
      <2> QED BY <1>10, <1>11, <2>2, <2>3, <2>4
<1>22. NextTokenFollowsRoles'
      <2> SUFFICES ASSUME NEW u \in current', tokens'[u].owner \in Staff \ raced'
                   PROVE  tokens'[u].permissions = PermissionCodes(decided[tokens'[u].owner])
          <3>1. grants' = grants /\ decided' = decided
                BY <1>1
          <3>2. \A held : UNION {grants'[r] : r \in held} = UNION {grants[r] : r \in held}
                BY <3>1
          <3> QED BY <3>1, <3>2 DEF NextTokenFollowsRoles, PermissionCodes
      <2>1. CASE u = t /\ actor[a].fresh
            <3>1. id \in Staff /\ id \notin raced /\ id \notin raced'
                  BY <1>4, <1>8, <1>11, <2>1
            <3>2. codes = PermissionCodes(rows[id].roles) /\ rows[id].roles = decided[id]
                  BY <1>2, <1>3, <2>1, <3>1 DEF AccountInv, RolesInv
            <3> QED BY <1>8, <1>11, <2>1, <3>2
      <2>2. CASE u \in current
            <3>1. tokens'[u] = tokens[u]
                  BY <1>11, <2>2 DEF AccountInv, TokensInv
            <3> QED BY <1>4, <2>2, <3>1 DEF AccountInv, NextTokenFollowsRoles
      <2> QED BY <1>7, <2>1, <2>2
<1>23. ErasedStaysErased'
      BY <1>1, <1>2, <1>3, <1>4, <1>14, TombstoneIsARow DEF AccountInv, ErasedStaysErased
<1>24. \A u \in revoked : exchanged'[u] = exchanged[u] \/ tokens[u].owner \in raced'
      <2> SUFFICES ASSUME NEW u \in revoked, exchanged'[u] # exchanged[u]
                   PROVE  tokens[u].owner \in raced'
          OBVIOUS
      <2>1. u \in Tokens
            BY <1>1, <1>10, <1>11, IdentityBounds DEF AccountInv, TokensInv, Tokens
      <2>2. refreshing /\ u = given
            BY <1>16, <2>1
      <2> QED BY <1>2, <1>18, <2>2
<1> QED BY <1>13, <1>14, <1>15, <1>17, <1>19, <1>20, <1>21, <1>22, <1>23, <1>24 DEF AccountInv

LEMMA SaveErasureKeepsIInv ==
    ASSUME AccountInv, NEW a \in Actors, SaveErasure(a)
    PROVE  AccountInv'
<1> DEFINE id == actor[a].id
<1>1. /\ InFlight(actor[a]) /\ actor[a].kind = "erase" /\ id \in Accounts
      /\ raced' = Raced(a) /\ Done(a) /\ revoked' = revoked \cup TokensOf(id)
      /\ erased' = erased \cup {id} /\ carts' = carts \ {id}
      /\ consent' = Restrict(consent, DOMAIN consent \ {id})
      /\ UNCHANGED <<grants, tokens, exchanged, current, decided>>
      BY DEF SaveErasure, PersistErasure, AccountInv, ActorsInv, InFlight
<1>2. id \in Customers /\ actor[a].copy = Tombstone /\ id \notin Staff
      BY <1>1, IdentityIds DEF InFlight
<1>3. rows' = [rows EXCEPT ![id] = Tombstone]
      BY <1>2 DEF SaveErasure, PersistErasure, Write
<1>4. raced \subseteq raced'
      BY <1>1, RacedGrows
<1>5. DOMAIN consent' = DOMAIN consent \ {id}
      BY <1>1 DEF Restrict
<1> HIDE DEF id
<1>6. /\ RowsInv' /\ rows'[id] = Tombstone
      /\ \A i \in Accounts : i # id => rows'[i] = rows[i]
      BY <1>1, <1>2, <1>3, TombstoneIsARow, WriteKeepsRows DEF AccountInv
<1>7. ActorsInv'
      BY <1>1, DoneKeepsActors DEF Extends, AccountInv
<1>8. GrantsInv'
      BY <1>1 DEF AccountInv, GrantsInv
<1>9. TokensInv'
      BY <1>1 DEF AccountInv, TokensInv, TokensOf
<1>10. SessionInv'
      BY <1>1, <1>4, <1>6, TombstoneIsARow DEF AccountInv, SessionInv, TokensOf
<1>11. RolesInv'
      BY <1>1, <1>2, <1>4, <1>6 DEF AccountInv, RolesInv, Accounts
<1>12. TokenWorksOnce' /\ NextTokenFollowsRoles'
      BY <1>1, <1>4 DEF AccountInv, TokenWorksOnce, NextTokenFollowsRoles, PermissionCodes
<1>13. ErasedStaysErased'
      <2> SUFFICES ASSUME NEW c \in erased' \ raced'
                   PROVE  rows'[c] = Tombstone /\ c \notin DOMAIN consent' /\ c \notin carts'
          BY DEF ErasedStaysErased
      <2>1. CASE c = id
            BY <1>1, <1>5, <1>6, <2>1
      <2>2. CASE c # id
            <3>1. rows[c] = Tombstone /\ c \notin DOMAIN consent /\ c \notin carts
                  BY <1>1, <1>4, <2>2 DEF AccountInv, ErasedStaysErased
            <3>2. rows'[c] = rows[c]
                  BY <1>3, <2>2, <1>1 DEF AccountInv, RowsInv
            <3> QED BY <1>1, <1>5, <3>1, <3>2
      <2> QED BY <2>1, <2>2
<1> QED BY <1>6, <1>7, <1>8, <1>9, <1>10, <1>11, <1>12, <1>13 DEF AccountInv

\* An account that was erased and never raced has no request under way.
LEMMA NotErased ==
    ASSUME AccountInv, NEW a \in Actors, actor[a] # Idle, raced' = Raced(a)
    PROVE  actor[a].id \notin erased \ raced'
<1>1. actor[a].read.status # "deleted"
      BY DEF AccountInv, ActorsInv, InFlight
<1>2. actor[a].id \notin raced' => rows[actor[a].id] = actor[a].read /\ actor[a].id \notin raced
      BY ReadStands, RacedGrows
<1> QED BY <1>1, <1>2, TombstoneIsARow DEF AccountInv, ErasedStaysErased

\* Consent and carts, which no other part of the invariant reads.
LEMMA SideRecordsKeepIInv ==
    ASSUME AccountInv, NEW a \in Actors, SaveConsent(a) \/ SaveCart(a)
    PROVE  AccountInv'
<1> DEFINE id == actor[a].id
<1>1. /\ actor[a] # Idle /\ raced' = Raced(a) /\ Done(a)
      /\ UNCHANGED <<rows, grants, tokens, exchanged, revoked, current, decided, erased>>
      BY DEF SaveConsent, SaveCart
<1>2. DOMAIN consent' \subseteq DOMAIN consent \cup {id} /\ carts' \subseteq carts \cup {id}
      <2>1. CASE SaveConsent(a)
            BY <2>1 DEF SaveConsent
      <2>2. CASE SaveCart(a)
            BY <2>2 DEF SaveCart
      <2> QED BY <2>1, <2>2
<1>3. raced \subseteq raced' /\ id \notin erased \ raced'
      BY <1>1, RacedGrows, NotErased
<1> HIDE DEF id
<1>4. ActorsInv'
      BY <1>1, DoneKeepsActors DEF Extends, AccountInv
<1>5. RowsInv' /\ GrantsInv' /\ TokensInv'
      BY <1>1 DEF AccountInv, RowsInv, IsRow, GrantsInv, TokensInv
<1>6. SessionInv' /\ RolesInv' /\ TokenWorksOnce'
      BY <1>1, <1>3 DEF AccountInv, SessionInv, RolesInv, TokenWorksOnce
<1>7. NextTokenFollowsRoles'
      BY <1>1, <1>3 DEF AccountInv, NextTokenFollowsRoles, PermissionCodes
<1>8. ErasedStaysErased'
      BY <1>1, <1>2, <1>3 DEF AccountInv, ErasedStaysErased
<1> QED BY <1>4, <1>5, <1>6, <1>7, <1>8 DEF AccountInv

LEMMA SaveRefusedKeepsIInv ==
    ASSUME AccountInv, NEW a \in Actors, SaveRefused(a)
    PROVE  AccountInv'
<1>1. /\ Done(a)
      /\ UNCHANGED <<rows, consent, carts, grants, tokens, exchanged, revoked, current, decided,
                     erased, raced>>
      BY DEF SaveRefused, accounts, ghosts
<1>2. ActorsInv'
      BY <1>1, DoneKeepsActors DEF Extends, AccountInv
<1>3. RowsInv' /\ GrantsInv' /\ TokensInv' /\ SessionInv' /\ RolesInv'
      BY <1>1 DEF AccountInv, RowsInv, IsRow, GrantsInv, TokensInv, SessionInv, RolesInv
<1>4. TokenWorksOnce' /\ NextTokenFollowsRoles' /\ ErasedStaysErased'
      BY <1>1 DEF AccountInv, TokenWorksOnce, NextTokenFollowsRoles, PermissionCodes, ErasedStaysErased
<1> QED BY <1>2, <1>3, <1>4 DEF AccountInv

\* A change of roles leaves every request in flight as it is, but not fresh.
LEMMA UnfreshFits ==
    ASSUME ActorsInv, NEW g \in Actors, actor[g] # Idle, actor'[g] = Unfresh[g],
           DOMAIN grants' = DOMAIN grants, UNCHANGED tokens
    PROVE  InFlight(actor[g])'
<1> DEFINE no == FALSE
           x == actor[g]
           y == [x EXCEPT !.fresh = no]
<1>1. actor'[g] = y
      BY DEF Unfresh
<1>2. InFlight(x)
      BY DEF ActorsInv
<1>3. no = FALSE
      OBVIOUS
<1> HIDE DEF no, x
<1>4. /\ IsRequest(y) /\ y.kind = x.kind /\ y.id = x.id /\ y.read = x.read /\ y.copy = x.copy
      /\ y.given = x.given /\ y.permissions = x.permissions /\ y.fresh = no
      BY <1>2 DEF InFlight, IsRequest
<1> HIDE DEF y
<1>5. /\ y.kind \in Kinds /\ y.id \in Accounts /\ IsRow(y.read) /\ IsRow(y.copy)
      /\ y.read.status # "deleted" /\ y.permissions \subseteq Permissions
      /\ y.read.roles \subseteq DOMAIN grants /\ (y.id \in Customers => y.read.roles = {})
      /\ y.kind = "refresh" =>
            y.given = y.read.hash /\ y.given \in DOMAIN tokens /\ tokens[y.given].owner = y.id
      /\ y.kind \in Minting => y.copy = y.read
      /\ y.kind \in {"register", "reuse", "logout"} =>
            y.copy.hash = 0 /\ y.copy.roles = y.read.roles
      /\ y.kind \in Minting \cup {"roles"} => y.copy.status # "none"
      /\ y.kind = "roles" => /\ y.id \in Staff /\ y.copy.hash = y.read.hash
                              /\ y.copy.roles \subseteq DOMAIN grants
      /\ y.kind = "erase" => y.id \in Customers /\ y.copy = Tombstone
      /\ y.id \in Staff => y.copy.status # "deleted"
      BY <1>2, <1>4 DEF InFlight
<1> QED BY <1>1, <1>3, <1>4, <1>5 DEF InFlight, IsRequest, IsRow

LEMMA SaveStaffRolesKeepsIInv ==
    ASSUME AccountInv, NEW a \in Actors, SaveStaffRoles(a)
    PROVE  AccountInv'
<1> DEFINE id == actor[a].id
           row == actor[a].copy
           read == actor[a].read
<1>1. /\ InFlight(actor[a]) /\ actor[a].kind = "roles" /\ actor[a] # Idle
      /\ rows' = [rows EXCEPT ![id] = row] /\ raced' = Raced(a)
      /\ actor' = [Unfresh EXCEPT ![a] = Idle] /\ current' = {}
      /\ decided' = [decided EXCEPT ![id] = (@ \cup (row.roles \ read.roles))
                                              \ (read.roles \ row.roles)]
      /\ UNCHANGED <<consent, carts, grants, tokens, exchanged, revoked, erased>>
      BY DEF SaveStaffRoles, AccountInv, ActorsInv
<1>2. /\ id \in Staff /\ id \in Accounts /\ IsRow(row) /\ row.hash = read.hash
      /\ row.roles \subseteq DOMAIN grants /\ row.status # "none" /\ row.status # "deleted"
      /\ id \notin Customers
      BY <1>1, IdentityIds DEF InFlight, Accounts
<1>3. id \notin raced' => rows[id] = read
      BY <1>1, ReadStands
<1>4. raced \subseteq raced' /\ id \notin erased \ raced'
      BY <1>1, RacedGrows, NotErased
<1> HIDE DEF id, row, read
<1>5. /\ RowsInv' /\ rows'[id] = row
      /\ \A i \in Accounts : i # id => rows'[i] = rows[i]
      BY <1>1, <1>2, WriteKeepsRows DEF AccountInv
<1>6. ActorsInv'
      <2>1. /\ actor' = [g \in Actors |-> actor'[g]] /\ actor'[a] = Idle
            /\ \A g \in Actors : g # a => actor'[g] = Unfresh[g]
            BY <1>1 DEF Unfresh
      <2> SUFFICES ASSUME NEW g \in Actors, actor'[g] # Idle PROVE InFlight(actor[g])'
          BY <2>1 DEF ActorsInv, Idle
      <2>2. actor[g] # Idle /\ actor'[g] = Unfresh[g]
            BY <2>1 DEF Unfresh
      <2> QED BY <1>1, <2>2, UnfreshFits DEF AccountInv
<1>7. GrantsInv' /\ TokensInv'
      BY <1>1 DEF AccountInv, GrantsInv, TokensInv
<1>8. SessionInv'
      <2> SUFFICES ASSUME NEW i \in Accounts \ raced', rows'[i].hash # 0
                   PROVE  /\ rows'[i].hash \in DOMAIN tokens' /\ tokens'[rows'[i].hash].owner = i
                          /\ exchanged'[rows'[i].hash] = 0 /\ rows'[i].hash \notin revoked'
          BY DEF SessionInv
      <2>1. rows'[i].hash = rows[i].hash /\ i \notin raced
            BY <1>2, <1>3, <1>4, <1>5
      <2> QED BY <1>1, <2>1 DEF AccountInv, SessionInv
<1>9. RolesInv'
      <2>1. /\ decided' = [s \in Staff |-> decided'[s]]
            /\ decided'[id] = (decided[id] \cup (row.roles \ read.roles)) \ (read.roles \ row.roles)
            /\ \A s \in Staff : s # id => decided'[s] = decided[s]
            BY <1>1, <1>2 DEF AccountInv, RolesInv
      <2>2. \A s \in Staff : decided'[s] \subseteq DOMAIN grants'
            BY <1>1, <1>2, <2>1 DEF AccountInv, RolesInv
      <2>3. \A s \in Staff \ raced' : s # id => rows'[s].roles = decided'[s]
            BY <1>4, <1>5, <2>1 DEF AccountInv, RolesInv, Accounts
      <2>4. id \notin raced' => rows'[id].roles = decided'[id]
            <3>1. id \notin raced' => decided[id] = read.roles
                  BY <1>2, <1>3, <1>4 DEF AccountInv, RolesInv
            <3> QED BY <1>5, <2>1, <3>1
      <2> QED BY <2>1, <2>2, <2>3, <2>4 DEF RolesInv
<1>10. TokenWorksOnce' /\ NextTokenFollowsRoles'
      BY <1>1, <1>4 DEF AccountInv, TokenWorksOnce, NextTokenFollowsRoles
<1>11. ErasedStaysErased'
      <2>1. \A c \in erased \ raced' : rows'[c] = rows[c]
            BY <1>1, <1>4 DEF AccountInv, RowsInv
      <2> QED BY <1>1, <1>4, <2>1 DEF AccountInv, ErasedStaysErased
<1> QED BY <1>5, <1>6, <1>7, <1>8, <1>9, <1>10, <1>11 DEF AccountInv

LEMMA GuestKeepsIInv ==
    ASSUME AccountInv, NEW c \in Customers, CreateGuestSession(c)
    PROVE  AccountInv'
<1> DEFINE t == Len(tokens) + 1
           no == FALSE
           row == [status |-> "guest", email |-> GuestEmail(c), password |-> no,
                   profile |-> no, hash |-> t, roles |-> {}]
           Pair == [owner : Accounts, permissions : SUBSET Permissions]
           pair == [owner |-> c, permissions |-> {}]
<1>1. /\ rows[c].status = "none" /\ rows' = [rows EXCEPT ![c] = row]
      /\ tokens' = Append(tokens, pair) /\ Len(tokens) < MaxTokens
      /\ UNCHANGED <<consent, carts, grants, actor, exchanged, revoked, current, decided, erased, raced>>
      BY DEF CreateGuestSession, Unused, Issue, ghosts
<1>2. c \in Accounts /\ c \notin Staff
      BY IdentityIds DEF Accounts
<1> HIDE DEF no
<1>3. IsRow(row) /\ row.status = "guest" /\ row.hash = t /\ row.roles = {}
      BY DEF IsRow
<1>4. pair \in Pair /\ pair.owner = c /\ pair.permissions = {}
      BY <1>2
<1>5. tokens \in Seq(Pair)
      BY DEF AccountInv, TokensInv
<1>6. t = Len(tokens) + 1 /\ Len(tokens) \in Nat
      BY <1>5
<1> HIDE DEF t, row, Pair, pair
<1>7. /\ tokens' \in Seq(Pair) /\ Len(tokens') = t /\ DOMAIN tokens = 1 .. Len(tokens)
      /\ DOMAIN tokens' = 1 .. t /\ tokens'[t] = pair
      /\ \A u \in 1 .. Len(tokens) : tokens'[u] = tokens[u]
      BY <1>1, <1>4, <1>5, <1>6
<1>8. Extends
      BY <1>1, <1>6, <1>7 DEF Extends
<1>9. /\ RowsInv' /\ rows'[c] = row
      /\ \A i \in Accounts : i # c => rows'[i] = rows[i]
      BY <1>1, <1>2, <1>3, WriteKeepsRows DEF AccountInv
<1>10. ActorsInv'
      <2>1. actor' = [g \in Actors |-> actor'[g]]
            BY <1>1 DEF AccountInv, ActorsInv
      <2> SUFFICES ASSUME NEW g \in Actors, actor'[g] # Idle PROVE InFlight(actor[g])'
          BY <2>1 DEF ActorsInv, Idle
      <2> QED BY <1>1, <1>8, RequestStays DEF AccountInv, ActorsInv
<1>11. GrantsInv'
      BY <1>1 DEF AccountInv, GrantsInv
<1>12. TokensInv'
      <2>1. Len(tokens') <= MaxTokens
            BY <1>1, <1>6, <1>7, IdentityBounds
      <2>2. exchanged' \in [Tokens -> Nat]
            BY <1>1 DEF AccountInv, TokensInv
      <2>3. \A u \in Tokens : u > Len(tokens') => exchanged'[u] = 0
            BY <1>1, <1>6, <1>7 DEF AccountInv, TokensInv, Tokens
      <2>4. revoked' \subseteq DOMAIN tokens' /\ current' \subseteq DOMAIN tokens'
            BY <1>1, <1>6, <1>7 DEF AccountInv, TokensInv
      <2> QED BY <1>7, <2>1, <2>2, <2>3, <2>4 DEF TokensInv, Pair
<1>13. t \in Tokens /\ exchanged[t] = 0 /\ t \notin revoked /\ t \notin DOMAIN tokens
      <2>1. t \in Tokens /\ t > Len(tokens) /\ t \notin DOMAIN tokens
            BY <1>1, <1>6, <1>7, IdentityBounds DEF Tokens
      <2> QED BY <2>1 DEF AccountInv, TokensInv
<1>14. SessionInv'
      <2> SUFFICES ASSUME NEW i \in Accounts \ raced', rows'[i].hash # 0
                   PROVE  /\ rows'[i].hash \in DOMAIN tokens' /\ tokens'[rows'[i].hash].owner = i
                          /\ exchanged'[rows'[i].hash] = 0 /\ rows'[i].hash \notin revoked'
          BY DEF SessionInv
      <2>1. CASE i = c
            BY <1>1, <1>3, <1>4, <1>6, <1>7, <1>9, <1>13, <2>1
      <2>2. CASE i # c
            BY <1>1, <1>8, <1>9, <2>2 DEF AccountInv, SessionInv, Extends
      <2> QED BY <2>1, <2>2
<1>15. RolesInv'
      BY <1>1, <1>2, <1>9 DEF AccountInv, RolesInv, Accounts
<1>16. TokenWorksOnce'
      <2> SUFFICES ASSUME NEW u \in DOMAIN tokens'
                   PROVE  exchanged'[u] <= 1 \/ tokens'[u].owner \in raced'
          BY DEF TokenWorksOnce
      <2>1. CASE u = t
            BY <1>1, <1>13, <2>1
      <2>2. CASE u \in DOMAIN tokens
            BY <1>1, <1>8, <2>2 DEF AccountInv, TokenWorksOnce, Extends
      <2> QED BY <1>6, <1>7, <2>1, <2>2
<1>17. NextTokenFollowsRoles'
      <2>1. \A u \in current : u \in DOMAIN tokens /\ tokens'[u] = tokens[u]
            BY <1>8 DEF Extends, AccountInv, TokensInv
      <2> QED BY <1>1, <2>1 DEF AccountInv, NextTokenFollowsRoles, PermissionCodes
<1>18. ErasedStaysErased'
      <2>1. \A k \in erased \ raced : rows'[k] = rows[k]
            BY <1>1, TombstoneIsARow DEF AccountInv, RowsInv, ErasedStaysErased
      <2> QED BY <1>1, <2>1 DEF AccountInv, ErasedStaysErased
<1> QED BY <1>9, <1>10, <1>11, <1>12, <1>14, <1>15, <1>16, <1>17, <1>18 DEF AccountInv

LEMMA CreateRoleKeepsIInv ==
    ASSUME AccountInv, NEW role, NEW codes, CreateRole(role, codes)
    PROVE  AccountInv'
<1>1. /\ role \notin DOMAIN grants
      /\ grants' = [r \in DOMAIN grants \cup {role} |->
                       IF r = role THEN FindByCodes(codes) ELSE grants[r]]
      /\ UNCHANGED <<rows, consent, carts, actor, tokens, exchanged, revoked, current, decided,
                     erased, raced>>
      BY DEF CreateRole, InsertRole, accounts, ghosts
<1>2. Extends /\ DOMAIN grants \subseteq DOMAIN grants'
      BY <1>1 DEF Extends
<1>3. ActorsInv'
      <2>1. actor' = [g \in Actors |-> actor'[g]]
            BY <1>1 DEF AccountInv, ActorsInv
      <2> SUFFICES ASSUME NEW g \in Actors, actor'[g] # Idle PROVE InFlight(actor[g])'
          BY <2>1 DEF ActorsInv, Idle
      <2> QED BY <1>1, <1>2, RequestStays DEF AccountInv, ActorsInv
<1>4. GrantsInv'
      BY <1>1 DEF AccountInv, GrantsInv, FindByCodes
<1>5. RowsInv'
      BY <1>1, <1>2 DEF AccountInv, RowsInv, IsRow
<1>6. TokensInv' /\ SessionInv'
      BY <1>1 DEF AccountInv, TokensInv, SessionInv
<1>7. RolesInv'
      BY <1>1, <1>2 DEF AccountInv, RolesInv
<1>8. TokenWorksOnce' /\ ErasedStaysErased'
      BY <1>1 DEF AccountInv, TokenWorksOnce, ErasedStaysErased
<1>9. NextTokenFollowsRoles'
      <2>1. \A s \in Staff : UNION {grants'[r] : r \in decided[s]} = UNION {grants[r] : r \in decided[s]}
            BY <1>2, CodesStay DEF AccountInv, RolesInv
      <2> QED BY <1>1, <2>1 DEF AccountInv, NextTokenFollowsRoles, PermissionCodes
<1> QED BY <1>3, <1>4, <1>5, <1>6, <1>7, <1>8, <1>9 DEF AccountInv

LEMMA UpdateRoleKeepsIInv ==
    ASSUME AccountInv, NEW role, NEW codes, UpdateRole(role, codes)
    PROVE  AccountInv'
<1>1. /\ grants' = [grants EXCEPT ![role] = FindByCodes(codes)] /\ actor' = Unfresh /\ current' = {}
      /\ UNCHANGED <<rows, consent, carts, tokens, exchanged, revoked, decided, erased, raced>>
      BY DEF UpdateRole, ReplacePermissions, accounts
<1>2. DOMAIN grants' = DOMAIN grants
      BY <1>1 DEF AccountInv, GrantsInv
<1>3. ActorsInv'
      <2>1. actor' = [g \in Actors |-> actor'[g]]
            BY <1>1 DEF Unfresh
      <2> SUFFICES ASSUME NEW g \in Actors, actor'[g] # Idle PROVE InFlight(actor[g])'
          BY <2>1 DEF ActorsInv, Idle
      <2>2. actor[g] # Idle /\ actor'[g] = Unfresh[g]
            BY <1>1 DEF Unfresh
      <2> QED BY <1>1, <1>2, <2>2, UnfreshFits DEF AccountInv
<1>4. GrantsInv'
      BY <1>1, <1>2 DEF AccountInv, GrantsInv, FindByCodes
<1>5. RowsInv'
      BY <1>1, <1>2 DEF AccountInv, RowsInv, IsRow
<1>6. TokensInv' /\ SessionInv'
      BY <1>1 DEF AccountInv, TokensInv, SessionInv
<1>7. RolesInv'
      BY <1>1, <1>2 DEF AccountInv, RolesInv
<1>8. TokenWorksOnce' /\ NextTokenFollowsRoles' /\ ErasedStaysErased'
      BY <1>1 DEF AccountInv, TokenWorksOnce, NextTokenFollowsRoles, ErasedStaysErased
<1> QED BY <1>3, <1>4, <1>5, <1>6, <1>7, <1>8 DEF AccountInv

-----------------------------------------------------------------------------
LEMMA BeginKeepsIInv ==
    ASSUME AccountInv, NEW a \in Actors, Begin(a)
    PROVE  AccountInv'
<1>1. ASSUME NEW c \in Customers, NEW e \in Emails, RegisterCustomer(a, c, e) PROVE AccountInv'
      BY <1>1, RegisterKeepsIInv
<1>2. ASSUME NEW c \in Customers, LoginCustomer(a, c) \/ OpenCart(a, c) PROVE AccountInv'
      BY <1>2, LoginCustomerKeepsIInv, OpenCartKeepsIInv
<1>3. ASSUME NEW c \in Customers, NEW patch \in Patches, RecordConsent(a, c, patch) PROVE AccountInv'
      BY <1>3, ConsentKeepsIInv
<1>4. ASSUME NEW c \in Customers, NEW e, EraseCustomer(a, c, e) PROVE AccountInv'
      BY <1>4, EraseKeepsIInv
<1>5. ASSUME NEW t \in DOMAIN tokens, Refresh(a, t) PROVE AccountInv'
      BY <1>5, RefreshKeepsIInv
<1>6. ASSUME NEW id \in Accounts, Logout(a, id) PROVE AccountInv'
      BY <1>6, SessionRequestsKeepIInv
<1> QED BY <1>1, <1>2, <1>3, <1>4, <1>5, <1>6 DEF Begin

LEMMA BeginForStaffKeepsIInv ==
    ASSUME AccountInv, NEW a \in Actors, BeginForStaff(a)
    PROVE  AccountInv'
BY RegisterStaffKeepsIInv, LoginKeepsIInv, AssignKeepsIInv, RevokeKeepsIInv DEF BeginForStaff

LEMMA SaveKeepsIInv ==
    ASSUME AccountInv, NEW a \in Actors, Save(a)
    PROVE  AccountInv'
BY SaveCustomerKeepsIInv, SaveSessionKeepsIInv, SaveStaffRolesKeepsIInv, SaveErasureKeepsIInv,
   SideRecordsKeepIInv, SaveRefusedKeepsIInv DEF Save

LEMMA AccountsGoOn ==
    ASSUME AccountInv, [Next]_vars
    PROVE  AccountInv'
<1>1. ASSUME NEW a \in Actors, Begin(a) \/ BeginForStaff(a) \/ Save(a) PROVE AccountInv'
      BY <1>1, BeginKeepsIInv, BeginForStaffKeepsIInv, SaveKeepsIInv
<1>2. ASSUME NEW c \in Customers, CreateGuestSession(c) PROVE AccountInv'
      BY <1>2, GuestKeepsIInv
<1>3. ASSUME NEW role, NEW codes, CreateRole(role, codes) \/ UpdateRole(role, codes) PROVE AccountInv'
      BY <1>3, CreateRoleKeepsIInv, UpdateRoleKeepsIInv
<1>4. CASE UNCHANGED vars
      <2>1. UNCHANGED <<rows, consent, carts, grants, actor, tokens, exchanged, revoked, current,
                        decided, erased, raced>>
            BY <1>4 DEF vars, accounts, ghosts
      <2>2. RowsInv' /\ GrantsInv' /\ TokensInv' /\ SessionInv' /\ RolesInv'
            BY <2>1 DEF AccountInv, RowsInv, IsRow, GrantsInv, TokensInv, SessionInv, RolesInv
      <2>3. ActorsInv'
            BY <2>1 DEF AccountInv, ActorsInv, InFlight, IsRequest, IsRow, PermissionCodes
      <2>4. TokenWorksOnce' /\ NextTokenFollowsRoles' /\ ErasedStaysErased'
            BY <2>1 DEF AccountInv, TokenWorksOnce, NextTokenFollowsRoles, PermissionCodes, ErasedStaysErased
      <2> QED BY <2>2, <2>3, <2>4 DEF AccountInv
<1> QED BY <1>1, <1>2, <1>3, <1>4 DEF Next

\* The inductive invariant holds in every behaviour of the accounts module.
THEOREM AccountsStaySound == Spec => []AccountInv
<1>1. Init => AccountInv
      BY AccountsStart
<1>2. AccountInv /\ [Next]_vars => AccountInv'
      BY AccountsGoOn
<1> QED BY <1>1, <1>2, PTL DEF Spec

\* Of all pairs ever issued, each pays for one refresh at most, whatever
\* requests run at the same time (RefreshTokenUseCase), unless a stale save
\* wrote over the account.
THEOREM TokensWorkOnce == Spec => []TokenWorksOnce
<1>1. AccountInv => TokenWorksOnce
      BY DEF AccountInv
<1> QED BY <1>1, AccountsStaySound, PTL

\* The permissions in a token minted since the last change of roles are those
\* the staff user was given (AssignStaffRoleUseCase, RevokeStaffRoleUseCase,
\* UpdateRoleUseCase).
THEOREM TokensFollowRoles == Spec => []NextTokenFollowsRoles
<1>1. AccountInv => NextTokenFollowsRoles
      BY DEF AccountInv
<1> QED BY <1>1, AccountsStaySound, PTL

\* After EraseCustomerUseCase a customer is a tombstone without consent record
\* and active cart for good.
THEOREM ErasureIsFinal == Spec => []ErasedStaysErased
<1>1. AccountInv => ErasedStaysErased
      BY DEF AccountInv
<1> QED BY <1>1, AccountsStaySound, PTL

\* Only a refresh changes what a token paid for.
LEMMA StepKeepsExchanged ==
    ASSUME AccountInv, [Next]_vars
    PROVE  \A t \in revoked : exchanged'[t] = exchanged[t] \/ tokens[t].owner \in raced'
<1>1. ASSUME NEW a \in Actors, SaveSession(a)
      PROVE  \A t \in revoked : exchanged'[t] = exchanged[t] \/ tokens[t].owner \in raced'
      BY <1>1, SaveSessionKeepsIInv
<1>2. ASSUME NEW a \in Actors, NEW x, Start(a, x) PROVE exchanged' = exchanged
      BY <1>2 DEF Start, ghosts
<1>3. ASSUME NEW a \in Actors, Begin(a) \/ BeginForStaff(a) PROVE exchanged' = exchanged
      BY <1>2, <1>3 DEF Begin, BeginForStaff, RegisterCustomer, LoginCustomer, OpenCart,
         RecordConsent, EraseCustomer, Refresh, Logout, RegisterStaffUser, Login,
         AssignStaffRole, RevokeStaffRole
<1>4. ASSUME NEW a \in Actors,
             \/ SaveCustomer(a) \/ SaveStaffRoles(a) \/ SaveErasure(a)
             \/ SaveConsent(a) \/ SaveCart(a) \/ SaveRefused(a)
      PROVE  exchanged' = exchanged
      BY <1>4 DEF SaveCustomer, SaveStaffRoles, SaveErasure, SaveConsent, SaveCart, SaveRefused, ghosts
<1>5. ASSUME \/ \E c \in Customers : CreateGuestSession(c)
             \/ \E role \in Roles, codes \in SUBSET Codes :
                   CreateRole(role, codes) \/ UpdateRole(role, codes)
             \/ UNCHANGED vars
      PROVE  exchanged' = exchanged
      BY <1>5 DEF CreateGuestSession, CreateRole, UpdateRole, vars, ghosts
<1> QED BY <1>1, <1>3, <1>4, <1>5 DEF Next, Save

\* Once a logout, a detected reuse or an erasure ended a session, none of its
\* tokens pays for another pair.
THEOREM EndedForGood == Spec => EndedSessionsStayEnded
<1>1. AccountInv /\ [Next]_vars =>
         [\A t \in revoked : exchanged'[t] = exchanged[t] \/ tokens[t].owner \in raced']_vars
      BY StepKeepsExchanged
<1> QED BY <1>1, AccountsStaySound, PTL DEF Spec, EndedSessionsStayEnded

-----------------------------------------------------------------------------
(* Types.                                                                  *)

LEMMA RowTypes ==
    /\ \A i \in Accounts : NoRow(i) \in Entity(i)
    /\ \A c \in Customers, e \in Emails : ActiveCustomer(e) \in Entity(c)
    /\ \A c \in Customers : Tombstone \in Entity(c)
    /\ \A s \in Staff, held \in SUBSET Roles : ActiveStaff(s, held) \in Entity(s)
<1>1. ASSUME NEW i \in Accounts PROVE NoRow(i) \in Entity(i)
      <2> DEFINE known == i \in Staff
      <2>1. NoRow(i) = [status |-> "none", email |-> NoEmail, password |-> known,
                        profile |-> known, hash |-> 0, roles |-> {}]
            BY DEF NoRow
      <2>2. known \in BOOLEAN /\ (i \notin Customers => known = TRUE)
            BY DEF Accounts
      <2>3. CASE i \in Customers
            <3> HIDE DEF known
            <3> QED BY <2>1, <2>2, <2>3, IdentityBounds DEF Entity, CustomerEntity
      <2>4. CASE i \notin Customers
            <3> DEFINE yes == TRUE
            <3>1. known = yes
                  BY <2>2, <2>4
            <3>2. StaffUserEntity =
                     [status : {"none", "active", "suspended"}, email : {NoEmail}, password : {yes},
                      profile : {yes}, hash : 0 .. MaxTokens, roles : SUBSET Roles]
                  BY DEF StaffUserEntity
            <3> HIDE DEF known, yes
            <3> QED BY <2>1, <2>4, <3>1, <3>2, IdentityBounds DEF Entity
      <2> QED BY <2>3, <2>4
<1>2. ASSUME NEW c \in Customers, NEW e \in Emails PROVE ActiveCustomer(e) \in Entity(c)
      BY IdentityBounds DEF ActiveCustomer, Entity, CustomerEntity
<1>3. ASSUME NEW c \in Customers PROVE Tombstone \in Entity(c)
      BY IdentityBounds DEF Tombstone, Entity, CustomerEntity
<1>4. ASSUME NEW s \in Staff, NEW held \in SUBSET Roles PROVE ActiveStaff(s, held) \in Entity(s)
      <2>1. NoRow(s) \in StaffUserEntity /\ Entity(s) = StaffUserEntity
            BY <1>1, IdentityIds DEF Entity, Accounts
      <2> DEFINE a == [NoRow(s) EXCEPT !.status = "active"]
                 b == [a EXCEPT !.roles = held]
      <2>2. a \in StaffUserEntity
            BY <2>1 DEF StaffUserEntity
      <2>3. ActiveStaff(s, held) = b
            BY DEF ActiveStaff
      <2> HIDE DEF a
      <2>4. b \in StaffUserEntity
            BY <2>2 DEF StaffUserEntity
      <2> QED BY <2>1, <2>3, <2>4
<1> QED BY <1>1, <1>2, <1>3, <1>4

LEMMA RotatedType ==
    ASSUME NEW i, NEW row \in Entity(i), NEW t \in 0 .. MaxTokens
    PROVE  RotateRefreshTokenHash(row, t) \in Entity(i)
BY DEF RotateRefreshTokenHash, Entity, CustomerEntity, StaffUserEntity

\* A request whose rows are of its account.
Typed(x) ==
    /\ x \in Request /\ {x.read, x.copy} \subseteq Entity(x.id)
    /\ x.kind \in {"consent", "cart"} => x.id \in Customers

\* The part of TypeOK that AccountInv does not tell.
RestOK ==
    /\ DOMAIN rows = Accounts /\ \A i \in Accounts : rows[i] \in Entity(i)
    /\ DOMAIN grants \subseteq Roles
    /\ consent \in UNION {[known -> ConsentRecord] : known \in SUBSET Customers}
    /\ carts \subseteq Customers /\ erased \subseteq Customers /\ raced \subseteq Accounts
    /\ actor = [a \in Actors |-> actor[a]]
    /\ \A a \in Actors : actor[a] # Idle => Typed(actor[a])
    /\ requests \in 0 .. MaxRequests

LEMMA TypeParts == AccountInv /\ RestOK => TypeOK
<1> SUFFICES ASSUME AccountInv, RestOK PROVE TypeOK
    OBVIOUS
<1>1. grants \in RolePermissions
      <2>1. grants \in [DOMAIN grants -> RoleAggregate]
            BY DEF AccountInv, GrantsInv, RoleAggregate
      <2> QED BY <2>1 DEF RestOK, RolePermissions
<1>2. actor \in [Actors -> Request \cup {Idle}]
      BY DEF RestOK, Typed
<1>3. \A a \in Actors : actor[a] # Idle => {actor[a].read, actor[a].copy} \subseteq Entity(actor[a].id)
      BY DEF RestOK, Typed
<1>4. revoked \subseteq Tokens /\ current \subseteq Tokens
      <2>1. DOMAIN tokens = 1 .. Len(tokens) /\ Len(tokens) \in Nat
            BY DEF AccountInv, TokensInv
      <2>2. DOMAIN tokens \subseteq Tokens
            BY <2>1, IdentityBounds DEF AccountInv, TokensInv, Tokens
      <2> QED BY <2>2 DEF AccountInv, TokensInv
<1>5. decided \in [Staff -> SUBSET Roles]
      BY DEF AccountInv, RolesInv, RestOK
<1> HIDE DEF Request, Entity
<1> QED BY <1>1, <1>2, <1>3, <1>4, <1>5 DEF RestOK, AccountInv, TokensInv, TypeOK

LEMMA RestInit == Init => RestOK
<1> SUFFICES ASSUME Init PROVE RestOK
    OBVIOUS
<1>1. ASSUME NEW i \in Accounts PROVE rows[i] \in Entity(i)
      <2>1. rows[i] \in InitialRows(i)
            BY DEF Init
      <2>2. CASE rows[i] = NoRow(i)
            BY <2>2, RowTypes
      <2>3. CASE i \in Customers /\ \E e \in Emails : rows[i] = ActiveCustomer(e)
            BY <2>3, RowTypes
      <2>4. CASE /\ i \notin Customers
                 /\ \E held \in SUBSET DOMAIN InitialGrants : rows[i] = ActiveStaff(i, held)
            BY <2>4, RowTypes, IdentityGrants DEF RolePermissions, Accounts
      <2> QED BY <2>1, <2>2, <2>3, <2>4 DEF InitialRows, ActiveStaff
<1>2. DOMAIN rows = Accounts /\ DOMAIN grants \subseteq Roles
      BY IdentityGrants DEF Init, RolePermissions
<1>3. consent \in UNION {[known -> ConsentRecord] : known \in SUBSET Customers}
      <2>1. consent \in [{} -> ConsentRecord]
            BY DEF Init
      <2> QED BY <2>1
<1>4. requests \in 0 .. MaxRequests
      BY IdentityBounds DEF Init
<1> HIDE DEF Entity
<1> QED BY <1>1, <1>2, <1>3, <1>4 DEF Init, RestOK

LEMMA HoldingIsTyped ==
    ASSUME RestOK, NEW kind \in Kinds, NEW id \in Accounts, NEW copy \in Entity(id),
           kind \in {"consent", "cart"} => id \in Customers
    PROVE  Typed(Holding(kind, id, copy))
<1>1. rows[id] \in Entity(id) /\ Entity(id) \subseteq CustomerEntity \cup StaffUserEntity
      BY DEF RestOK, Entity
<1> HIDE DEF CustomerEntity, StaffUserEntity
<1>2. 0 \in 0 .. MaxTokens /\ DefaultConsentRecord \in ConsentRecord
      BY IdentityBounds DEF DefaultConsentRecord, ConsentRecord
<1>3. Holding(kind, id, copy) \in Request
      BY <1>1, <1>2 DEF Holding, Request
<1> QED BY <1>1, <1>3 DEF Typed, Holding

LEMMA StartKeepsRest ==
    ASSUME RestOK, NEW a \in Actors, NEW x, Start(a, x), Typed(x)
    PROVE  RestOK'
<1>1. /\ actor' = [actor EXCEPT ![a] = x] /\ requests' = requests + 1 /\ requests < MaxRequests
      /\ UNCHANGED <<rows, consent, carts, grants, erased, raced>>
      BY DEF Start, accounts, ghosts
<1>2. actor' = [g \in Actors |-> actor'[g]] /\ \A g \in Actors : actor'[g] # Idle => Typed(actor'[g])
      BY <1>1 DEF RestOK
<1>3. requests' \in 0 .. MaxRequests
      BY <1>1, IdentityBounds DEF RestOK
<1> QED BY <1>1, <1>2, <1>3 DEF RestOK

LEMMA PlainStartKeepsRest ==
    ASSUME RestOK, NEW a \in Actors, NEW kind \in Kinds, NEW id \in Accounts, NEW copy \in Entity(id),
           kind \in {"consent", "cart"} => id \in Customers, Start(a, Holding(kind, id, copy))
    PROVE  RestOK'
BY HoldingIsTyped, StartKeepsRest

\* The permissions, the token and the consent of a request.
LEMMA DetailsAreTyped ==
    ASSUME NEW x, Typed(x), NEW codes \in SUBSET Permissions, NEW t \in 0 .. MaxTokens,
           NEW record \in ConsentRecord
    PROVE  /\ Typed([x EXCEPT !.permissions = codes]) /\ Typed([x EXCEPT !.given = t])
           /\ Typed([x EXCEPT !.consent = record])
<1> HIDE DEF CustomerEntity, StaffUserEntity, Kinds, ConsentRecord
<1>1. x \in Request
      BY DEF Typed
<1>2. [x EXCEPT !.permissions = codes] \in Request
      BY <1>1 DEF Request
<1>3. [x EXCEPT !.given = t] \in Request
      BY <1>1 DEF Request
<1>4. [x EXCEPT !.consent = record] \in Request
      BY <1>1 DEF Request
<1> QED BY <1>1, <1>2, <1>3, <1>4 DEF Typed, Request

LEMMA BeginKeepsRest ==
    ASSUME AccountInv, RestOK, NEW a \in Actors, Begin(a)
    PROVE  RestOK'
<1>0. \A i \in Accounts : rows[i] \in Entity(i)
      BY DEF RestOK
<1>1. ASSUME NEW c \in Customers, NEW e \in Emails, RegisterCustomer(a, c, e) PROVE RestOK'
      BY <1>1, RowTypes, PlainStartKeepsRest DEF RegisterCustomer, Kinds, Accounts
<1>2. ASSUME NEW c \in Customers, LoginCustomer(a, c) \/ OpenCart(a, c) PROVE RestOK'
      BY <1>0, <1>2, PlainStartKeepsRest DEF LoginCustomer, OpenCart, Kinds, Accounts
<1>3. ASSUME NEW c \in Customers, NEW patch \in Patches, RecordConsent(a, c, patch) PROVE RestOK'
      <2> DEFINE x == Holding("consent", c, rows[c])
                 merged == Apply(FindConsent(c), patch)
      <2>1. Typed(x)
            BY <1>0, HoldingIsTyped DEF Kinds, Accounts
      <2>2. FindConsent(c) \in ConsentRecord
            BY DEF FindConsent, RestOK, DefaultConsentRecord, ConsentRecord
      <2>3. merged \in ConsentRecord
            BY <2>2, IdentityIds DEF Apply, ConsentRecord
      <2>4. Start(a, [x EXCEPT !.consent = merged])
            BY <1>3 DEF RecordConsent
      <2> HIDE DEF x, merged
      <2>5. Typed([x EXCEPT !.consent = merged])
            <3>1. {} \in SUBSET Permissions /\ 0 \in 0 .. MaxTokens
                  BY IdentityBounds
            <3> QED BY <2>1, <2>3, <3>1, DetailsAreTyped
      <2> QED BY <2>4, <2>5, StartKeepsRest
<1>4. ASSUME NEW c \in Customers, NEW e, EraseCustomer(a, c, e) PROVE RestOK'
      <2>1. /\ c \in Accounts /\ IsRow(rows[c]) /\ rows[c].roles = {}
            BY DEF Accounts, AccountInv, RowsInv
      <2>2. Start(a, Holding("erase", c, Tombstone))
            BY <1>4, <2>1, ErasedRow DEF EraseCustomer
      <2> QED BY <2>1, <2>2, RowTypes, PlainStartKeepsRest DEF Kinds
<1>5. ASSUME NEW t \in DOMAIN tokens, Refresh(a, t) PROVE RestOK'
      <2> DEFINE id == tokens[t].owner
                 x == Holding("refresh", id, rows[id])
                 codes == Inflated(rows[id], t)
                 b == [x EXCEPT !.given = t]
      <2>1. id \in Accounts
            BY OwnerIsAnAccount DEF AccountInv
      <2>2. CASE Start(a, Holding("reuse", id, RotateRefreshTokenHash(rows[id], 0)))
            BY <1>0, <2>1, <2>2, RotatedType, PlainStartKeepsRest, IdentityBounds DEF Kinds
      <2>3. CASE Start(a, [b EXCEPT !.permissions = codes])
            <3>1. Typed(x)
                  BY <1>0, <2>1, HoldingIsTyped DEF Kinds
            <3>2. codes \in SUBSET Permissions
                  BY <2>1, CodesArePermissions DEF Inflated, AccountInv, RowsInv
            <3>3. t \in 0 .. MaxTokens /\ DefaultConsentRecord \in ConsentRecord
                  BY IdentityBounds DEF AccountInv, TokensInv, DefaultConsentRecord, ConsentRecord
            <3> HIDE DEF x, codes
            <3>4. Typed(b)
                  BY <3>1, <3>2, <3>3, DetailsAreTyped
            <3> HIDE DEF b
            <3>5. Typed([b EXCEPT !.permissions = codes])
                  BY <3>2, <3>3, <3>4, DetailsAreTyped
            <3> QED BY <2>3, <3>5, StartKeepsRest
      <2> QED BY <1>5, <2>2, <2>3 DEF Refresh
<1>6. ASSUME NEW id \in Accounts, Logout(a, id) PROVE RestOK'
      BY <1>0, <1>6, RotatedType, PlainStartKeepsRest, IdentityBounds DEF Logout, Kinds
<1> QED BY <1>1, <1>2, <1>3, <1>4, <1>5, <1>6 DEF Begin

LEMMA BeginForStaffKeepsRest ==
    ASSUME AccountInv, RestOK, NEW a \in Actors, BeginForStaff(a)
    PROVE  RestOK'
<1>0. \A s \in Staff : rows[s] \in StaffUserEntity /\ Entity(s) = StaffUserEntity /\ s \in Accounts
      BY IdentityIds DEF RestOK, Entity, Accounts
<1>1. ASSUME NEW s \in Staff, NEW names \in SUBSET Roles, RegisterStaffUser(a, s, names) PROVE RestOK'
      BY <1>0, <1>1, RowTypes, PlainStartKeepsRest DEF RegisterStaffUser, ActiveStaff, Kinds
<1>2. ASSUME NEW s \in Staff, Login(a, s) PROVE RestOK'
      <2> DEFINE x == Holding("login", s, rows[s])
                 codes == PermissionCodes(rows[s].roles)
      <2>1. Typed(x)
            BY <1>0, HoldingIsTyped DEF Kinds
      <2>2. codes \in SUBSET Permissions
            BY <1>0, CodesArePermissions DEF AccountInv, RowsInv
      <2>3. Start(a, [x EXCEPT !.permissions = codes])
            BY <1>2 DEF Login
      <2>4. 0 \in 0 .. MaxTokens /\ DefaultConsentRecord \in ConsentRecord
            BY IdentityBounds DEF DefaultConsentRecord, ConsentRecord
      <2> HIDE DEF x, codes
      <2>5. Typed([x EXCEPT !.permissions = codes])
            BY <2>1, <2>2, <2>4, DetailsAreTyped
      <2> QED BY <2>3, <2>5, StartKeepsRest
<1>3. ASSUME NEW s \in Staff, NEW names \in SUBSET Roles, AssignStaffRole(a, s, names) PROVE RestOK'
      <2>1. AssignRole(rows[s], names) \in StaffUserEntity
            BY <1>0 DEF AssignRole, StaffUserEntity
      <2> QED BY <1>0, <1>3, <2>1, PlainStartKeepsRest DEF AssignStaffRole, Kinds
<1>4. ASSUME NEW s \in Staff, NEW role \in Roles, RevokeStaffRole(a, s, role) PROVE RestOK'
      <2>1. RevokeRole(rows[s], role) \in StaffUserEntity
            BY <1>0 DEF RevokeRole, StaffUserEntity
      <2> QED BY <1>0, <1>4, <2>1, PlainStartKeepsRest DEF RevokeStaffRole, Kinds
<1> QED BY <1>1, <1>2, <1>3, <1>4 DEF BeginForStaff

\* A save changes one row, side records of a customer, and ends its request.
LEMMA SaveKeepsRestParts ==
    ASSUME RestOK, NEW a \in Actors, actor[a] # Idle, NEW row \in Entity(actor[a].id),
           \/ rows' = rows
           \/ rows' = [rows EXCEPT ![actor[a].id] = row],
           raced' = Raced(a) \/ raced' = raced,
           \/ Done(a) \/ actor' = [Unfresh EXCEPT ![a] = Idle],
           consent' \in UNION {[known -> ConsentRecord] : known \in SUBSET Customers},
           carts' \subseteq Customers, erased' \subseteq Customers,
           UNCHANGED <<grants, requests>>
    PROVE  RestOK'
<1>1. actor[a].id \in Accounts
      BY DEF RestOK, Typed, Request
<1>2. DOMAIN rows' = Accounts /\ \A i \in Accounts : rows'[i] \in Entity(i)
      <2> HIDE DEF Entity
      <2> QED BY <1>1 DEF RestOK
<1>3. raced' \subseteq Accounts
      BY <1>1 DEF RestOK, Raced
<1>4. actor' = [g \in Actors |-> actor'[g]]
      BY DEF Done, Unfresh, RestOK
<1>5. ASSUME NEW g \in Actors, actor'[g] # Idle PROVE Typed(actor'[g])
      <2>1. CASE Done(a)
            BY <1>5, <2>1 DEF Done, RestOK
      <2>2. CASE actor' = [Unfresh EXCEPT ![a] = Idle]
            <3> DEFINE x == actor[g]
                       no == FALSE
            <3>1. actor'[g] = [x EXCEPT !.fresh = no] /\ x # Idle
                  BY <1>5, <2>2 DEF Unfresh
            <3>2. Typed(x) /\ no \in BOOLEAN
                  BY <3>1 DEF RestOK
            <3> HIDE DEF x, no, CustomerEntity, StaffUserEntity, Kinds, ConsentRecord
            <3>3. [x EXCEPT !.fresh = no] \in Request
                  BY <3>2 DEF Typed, Request
            <3>4. Typed([x EXCEPT !.fresh = no])
                  BY <3>2, <3>3 DEF Typed, Request
            <3> QED BY <3>1, <3>4
      <2> QED BY <2>1, <2>2
<1> HIDE DEF Entity
<1> QED BY <1>2, <1>3, <1>4, <1>5 DEF RestOK

LEMMA SaveKeepsRest ==
    ASSUME AccountInv, RestOK, NEW a \in Actors, Save(a)
    PROVE  RestOK'
<1>1. actor[a] # Idle
      BY DEF Save, SaveCustomer, SaveSession, SaveStaffRoles, SaveErasure, SaveConsent, SaveCart,
         SaveRefused
<1>2. /\ Typed(actor[a]) /\ actor[a].copy \in Entity(actor[a].id) /\ actor[a].id \in Accounts
      /\ actor[a].consent \in ConsentRecord
      BY <1>1 DEF RestOK, Typed, Request
<1>3. /\ consent \in UNION {[known -> ConsentRecord] : known \in SUBSET Customers}
      /\ carts \subseteq Customers /\ erased \subseteq Customers
      BY DEF RestOK
<1>4. CASE SaveCustomer(a)
      BY <1>1, <1>2, <1>3, <1>4, SaveKeepsRestParts DEF SaveCustomer, Write
<1>5. CASE SaveSession(a)
      <2> DEFINE row == RotateRefreshTokenHash(actor[a].copy, Len(tokens) + 1)
      <2>1. Len(tokens) + 1 \in 0 .. MaxTokens
            BY <1>5, IdentityBounds DEF SaveSession, AccountInv, TokensInv
      <2>2. row \in Entity(actor[a].id)
            BY <1>2, <2>1, RotatedType
      <2>3. /\ rows' = [rows EXCEPT ![actor[a].id] = row] /\ raced' = Raced(a) /\ Done(a)
            /\ UNCHANGED <<consent, carts, erased, grants, requests>>
            BY <1>5 DEF SaveSession, Write
      <2> HIDE DEF row
      <2> QED BY <1>1, <1>3, <2>2, <2>3, SaveKeepsRestParts
<1>6. CASE SaveStaffRoles(a)
      BY <1>1, <1>2, <1>3, <1>6, SaveKeepsRestParts DEF SaveStaffRoles
<1>7. CASE SaveErasure(a)
      <2>1. actor[a].id \in Customers
            BY <1>1, <1>7 DEF SaveErasure, AccountInv, ActorsInv, InFlight
      <2>2. consent' \in UNION {[known -> ConsentRecord] : known \in SUBSET Customers}
            BY <1>3, <1>7 DEF SaveErasure, PersistErasure, Restrict
      <2>3. /\ rows' = [rows EXCEPT ![actor[a].id] = actor[a].copy] /\ raced' = Raced(a) /\ Done(a)
            /\ carts' \subseteq Customers /\ erased' \subseteq Customers /\ UNCHANGED <<grants, requests>>
            BY <1>3, <1>7, <2>1 DEF SaveErasure, PersistErasure, Write
      <2> QED BY <1>1, <1>2, <2>2, <2>3, SaveKeepsRestParts
<1>8. CASE SaveConsent(a)
      <2>1. actor[a].id \in Customers
            BY <1>2, <1>8 DEF SaveConsent, Typed
      <2>2. consent' \in UNION {[known -> ConsentRecord] : known \in SUBSET Customers}
            <3>1. PICK known \in SUBSET Customers : consent \in [known -> ConsentRecord]
                  BY <1>3
            <3>2. consent' \in [known \cup {actor[a].id} -> ConsentRecord]
                  BY <1>2, <1>8, <3>1 DEF SaveConsent
            <3> QED BY <2>1, <3>1, <3>2
      <2> QED BY <1>1, <1>2, <1>3, <1>8, <2>2, SaveKeepsRestParts DEF SaveConsent
<1>9. CASE SaveCart(a)
      <2>1. actor[a].id \in Customers
            BY <1>2, <1>9 DEF SaveCart, Typed
      <2> QED BY <1>1, <1>2, <1>3, <1>9, <2>1, SaveKeepsRestParts DEF SaveCart
<1>10. CASE SaveRefused(a)
      BY <1>1, <1>2, <1>3, <1>10, SaveKeepsRestParts DEF SaveRefused, accounts, ghosts
<1> QED BY <1>4, <1>5, <1>6, <1>7, <1>8, <1>9, <1>10 DEF Save

LEMMA NextKeepsRest ==
    ASSUME AccountInv, RestOK, [Next]_vars
    PROVE  RestOK'
<1>1. ASSUME NEW c \in Customers, CreateGuestSession(c) PROVE RestOK'
      <2> DEFINE no == FALSE
                 row == [status |-> "guest", email |-> GuestEmail(c), password |-> no,
                         profile |-> no, hash |-> Len(tokens) + 1, roles |-> {}]
      <2>1. /\ rows' = [rows EXCEPT ![c] = row] /\ requests < MaxRequests /\ requests' = requests + 1
            /\ UNCHANGED <<consent, carts, grants, actor, erased, raced>>
            BY <1>1 DEF CreateGuestSession, ghosts
      <2>2. Len(tokens) + 1 \in 0 .. MaxTokens /\ no \in BOOLEAN
            BY <1>1, IdentityBounds DEF CreateGuestSession, AccountInv, TokensInv
      <2> HIDE DEF no
      <2>3. row \in CustomerEntity
            BY <2>2 DEF CustomerEntity
      <2> HIDE DEF row
      <2>4. DOMAIN rows' = Accounts /\ \A i \in Accounts : rows'[i] \in Entity(i)
            BY <2>1, <2>3 DEF RestOK, Entity, Accounts
      <2>5. requests' \in 0 .. MaxRequests
            BY <2>1, IdentityBounds DEF RestOK
      <2> HIDE DEF Entity
      <2> QED BY <2>1, <2>4, <2>5 DEF RestOK
<1>2. ASSUME NEW role \in Roles, NEW codes, CreateRole(role, codes) PROVE RestOK'
      <2>1. /\ DOMAIN grants' = DOMAIN grants \cup {role} /\ requests < MaxRequests
            /\ requests' = requests + 1
            /\ UNCHANGED <<rows, consent, carts, actor, erased, raced>>
            BY <1>2 DEF CreateRole, InsertRole, accounts, ghosts
      <2>2. requests' \in 0 .. MaxRequests
            BY <2>1, IdentityBounds DEF RestOK
      <2> QED BY <2>1, <2>2 DEF RestOK
<1>3. ASSUME NEW role, NEW codes, UpdateRole(role, codes) PROVE RestOK'
      <2>1. /\ DOMAIN grants' = DOMAIN grants /\ requests < MaxRequests /\ requests' = requests + 1
            /\ actor' = Unfresh
            /\ UNCHANGED <<rows, consent, carts, erased, raced>>
            BY <1>3 DEF UpdateRole, ReplacePermissions, accounts, AccountInv, GrantsInv
      <2>2. requests' \in 0 .. MaxRequests
            BY <2>1, IdentityBounds DEF RestOK
      <2>3. ASSUME NEW g \in Actors, actor'[g] # Idle PROVE Typed(actor'[g])
            <3> DEFINE x == actor[g]
                       no == FALSE
            <3>1. actor'[g] = [x EXCEPT !.fresh = no] /\ x # Idle
                  BY <2>1, <2>3 DEF Unfresh
            <3>2. Typed(x) /\ no \in BOOLEAN
                  BY <3>1 DEF RestOK
            <3> HIDE DEF x, no, CustomerEntity, StaffUserEntity, Kinds, ConsentRecord
            <3>3. [x EXCEPT !.fresh = no] \in Request
                  BY <3>2 DEF Typed, Request
            <3>4. Typed([x EXCEPT !.fresh = no])
                  BY <3>2, <3>3 DEF Typed, Request
            <3> QED BY <3>1, <3>4
      <2>4. actor' = [g \in Actors |-> actor'[g]]
            BY <2>1 DEF Unfresh
      <2> QED BY <2>1, <2>2, <2>3, <2>4 DEF RestOK
<1>4. CASE UNCHANGED vars
      <2>1. UNCHANGED <<rows, consent, carts, grants, actor, erased, raced, requests>>
            BY <1>4 DEF vars, accounts, ghosts
      <2> QED BY <2>1 DEF RestOK
<1>5. ASSUME NEW a \in Actors, Begin(a) \/ BeginForStaff(a) \/ Save(a) PROVE RestOK'
      BY <1>5, BeginKeepsRest, BeginForStaffKeepsRest, SaveKeepsRest
<1> QED BY <1>1, <1>2, <1>3, <1>4, <1>5 DEF Next

\* Every row stays a row of its table, and every request in flight holds rows
\* of its own account.
THEOREM TypesAreRight == Spec => []TypeOK
<1>1. Init => AccountInv /\ RestOK
      BY AccountsStart, RestInit
<1>2. AccountInv /\ RestOK /\ [Next]_vars => (AccountInv /\ RestOK)'
      BY AccountsGoOn, NextKeepsRest
<1>3. AccountInv /\ RestOK => TypeOK
      BY TypeParts
<1> QED BY <1>1, <1>2, <1>3, PTL DEF Spec

=============================================================================
