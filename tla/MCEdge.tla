------------------------------- MODULE MCEdge -------------------------------
(***************************************************************************)
(* Three parts at the edge of the system that share no state: a request at *)
(* the gateway, the events on their way to the event store, the cached     *)
(* stock views.  They are checked in one run, each in a scene of its own,  *)
(* so that their state spaces add up instead of multiplying.               *)
(***************************************************************************)
EXTENDS EventStore, StockCache, Gateway

VARIABLE scene      \* which part moves in this behaviour

edgeVars == <<scene, storeVars, cacheVars, call>>

MCFacets == {{}, {"l1"}}

\* Two events of a run have the same key: others are never compared with each other.
AlikeOnly == Len(sent') = 2 => sent'[1].key = sent'[2].key

MCInit ==
    /\ scene \in {"request", "events", "views"}
    /\ StoreInit /\ CacheInit /\ GatewayInit

MCNext ==
    /\ UNCHANGED scene
    /\ \/ scene = "request" /\ GatewayNext /\ UNCHANGED <<storeVars, cacheVars>>
       \/ scene = "events" /\ StoreNext /\ AlikeOnly /\ UNCHANGED <<cacheVars, call>>
       \/ scene = "views" /\ CacheNext /\ UNCHANGED <<storeVars, call>>

MCSpec == MCInit /\ [][MCNext]_edgeVars /\ StoreFairness
=============================================================================
