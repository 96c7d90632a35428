----------------------------- MODULE EventStore -----------------------------
(***************************************************************************)
(* The event store: every event published on ris.events waits in the       *)
(* firehose queue and is written to one of two append-only tables.         *)
(*                                                                         *)
(* A publisher hands an event to its own queues first and mirrors it onto  *)
(* ris.events afterwards.  The store never acknowledges a message, so      *)
(* whatever reached the firehose stays there and is delivered again each   *)
(* time the channel closes: when the process stops, and when the broker    *)
(* gives up on a delivery that stays unacknowledged.                       *)
(***************************************************************************)
EXTENDS Events

CONSTANTS
    Publishers,     \* requests that publish at a time
    Instants,       \* occurredAt, in milliseconds
    Correlations,   \* correlation ids
    MaxEvents,      \* bound: events of a run
    MaxOutages,     \* bound: inserts the database refuses
    MaxCopies       \* copies of an audit entry are counted up to this

ASSUME StoreBounds == MaxEvents \in Nat /\ MaxOutages \in Nat /\ MaxCopies \in Nat \ {0}

VARIABLES
    sent,           \* the events published so far, in order
    announced,      \* event -> the queues that got it directly
    publishing,     \* publisher -> the event it has still to mirror, or 0
    firehose,       \* event -> "ready" or "unacked", for those in the queue
    domainEvent,    \* table domain_event, by id
    auditCopies,    \* event -> its rows in table audit_log_entry
    outages

storeVars == <<sent, announced, publishing, firehose, domainEvent, auditCopies, outages>>

EventIds == 1..MaxEvents

\* IAuditStaffActionEvent and the event contracts share these.
Published == {[key |-> e.key, to |-> e.to, ids |-> e.ids, occurredAt |-> t, correlationId |-> c] :
                  e \in AllEvents, t \in Instants, c \in Correlations}

IsAudit(e) == e.key = AuditStaffAction

-----------------------------------------------------------------------------
(* Publishing.                                                             *)

Send(e, reached) ==
    /\ sent' = Append(sent, e)
    /\ announced' = Append(announced, reached)

\* The queues take the event; the mirror is still to be called.
AnnounceDirectly(p, e) ==
    /\ publishing[p] = 0 /\ Len(sent) < MaxEvents
    /\ Send(e, e.to)
    /\ publishing' = [publishing EXCEPT ![p] = Len(sent) + 1]
    /\ UNCHANGED <<firehose, domainEvent, auditCopies, outages>>

\* Mutant of BestEffort: every publisher swallows the failure of its own queues.
SwallowsFailure(e) == TRUE

\* A customer event is handed over by emitBestEffort, which never throws.
BestEffort(e) == e.key[1] = "customer"

\* A queue refuses the event: the publisher throws before the mirror, unless
\* it hands over by best effort.
AnnounceFails(p, e) ==
    /\ publishing[p] = 0 /\ Len(sent) < MaxEvents
    /\ \E reached \in (SUBSET e.to) \ {e.to} : Send(e, reached)
    /\ publishing' = [publishing EXCEPT ![p] = IF BestEffort(e) THEN Len(sent) + 1 ELSE 0]
    /\ UNCHANGED <<firehose, domainEvent, auditCopies, outages>>

\* RisEventsMirrorPublisher.mirror
Mirror(p) ==
    /\ publishing[p] # 0
    /\ firehose' = [i \in DOMAIN firehose \cup {publishing[p]} |->
                        IF i = publishing[p] THEN "ready" ELSE firehose[i]]
    /\ publishing' = [publishing EXCEPT ![p] = 0]
    /\ UNCHANGED <<sent, announced, domainEvent, auditCopies, outages>>

\* emitBestEffort gives up after its timeout, or the publisher's process stops.
MirrorIsLost(p) ==
    /\ publishing[p] # 0
    /\ publishing' = [publishing EXCEPT ![p] = 0]
    /\ UNCHANGED <<sent, announced, firehose, domainEvent, auditCopies, outages>>

-----------------------------------------------------------------------------
(* Ingesting.                                                              *)

\* UC_DOMAIN_EVENT_IDEMPOTENCY
DedupeKey(r) == <<r.producer, r.eventType, r.aggregateId, r.occurredAt, r.correlationId>>

\* The row made from a message; "of" names the message.
DomainEvent(i, e) ==
    [of |-> i, eventType |-> e.key, producer |-> ResolveProducer(e.key),
     aggregateType |-> ResolveAggregateType(e.key), aggregateId |-> ResolveAggregateId(e.ids),
     correlationId |-> e.correlationId, occurredAt |-> e.occurredAt]

IsDuplicateEntry(row) == \E k \in DOMAIN domainEvent : DedupeKey(domainEvent[k]) = DedupeKey(row)

\* DomainEventTypeormRepository.append: a duplicate is no error.
AppendDomainEvent(row) ==
    domainEvent' = IF IsDuplicateEntry(row) THEN domainEvent ELSE Append(domainEvent, row)

IngestDomainEvent(i) ==
    /\ AppendDomainEvent(DomainEvent(i, sent[i]))
    /\ UNCHANGED auditCopies

\* No unique key: every delivery inserts a row.
IngestAuditLog(i) ==
    /\ auditCopies' = [auditCopies EXCEPT ![i] = IF @ < MaxCopies THEN @ + 1 ELSE @]
    /\ UNCHANGED domainEvent

Deliver(i) ==
    /\ i \in DOMAIN firehose /\ firehose[i] = "ready"
    /\ firehose' = [firehose EXCEPT ![i] = "unacked"]

\* FirehoseConsumer.onFirehoseEvent
OnFirehoseEvent(i) ==
    /\ Deliver(i)
    /\ IF IsAudit(sent[i]) THEN IngestAuditLog(i) ELSE IngestDomainEvent(i)
    /\ UNCHANGED <<sent, announced, publishing, outages>>

\* Mutant of IngestFails: the message that could not be stored is acknowledged.
FailureAcked(i) ==
    /\ i \in DOMAIN firehose /\ firehose[i] = "ready" /\ outages < MaxOutages
    /\ outages' = outages + 1
    /\ firehose' = [k \in DOMAIN firehose \ {i} |-> firehose[k]]
    /\ UNCHANGED <<sent, announced, publishing, domainEvent, auditCopies>>

\* The insert fails or the process stops before it: logged and dropped, but the
\* message stays in the queue.
IngestFails(i) ==
    /\ Deliver(i) /\ outages < MaxOutages
    /\ outages' = outages + 1
    /\ UNCHANGED <<sent, announced, publishing, domainEvent, auditCopies>>

\* main.ts: noAck is false and nothing acknowledges, so a closed channel gives
\* every delivery back.
ChannelCloses ==
    /\ \E i \in DOMAIN firehose : firehose[i] = "unacked"
    /\ firehose' = [i \in DOMAIN firehose |-> "ready"]
    /\ UNCHANGED <<sent, announced, publishing, domainEvent, auditCopies, outages>>

-----------------------------------------------------------------------------
(* Reading.                                                                *)

Earlier(r, s) == r.occurredAt < s.occurredAt

\* DomainEventTypeormRepository.listByCorrelationId: oldest first, then by id.
ListByCorrelationId(c) ==
    LET of == SelectSeq(domainEvent, LAMBDA r : r.correlationId = c)
        Before(j, k) == Earlier(of[j], of[k]) \/ (~Earlier(of[k], of[j]) /\ j < k)
        order == SetToSortSeq(DOMAIN of, Before)
    IN  [k \in DOMAIN of |-> of[order[k]]]

\* DomainEventTypeormRepository.query: newest first, a page of the kinds asked for.
QueryDomainEvents(eventTypes, page, size) ==
    LET found == SelectSeq(domainEvent, LAMBDA r : r.eventType \in eventTypes)
        Before(j, k) == Earlier(found[k], found[j]) \/ (~Earlier(found[j], found[k]) /\ k < j)
        order == SetToSortSeq(DOMAIN found, Before)
    IN  SubSeq([k \in DOMAIN found |-> found[order[k]]], (page - 1) * size + 1,
               IF page * size < Len(found) THEN page * size ELSE Len(found))

\* AuditLogEntryTypeormRepository.listByCorrelationId, as a set: the copies are alike.
AuditEntries(c) == {i \in DOMAIN sent : auditCopies[i] > 0 /\ sent[i].correlationId = c}

\* TraceByCorrelationUseCase
TraceByCorrelation(c) == [events |-> ListByCorrelationId(c), auditEntries |-> AuditEntries(c)]

-----------------------------------------------------------------------------
StoreInit ==
    /\ sent = <<>> /\ announced = <<>> /\ publishing = [p \in Publishers |-> 0]
    /\ firehose = <<>> /\ domainEvent = <<>>
    /\ auditCopies = [i \in EventIds |-> 0] /\ outages = 0

StoreNext ==
    \/ \E p \in Publishers, e \in Published :
           \/ AnnounceDirectly(p, e)
           \/ AnnounceFails(p, e)
    \/ \E p \in Publishers : Mirror(p) \/ MirrorIsLost(p)
    \/ \E i \in EventIds : OnFirehoseEvent(i) \/ IngestFails(i)
    \/ ChannelCloses

\* The consumer takes what is ready, and the broker's consumer_timeout closes a
\* channel that leaves a delivery unacknowledged.
StoreFairness ==
    /\ \A i \in EventIds : WF_storeVars(OnFirehoseEvent(i) \/ IngestFails(i))
    /\ WF_storeVars(ChannelCloses)

-----------------------------------------------------------------------------
\* The store logs an event only after the event's own queues got it, except for
\* customer events: nothing reads of an event its consumers were never offered.
LoggedWasAnnounced ==
    \A k \in DOMAIN domainEvent :
        LET i == domainEvent[k].of
        IN  sent[i].key[1] = "customer" \/ announced[i] = sent[i].to

\* However often a message is delivered, one row at most is written for it.
OneRowPerMessage ==
    \A j, k \in DOMAIN domainEvent : domainEvent[j].of = domainEvent[k].of => j = k

\* The log holds each message once, and none its consumers were never offered.
LogIsTrue == LoggedWasAnnounced /\ OneRowPerMessage

\* The row is the event's, or that of an event of the same kind and instant that
\* was logged in its place.
StandsFor(row, e) == row.eventType = e.key /\ row.occurredAt = e.occurredAt

\* A trace of its correlation id shows the event, and so does paging through its kind.
Traced(i) ==
    LET e == sent[i]
        trace == TraceByCorrelation(e.correlationId)
        pages == UNION {ToSet(QueryDomainEvents({e.key}, page, 1)) : page \in EventIds}
    IN  \/ i \in trace.auditEntries
        \/ /\ \E row \in ToSet(trace.events) : StandsFor(row, e)
           /\ \E row \in pages : StandsFor(row, e)

\* Whatever reached the firehose is in the log in the end, through failed inserts
\* and restarts.
MirroredIsTraced == \A i \in EventIds : (i \in DOMAIN firehose) ~> (i \in DOMAIN sent /\ Traced(i))
=============================================================================
