---------------------------- MODULE Notifications ----------------------------
(***************************************************************************)
(* The notification service: an event of another service becomes a         *)
(* delivery row and a mail.                                                *)
(*                                                                         *)
(* Nothing here is a transaction.  A dispatch reads the template, looks    *)
(* for the row an earlier copy of the message left, asks the consent       *)
(* cache, inserts the row as queued, sends, and saves what became of it.   *)
(* Rows carry no version: the last writer wins.  The queue never           *)
(* acknowledges, so every message comes back; a process may stop between   *)
(* any two steps; the sweeper and an operator's retry take up what was     *)
(* left queued or failed, from a copy they read earlier.                   *)
(***************************************************************************)
EXTENDS Integers, FiniteSets, Sequences

CONSTANTS
    Actors,         \* concurrent handlers of the service, its timers included
    Messages,       \* routing keys of the dispatches that arrive
    Addressed,      \* of these, the ones whose payload names a mail address
    MaxAttempts,    \* MAX_DELIVERY_ATTEMPTS
    MaxRows,        \* bound: delivery rows inserted over a run
    MaxVersions,    \* bound: template versions of one routing key
    MaxArrivals,    \* bound: copies of messages handled over a run
    MaxChanges,     \* bound: template flags, consents and outcomes changed
    MaxFaults       \* bound: failed sends, lost calls, dead handlers

Ids == 1 .. MaxRows

-----------------------------------------------------------------------------
(* The consumers.  Each names what the mail is about and whether the       *)
(* payload tells which customer gets it.                                   *)

OrderPlaced == [key : {"retail.order.placed"}, reference : {"order"}, customer : {TRUE}]

OrderCancelled == [key : {"retail.order.cancelled"}, reference : {"order"}, customer : {FALSE}]

RefundIssued == [key : {"retail.refund.issued"}, reference : {"refund"}, customer : {FALSE}]

FulfillmentMoved ==
    [key : {"retail.fulfillment.shipped", "retail.fulfillment.delivered"},
     reference : {"fulfillment"}, customer : {FALSE}]

ReturnMoved ==
    [key : {"retail.return.requested", "retail.return.authorized",
            "retail.return.received", "retail.return.inspected"},
     reference : {"return-request"}, customer : {TRUE}]

\* The alert goes to the address of the operators.
StockLow == [key : {"inventory.stock.low"}, reference : {"stock-low"}, customer : {FALSE}]

SendMarketing ==
    [key : {"notification.marketing.send"}, reference : {"marketing"}, customer : {TRUE}]

Dispatches == UNION {OrderPlaced, OrderCancelled, RefundIssued, FulfillmentMoved,
                     ReturnMoved, StockLow, SendMarketing}

Consumer(m) == CHOOSE d \in Dispatches : d.key = m

\* TRANSACTIONAL_EVENT_TYPES
Transactional ==
    {"retail.order.placed", "retail.order.cancelled", "retail.refund.issued",
     "retail.fulfillment.shipped", "retail.fulfillment.delivered",
     "retail.return.requested", "retail.return.authorized",
     "retail.return.received", "retail.return.inspected"}

\* dispatchCustomerEmailNotification drops an event without an address.
HasRecipient(m) == m \in Addressed \/ m = "inventory.stock.low"

ASSUME NotificationMessages ==
    /\ Messages \subseteq {d.key : d \in Dispatches} /\ Addressed \subseteq Messages
    /\ IsFiniteSet(Messages) /\ IsFiniteSet(Actors)
ASSUME NotificationBounds ==
    /\ {MaxRows, MaxAttempts, MaxVersions} \subseteq Nat \ {0}
    /\ {MaxArrivals, MaxChanges, MaxFaults} \subseteq Nat

-----------------------------------------------------------------------------
VARIABLES
    templates,      \* routing key -> the active flag of each version
    rows,           \* notification_delivery
    mails,          \* row -> mails sent for it
    consent,        \* consent_record of the customer
    cache,          \* consent snapshots by customer in Redis
    told,           \* consent messages the gateway has published
    newest,         \* the last of them
    heard,          \* newest was handled, and no older snapshot written since
    actor,          \* actor -> how far it is and what it read
    answered,       \* message -> the row its dispatch ended with
    announced,      \* row -> notifications.delivery.failed published
    unsure,         \* rows whose mails nobody can count: two actors held them,
                    \* an orphan was taken up, or a sender died before its save
    unannounced,    \* rows whose failure event got lost
    arrivals, changes, faults

mail == <<rows, mails, answered, announced, unsure, unannounced>>
gate == <<consent, cache, told, newest, heard>>
counters == <<arrivals, changes, faults>>
vars == <<templates, mail, gate, actor, counters>>

Statuses == {"queued", "sent", "failed", "delivered", "bounced", "skipped-no-consent"}

\* A row is young, then an orphan ("stale") once it is past
\* QUEUED_STALE_AFTER_MS, and "aged" once it is past the retention.
\* Not inserted yet; "purged": not there any more.
NoRow == [status |-> "none", message |-> CHOOSE m \in Messages : TRUE,
          template |-> 0, attempts |-> 0, age |-> "young"]

\* A consent snapshot is the set of what it allows.
Snapshot == SUBSET {"transactionalEmail", "marketingEmail"}

\* DEFAULT_CONSENT, also what the absence of a record means.
DefaultConsent == {"transactionalEmail"}
NoSnapshot == {"none"}

Idle == [pc |-> "idle", message |-> CHOOSE m \in Messages : TRUE, template |-> 0,
         snapshot |-> DefaultConsent, id |-> 0, copy |-> NoRow, retry |-> FALSE,
         batch |-> {}]

Init ==
    /\ templates = [m \in Messages |-> <<TRUE>>]
    /\ rows = [i \in Ids |-> NoRow]
    /\ mails = [i \in Ids |-> 0]
    /\ consent = DefaultConsent
    /\ cache = NoSnapshot
    /\ told = {} /\ newest = NoSnapshot /\ heard = TRUE
    /\ actor = [a \in Actors |-> Idle]
    /\ answered = [m \in Messages |-> 0]
    /\ announced = [i \in Ids |-> 0]
    /\ unsure = {} /\ unannounced = {}
    /\ arrivals = 0 /\ changes = 0 /\ faults = 0

-----------------------------------------------------------------------------
Goto(a, pc) == actor' = [actor EXCEPT ![a] = [actor[a] EXCEPT !.pc = pc]]
\* The sweeper goes on with its batch.
Rest(a) == [Idle EXCEPT !.batch = actor[a].batch]
Leave(a) == actor' = [actor EXCEPT ![a] = Rest(a)]
Fault == faults < MaxFaults /\ faults' = faults + 1
Change == changes < MaxChanges /\ changes' = changes + 1

Stored(i) == rows[i].status \notin {"none", "purged"}
Holders(i) == {a \in Actors : /\ actor[a].id = i /\ actor[a].pc \in {"send", "save", "outcome"}}
                \cup {a \in Actors : \E b \in actor[a].batch : b[1] = i}

-----------------------------------------------------------------------------
(* Templates.                                                              *)

ActiveVersions(m) == {v \in DOMAIN templates[m] : templates[m][v]}

\* findLatestActive: 0 when there is none.
LatestActive(m) ==
    IF ActiveVersions(m) = {} THEN 0
    ELSE CHOOSE v \in ActiveVersions(m) : \A u \in ActiveVersions(m) : u <= v

\* maxVersion, over all versions, active or not.
NextVersion(m) == Len(templates[m]) + 1

\* AuthorTemplateUseCase reads the highest version; the next one must be free.
Author(a) ==
    /\ actor[a] = Idle
    /\ Change
    /\ \E m \in Messages :
          /\ NextVersion(m) <= MaxVersions
          /\ actor' = [actor EXCEPT ![a] = [Idle EXCEPT
                !.pc = "author", !.message = m, !.template = NextVersion(m)]]
    /\ UNCHANGED <<templates, mail, gate, arrivals, faults>>

\* The UNIQUE key turns the slower of two authors away with a 409.
SaveTemplate(a) ==
    /\ actor[a].pc = "author"
    /\ LET m == actor[a].message
       IN  templates' = IF actor[a].template = NextVersion(m)
                        THEN [templates EXCEPT ![m] = Append(@, TRUE)] ELSE templates
    /\ Leave(a)
    /\ UNCHANGED <<mail, gate, counters>>

SetTemplateActive ==
    /\ Change
    /\ \E m \in Messages : \E v \in DOMAIN templates[m] :
          templates' = [templates EXCEPT ![m][v] = ~@]
    /\ UNCHANGED <<mail, gate, actor, arrivals, faults>>

-----------------------------------------------------------------------------
(* Consent.                                                                *)

Publish(message) == told' = told \cup {message} /\ newest' = message /\ heard' = FALSE

\* The gateway saves the record, then publishes it (module Identity).
RecordConsent ==
    /\ Change
    /\ \E snapshot \in Snapshot :
          /\ snapshot # consent
          /\ consent' = snapshot
          /\ Publish(snapshot)
    /\ UNCHANGED <<templates, mail, cache, actor, arrivals, faults>>

\* The erasure deletes the record.
EraseCustomer ==
    /\ Change
    /\ consent' = DefaultConsent
    /\ Publish(NoSnapshot)
    /\ UNCHANGED <<templates, mail, cache, actor, arrivals, faults>>

\* Mutant of WriteThrough: an entry that is there is left to its TTL.
OnlyIfAbsent(message) == cache' = IF cache = NoSnapshot THEN message ELSE cache

\* ConsentCache.set and del.
WriteThrough(message) == cache' = message

\* Any message may come back, in any order.
Hear(message) ==
    /\ arrivals < MaxArrivals /\ arrivals' = arrivals + 1
    /\ message \in told
    /\ WriteThrough(message)
    /\ heard' = (message = newest)
    /\ UNCHANGED <<templates, mail, consent, told, newest, actor, changes, faults>>

OnConsentUpdated == \E message \in Snapshot : Hear(message)

OnCustomerErased == Hear(NoSnapshot)

\* NOTIFICATIONS_CONSENT_CACHE_TTL_SECONDS have passed.
Expire ==
    /\ cache # NoSnapshot
    /\ cache' = NoSnapshot
    /\ UNCHANGED <<templates, mail, consent, told, newest, heard, actor, counters>>

\* isChannelConsented; every dispatch is an email.
Allows(snapshot, m) ==
    (IF m \in Transactional THEN "transactionalEmail" ELSE "marketingEmail") \in snapshot

-----------------------------------------------------------------------------
(* RenderAndDispatchUseCase.                                               *)

\* delivery_dedupe_key: template, reference, channel and customer.  Routing
\* keys of one reference have templates of their own.
SameDelivery(row, m, v) == row.message = m /\ row.template = v

Duplicates(m, v) ==
    IF Consumer(m).customer
    THEN {i \in Ids : Stored(i) /\ SameDelivery(rows[i], m, v)} ELSE {}

\* A message arrives, for the first time or again: without a template that
\* renders nothing is written, and a row an earlier copy left, in whatever
\* status, ends it.
Arrive(a) ==
    /\ actor[a] = Idle
    /\ arrivals < MaxArrivals /\ arrivals' = arrivals + 1
    /\ \E m \in Messages :
          /\ HasRecipient(m)
          /\ LatestActive(m) # 0
          /\ LET found == Duplicates(m, LatestActive(m))
             IN  IF found = {}
                 THEN /\ actor' = [actor EXCEPT ![a] = [Idle EXCEPT
                             !.pc = IF Consumer(m).customer THEN "consent" ELSE "insert",
                             !.message = m, !.template = LatestActive(m)]]
                      /\ UNCHANGED answered
                 ELSE /\ \E i \in found : answered' = [answered EXCEPT ![m] = i]
                      /\ UNCHANGED actor
    /\ UNCHANGED <<templates, rows, mails, announced, unsure, unannounced, gate, changes, faults>>

\* What the dispatch inserts: ConsentCache.get has answered.
Judge(a, snapshot) ==
    actor' = [actor EXCEPT ![a] = [actor[a] EXCEPT !.pc = "insert", !.snapshot = snapshot]]

\* What it loads, and has still to write back.
Fetch(a, snapshot) ==
    actor' = [actor EXCEPT ![a] = [actor[a] EXCEPT !.pc = "fill", !.snapshot = snapshot]]

\* ConsentCache.get: a hit, or a load whose result is written back.
ReadConsent(a) ==
    /\ actor[a].pc = "consent"
    /\ IF cache # NoSnapshot THEN Judge(a, cache)
       ELSE Fetch(a, consent)
    /\ UNCHANGED <<templates, mail, gate, counters>>

\* Redis fails: the record is read past it.
CacheFails(a) ==
    /\ actor[a].pc = "consent"
    /\ Fault
    /\ Judge(a, consent)
    /\ UNCHANGED <<templates, mail, gate, arrivals, changes>>

\* The record cannot be read: the default is cached in its place.
ReaderFails(a) ==
    /\ actor[a].pc = "consent" /\ cache = NoSnapshot
    /\ Fault
    /\ Fetch(a, DefaultConsent)
    /\ UNCHANGED <<templates, mail, gate, arrivals, changes>>

FillCache(a) ==
    /\ actor[a].pc = "fill"
    /\ cache' = actor[a].snapshot
    /\ heard' = (heard /\ actor[a].snapshot = consent)
    /\ Goto(a, "insert")
    /\ UNCHANGED <<templates, mail, consent, told, newest, counters>>

\* NotificationDelivery.open and skipped.
Opened(a) ==
    LET m == actor[a].message
        gated == Consumer(m).customer /\ ~Allows(actor[a].snapshot, m)
    IN  [status |-> IF gated THEN "skipped-no-consent" ELSE "queued",
         message |-> m, template |-> actor[a].template, attempts |-> 0, age |-> "young"]

\* Mutant of GoesOut: the row that won the race is sent whatever its status.
GoesOutAnyway(a, status) == Opened(a).status = "queued"

\* The saved row, which may be that of a concurrent winner, is still to send.
GoesOut(a, status) == Opened(a).status = "queued" /\ status = "queued"

\* The row the dispatch goes on with: i, whose content it now holds.
Proceed(a, i, row) ==
    /\ answered' = [answered EXCEPT ![actor[a].message] = i]
    /\ IF GoesOut(a, row.status)
       THEN actor' = [actor EXCEPT ![a] = [Idle EXCEPT
                !.pc = "send", !.id = i, !.copy = row]]
       ELSE Leave(a)

\* NotificationDeliveryTypeormRepository.save of a new row: insert it, or hit
\* the UNIQUE key and read the row that is there.
Insert(a) ==
    /\ actor[a].pc = "insert"
    /\ LET found == Duplicates(actor[a].message, actor[a].template)
       IN  \/ /\ found = {}
              /\ \E i \in Ids :
                    /\ rows[i].status = "none" /\ \A j \in 1 .. i - 1 : rows[j].status # "none"
                    /\ rows' = [rows EXCEPT ![i] = Opened(a)]
                    /\ Proceed(a, i, Opened(a))
              /\ UNCHANGED unsure
           \/ \E i \in found :
                 /\ Proceed(a, i, rows[i])
                 /\ unsure' = IF GoesOut(a, rows[i].status) THEN unsure \cup {i} ELSE unsure
                 /\ UNCHANGED rows
    /\ UNCHANGED <<templates, mails, announced, unannounced, gate, counters>>

-----------------------------------------------------------------------------
(* NOTIFIER.send and what is saved of it.                                  *)

\* NotificationDelivery.markSent and markFailed: from queued or failed.
Marked(row, status) == [row EXCEPT !.status = status, !.attempts = @ + 1]

\* The mark is in memory; it is still to save.
MarkCopy(a, status) ==
    actor' = [actor EXCEPT ![a] =
                 [actor[a] EXCEPT !.pc = "save", !.copy = Marked(actor[a].copy, status)]]

Send(a) ==
    /\ actor[a].pc = "send"
    /\ mails' = [mails EXCEPT ![actor[a].id] = @ + 1]
    /\ MarkCopy(a, "sent")
    /\ UNCHANGED <<templates, rows, answered, announced, unsure, unannounced, gate, counters>>

\* The notifier throws; that never leaves the dispatch.
SendFails(a) ==
    /\ actor[a].pc = "send"
    /\ Fault
    /\ MarkCopy(a, "failed")
    /\ UNCHANGED <<templates, mail, gate, arrivals, changes>>

\* Only a retry asks whether the budget is spent.
Exhausted(a) ==
    /\ actor[a].retry
    /\ actor[a].copy.status = "failed" /\ actor[a].copy.attempts >= MaxAttempts

\* NotificationDeliveryMapper.toEntity names every column but created_at.
Entity(i, copy) == [copy EXCEPT !.age = IF Stored(i) THEN rows[i].age ELSE "young"]

\* TypeORM saves the whole row by its id: it overwrites whatever is there,
\* and inserts the row again when the purge has taken it, unless a later
\* row of the same dispatch is there by now.
Overwritten(a) ==
    LET i == actor[a].id
        later == Duplicates(actor[a].copy.message, actor[a].copy.template) \ {i}
    IN  IF ~Stored(i) /\ later # {} THEN rows
        ELSE [rows EXCEPT ![i] = Entity(i, actor[a].copy)]

SaveOutcomeOfSend(a) ==
    /\ actor[a].pc = "save"
    /\ rows' = Overwritten(a)
    /\ IF Exhausted(a) THEN Goto(a, "emit") ELSE Leave(a)
    /\ UNCHANGED <<templates, mails, answered, announced, unsure, unannounced, gate, counters>>

EmitDeliveryFailed(a) ==
    /\ actor[a].pc = "emit"
    /\ announced' = [announced EXCEPT ![actor[a].id] = @ + 1]
    /\ Leave(a)
    /\ UNCHANGED <<templates, rows, mails, answered, unsure, unannounced, gate, counters>>

\* A failed publish is logged; it needs no budget, a delivery fails for good once.
LoseDeliveryFailed(a) ==
    /\ actor[a].pc = "emit"
    /\ unannounced' = unannounced \cup {actor[a].id}
    /\ Leave(a)
    /\ UNCHANGED <<templates, rows, mails, answered, announced, unsure, gate, counters>>

-----------------------------------------------------------------------------
(* Retries.                                                                *)

\* isOrphanedQueued
Orphaned(row) == row.status = "queued" /\ row.age # "young"

\* What a retry that starts now makes of the ghost: somebody else holds the
\* row, or its first send may have gone out.
Met(ids) == {i \in ids : Holders(i) # {} \/ Orphaned(rows[i])}

RetryCopy(i, row) == [Idle EXCEPT !.pc = "send", !.id = i, !.copy = row,
                                  !.retry = TRUE]

\* Mutant of RetriedByHand: any row but one that is being dispatched.
RetriedUnlessQueued(row) == row.status \in {"failed", "sent"} \/ Orphaned(row)

RetriedByHand(row) == row.status = "failed" \/ Orphaned(row)

\* RetryDeliveryUseCase: an operator names a row.
RetryDelivery(a) ==
    /\ actor[a] = Idle
    /\ \E i \in Ids :
          /\ RetriedByHand(rows[i])
          /\ actor' = [actor EXCEPT ![a] = RetryCopy(i, rows[i])]
          /\ unsure' = unsure \cup Met({i})
    /\ UNCHANGED <<templates, rows, mails, answered, announced, unannounced, gate, counters>>

\* Mutant of Retryable: the scan takes failed rows only.
FailedOnly(row) == row.status = "failed" /\ row.attempts < MaxAttempts

\* Mutant of Retryable: the first arm of the scan forgets the status.
UnderBudget(row) == row.attempts \in 1 .. MaxAttempts - 1 \/ Orphaned(row)

\* listRetryable
Retryable(row) ==
    \/ row.status = "failed" /\ row.attempts < MaxAttempts
    \/ Orphaned(row)

\* isDue: an orphan has no last attempt.
DueSets == {due \in SUBSET {i \in Ids : Retryable(rows[i])} :
               {i \in Ids : Retryable(rows[i]) /\ rows[i].attempts = 0} \subseteq due}

\* RetryFailedDeliveriesUseCase: the rows are read once, then retried one
\* after the other.
StartSweep(a, due) ==
    /\ actor[a] = Idle
    /\ due \in DueSets \ {{}}
    /\ actor' = [actor EXCEPT ![a] = [Idle EXCEPT
                    !.batch = {<<i, rows[i]>> : i \in due}]]
    /\ unsure' = unsure \cup Met(due)
    /\ UNCHANGED <<templates, rows, mails, answered, announced, unannounced, gate, counters>>

SweepTakes(i) == \E a \in Actors, due \in DueSets : i \in due /\ StartSweep(a, due)

Reattempt(a) ==
    /\ actor[a].pc = "idle"
    /\ \E b \in actor[a].batch :
          actor' = [actor EXCEPT ![a] = [RetryCopy(b[1], b[2]) EXCEPT
                        !.batch = actor[a].batch \ {b}]]
    /\ UNCHANGED <<templates, mail, gate, counters>>

-----------------------------------------------------------------------------
(* RecordDeliveryOutcomeUseCase: a row that is sent was delivered or       *)
(* bounced.                                                                *)

RecordOutcome(a) ==
    /\ actor[a] = Idle
    /\ Change
    /\ \E i \in Ids, outcome \in {"delivered", "bounced"} :
          /\ rows[i].status = "sent"
          /\ actor' = [actor EXCEPT ![a] = [Idle EXCEPT !.pc = "outcome", !.id = i,
                           !.copy = [rows[i] EXCEPT !.status = outcome]]]
          /\ unsure' = unsure \cup Met({i})
    /\ UNCHANGED <<templates, rows, mails, answered, announced, unannounced, gate, arrivals, faults>>

SaveOutcome(a) ==
    /\ actor[a].pc = "outcome"
    /\ rows' = Overwritten(a)
    /\ Leave(a)
    /\ UNCHANGED <<templates, mails, answered, announced, unsure, unannounced, gate, counters>>

-----------------------------------------------------------------------------
(* Time and crashes.                                                       *)

\* Five minutes pass.
GrowStale(i) ==
    /\ rows[i].status = "queued" /\ rows[i].age = "young"
    /\ rows' = [rows EXCEPT ![i].age = "stale"]
    /\ UNCHANGED <<templates, mails, answered, announced, unsure, unannounced, gate, actor, counters>>

\* RETENTION_DELIVERY_DAYS pass; no dispatch lasts that long.
GrowOld(i) ==
    /\ Stored(i) /\ rows[i].age # "aged"
    /\ Holders(i) = {}
    /\ Change
    /\ rows' = [rows EXCEPT ![i].age = "aged"]
    /\ UNCHANGED <<templates, mails, answered, announced, unsure, unannounced, gate, actor,
                   arrivals, faults>>

\* PurgeAgedDeliveriesUseCase, up to 500 rows of any status.
Purge ==
    /\ \E aged \in (SUBSET {i \in Ids : Stored(i) /\ rows[i].age = "aged"}) \ {{}} :
          rows' = [i \in Ids |-> IF i \in aged THEN [NoRow EXCEPT !.status = "purged",
                                                                  !.age = "aged"]
                                 ELSE rows[i]]
    /\ UNCHANGED <<templates, mails, answered, announced, unsure, unannounced, gate, actor, counters>>

\* The process stops; a failure not yet published never is, and a mail sent
\* but not yet saved is sent again.
Die(a) ==
    /\ actor[a] # Idle
    /\ Fault
    /\ actor' = [actor EXCEPT ![a] = Idle]
    /\ unannounced' = IF actor[a].pc = "emit" THEN unannounced \cup {actor[a].id}
                      ELSE unannounced
    /\ unsure' = IF actor[a].pc = "save" THEN unsure \cup {actor[a].id} ELSE unsure
    /\ UNCHANGED <<templates, rows, mails, answered, announced, gate, arrivals, changes>>

-----------------------------------------------------------------------------
Step(a) ==
    \/ SaveTemplate(a)
    \/ ReadConsent(a) \/ FillCache(a) \/ Insert(a)
    \/ Send(a) \/ SaveOutcomeOfSend(a) \/ EmitDeliveryFailed(a)
    \/ Reattempt(a) \/ SaveOutcome(a)

Fails(a) ==
    \/ CacheFails(a) \/ ReaderFails(a) \/ SendFails(a) \/ LoseDeliveryFailed(a) \/ Die(a)

Next ==
    \/ SetTemplateActive \/ RecordConsent \/ EraseCustomer
    \/ OnConsentUpdated \/ OnCustomerErased \/ Expire
    \/ \E a \in Actors : Author(a) \/ Arrive(a) \/ RetryDelivery(a) \/ RecordOutcome(a)
    \/ \E a \in Actors, due \in SUBSET Ids : StartSweep(a, due)
    \/ \E a \in Actors : Step(a) \/ Fails(a)
    \/ \E i \in Ids : GrowStale(i) \/ GrowOld(i)
    \/ Purge

\* Handlers go on, the timer comes round, and a row that stays retryable is
\* due in the end: its back-off counts from an attempt that no longer moves.
Fairness ==
    /\ \A a \in Actors : WF_vars(Step(a))
    /\ \A i \in Ids : WF_vars(GrowStale(i)) /\ SF_vars(SweepTakes(i))

Spec == Init /\ [][Next]_vars /\ Fairness

-----------------------------------------------------------------------------

\* A row that says the mail went out (sent, delivered, bounced) had a mail,
\* and a row skipped for want of consent never has one: whichever of two
\* dispatches inserted first, whatever a retry, a replay or the purge does.
StatusTellsMail ==
    \A i \in Ids :
        /\ rows[i].status \in {"sent", "delivered", "bounced"} => mails[i] > 0
        /\ rows[i].status = "skipped-no-consent" => mails[i] = 0

\* However often a message comes back, its row is mailed once, unless two
\* handlers held the row at one time or an orphan was taken up, whose first
\* mail may have gone out (docs/reference/notifications.md names both).
MailedOnce == \A i \in Ids \ unsure : mails[i] <= 1

\* Once the newest change of consent has reached the consumer, the cache
\* holds the record or nothing, until a dispatch that read the record before
\* the change, or an older message that came back, writes over it.
CacheFollowsRecord == heard => cache \in {consent, NoSnapshot}

\* What the transport or the gate decided about a row stands: it is not put
\* back to queued or failed by anyone but an actor that raced for it.
DecisionStands ==
    [][\A i \in Ids : i \notin unsure =>
          (rows[i].status \in {"sent", "delivered", "bounced", "skipped-no-consent"}
              => rows'[i].status \notin {"queued", "failed"})]_vars

\* No delivery is forgotten: a row that is queued is sent, or failed with its
\* attempts spent, or purged, whoever died over it.
QueuedIsSettled ==
    \A i \in Ids : rows[i].status = "queued" ~>
        \/ rows[i].status \in {"sent", "delivered", "bounced", "purged"}
        \/ rows[i].status = "failed" /\ rows[i].attempts >= MaxAttempts
=============================================================================
