----------------------------- MODULE Inventory -----------------------------
(***************************************************************************)
(* The inventory service as it runs: RPC handlers and reservation sweeps   *)
(* share MySQL tables through transactions at REPEATABLE READ.  An attempt *)
(* of a use case is one transaction of two visible steps:                  *)
(*   - Open takes the snapshot all its reads see and computes the outcome  *)
(*     in memory (a domain rule that fails there ends the request);        *)
(*   - a commit action writes.  Every counter change is an UPDATE that     *)
(*     expects the version of the snapshot (an INSERT when the snapshot    *)
(*     had no row), so it finds what is committed now, not the snapshot;   *)
(*     no row matched is a write conflict, and the request starts over     *)
(*     with a new transaction, up to maxAttempts times.  The row locks of  *)
(*     an UPDATE last until the commit, so the writes of an attempt are    *)
(*     one step.                                                           *)
(* Reservation rows are saved with no version check: a save writes the     *)
(* columns that differ from the snapshot, whatever the row has become.     *)
(***************************************************************************)
EXTENDS StockDomain, Bags, FiniteSetsExt

CONSTANTS
    Handlers,           \* concurrent RPC handlers
    Sweepers,           \* processes that run the reservation sweep
    Refs,               \* orders, fulfillments, returns and operation keys
    Payloads,           \* the requests callers send
    SeedOnHand,         \* on-hand quantity per level before the first request
    MaxAttempts,        \* OCC_RETRY_ATTEMPTS
    TTL,                \* RESERVATION_TTL_MINUTES, in ticks of the clock
    BatchSize,          \* RESERVATION_SWEEP_BATCH_SIZE
    TransactionSize,    \* RESERVATION_SWEEP_TRANSACTION_SIZE
    MaxClock,           \* bound: how far time advances
    MaxRequests,        \* bound: requests sent over a run
    MaxFaults           \* bound: transactions lost to a crash or a deadlock

Slots == Handlers \cup Sweepers

Op == [kind : OpKinds, cart : Carts \cup {None}, lines : [Levels -> Int],
       ids : SUBSET Ids, now : Nat, ref : Refs \cup {None},
       key : Refs \cup {None}]

NoOp == [kind |-> "none", cart |-> None, lines |-> [l \in Levels |-> 0],
         ids |-> {}, now |-> 0, ref |-> None, key |-> None]

\* One chunk of the sweep that started at now.
SweepOp(ids, now) ==
    [kind |-> "sweep", cart |-> None, lines |-> [l \in Levels |-> 0],
     ids |-> ids, now |-> now, ref |-> None, key |-> None]

ASSUME Processes == IsFiniteSet(Handlers) /\ Handlers \cap Sweepers = {}
ASSUME Budgets ==
    /\ SeedOnHand \in [Levels -> Nat]
    /\ MaxAttempts \in Nat \ {0} /\ TTL \in Nat \ {0}
    /\ BatchSize \in Nat \ {0} /\ TransactionSize \in Nat \ {0}
    /\ MaxClock \in Nat /\ MaxRequests \in Nat /\ MaxFaults \in Nat

\* What passes the validation at the head of each use case
\* (normalizeReservationLines, requireDistinctLevels and the quantity checks);
\* a Reserve, a Receive and an Adjust name one level, a Transfer two.
ValidPayload(o) ==
    /\ o \in Op
    /\ o.kind \in OpKinds \ {"none", "sweep"}
    /\ o.kind \in {"reserve", "allocate"} => o.cart \in Carts
    /\ o.kind \notin {"adjust", "transfer"} => \A l \in Levels : o.lines[l] >= 0
    /\ o.kind \in {"reserve", "receive", "adjust"} => \E l \in Levels : Lines(o) = {l}
    /\ o.kind = "transfer" => \E l, k \in Levels :
           /\ l # k
           /\ Lines(o) = {l, k}
           /\ o.lines[k] = -o.lines[l]
    /\ o.kind = "cancel" => o.key # None
    /\ o.kind = "release" <=> Lines(o) = {}

ASSUME ValidPayloads == \A o \in Payloads : ValidPayload(o)

\* What comes again under a reference or an operation key is the request that
\* came first: the key of a cancellation is minted with its payload, a
\* fulfillment or a return is sent for with the lines of its row.
ASSUME OneRequestPerKey ==
    \A o, p \in Payloads :
        o.kind = p.kind /\ (IF o.kind = "cancel" THEN o.key = p.key
                           ELSE o.kind \in LedgeredKinds /\ o.ref = p.ref)
          => o.lines = p.lines /\ o.ref = p.ref
ASSUME NullIsNoKey ==
    \A type \in {"sale", "return", "release"}, x \in Refs \cup {None} : <<type, x>> # None

-----------------------------------------------------------------------------
VARIABLES
    level,          \* stock_level counters
    version,        \* stock_level.version; 0 while there is no row
    hold,           \* reservation rows: status and quantity
    expiresAt,      \* reservation.expires_at
    ledger,         \* stock_movement
    clock,          \* wall clock
    pc,             \* slot -> "idle" | "ready" (attempt due) | "open"
    op,             \* slot -> the request it works on
    attempt,        \* slot -> number of the current attempt
    seen,           \* slot -> the snapshot of the open transaction
    batch,          \* sweeper -> what is left of the current sweep
    sent,           \* requests sent so far
    faults,         \* transactions lost so far
    acked           \* ledgered requests answered with success

tables == <<level, version, hold, expiresAt, ledger>>
slots == <<pc, op, attempt, seen>>
vars == <<tables, clock, slots, batch, sent, faults, acked>>

Snapshot == [level : [Levels -> LevelRow], version : [Levels -> Nat],
             hold : [Levels -> [Carts -> HoldRow]],
             expiresAt : [Levels -> [Carts -> Nat]], now : Nat]

Now == [level |-> level, version |-> version, hold |-> hold,
        expiresAt |-> expiresAt, now |-> clock]

NoSnapshot == [level |-> [l \in Levels |-> InitialAt(0)],
               version |-> [l \in Levels |-> 0],
               hold |-> [l \in Levels |-> [c \in Carts |-> NoHold]],
               expiresAt |-> [l \in Levels |-> [c \in Carts |-> 0]], now |-> 0]

NoBatch == [ids |-> {}, now |-> 0]

Init ==
    /\ level = [l \in Levels |-> InitialAt(SeedOnHand[l])]
    /\ version = [l \in Levels |-> IF SeedOnHand[l] > 0 THEN 1 ELSE 0]
    /\ hold = [l \in Levels |-> [c \in Carts |-> NoHold]]
    /\ expiresAt = [l \in Levels |-> [c \in Carts |-> 0]]
    /\ ledger = [l \in Levels |-> EmptyBag]
    /\ clock = 0
    /\ pc = [r \in Slots |-> "idle"]
    /\ op = [r \in Slots |-> NoOp]
    /\ attempt = [r \in Slots |-> 0]
    /\ seen = [r \in Slots |-> NoSnapshot]
    /\ batch = [w \in Sweepers |-> NoBatch]
    /\ sent = 0
    /\ faults = 0
    /\ acked = {}

-----------------------------------------------------------------------------
(* Queries on the tables. *)

ExpiredActive(now) ==
    {id \in Ids : /\ hold[id[2]][id[1]].status = "active"
                  /\ IsExpired(expiresAt[id[2]][id[1]], now)}

\* Mutant of ExistsByReference: a movement of any type will do.
ExistsByAnyType(o) ==
    \E l \in Levels : \E m \in BagToSet(ledger[l]) : m.ref = o.ref

\* StockMovementTypeormRepository.existsByReference
ExistsByReference(o) ==
    \E l \in Levels : \E m \in BagToSet(ledger[l]) :
        m.type = o.kind /\ m.ref = o.ref

\* The unique key on the ledger refuses a row of request o.
AlreadyRecorded(o) ==
    \E l \in Lines(o) : \E m \in LineMovements(o, l), n \in BagToSet(ledger[l]) :
        DedupeKey(m) # None /\ DedupeKey(m) = DedupeKey(n)

-----------------------------------------------------------------------------
(* The life of a request in its slot. *)

Start(r, o) ==
    /\ pc' = [pc EXCEPT ![r] = "ready"]
    /\ op' = [op EXCEPT ![r] = o]
    /\ attempt' = [attempt EXCEPT ![r] = 1]
    /\ UNCHANGED seen

\* Mutant of Finish: nothing clears the sweeping flag.
FinishKeepsSweeping(r, ok) ==
    /\ pc' = [pc EXCEPT ![r] = "idle"]
    /\ op' = [op EXCEPT ![r] = NoOp]
    /\ attempt' = [attempt EXCEPT ![r] = 0]
    /\ seen' = [seen EXCEPT ![r] = NoSnapshot]
    /\ batch' = batch
    /\ acked' = IF ok /\ op[r].kind \in LedgeredKinds
                THEN acked \cup {op[r]}
                ELSE acked

\* The slot is free again.  A sweep goes on with its next chunk only when
\* this one succeeded; the finally block clears the sweeping flag otherwise.
Finish(r, ok) ==
    /\ pc' = [pc EXCEPT ![r] = "idle"]
    /\ op' = [op EXCEPT ![r] = NoOp]
    /\ attempt' = [attempt EXCEPT ![r] = 0]
    /\ seen' = [seen EXCEPT ![r] = NoSnapshot]
    /\ batch' = IF r \in Sweepers /\ (~ok \/ batch[r].ids = {})
                THEN [batch EXCEPT ![r] = NoBatch]
                ELSE batch
    /\ acked' = IF ok /\ op[r].kind \in LedgeredKinds
                THEN acked \cup {op[r]}
                ELSE acked

\* A request arrives.  A release first looks up which of the rows it names
\* are active, outside any transaction, and is done when none is.
SubmitRelease(r, o) ==
    LET ids == {id \in o.ids : hold[id[2]][id[1]].status = "active"}
    IN  /\ o.kind = "release"
        /\ IF ids = {} THEN UNCHANGED slots
                       ELSE Start(r, [o EXCEPT !.ids = ids])
        /\ UNCHANGED acked

\* A sale or a restock first probes the ledger: a redelivery is answered.
SubmitLedgered(r, o) ==
    /\ o.kind \in {"sale", "return"}
    /\ IF ExistsByReference(o)
       THEN acked' = acked \cup {o} /\ UNCHANGED slots
       ELSE Start(r, o) /\ UNCHANGED acked

SubmitOther(r, o) ==
    /\ o.kind \notin {"release", "sale", "return"}
    /\ Start(r, o)
    /\ UNCHANGED acked

Submit(r, o) ==
    /\ pc[r] = "idle"
    /\ sent < MaxRequests
    /\ sent' = sent + 1
    /\ SubmitRelease(r, o) \/ SubmitLedgered(r, o) \/ SubmitOther(r, o)
    /\ UNCHANGED <<tables, clock, batch, faults>>

-----------------------------------------------------------------------------
(* An attempt reads. *)

\* The probe inside the transaction: LedgerReplayError, answered as success.
Replay(r) ==
    /\ pc[r] = "ready"
    /\ op[r].kind \in {"sale", "return"}
    /\ ExistsByReference(op[r])
    /\ Finish(r, TRUE)
    /\ UNCHANGED <<tables, clock, sent, faults>>

ReplayDue(r) == op[r].kind \in {"sale", "return"} /\ ExistsByReference(op[r])

\* A domain exception: rolled back, answered with the error.
Reject(r) ==
    /\ pc[r] = "ready"
    /\ ~ReplayDue(r)
    /\ ~Accepts(op[r], Now)
    /\ Finish(r, FALSE)
    /\ UNCHANGED <<tables, clock, sent, faults>>

Open(r) ==
    /\ pc[r] = "ready"
    /\ ~ReplayDue(r)
    /\ Accepts(op[r], Now)
    /\ pc' = [pc EXCEPT ![r] = "open"]
    /\ seen' = [seen EXCEPT ![r] = Now]
    /\ UNCHANGED <<tables, clock, op, attempt, batch, sent, faults, acked>>

-----------------------------------------------------------------------------
(* An attempt writes. *)

\* The levels whose counters the attempt writes.
Written(r) ==
    LET o == op[r]
    IN  CASE o.kind = "reserve" ->
                 {l \in Lines(o) : ReserveDelta(seen[r], o, l) # 0}
          [] o.kind \in {"release", "sweep"} -> LevelsOf(Freed(o, seen[r]))
          [] OTHER -> Lines(o)

\* Mutant of VersionMatches: the UPDATE is by id alone.
AnyVersionMatches(r, l) == TRUE

\* UPDATE ... WHERE id AND version = expected, or the INSERT of a row that
\* was missing, would find the row it expects.
VersionMatches(r, l) == version[l] = seen[r].version[l]

\* Mutant of Current: one matching row stands for all lines.
FirstLineCurrent(r) == Written(r) = {} \/ \E l \in Written(r) : VersionMatches(r, l)

Current(r) == \A l \in Written(r) : VersionMatches(r, l)

\* Mutant of PersistLevels: the version stays.
PersistUnversioned(r, rows) ==
    /\ level' = [l \in Levels |-> IF l \in Written(r) THEN rows[l] ELSE level[l]]
    /\ version' = version

\* StockTypeormRepository.persistStockLevelChange on every level of Written(r)
PersistLevels(r, rows) ==
    /\ level' = [l \in Levels |-> IF l \in Written(r) THEN rows[l] ELSE level[l]]
    /\ version' = [l \in Levels |-> IF l \in Written(r) THEN version[l] + 1
                                                        ELSE version[l]]

Append(r, movements) ==
    ledger' = [l \in Levels |->
                  IF l \in Written(r) THEN ledger[l] (+) SetToBag(movements[l])
                                      ELSE ledger[l]]

\* The UPDATE that ReservationTypeormRepository.save sends for a change of
\* status alone: TypeORM writes only the columns that differ from the row
\* the transaction reads.
SaveStatus(ids, status) ==
    hold' = [l \in Levels |-> [c \in Carts |->
                IF <<c, l>> \in ids THEN [hold[l][c] EXCEPT !.status = status]
                                    ELSE hold[l][c]]]

\* Common to the commit actions.
Committing(r, kinds) ==
    /\ pc[r] = "open"
    /\ op[r].kind \in kinds
    /\ Current(r)
    /\ Finish(r, TRUE)
    /\ UNCHANGED <<clock, sent, faults>>

\* A re-reserve at the held quantity changes expires_at and nothing else.
ReserveOnce(r) ==
    LET o == op[r]
        s == seen[r]
    IN  /\ Committing(r, {"reserve"})
        /\ PersistLevels(r, [l \in Levels |-> ReserveRow(s, o, l)])
        /\ hold' = [l \in Levels |->
                       IF l \in Written(r)
                       THEN [hold[l] EXCEPT ![o.cart] =
                                [status |-> "active", quantity |-> o.lines[l]]]
                       ELSE hold[l]]
        /\ expiresAt' = [l \in Levels |->
                            IF l \in Lines(o)
                            THEN [expiresAt[l] EXCEPT ![o.cart] = s.now + TTL]
                            ELSE expiresAt[l]]
        /\ UNCHANGED ledger

FreeOnce(r, kind, status) ==
    LET ids == Freed(op[r], seen[r])
    IN  /\ Committing(r, {kind})
        /\ PersistLevels(r, [l \in Levels |-> FreeRow(seen[r], ids, l)])
        /\ SaveStatus(ids, status)
        /\ Append(r, [l \in Levels |-> FreeMovements(seen[r], ids, l)])
        /\ UNCHANGED expiresAt

ReleaseAll(r) == FreeOnce(r, "release", "released")
ExpireChunk(r) == FreeOnce(r, "sweep", "expired")

\* Only a row read as active is taken over and saved; an elapsed one is
\* refreshed first.
AllocateOnce(r) ==
    LET o == op[r]
        s == seen[r]
        taken == {<<o.cart, l>> : l \in {k \in Lines(o) :
                                            s.hold[k][o.cart].status = "active"}}
    IN  /\ Committing(r, {"allocate"})
        /\ PersistLevels(r, [l \in Levels |-> AllocateRow(s, o, l)])
        /\ SaveStatus(taken, "committed")
        /\ expiresAt' = [l \in Levels |-> [c \in Carts |->
                            IF <<c, l>> \in taken /\ IsExpired(s.expiresAt[l][c], s.now)
                            THEN s.now + TTL ELSE expiresAt[l][c]]]
        /\ Append(r, [l \in Levels |-> LineMovements(o, l)])

\* The counters of a request with one ledger row per line.
WriteLines(r, rows) ==
    /\ ~AlreadyRecorded(op[r])
    /\ PersistLevels(r, rows)
    /\ Append(r, [l \in Levels |-> LineMovements(op[r], l)])
    /\ UNCHANGED <<hold, expiresAt>>

CancelOnce(r) ==
    /\ Committing(r, {"cancel"})
    /\ WriteLines(r, [l \in Levels |->
                         ReleaseAllocated(seen[r].level[l], op[r].lines[l])])

CommitOnce(r) ==
    /\ Committing(r, {"sale"})
    /\ WriteLines(r, [l \in Levels |->
                         CommitSale(seen[r].level[l], op[r].lines[l])])

\* Receive, Adjust (applyOnHandChange), Transfer and Restock.
ChangeOnHandOnce(r) ==
    /\ Committing(r, OnHandKinds)
    /\ WriteLines(r, [l \in Levels |->
                         ChangeOnHand(seen[r].level[l], op[r].lines[l])])

\* The unique key refuses the ledger row: the transaction rolls back and the
\* request is answered as a success that happened before.
DuplicateEntry(r) ==
    /\ Committing(r, LedgeredKinds)
    /\ AlreadyRecorded(op[r])
    /\ UNCHANGED tables

\* StockWriteConflictError: roll back, then a fresh attempt or, at the last
\* one, 409 STOCK_WRITE_CONFLICT.
Retry(r) ==
    /\ pc[r] = "open"
    /\ ~Current(r)
    /\ attempt[r] < MaxAttempts
    /\ pc' = [pc EXCEPT ![r] = "ready"]
    /\ attempt' = [attempt EXCEPT ![r] = @ + 1]
    /\ seen' = [seen EXCEPT ![r] = NoSnapshot]
    /\ UNCHANGED <<tables, clock, op, batch, sent, faults, acked>>

Exhaust(r) ==
    /\ pc[r] = "open"
    /\ ~Current(r)
    /\ attempt[r] >= MaxAttempts
    /\ Finish(r, FALSE)
    /\ UNCHANGED <<tables, clock, sent, faults>>

\* The transaction is lost (the process dies, the connection drops, InnoDB
\* picks it as the victim of a deadlock): rolled back, and not retried.
Fault(r) ==
    /\ pc[r] # "idle"
    /\ faults < MaxFaults
    /\ faults' = faults + 1
    /\ Finish(r, FALSE)
    /\ UNCHANGED <<tables, clock, sent>>

-----------------------------------------------------------------------------
(* The sweep and time. *)

\* listExpiredActive: the longest expired first, BatchSize of them at most.
OldestFirst(S, from) ==
    /\ S \subseteq from
    /\ \A i \in S, j \in from \ S :
           expiresAt[i[2]][i[1]] <= expiresAt[j[2]][j[1]]

SweepStart(w) ==
    /\ pc[w] = "idle"
    /\ batch[w] = NoBatch
    /\ \E S \in SUBSET ExpiredActive(clock) :
          /\ S # {}
          /\ Cardinality(S) = Min({BatchSize, Cardinality(ExpiredActive(clock))})
          /\ OldestFirst(S, ExpiredActive(clock))
          /\ batch' = [batch EXCEPT ![w] = [ids |-> S, now |-> clock]]
    /\ UNCHANGED <<tables, clock, slots, sent, faults, acked>>

\* The next chunk of at most TransactionSize rows.
SweepChunk(w) ==
    /\ pc[w] = "idle"
    /\ batch[w].ids # {}
    /\ \E S \in SUBSET batch[w].ids :
          /\ Cardinality(S) = Min({TransactionSize, Cardinality(batch[w].ids)})
          /\ batch' = [batch EXCEPT ![w].ids = @ \ S]
          /\ Start(w, SweepOp(S, batch[w].now))
    /\ UNCHANGED <<tables, clock, sent, faults, acked>>

Tick ==
    /\ clock < MaxClock
    /\ clock' = clock + 1
    /\ UNCHANGED <<tables, slots, batch, sent, faults, acked>>

-----------------------------------------------------------------------------
Attempt(r) ==
    \/ Replay(r)
    \/ Reject(r)
    \/ Open(r)
    \/ ReserveOnce(r)
    \/ ReleaseAll(r)
    \/ ExpireChunk(r)
    \/ AllocateOnce(r)
    \/ CancelOnce(r)
    \/ CommitOnce(r)
    \/ ChangeOnHandOnce(r)
    \/ DuplicateEntry(r)
    \/ Retry(r)
    \/ Exhaust(r)

SweepStep(w) == SweepStart(w) \/ SweepChunk(w) \/ Attempt(w)

Next ==
    \/ \E r \in Handlers, o \in Payloads : Submit(r, o)
    \/ \E r \in Handlers : Attempt(r)
    \/ \E w \in Sweepers : SweepStep(w)
    \/ \E r \in Slots : Fault(r)
    \/ Tick

Spec == Init /\ [][Next]_vars

\* The scheduler's timer keeps firing and its own transactions keep going.
FairSpec == Spec /\ \A w \in Sweepers : WF_vars(SweepStep(w)) /\ WF_vars(Tick)

-----------------------------------------------------------------------------
(* Properties. *)

TypeOK ==
    /\ level \in [Levels -> LevelRow]
    /\ version \in [Levels -> Nat]
    /\ hold \in [Levels -> [Carts -> HoldRow]]
    /\ expiresAt \in [Levels -> [Carts -> Nat]]
    /\ clock \in Nat
    /\ pc \in [Slots -> {"idle", "ready", "open"}]
    /\ op \in [Slots -> Op]
    /\ attempt \in [Slots -> Nat]
    /\ seen \in [Slots -> Snapshot]
    /\ batch \in [Sweepers -> [ids : SUBSET Ids, now : Nat]]

\* quantity_reserved of every level is the sum of its active holds, whatever
\* reserves, releases, allocations and sweeps interleave: no unit is freed
\* twice, none stays reserved after its hold is gone.
ReservedMatchesHolds ==
    \A l \in Levels : level[l].reserved = Cardinality(HeldUnits(hold[l]))

\* A version names one content of a level: as long as an open transaction
\* finds the version it read, the counters and the holds of the level are
\* those it read.  This is what makes the compare-and-swap of the level row
\* protect the hold rows, which are saved unconditionally.
SnapshotStillTrue ==
    \A r \in Slots : pc[r] = "open" =>
        \A l \in Levels : VersionMatches(r, l) =>
            level[l] = seen[r].level[l] /\ hold[l] = seen[r].hold[l]

\* The units that the rows R of a level's ledger bring in or take out, one
\* element per unit.
BroughtIn(rows, R) == UNION {{m} \X ((1 .. rows[m]) \X (1 .. m.quantity)) : m \in R}
TakenOut(rows, R) == UNION {{m} \X ((1 .. rows[m]) \X (1 .. -m.quantity)) : m \in R}

MovesOnHand(m) == m.type \in {"receipt", "adjustment", "sale", "return"}
Allocates(m) == m.type = "allocation"
Deallocates(m) == m.type = "sale" \/ (m.type = "release" /\ m.key # None)

\* The rows of a ledger add up to on-hand and allocated counters.
AddUp(lv, seed, rows) ==
    LET onHand == {m \in BagToSet(rows) : MovesOnHand(m)}
        allocations == {m \in BagToSet(rows) : Allocates(m)}
        deallocations == {m \in BagToSet(rows) : Deallocates(m)}
    IN  /\ lv.onHand = seed + Cardinality(BroughtIn(rows, onHand))
                            - Cardinality(TakenOut(rows, onHand))
        /\ lv.allocated = Cardinality(TakenOut(rows, allocations))
                            - Cardinality(TakenOut(rows, deallocations))

\* The rows of the ledger add up to the on-hand and allocated counters of the level.
LedgerExplains(l) == AddUp(level[l], SeedOnHand[l], ledger[l])

\* A fulfillment is sold once, a return restocked once and a cancellation
\* released once per level, under redelivery and concurrent duplicates.
OncePerOperation ==
    \A l \in Levels : \A m, n \in BagToSet(ledger[l]) :
        LET SameOperation ==
                \/ m.type \in {"sale", "return"} /\ n.type = m.type /\ n.ref = m.ref
                \/ m.type = "release" /\ n.type = m.type /\ m.key # None /\ n.key = m.key
        IN  SameOperation => m = n /\ ledger[l][m] = 1

\* A request answered with success, as a replay too, has its rows in the
\* ledger, on every level it names.
AckedIsRecorded ==
    \A o \in acked : \A l \in Lines(o) : LineMovements(o, l) \subseteq BagToSet(ledger[l])

\* No-oversell: a step that promises more of a level leaves what is promised
\* within what is on hand.  (On-hand decreases may overdraw a level; no
\* reservation or allocation does.)
NoOversell ==
    [][\A l \in Levels :
          Promised(level'[l]) > Promised(level[l]) => Available(level'[l]) >= 0]_vars

\* An order's hold is final: a committed row never changes again.
CommittedIsFinal ==
    [][\A l \in Levels, c \in Carts :
          hold[l][c].status = "committed" => hold'[l][c] = hold[l][c]]_vars

\* The service is the atomic one of StockService.
Service == INSTANCE StockService
Implements == Service!Spec

\* A hold that expires is settled: swept, taken over, released or refreshed.
ExpiredHold(l, c) ==
    hold[l][c].status = "active" /\ IsExpired(expiresAt[l][c], clock)
ExpiredHoldsAreSettled ==
    \A l \in Levels, c \in Carts : ExpiredHold(l, c) ~> ~ExpiredHold(l, c)

=============================================================================
