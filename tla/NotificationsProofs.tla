------------------------- MODULE NotificationsProofs -------------------------
(***************************************************************************)
(* Deliveries and consent, for any number of handlers, messages, rows and  *)
(* copies of a message.                                                    *)
(*                                                                         *)
(* A row nobody raced for (not in unsure) has one holder at most: a        *)
(* handler that sends or saves it, or a sweeper that has still to take it  *)
(* up.  What the table says of such a row and what its holder read then    *)
(* fit together (SureInv), which bounds its mails and keeps what was       *)
(* decided about it.                                                       *)
(***************************************************************************)
EXTENDS Notifications, TLAPS

IsRow(x) ==
    x = [status |-> x.status, message |-> x.message, template |-> x.template,
         attempts |-> x.attempts, age |-> x.age]

IsActor(x) ==
    x = [pc |-> x.pc, message |-> x.message, template |-> x.template, snapshot |-> x.snapshot,
         id |-> x.id, copy |-> x.copy, retry |-> x.retry, batch |-> x.batch]

\* The row an actor is working on, and the rows it has still to take up.
Busy == {"send", "save", "outcome"}
Works(x, i) == x.id = i /\ x.pc \in Busy
Queues(x, i) == \E b \in x.batch : b[1] = i
Has(x, i) == Works(x, i) \/ Queues(x, i)

TableInv ==
    /\ rows = [i \in Ids |-> rows[i]] /\ \A i \in Ids : IsRow(rows[i])
    /\ mails \in [Ids -> Nat]
    /\ actor = [a \in Actors |-> actor[a]] /\ \A a \in Actors : IsActor(actor[a])

\* Rows that were never inserted or that the gate skipped are nobody's.
Held(i) == i \in Ids /\ rows[i].status \notin {"none", "skipped-no-consent"}

ActorInv(x) ==
    /\ x.pc \in Busy => Held(x.id) /\ IsRow(x.copy) /\ ~Queues(x, x.id)
    /\ x.pc = "save" =>
          /\ x.copy.status \in {"sent", "failed"}
          /\ x.copy.status = "sent" => mails[x.id] > 0
    /\ x.pc = "outcome" => x.copy.status \in {"delivered", "bounced"} /\ mails[x.id] > 0
    /\ \A b \in x.batch : Held(b[1]) /\ IsRow(b[2])
    /\ \A b, c \in x.batch : b[1] = c[1] => b = c

RowInv(i) ==
    /\ rows[i].status \in {"sent", "delivered", "bounced"} => mails[i] > 0
    /\ rows[i].status \in {"none", "skipped-no-consent"} => mails[i] = 0

\* Not decided yet, or gone.
Pending(i) == rows[i].status \in {"queued", "failed", "purged"}

\* What an actor may rely on about a row it has to itself.
FitsRow(x, i) ==
    /\ Queues(x, i) => Pending(i) /\ mails[i] = 0
    /\ Works(x, i) =>
          /\ x.pc = "send" => Pending(i) /\ mails[i] = 0
          /\ x.pc = "save" => Pending(i) /\ (x.copy.status = "failed" => mails[i] = 0)
          /\ x.pc = "outcome" => rows[i].status \in {"sent", "purged"}

SureInv(i) ==
    /\ mails[i] <= 1
    /\ \A a, b \in Actors : Has(actor[a], i) /\ Has(actor[b], i) => a = b
    /\ rows[i].status = "failed" /\ mails[i] # 0 =>
          \E a \in Actors : Works(actor[a], i) /\ actor[a].pc = "save"
    /\ \A a \in Actors : FitsRow(actor[a], i)

MailInv ==
    /\ TableInv
    /\ \A a \in Actors : ActorInv(actor[a])
    /\ \A i \in Ids : RowInv(i)
    /\ \A i \in Ids \ unsure : SureInv(i)

CacheInv == newest \in {consent, NoSnapshot} /\ CacheFollowsRecord

-----------------------------------------------------------------------------
(* What a step writes into an actor or a row. *)

\* An idle actor that starts on a message.
LEMMA Starting ==
    ASSUME NEW pc, NEW m, NEW v
    PROVE  LET y == [Idle EXCEPT !.pc = pc, !.message = m, !.template = v]
           IN  IsActor(y) /\ y.pc = pc /\ y.batch = {}
<1> DEFINE a == [Idle EXCEPT !.pc = pc]
           b == [a EXCEPT !.message = m]
           c == [b EXCEPT !.template = v]
<1>1. IsActor(Idle) /\ Idle.batch = {}
      BY DEF Idle, IsActor
<1>2. IsActor(a) /\ a.pc = pc /\ a.batch = {}
      BY <1>1 DEF IsActor
<1> HIDE DEF a
<1>3. IsActor(b) /\ b.pc = pc /\ b.batch = {}
      BY <1>2 DEF IsActor
<1> HIDE DEF b
<1>4. IsActor(c) /\ c.pc = pc /\ c.batch = {}
      BY <1>3 DEF IsActor
<1> QED BY <1>4 DEF a, b

\* An actor that goes on with another snapshot or another copy.
LEMMA GoingOn ==
    ASSUME NEW x, IsActor(x), NEW pc, NEW v
    PROVE  LET y == [x EXCEPT !.pc = pc, !.snapshot = v]
           IN  IsActor(y) /\ y.pc = pc /\ y.batch = x.batch
<1> DEFINE a == [x EXCEPT !.pc = pc]
           b == [a EXCEPT !.snapshot = v]
<1>1. IsActor(a) /\ a.pc = pc /\ a.batch = x.batch
      BY DEF IsActor
<1> HIDE DEF a
<1>2. IsActor(b) /\ b.pc = pc /\ b.batch = x.batch
      BY <1>1 DEF IsActor
<1> QED BY <1>2 DEF a

Saving(x, v) == [x EXCEPT !.pc = "save", !.copy = v]

LEMMA Changing ==
    ASSUME NEW x, IsActor(x), NEW v
    PROVE  LET y == Saving(x, v)
           IN  IsActor(y) /\ y.pc = "save" /\ y.id = x.id /\ y.copy = v /\ y.batch = x.batch
<1> DEFINE a == [x EXCEPT !.pc = "save"]
           b == [a EXCEPT !.copy = v]
<1>1. IsActor(a) /\ a.pc = "save" /\ a.id = x.id /\ a.batch = x.batch
      BY DEF IsActor
<1> HIDE DEF a
<1>2. IsActor(b) /\ b.pc = "save" /\ b.id = x.id /\ b.copy = v /\ b.batch = x.batch
      BY <1>1 DEF IsActor
<1>3. Saving(x, v) = b
      BY DEF a, Saving
<1> HIDE DEF b
<1> QED BY <1>2, <1>3

LEMMA Going ==
    ASSUME NEW x, IsActor(x), NEW pc
    PROVE  LET y == [x EXCEPT !.pc = pc]
           IN  IsActor(y) /\ y.pc = pc /\ y.id = x.id /\ y.batch = x.batch
BY DEF IsActor

\* An actor that is done with its row.
LEMMA Resting ==
    ASSUME NEW a
    PROVE  IsActor(Rest(a)) /\ Rest(a).pc = "idle" /\ Rest(a).batch = actor[a].batch
<1>1. IsActor(Idle) /\ Idle.pc = "idle"
      BY DEF Idle, IsActor
<1> PICK batch : batch = actor[a].batch
    OBVIOUS
<1>2. LET y == [Idle EXCEPT !.batch = batch] IN IsActor(y) /\ y.pc = "idle" /\ y.batch = batch
      BY <1>1 DEF IsActor
<1> QED BY <1>2 DEF Rest

\* An idle actor that takes up row i.
LEMMA TakingUp ==
    ASSUME NEW pc, NEW i, NEW row
    PROVE  LET y == [Idle EXCEPT !.pc = pc, !.id = i, !.copy = row]
           IN  IsActor(y) /\ y.pc = pc /\ y.id = i /\ y.copy = row /\ y.batch = {}
<1> DEFINE a == [Idle EXCEPT !.pc = pc]
           b == [a EXCEPT !.id = i]
           c == [b EXCEPT !.copy = row]
<1>1. IsActor(Idle) /\ Idle.batch = {}
      BY DEF Idle, IsActor
<1>2. IsActor(a) /\ a.pc = pc /\ a.batch = {}
      BY <1>1 DEF IsActor
<1> HIDE DEF a
<1>3. IsActor(b) /\ b.pc = pc /\ b.id = i /\ b.batch = {}
      BY <1>2 DEF IsActor
<1> HIDE DEF b
<1>4. IsActor(c) /\ c.pc = pc /\ c.id = i /\ c.copy = row /\ c.batch = {}
      BY <1>3 DEF IsActor
<1> QED BY <1>4 DEF a, b

LEMMA RetryingRow ==
    ASSUME NEW i, NEW row
    PROVE  LET y == RetryCopy(i, row)
           IN  IsActor(y) /\ y.pc = "send" /\ y.id = i /\ y.copy = row /\ y.batch = {}
<1> DEFINE yes == TRUE
           c == [Idle EXCEPT !.pc = "send", !.id = i, !.copy = row]
           d == [c EXCEPT !.retry = yes]
<1>1. IsActor(c) /\ c.pc = "send" /\ c.id = i /\ c.copy = row /\ c.batch = {}
      BY TakingUp
<1>2. RetryCopy(i, row) = d
      BY DEF RetryCopy
<1> HIDE DEF c, yes
<1>3. IsActor(d) /\ d.pc = "send" /\ d.id = i /\ d.copy = row /\ d.batch = {}
      BY <1>1 DEF IsActor
<1> QED BY <1>2, <1>3

LEMMA MarkedRow ==
    ASSUME NEW row, IsRow(row), NEW status
    PROVE  IsRow(Marked(row, status)) /\ Marked(row, status).status = status
<1> DEFINE a == [row EXCEPT !.status = status]
           b == [a EXCEPT !.attempts = a.attempts + 1]
<1>1. IsRow(a) /\ a.status = status
      BY DEF IsRow
<1>2. Marked(row, status) = b
      BY DEF Marked
<1> HIDE DEF a
<1>3. IsRow(b) /\ b.status = status
      BY <1>1 DEF IsRow
<1> HIDE DEF b
<1> QED BY <1>2, <1>3

LEMMA PurgedRow ==
    LET y == [NoRow EXCEPT !.status = "purged", !.age = "aged"] IN IsRow(y) /\ y.status = "purged"
<1> DEFINE a == [NoRow EXCEPT !.status = "purged"]
           b == [a EXCEPT !.age = "aged"]
<1>1. IsRow(NoRow)
      BY DEF NoRow, IsRow
<1>2. IsRow(a) /\ a.status = "purged"
      BY <1>1 DEF IsRow
<1> HIDE DEF a
<1>3. IsRow(b) /\ b.status = "purged"
      BY <1>2 DEF IsRow
<1> QED BY <1>3 DEF a

LEMMA EntityRow ==
    ASSUME NEW i, NEW copy, IsRow(copy)
    PROVE  IsRow(Entity(i, copy)) /\ Entity(i, copy).status = copy.status
<1> PICK v : v = IF Stored(i) THEN rows[i].age ELSE "young"
    OBVIOUS
<1>1. Entity(i, copy) = [copy EXCEPT !.age = v]
      BY DEF Entity
<1>2. LET y == [copy EXCEPT !.age = v] IN IsRow(y) /\ y.status = copy.status
      BY DEF IsRow
<1> QED BY <1>1, <1>2

-----------------------------------------------------------------------------
LEMMA WhoHolds ==
    ASSUME NEW i \in Ids
    PROVE  Holders(i) = {a \in Actors : Has(actor[a], i)}
BY DEF Holders, Has, Works, Queues, Busy

\* What one row may become without its holders taking notice.
Settles(i) ==
    /\ mails'[i] = mails[i]
    /\ \/ rows'[i].status = rows[i].status
       \/ rows'[i].status = "purged"

\* Actor a turns into x, which has no more to do with row i than a had.
LetsGo(a, x, i) ==
    /\ Settles(i)
    /\ Queues(x, i) => Queues(actor[a], i)
    /\ ~Works(x, i)
    /\ Works(actor[a], i) => actor[a].pc # "save"

LEMMA LettingGoIsSafe ==
    ASSUME TableInv, NEW a \in Actors, NEW x, actor' = [actor EXCEPT ![a] = x],
           NEW i \in Ids, SureInv(i), LetsGo(a, x, i)
    PROVE  SureInv(i)'
<1>1. /\ actor'[a] = x
      /\ \A b \in Actors : b # a => actor'[b] = actor[b]
      BY DEF TableInv
<1>2. \A b \in Actors : /\ Queues(actor'[b], i) => Queues(actor[b], i)
                        /\ Works(actor'[b], i) => b # a /\ Works(actor[b], i)
      BY <1>1 DEF LetsGo
<1>3. mails'[i] <= 1
      BY DEF SureInv, LetsGo, Settles
<1>4. \A b, c \in Actors : Has(actor'[b], i) /\ Has(actor'[c], i) => b = c
      BY <1>2 DEF SureInv, Has
<1>5. (rows'[i].status = "failed" /\ mails'[i] # 0) =>
          \E b \in Actors : Works(actor'[b], i) /\ actor'[b].pc = "save"
      <2> SUFFICES ASSUME rows'[i].status = "failed", mails'[i] # 0
                   PROVE  \E b \in Actors : Works(actor'[b], i) /\ actor'[b].pc = "save"
          OBVIOUS
      <2>1. PICK b \in Actors : Works(actor[b], i) /\ actor[b].pc = "save"
            BY DEF SureInv, LetsGo, Settles
      <2>2. b # a
            BY <2>1 DEF LetsGo
      <2> QED BY <1>1, <2>1, <2>2
<1>6. ASSUME NEW b \in Actors PROVE FitsRow(actor[b], i)'
      <2>1. FitsRow(actor[b], i)
            BY DEF SureInv
      <2> QED BY <1>1, <1>2, <2>1 DEF FitsRow, Pending, LetsGo, Settles, Works
<1> QED BY <1>3, <1>4, <1>5, <1>6 DEF SureInv, Has, Works, Queues

\* A row that may be held stays one, and no mail is called back.
Moves == \A i \in Ids : /\ Held(i) => Held(i)'
                        /\ mails'[i] >= mails[i]

LEMMA MovesKeepActor ==
    ASSUME Moves, TableInv, TableInv', NEW x, ActorInv(x)
    PROVE  ActorInv(x)'
<1>1. \A i : Held(i) => Held(i)' /\ i \in Ids
      BY DEF Moves, Held
<1>2. x.pc \in Busy => (Held(x.id))' /\ IsRow(x.copy) /\ ~Queues(x, x.id)
      BY <1>1 DEF ActorInv
<1>3. \A b \in x.batch : Held(b[1])' /\ IsRow(b[2])
      BY <1>1 DEF ActorInv
<1>4. \A i \in Ids : mails[i] > 0 => mails'[i] > 0
      BY DEF Moves, TableInv
<1>5. x.pc = "save" => /\ x.copy.status \in {"sent", "failed"}
                       /\ x.copy.status = "sent" => mails'[x.id] > 0
      BY <1>1, <1>4 DEF ActorInv, Busy
<1>6. x.pc = "outcome" => x.copy.status \in {"delivered", "bounced"} /\ mails'[x.id] > 0
      BY <1>1, <1>4 DEF ActorInv, Busy
<1>7. \A b, c \in x.batch : b[1] = c[1] => b = c
      BY DEF ActorInv
<1> QED BY <1>2, <1>3, <1>5, <1>6, <1>7 DEF ActorInv, Held

\* A step of actor a.
LEMMA ActorStep ==
    ASSUME MailInv, NEW a \in Actors, NEW x, actor' = [actor EXCEPT ![a] = x], IsActor(x),
           rows' = [i \in Ids |-> rows'[i]], \A i \in Ids : IsRow(rows'[i]),
           mails' \in [Ids -> Nat], Moves,
           ActorInv(x)',
           \A i \in Ids : RowInv(i)',
           unsure \subseteq unsure',
           \A i \in Ids \ unsure' : SureInv(i)' \/ LetsGo(a, x, i)
    PROVE  MailInv'
<1>1. TableInv'
      BY DEF MailInv, TableInv
<1>2. ASSUME NEW b \in Actors PROVE ActorInv(actor[b])'
      <2>1. CASE b = a
            BY <2>1 DEF MailInv, TableInv
      <2>2. CASE b # a
            <3> PICK y : y = actor[b]
                OBVIOUS
            <3>1. ActorInv(y)'
                  BY <1>1, MovesKeepActor DEF MailInv
            <3>2. actor'[b] = y
                  BY <2>2 DEF MailInv, TableInv
            <3> QED BY <3>1, <3>2
      <2> QED BY <2>1, <2>2
<1>3. ASSUME NEW i \in Ids \ unsure' PROVE SureInv(i)'
      <2>1. SureInv(i) /\ TableInv
            BY DEF MailInv
      <2> QED BY <2>1, LettingGoIsSafe
<1> QED BY <1>1, <1>2, <1>3 DEF MailInv

LEMMA UnchangedMail ==
    ASSUME MailInv, UNCHANGED <<rows, mails>>
    PROVE  /\ Moves
           /\ rows' = [i \in Ids |-> rows'[i]] /\ \A i \in Ids : IsRow(rows'[i])
           /\ mails' \in [Ids -> Nat]
           /\ \A i \in Ids : RowInv(i)' /\ Settles(i)
BY DEF MailInv, TableInv, Moves, RowInv, Settles, Held

\* A step that has nothing to do with rows.
LEMMA QuietStep ==
    ASSUME MailInv, UNCHANGED <<rows, mails, unsure>>,
           NEW a \in Actors, NEW x, actor' = [actor EXCEPT ![a] = x], IsActor(x),
           actor[a].pc \notin Busy, x.pc \notin Busy, x.batch = actor[a].batch
    PROVE  MailInv'
<1>1. ActorInv(x)
      BY DEF MailInv, ActorInv, Busy
<1>2. ActorInv(x)'
      BY <1>1, UnchangedMail, MovesKeepActor DEF MailInv, TableInv
<1>3. \A i \in Ids : LetsGo(a, x, i)
      BY UnchangedMail DEF LetsGo, Works, Queues
<1> QED BY <1>2, <1>3, UnchangedMail, ActorStep

\* A step of time or of the purge.
LEMMA AgeStep ==
    ASSUME MailInv, UNCHANGED <<mails, unsure, actor>>,
           rows' = [i \in Ids |-> rows'[i]], \A i \in Ids : IsRow(rows'[i]),
           \A i \in Ids : \/ rows'[i].status = rows[i].status
                          \/ rows'[i].status = "purged" /\ Stored(i)
    PROVE  MailInv'
<1>1. TableInv'
      BY DEF MailInv, TableInv
<1>2. Moves
      <2>1. mails \in [Ids -> Nat]
            BY DEF MailInv, TableInv
      <2> QED BY <2>1 DEF Moves, Held
<1>3. ASSUME NEW b \in Actors PROVE ActorInv(actor[b])'
      <2> PICK y : y = actor[b]
          OBVIOUS
      <2>1. ActorInv(y)'
            BY <1>1, <1>2, MovesKeepActor DEF MailInv
      <2> QED BY <2>1
<1>4. ASSUME NEW i \in Ids PROVE RowInv(i)'
      BY DEF MailInv, RowInv
<1>5. ASSUME NEW i \in Ids \ unsure' PROVE SureInv(i)'
      <2>1. SureInv(i)
            BY DEF MailInv
      <2>2. \A a \in Actors : FitsRow(actor[a], i)'
            BY <2>1 DEF SureInv, FitsRow, Pending, Works, Queues
      <2> QED BY <2>1, <2>2 DEF SureInv, Has, Works, Queues
<1> QED BY <1>1, <1>3, <1>4, <1>5 DEF MailInv

-----------------------------------------------------------------------------
(* The actions. *)

LEMMA QuietActions ==
    ASSUME MailInv, NEW a \in Actors,
           \/ Author(a) \/ SaveTemplate(a) \/ Arrive(a)
           \/ ReadConsent(a) \/ CacheFails(a) \/ ReaderFails(a) \/ FillCache(a)
           \/ EmitDeliveryFailed(a) \/ LoseDeliveryFailed(a)
    PROVE  MailInv'
<1>1. IsActor(actor[a]) /\ IsActor(Idle) /\ Idle.pc \notin Busy /\ Idle.batch = {}
      BY DEF MailInv, TableInv, Idle, IsActor, Busy
<1>2. ASSUME UNCHANGED <<rows, mails, unsure>>, actor[a] = Idle,
             NEW pc \in {"author", "consent", "insert"}, NEW m, NEW v,
             actor' = [actor EXCEPT ![a] = [Idle EXCEPT !.pc = pc, !.message = m, !.template = v]]
      PROVE  MailInv'
      <2>1. PICK x : x = [Idle EXCEPT !.pc = pc, !.message = m, !.template = v]
            OBVIOUS
      <2>2. IsActor(x) /\ x.pc = pc /\ x.batch = {}
            BY <2>1, Starting
      <2>3. actor' = [actor EXCEPT ![a] = x]
            BY <1>2, <2>1
      <2> QED BY <1>1, <1>2, <2>2, <2>3, QuietStep DEF Busy
<1>3. ASSUME UNCHANGED <<rows, mails, unsure>>, actor[a].pc \notin Busy,
             NEW pc \in {"fill", "insert"}, NEW v,
             actor' = [actor EXCEPT ![a] = [actor[a] EXCEPT !.pc = pc, !.snapshot = v]]
      PROVE  MailInv'
      <2>0. PICK y : y = actor[a]
            OBVIOUS
      <2>1. PICK x : x = [y EXCEPT !.pc = pc, !.snapshot = v]
            OBVIOUS
      <2>2. IsActor(x) /\ x.pc = pc /\ x.batch = y.batch
            <3>1. IsActor(y)
                  BY <1>1, <2>0
            <3>2. LET z == [y EXCEPT !.pc = pc, !.snapshot = v]
                  IN  IsActor(z) /\ z.pc = pc /\ z.batch = y.batch
                  BY <3>1, GoingOn, ZenonT(60)
            <3> QED BY <3>2, <2>1
      <2>3. actor' = [actor EXCEPT ![a] = x]
            BY <1>3, <2>0, <2>1
      <2> QED BY <1>3, <2>0, <2>2, <2>3, QuietStep DEF Busy
<1>4. CASE Author(a)
      <2>1. /\ UNCHANGED <<rows, mails, unsure>> /\ actor[a] = Idle
            /\ \E m \in Messages :
                  actor' = [actor EXCEPT ![a] = [Idle EXCEPT
                      !.pc = "author", !.message = m, !.template = NextVersion(m)]]
            BY <1>4 DEF Author, mail
      <2> QED BY <2>1, <1>2
<1>5. CASE SaveTemplate(a) \/ EmitDeliveryFailed(a) \/ LoseDeliveryFailed(a)
      <2>1. /\ actor' = [actor EXCEPT ![a] = Rest(a)] /\ UNCHANGED <<rows, mails, unsure>>
            /\ actor[a].pc \notin Busy
            BY <1>5 DEF SaveTemplate, EmitDeliveryFailed, LoseDeliveryFailed, Leave, mail, Busy
      <2> QED BY <2>1, Resting, QuietStep DEF Busy
<1>6. CASE Arrive(a)
      <2>1. UNCHANGED <<rows, mails, unsure>> /\ actor[a] = Idle
            BY <1>6 DEF Arrive
      <2>2. CASE UNCHANGED actor
            BY <2>1, <2>2, AgeStep DEF MailInv, TableInv
      <2>3. CASE actor' # actor
            <3>1. PICK m \in Messages :
                      actor' = [actor EXCEPT ![a] = [Idle EXCEPT
                         !.pc = IF Consumer(m).customer THEN "consent" ELSE "insert",
                         !.message = m, !.template = LatestActive(m)]]
                  BY <1>6, <2>3 DEF Arrive
            <3>2. PICK pc : pc = IF Consumer(m).customer THEN "consent" ELSE "insert"
                  OBVIOUS
            <3>3. pc \in {"author", "consent", "insert"}
                  BY <3>2
            <3> QED BY <2>1, <3>1, <3>2, <3>3, <1>2
      <2> QED BY <2>2, <2>3
<1>7. CASE ReadConsent(a) \/ CacheFails(a) \/ ReaderFails(a)
      <2>1. UNCHANGED <<rows, mails, unsure>> /\ actor[a].pc \notin Busy
            BY <1>7 DEF ReadConsent, CacheFails, ReaderFails, mail, Busy
      <2>2. \E v : Judge(a, v) \/ Fetch(a, v)
            BY <1>7 DEF ReadConsent, CacheFails, ReaderFails
      <2> QED BY <2>1, <2>2, <1>3 DEF Judge, Fetch
<1>8. CASE FillCache(a)
      <2>0. actor' = [actor EXCEPT ![a] = [actor[a] EXCEPT !.pc = "insert"]]
            BY <1>8 DEF FillCache, Goto
      <2>1. UNCHANGED <<rows, mails, unsure>> /\ actor[a].pc \notin Busy
            BY <1>8 DEF FillCache, mail, Busy
      <2>2. PICK y : y = actor[a]
            OBVIOUS
      <2>3. PICK x : x = [y EXCEPT !.pc = "insert"]
            OBVIOUS
      <2>4. IsActor(x) /\ x.pc = "insert" /\ x.batch = y.batch
            BY <1>1, <2>2, <2>3, Going
      <2>5. actor' = [actor EXCEPT ![a] = x]
            BY <2>0, <2>2, <2>3
      <2> QED BY <2>1, <2>2, <2>4, <2>5, QuietStep DEF Busy
<1> QED BY <1>4, <1>5, <1>6, <1>7, <1>8

\* An actor takes up, or queues, rows it has just read.
LEMMA TakeStep ==
    ASSUME MailInv, UNCHANGED <<rows, mails>>, NEW a \in Actors, NEW x,
           actor[a] = Idle, actor' = [actor EXCEPT ![a] = x], IsActor(x),
           ActorInv(x), NEW ids \in SUBSET Ids, \A i \in Ids : Has(x, i) => i \in ids,
           unsure' = unsure \cup Met(ids),
           \A i \in Ids \ unsure :
               i \in ids /\ i \notin Met(ids) /\ SureInv(i) => FitsRow(x, i)
    PROVE  MailInv'
<1>1. ActorInv(x)'
      BY UnchangedMail, MovesKeepActor DEF MailInv, TableInv
<1>2. ASSUME NEW i \in Ids \ unsure' PROVE SureInv(i)' \/ LetsGo(a, x, i)
      <2>1. CASE i \notin ids
            BY <2>1, UnchangedMail DEF LetsGo, Has, Works, Queues, Idle, Busy
      <2>2. CASE i \in ids
            <3>1. i \notin unsure /\ i \notin Met(ids)
                  BY <1>2
            <3>2. \A b \in Actors : ~Has(actor[b], i)
                  BY <2>2, <3>1, WhoHolds DEF Met
            <3>3. \A b \in Actors : b # a => ~Has(actor'[b], i) /\ actor'[b] = actor[b]
                  BY <3>2 DEF MailInv, TableInv
            <3>4. SureInv(i) /\ actor'[a] = x
                  BY <3>1 DEF MailInv, TableInv
            <3>5. \A b \in Actors : FitsRow(actor[b], i)'
                  BY <2>2, <3>1, <3>3, <3>4 DEF FitsRow, Pending, Has, Works, Queues
            <3>6. ~(rows'[i].status = "failed" /\ mails'[i] # 0)
                  BY <3>2, <3>4 DEF SureInv, Has
            <3> QED BY <3>3, <3>4, <3>5, <3>6 DEF SureInv, Has, Works, Queues
      <2> QED BY <2>1, <2>2
<1> QED BY <1>1, <1>2, UnchangedMail, ActorStep

\* What a row of the table becomes under a write of row i.
LEMMA WriteRow ==
    ASSUME TableInv, NEW i \in Ids, NEW y, IsRow(y), rows' = [rows EXCEPT ![i] = y]
    PROVE  /\ rows' = [j \in Ids |-> rows'[j]] /\ \A j \in Ids : IsRow(rows'[j])
           /\ rows'[i] = y /\ \A j \in Ids : j # i => rows'[j] = rows[j]
BY DEF TableInv

LEMMA TimeActions ==
    ASSUME MailInv, (\E i \in Ids : GrowStale(i) \/ GrowOld(i)) \/ Purge
    PROVE  MailInv'
<1>1. ASSUME NEW i \in Ids, GrowStale(i) \/ GrowOld(i) PROVE MailInv'
      <2>1. UNCHANGED <<mails, unsure, actor>> /\ TableInv /\ IsRow(rows[i])
            BY <1>1 DEF GrowStale, GrowOld, MailInv, TableInv
      <2>2. PICK age : rows' = [rows EXCEPT ![i] = [rows[i] EXCEPT !.age = age]]
            BY <1>1 DEF GrowStale, GrowOld
      <2>3. PICK z : z = rows[i]
            OBVIOUS
      <2>4. LET y == [z EXCEPT !.age = age] IN IsRow(y) /\ y.status = z.status
            <3>1. IsRow(z)
                  BY <2>1, <2>3
            <3> QED BY <3>1 DEF IsRow
      <2>5. PICK y : y = [z EXCEPT !.age = age]
            OBVIOUS
      <2>6. IsRow(y) /\ y.status = rows[i].status
            BY <2>3, <2>4, <2>5
      <2>7. rows' = [rows EXCEPT ![i] = y]
            BY <2>2, <2>3, <2>5
      <2>8. /\ rows' = [j \in Ids |-> rows'[j]] /\ \A j \in Ids : IsRow(rows'[j])
            /\ rows'[i] = y /\ \A j \in Ids : j # i => rows'[j] = rows[j]
            BY <2>1, <2>6, <2>7, WriteRow
      <2> QED BY <2>1, <2>6, <2>8, AgeStep
<1>2. ASSUME Purge PROVE MailInv'
      <2> PICK y : y = [NoRow EXCEPT !.status = "purged", !.age = "aged"]
          OBVIOUS
      <2>1. IsRow(y) /\ y.status = "purged"
            BY PurgedRow
      <2>2. UNCHANGED <<mails, unsure, actor>> /\ TableInv
            BY <1>2 DEF Purge, MailInv
      <2>3. PICK aged \in SUBSET {i \in Ids : Stored(i)} :
                rows' = [i \in Ids |-> IF i \in aged THEN y ELSE rows[i]]
            BY <1>2 DEF Purge
      <2>4. \A i \in Ids : IsRow(rows[i])
            BY <2>2 DEF TableInv
      <2>5. \A i \in Ids : IsRow(rows'[i])
            BY <2>1, <2>3, <2>4
      <2> QED BY <2>1, <2>2, <2>3, <2>5, AgeStep
<1> QED BY <1>1, <1>2

LEMMA NobodyHas ==
    ASSUME MailInv, NEW i \in Ids, ~Held(i), NEW b \in Actors
    PROVE  ~Has(actor[b], i)
BY DEF MailInv, ActorInv, Has, Works, Queues

\* The dispatch creates row i.
LEMMA CreateStep ==
    ASSUME MailInv, UNCHANGED <<mails, unsure>>, NEW a \in Actors, NEW x, IsActor(x),
           actor[a].pc \notin Busy, actor' = [actor EXCEPT ![a] = x],
           NEW i \in Ids, rows[i].status = "none", NEW y, IsRow(y),
           y.status \in {"queued", "skipped-no-consent"}, rows' = [rows EXCEPT ![i] = y],
           \/ x.pc \notin Busy /\ x.batch = actor[a].batch
           \/ /\ x.pc = "send" /\ x.id = i /\ x.batch = {} /\ IsRow(x.copy)
              /\ y.status = "queued"
    PROVE  MailInv'
<1>1. TableInv /\ mails \in [Ids -> Nat]
      BY DEF MailInv, TableInv
<1>2. /\ rows' = [j \in Ids |-> rows'[j]] /\ \A j \in Ids : IsRow(rows'[j])
      /\ rows'[i] = y /\ \A j \in Ids : j # i => rows'[j] = rows[j]
      BY <1>1, WriteRow
<1>3. \A b \in Actors : ~Has(actor[b], i)
      BY NobodyHas DEF Held
<1>4. mails[i] = 0
      BY DEF MailInv, RowInv
<1>5. Moves
      BY <1>1, <1>2 DEF Moves, Held
<1>6. TableInv'
      BY <1>1, <1>2 DEF TableInv, MailInv
<1>7. ActorInv(x)'
      <2>1. CASE x.pc \notin Busy /\ x.batch = actor[a].batch
            <3>1. ActorInv(x)
                  BY <2>1 DEF MailInv, ActorInv, Busy
            <3> QED BY <1>1, <1>5, <1>6, <3>1, MovesKeepActor
      <2>2. CASE x.pc = "send" /\ x.id = i /\ x.batch = {} /\ IsRow(x.copy) /\ y.status = "queued"
            BY <1>2, <2>2 DEF ActorInv, Held, Queues
      <2> QED BY <2>1, <2>2
<1>8. \A j \in Ids : RowInv(j)'
      BY <1>2, <1>4 DEF MailInv, RowInv
<1>9. ASSUME NEW j \in Ids \ unsure' PROVE SureInv(j)' \/ LetsGo(a, x, j)
      <2>1. CASE j # i
            BY <1>2, <2>1 DEF LetsGo, Settles, Works, Queues
      <2>2. CASE j = i
            <3>1. actor'[a] = x /\ \A b \in Actors : b # a => actor'[b] = actor[b]
                  BY <1>1 DEF TableInv
            <3>2. \A b \in Actors : Has(actor'[b], i) => b = a /\ x.pc = "send"
                  BY <1>3, <3>1 DEF Has, Works, Queues
            <3>3. \A b \in Actors : FitsRow(actor[b], i)'
                  BY <1>2, <1>4, <3>1, <3>2 DEF FitsRow, Pending, Has, Works, Queues, Busy
            <3> QED BY <1>4, <2>2, <3>2, <3>3 DEF SureInv, Has, Works, Queues
      <2> QED BY <2>1, <2>2
<1> QED BY <1>2, <1>5, <1>7, <1>8, <1>9, <1>1, ActorStep

\* A dispatch goes on with the row of an earlier copy, which then is nobody's alone.
LEMMA JoinStep ==
    ASSUME MailInv, UNCHANGED <<rows, mails>>, NEW a \in Actors, NEW x, IsActor(x),
           actor[a].pc \notin Busy, actor' = [actor EXCEPT ![a] = x],
           NEW i \in Ids, Held(i), unsure' = unsure \cup {i},
           x.pc = "send" /\ x.id = i /\ x.batch = {} /\ IsRow(x.copy)
    PROVE  MailInv'
<1>1. ActorInv(x)
      BY DEF ActorInv, Queues
<1>2. ActorInv(x)'
      BY <1>1, UnchangedMail, MovesKeepActor DEF MailInv, TableInv
<1>3. \A j \in Ids \ unsure' : LetsGo(a, x, j)
      BY UnchangedMail DEF LetsGo, Works, Queues
<1> QED BY <1>2, <1>3, UnchangedMail, ActorStep

LEMMA InsertAction ==
    ASSUME MailInv, NEW a \in Actors, Insert(a)
    PROVE  MailInv'
<1>1. UNCHANGED mails /\ actor[a].pc \notin Busy /\ TableInv
      BY DEF Insert, MailInv, Busy
<1>2. IsRow(Opened(a)) /\ Opened(a).status \in {"queued", "skipped-no-consent"}
      BY DEF Opened, IsRow
<1>3. ASSUME NEW i, NEW row, IsRow(row), Proceed(a, i, row)
      PROVE  \E x : /\ IsActor(x) /\ actor' = [actor EXCEPT ![a] = x]
                    /\ \/ x = Rest(a) /\ ~GoesOut(a, row.status)
                       \/ /\ x.pc = "send" /\ x.id = i /\ x.batch = {} /\ IsRow(x.copy)
                          /\ GoesOut(a, row.status)
      <2>1. CASE GoesOut(a, row.status)
            <3>1. PICK x : x = [Idle EXCEPT !.pc = "send", !.id = i, !.copy = row]
                  OBVIOUS
            <3>2. IsActor(x) /\ x.pc = "send" /\ x.id = i /\ x.copy = row /\ x.batch = {}
                  <4>1. LET z == [Idle EXCEPT !.pc = "send", !.id = i, !.copy = row]
                        IN  IsActor(z) /\ z.pc = "send" /\ z.id = i /\ z.copy = row /\ z.batch = {}
                        BY TakingUp
                  <4> QED BY <3>1, <4>1
            <3>3. actor' = [actor EXCEPT ![a] = x]
                  BY <1>3, <2>1, <3>1 DEF Proceed
            <3> QED BY <1>3, <2>1, <3>2, <3>3
      <2>2. CASE ~GoesOut(a, row.status)
            <3>1. actor' = [actor EXCEPT ![a] = Rest(a)]
                  BY <1>3, <2>2 DEF Proceed, Leave
            <3> QED BY <2>2, <3>1, Resting
      <2> QED BY <2>1, <2>2
<1>4. CASE \E i \in Ids : /\ rows[i].status = "none" /\ rows' = [rows EXCEPT ![i] = Opened(a)]
                          /\ Proceed(a, i, Opened(a)) /\ UNCHANGED unsure
      <2>1. PICK i \in Ids : /\ rows[i].status = "none" /\ rows' = [rows EXCEPT ![i] = Opened(a)]
                             /\ Proceed(a, i, Opened(a)) /\ UNCHANGED unsure
            BY <1>4
      <2>2. PICK x : /\ IsActor(x) /\ actor' = [actor EXCEPT ![a] = x]
                     /\ \/ x = Rest(a)
                        \/ /\ x.pc = "send" /\ x.id = i /\ x.batch = {} /\ IsRow(x.copy)
                           /\ GoesOut(a, Opened(a).status)
            BY <1>2, <1>3, <2>1
      <2>3. CASE x = Rest(a)
            <3>1. x.pc \notin Busy /\ x.batch = actor[a].batch
                  BY <2>3, Resting DEF Busy
            <3> QED BY <1>1, <1>2, <2>1, <2>2, <3>1, CreateStep
      <2>4. CASE x.pc = "send" /\ x.id = i /\ x.batch = {} /\ IsRow(x.copy) /\ GoesOut(a, Opened(a).status)
            BY <1>1, <1>2, <2>1, <2>2, <2>4, CreateStep DEF GoesOut
      <2> QED BY <2>2, <2>3, <2>4
<1>5. CASE \E i \in Ids : /\ Proceed(a, i, rows[i]) /\ UNCHANGED rows
                          /\ unsure' = IF GoesOut(a, rows[i].status) THEN unsure \cup {i} ELSE unsure
      <2>1. PICK i \in Ids : /\ Proceed(a, i, rows[i]) /\ UNCHANGED rows
                             /\ unsure' = IF GoesOut(a, rows[i].status) THEN unsure \cup {i} ELSE unsure
            BY <1>5
      <2>2. IsRow(rows[i])
            BY <1>1 DEF TableInv
      <2>3. PICK x : /\ IsActor(x) /\ actor' = [actor EXCEPT ![a] = x]
                     /\ \/ x = Rest(a) /\ ~GoesOut(a, rows[i].status)
                        \/ /\ x.pc = "send" /\ x.id = i /\ x.batch = {} /\ IsRow(x.copy)
                           /\ GoesOut(a, rows[i].status)
            BY <1>3, <2>1, <2>2
      <2>4. CASE x = Rest(a) /\ ~GoesOut(a, rows[i].status)
            <3>1. x.pc \notin Busy /\ x.batch = actor[a].batch
                  BY <2>4, Resting DEF Busy
            <3> QED BY <1>1, <2>1, <2>3, <2>4, <3>1, QuietStep
      <2>5. CASE /\ x.pc = "send" /\ x.id = i /\ x.batch = {} /\ IsRow(x.copy)
                 /\ GoesOut(a, rows[i].status)
            <3>1. Held(i)
                  BY <2>5 DEF GoesOut, Held
            <3> QED BY <1>1, <2>1, <2>3, <2>5, <3>1, JoinStep
      <2> QED BY <2>3, <2>4, <2>5
<1>6. /\ Duplicates(actor[a].message, actor[a].template) \subseteq Ids
      BY DEF Duplicates
<1> QED BY <1>4, <1>5, <1>6 DEF Insert

LEMMA SendActions ==
    ASSUME MailInv, NEW a \in Actors, Send(a) \/ SendFails(a)
    PROVE  MailInv'
<1> PICK i : i = actor[a].id
    OBVIOUS
<1>1. /\ TableInv /\ mails \in [Ids -> Nat] /\ IsActor(actor[a]) /\ ActorInv(actor[a])
      /\ actor[a].pc = "send" /\ UNCHANGED <<rows, unsure>>
      BY DEF MailInv, TableInv, Send, SendFails, mail
<1>2. Held(i) /\ IsRow(actor[a].copy) /\ ~Queues(actor[a], i) /\ i \in Ids
      BY <1>1 DEF ActorInv, Busy, Held
<1>3. PICK status \in {"sent", "failed"} :
          /\ MarkCopy(a, status)
          /\ mails' = IF status = "sent" THEN [mails EXCEPT ![actor[a].id] = @ + 1] ELSE mails
      BY DEF Send, SendFails, mail
<1>4. PICK copy : copy = Marked(actor[a].copy, status)
      OBVIOUS
<1>5. IsRow(copy) /\ copy.status = status
      BY <1>2, <1>4, MarkedRow
<1>6. PICK y : y = actor[a]
      OBVIOUS
<1>7. PICK x : x = Saving(y, copy)
      OBVIOUS
<1>8. IsActor(x) /\ x.pc = "save" /\ x.id = y.id /\ x.copy = copy /\ x.batch = y.batch
      <2>1. IsActor(y)
            BY <1>1, <1>6
      <2> QED BY <2>1, <1>7, Changing
<1>9. IsActor(x) /\ x.pc = "save" /\ x.id = i /\ x.copy = copy /\ x.batch = actor[a].batch
      BY <1>6, <1>8
<1>10. actor' = [actor EXCEPT ![a] = x]
      BY <1>3, <1>4, <1>6, <1>7 DEF MarkCopy, Saving
<1>11. /\ mails' \in [Ids -> Nat]
       /\ mails'[i] = IF status = "sent" THEN mails[i] + 1 ELSE mails[i]
       /\ \A j \in Ids : j # i => mails'[j] = mails[j]
       BY <1>1, <1>2, <1>3
<1>12. Moves
       BY <1>1, <1>2, <1>11 DEF Moves, Held
<1>13. ActorInv(x)'
       <2>1. TableInv'
             BY <1>1, <1>9, <1>10, <1>11 DEF TableInv
       <2>2. ActorInv(y)'
             BY <1>1, <1>6, <1>12, <2>1, MovesKeepActor
       <2>3. y.batch = x.batch /\ y.pc \in Busy /\ y.id = i
             BY <1>1, <1>6, <1>9 DEF Busy
       <2>4. mails[i] \in Nat
             BY <1>1, <1>2
       <2> QED BY <1>5, <1>9, <1>11, <2>2, <2>3, <2>4 DEF ActorInv, Queues, Busy
<1>14. ASSUME NEW j \in Ids PROVE RowInv(j)'
       BY <1>1, <1>2, <1>11 DEF MailInv, RowInv, Held
<1>15. ASSUME NEW j \in Ids \ unsure' PROVE SureInv(j)' \/ LetsGo(a, x, j)
       <2>1. CASE j # i
             BY <1>1, <1>9, <1>11, <2>1 DEF LetsGo, Settles, Works, Queues
       <2>2. CASE j = i
             <3>1. SureInv(i) /\ Works(actor[a], i)
                   BY <1>1, <2>2 DEF MailInv, Works, Busy
             <3>2. Pending(i) /\ mails[i] = 0
                   BY <1>1, <3>1 DEF SureInv, FitsRow
             <3>3. actor'[a] = x /\ \A b \in Actors : b # a => actor'[b] = actor[b]
                   BY <1>1, <1>10 DEF TableInv
             <3>4. \A b \in Actors : Has(actor'[b], i) => b = a
                   BY <3>1, <3>3 DEF SureInv, Has
             <3>5. Works(x, i) /\ ~Queues(x, i)
                   BY <1>2, <1>9 DEF Works, Queues, Busy
             <3>6. \A b \in Actors : FitsRow(actor[b], i)'
                   BY <1>1, <1>5, <1>9, <1>11, <3>2, <3>3, <3>4, <3>5 DEF FitsRow, Pending, Has, Works, Queues
             <3>7. mails'[i] <= 1
                   BY <1>11, <3>2
             <3>8. Works(actor'[a], i) /\ actor'[a].pc = "save"
                   BY <1>9, <3>3, <3>5
             <3> QED BY <2>2, <3>4, <3>6, <3>7, <3>8 DEF SureInv, Has, Works, Queues
       <2> QED BY <2>1, <2>2
<1>16. rows' = [j \in Ids |-> rows'[j]] /\ \A j \in Ids : IsRow(rows'[j])
       BY <1>1 DEF TableInv
<1> QED BY <1>1, <1>9, <1>10, <1>11, <1>12, <1>13, <1>14, <1>15, <1>16, ActorStep

\* A row is saved by whoever holds it.
LEMMA SaveStep ==
    ASSUME MailInv, UNCHANGED <<mails, unsure>>, NEW a \in Actors, NEW x, IsActor(x),
           actor[a].pc \in {"save", "outcome"}, x.pc \notin Busy, x.batch = actor[a].batch,
           actor' = [actor EXCEPT ![a] = x], rows' = Overwritten(a)
    PROVE  MailInv'
<1> PICK i, copy : i = actor[a].id /\ copy = actor[a].copy
    OBVIOUS
<1>1. TableInv /\ mails \in [Ids -> Nat] /\ ActorInv(actor[a])
      BY DEF MailInv, TableInv
<1>2. Held(i) /\ IsRow(copy) /\ ~Queues(actor[a], i) /\ i \in Ids
      BY <1>1 DEF ActorInv, Busy, Held
<1>3. /\ copy.status \in {"sent", "failed", "delivered", "bounced"}
      /\ copy.status # "failed" => mails[i] > 0
      BY <1>1 DEF ActorInv
<1>4. PICK y : y = Entity(i, copy)
      OBVIOUS
<1>5. IsRow(y) /\ y.status = copy.status
      BY <1>2, <1>4, EntityRow
<1>6. /\ rows' = [j \in Ids |-> rows'[j]] /\ \A j \in Ids : IsRow(rows'[j])
      /\ \A j \in Ids : j # i => rows'[j] = rows[j]
      /\ \/ rows'[i] = rows[i] /\ ~Stored(i)
         \/ rows'[i] = y
      <2>1. CASE rows' = rows /\ ~Stored(i)
            BY <1>1, <2>1 DEF TableInv
      <2>2. CASE rows' = [rows EXCEPT ![i] = y]
            BY <1>1, <1>2, <1>5, <2>2, WriteRow
      <2> QED BY <1>4, <2>1, <2>2 DEF Overwritten
<1>7. Moves
      BY <1>1, <1>3, <1>5, <1>6 DEF Moves, Held
<1>8. ActorInv(x)'
      <2>1. ActorInv(x)
            BY <1>1 DEF ActorInv, Busy
      <2>2. TableInv'
            BY <1>1, <1>6 DEF TableInv
      <2> QED BY <1>1, <1>7, <2>1, <2>2, MovesKeepActor
<1>9. ASSUME NEW j \in Ids PROVE RowInv(j)'
      BY <1>2, <1>3, <1>5, <1>6 DEF MailInv, RowInv, Held
<1>10. ASSUME NEW j \in Ids \ unsure' PROVE SureInv(j)' \/ LetsGo(a, x, j)
      <2>1. CASE j # i
            BY <1>6, <2>1 DEF LetsGo, Settles, Works, Queues
      <2>2. CASE j = i
            <3>1. SureInv(i) /\ Works(actor[a], i)
                  BY <2>2 DEF MailInv, Works, Busy
            <3>2. actor'[a] = x /\ \A b \in Actors : b # a => actor'[b] = actor[b]
                  BY <1>1 DEF TableInv
            <3>3. \A b \in Actors : ~Has(actor'[b], i)
                  BY <1>2, <3>1, <3>2 DEF SureInv, Has, Works, Queues
            <3>4. FitsRow(actor[a], i)
                  BY <3>1 DEF SureInv
            <3>5. ~(rows'[i].status = "failed" /\ mails'[i] # 0)
                  <4>1. CASE rows'[i] = rows[i] /\ ~Stored(i)
                        BY <4>1 DEF Stored
                  <4>2. CASE rows'[i] = y
                        <5>1. copy.status = "failed" => mails[i] = 0
                              BY <1>1, <3>1, <3>4 DEF FitsRow, ActorInv
                        <5> QED BY <1>5, <4>2, <5>1
                  <4> QED BY <1>6, <4>1, <4>2
            <3>6. \A b \in Actors : FitsRow(actor[b], i)'
                  BY <3>3 DEF FitsRow, Has, Works, Queues
            <3>7. mails'[i] <= 1
                  BY <3>1 DEF SureInv
            <3> QED BY <2>2, <3>3, <3>5, <3>6, <3>7 DEF SureInv, Has, Works, Queues
      <2> QED BY <2>1, <2>2
<1> QED BY <1>1, <1>6, <1>7, <1>8, <1>9, <1>10, ActorStep

LEMMA SaveActions ==
    ASSUME MailInv, NEW a \in Actors, SaveOutcomeOfSend(a) \/ SaveOutcome(a)
    PROVE  MailInv'
<1>1. /\ UNCHANGED <<mails, unsure>> /\ actor[a].pc \in {"save", "outcome"}
      /\ rows' = Overwritten(a)
      BY DEF SaveOutcomeOfSend, SaveOutcome
<1>2. CASE Leave(a)
      <2>1. actor' = [actor EXCEPT ![a] = Rest(a)]
            BY <1>2 DEF Leave
      <2>2. IsActor(Rest(a)) /\ Rest(a).pc \notin Busy /\ Rest(a).batch = actor[a].batch
            BY Resting DEF Busy
      <2> QED BY <1>1, <2>1, <2>2, SaveStep
<1>3. CASE Goto(a, "emit")
      <2>1. PICK y : y = actor[a]
            OBVIOUS
      <2>2. IsActor(y)
            BY <2>1 DEF MailInv, TableInv
      <2>3. LET z == [y EXCEPT !.pc = "emit"]
            IN  IsActor(z) /\ z.pc = "emit" /\ z.id = y.id /\ z.batch = y.batch
            BY <2>2, Going
      <2>4. PICK x : x = [y EXCEPT !.pc = "emit"]
            OBVIOUS
      <2>5. IsActor(x) /\ x.pc \notin Busy /\ x.batch = actor[a].batch
            BY <2>1, <2>3, <2>4 DEF Busy
      <2>6. actor' = [actor EXCEPT ![a] = x]
            BY <1>3, <2>1, <2>4 DEF Goto
      <2> QED BY <1>1, <2>5, <2>6, SaveStep
<1> QED BY <1>2, <1>3 DEF SaveOutcomeOfSend, SaveOutcome

\* A failed row nobody holds was never mailed.
LEMMA FreshFailure ==
    ASSUME MailInv, NEW i \in Ids, SureInv(i), NEW ids, i \in ids, i \notin Met(ids)
    PROVE  rows[i].status = "failed" => mails[i] = 0
<1>1. \A b \in Actors : ~Has(actor[b], i)
      BY WhoHolds DEF Met
<1> QED BY <1>1 DEF SureInv, Has

LEMMA TakeActions ==
    ASSUME MailInv, NEW a \in Actors,
           \/ RetryDelivery(a) \/ RecordOutcome(a)
           \/ \E due \in SUBSET Ids : StartSweep(a, due)
    PROVE  MailInv'
<1>1. TableInv /\ UNCHANGED <<rows, mails>> /\ actor[a] = Idle
      BY DEF MailInv, RetryDelivery, RecordOutcome, StartSweep
<1>2. CASE RetryDelivery(a)
      <2>1. PICK i \in Ids : /\ RetriedByHand(rows[i])
                             /\ actor' = [actor EXCEPT ![a] = RetryCopy(i, rows[i])]
                             /\ unsure' = unsure \cup Met({i})
            BY <1>2 DEF RetryDelivery
      <2> DEFINE x == RetryCopy(i, rows[i])
      <2>2. IsRow(rows[i]) /\ Held(i)
            BY <1>1, <2>1 DEF TableInv, RetriedByHand, Orphaned, Held
      <2>3. IsActor(x) /\ x.pc = "send" /\ x.id = i /\ x.copy = rows[i] /\ x.batch = {}
            BY RetryingRow
      <2> HIDE DEF x
      <2>4. ActorInv(x)
            BY <2>2, <2>3 DEF ActorInv, Queues
      <2>5. \A j \in Ids : Has(x, j) => j \in {i}
            BY <2>3 DEF Has, Works, Queues
      <2>6. i \notin Met({i}) /\ SureInv(i) => FitsRow(x, i)
            <3>1. i \notin Met({i}) => rows[i].status = "failed"
                  BY <2>1 DEF Met, RetriedByHand
            <3> QED BY <2>3, <3>1, FreshFailure DEF FitsRow, Pending, Queues
      <2>7. actor' = [actor EXCEPT ![a] = x]
            BY <2>1 DEF x
      <2>8. \A j \in Ids \ unsure : j \in {i} /\ j \notin Met({i}) /\ SureInv(j) => FitsRow(x, j)
            BY <2>6
      <2> QED BY <1>1, <2>1, <2>3, <2>4, <2>5, <2>7, <2>8, TakeStep
<1>3. CASE RecordOutcome(a)
      <2>1. PICK i \in Ids, outcome \in {"delivered", "bounced"} :
                /\ rows[i].status = "sent"
                /\ actor' = [actor EXCEPT ![a] = [Idle EXCEPT !.pc = "outcome", !.id = i,
                                 !.copy = [rows[i] EXCEPT !.status = outcome]]]
                /\ unsure' = unsure \cup Met({i})
            BY <1>3 DEF RecordOutcome
      <2>2. PICK z : z = rows[i]
            OBVIOUS
      <2>3. PICK copy : copy = [z EXCEPT !.status = outcome]
            OBVIOUS
      <2>4. IsRow(copy) /\ copy.status = outcome
            <3>1. IsRow(z)
                  BY <1>1, <2>2 DEF TableInv
            <3>2. LET y == [z EXCEPT !.status = outcome] IN IsRow(y) /\ y.status = outcome
                  BY <3>1 DEF IsRow
            <3> QED BY <2>3, <3>2
      <2>5. PICK x : x = [Idle EXCEPT !.pc = "outcome", !.id = i, !.copy = copy]
            OBVIOUS
      <2>6. IsActor(x) /\ x.pc = "outcome" /\ x.id = i /\ x.copy = copy /\ x.batch = {}
            <3>1. LET y == [Idle EXCEPT !.pc = "outcome", !.id = i, !.copy = copy]
                  IN  IsActor(y) /\ y.pc = "outcome" /\ y.id = i /\ y.copy = copy /\ y.batch = {}
                  BY TakingUp
            <3> QED BY <2>5, <3>1
      <2>7. actor' = [actor EXCEPT ![a] = x]
            BY <2>1, <2>2, <2>3, <2>5
      <2>8. Held(i) /\ mails[i] > 0
            BY <2>1 DEF Held, MailInv, RowInv
      <2>9. ActorInv(x)
            BY <2>4, <2>6, <2>8 DEF ActorInv, Queues
      <2>10. \A j \in Ids : Has(x, j) => j \in {i}
            BY <2>6 DEF Has, Works, Queues
      <2>11. FitsRow(x, i)
            BY <2>1, <2>6 DEF FitsRow, Queues
      <2>12. \A j \in Ids \ unsure : j \in {i} /\ j \notin Met({i}) /\ SureInv(j) => FitsRow(x, j)
            BY <2>11
      <2> QED BY <1>1, <2>1, <2>6, <2>7, <2>9, <2>10, <2>12, TakeStep
<1>4. ASSUME NEW due \in SUBSET Ids, StartSweep(a, due) PROVE MailInv'
      <2> PICK batch : batch = {<<i, rows[i]>> : i \in due}
          OBVIOUS
      <2>1. /\ actor' = [actor EXCEPT ![a] = [Idle EXCEPT !.batch = batch]]
            /\ unsure' = unsure \cup Met(due)
            BY <1>4 DEF StartSweep
      <2>2. \A i \in due : Retryable(rows[i])
            BY <1>4 DEF StartSweep, DueSets
      <2>3. PICK x : x = [Idle EXCEPT !.batch = batch]
            OBVIOUS
      <2>4. IsActor(x) /\ x.pc = "idle" /\ x.batch = batch
            <3>1. IsActor(Idle) /\ Idle.pc = "idle"
                  BY DEF Idle, IsActor
            <3>2. LET y == [Idle EXCEPT !.batch = batch] IN IsActor(y) /\ y.pc = "idle" /\ y.batch = batch
                  BY <3>1 DEF IsActor
            <3> QED BY <2>3, <3>2
      <2>5. actor' = [actor EXCEPT ![a] = x]
            BY <2>1, <2>3
      <2>6. \A b \in batch : b[1] \in due /\ b[2] = rows[b[1]]
            OBVIOUS
      <2>7. \A i \in due : Held(i) /\ IsRow(rows[i])
            BY <1>1, <2>2 DEF Retryable, Orphaned, Held, TableInv
      <2>8. ActorInv(x)
            <3>1. \A b, c \in batch : b[1] = c[1] => b = c
                  OBVIOUS
            <3> QED BY <2>4, <2>6, <2>7, <3>1 DEF ActorInv, Busy
      <2>9. \A j \in Ids : Has(x, j) => j \in due
            BY <2>4, <2>6 DEF Has, Works, Queues, Busy
      <2>10. ASSUME NEW j \in Ids \ unsure, j \in due, j \notin Met(due), SureInv(j)
             PROVE  FitsRow(x, j)
            <3>1. rows[j].status = "failed"
                  BY <2>2, <2>10 DEF Met, Retryable
            <3>2. mails[j] = 0
                  BY <2>10, <3>1, FreshFailure
            <3> QED BY <2>4, <3>1, <3>2 DEF FitsRow, Pending, Works, Busy
      <2> QED BY <1>1, <2>1, <2>4, <2>5, <2>8, <2>9, <2>10, TakeStep
<1> QED BY <1>2, <1>3, <1>4

LEMMA ReattemptAction ==
    ASSUME MailInv, NEW a \in Actors, Reattempt(a)
    PROVE  MailInv'
<1>1. /\ TableInv /\ ActorInv(actor[a]) /\ actor[a].pc = "idle"
      /\ UNCHANGED <<rows, mails, unsure>>
      BY DEF Reattempt, mail, MailInv
<1>2. PICK b \in actor[a].batch :
          actor' = [actor EXCEPT ![a] = [RetryCopy(b[1], b[2]) EXCEPT !.batch = actor[a].batch \ {b}]]
      BY DEF Reattempt
<1> PICK i, row, batch : i = b[1] /\ row = b[2] /\ batch = actor[a].batch \ {b}
    OBVIOUS
<1>3. Held(i) /\ i \in Ids /\ IsRow(row)
      BY <1>1 DEF ActorInv, Held
<1> DEFINE c == RetryCopy(i, row)
           e == [c EXCEPT !.batch = batch]
<1>4. IsActor(c) /\ c.pc = "send" /\ c.id = i /\ c.copy = row
      BY RetryingRow
<1> HIDE DEF c
<1>5. IsActor(e) /\ e.pc = "send" /\ e.id = i /\ e.copy = row /\ e.batch = batch
      BY <1>4 DEF IsActor
<1>6. actor' = [actor EXCEPT ![a] = e]
      BY <1>2 DEF c
<1> HIDE DEF e
<1> PICK x : x = e
    OBVIOUS
<1>7. ActorInv(x)
      <2>1. ~Queues(x, i)
            BY <1>1, <1>5 DEF ActorInv, Queues
      <2> QED BY <1>1, <1>3, <1>5, <2>1 DEF ActorInv
<1>8. ActorInv(x)'
      <2>1. TableInv'
            BY <1>1, <1>5, <1>6 DEF TableInv
      <2> QED BY <1>1, <1>7, <2>1, UnchangedMail, MovesKeepActor
<1>9. ASSUME NEW j \in Ids \ unsure' PROVE SureInv(j)' \/ LetsGo(a, x, j)
      <2>1. CASE j # i
            BY <1>1, <1>5, <2>1 DEF LetsGo, Settles, Works, Queues
      <2>2. CASE j = i
            <3>1. SureInv(i) /\ Queues(actor[a], i)
                  BY <1>1, <2>2 DEF MailInv, Queues
            <3>2. Pending(i) /\ mails[i] = 0
                  BY <3>1 DEF SureInv, FitsRow
            <3>3. actor'[a] = x /\ \A d \in Actors : d # a => actor'[d] = actor[d]
                  BY <1>1, <1>6 DEF TableInv
            <3>4. \A d \in Actors : Has(actor'[d], i) => d = a
                  BY <3>1, <3>3 DEF SureInv, Has
            <3>5. \A d \in Actors : FitsRow(actor[d], i)'
                  BY <1>1, <1>5, <3>2, <3>3, <3>4 DEF FitsRow, Pending, Has, Works, Queues
            <3>6. mails'[i] <= 1 /\ mails'[i] = 0
                  BY <1>1, <3>2
            <3> QED BY <2>2, <3>4, <3>5, <3>6 DEF SureInv, Has, Works, Queues
      <2> QED BY <2>1, <2>2
<1> QED BY <1>1, <1>5, <1>6, <1>8, <1>9, UnchangedMail, ActorStep

LEMMA DieAction ==
    ASSUME MailInv, NEW a \in Actors, Die(a)
    PROVE  MailInv'
<1>1. /\ TableInv /\ UNCHANGED <<rows, mails>> /\ actor' = [actor EXCEPT ![a] = Idle]
      /\ unsure' = IF actor[a].pc = "save" THEN unsure \cup {actor[a].id} ELSE unsure
      BY DEF Die, MailInv
<1>2. IsActor(Idle) /\ Idle.pc = "idle" /\ Idle.batch = {}
      BY DEF Idle, IsActor
<1>3. ActorInv(Idle)'
      BY <1>2 DEF ActorInv, Busy
<1>4. \A i \in Ids \ unsure' : LetsGo(a, Idle, i)
      BY <1>1, <1>2, UnchangedMail DEF LetsGo, Works, Queues, Busy
<1> QED BY <1>1, <1>2, <1>3, <1>4, UnchangedMail, ActorStep

LEMMA NextKeepsMail == MailInv /\ [Next]_vars => MailInv'
<1> SUFFICES ASSUME MailInv, [Next]_vars PROVE MailInv'
    OBVIOUS
<1>1. ASSUME UNCHANGED <<mail, actor>> PROVE MailInv'
      BY <1>1, AgeStep DEF MailInv, TableInv, mail
<1>2. CASE \/ SetTemplateActive \/ RecordConsent \/ EraseCustomer
           \/ OnConsentUpdated \/ OnCustomerErased \/ Expire
      BY <1>1, <1>2 DEF SetTemplateActive, RecordConsent, EraseCustomer, OnConsentUpdated,
         OnCustomerErased, Hear, Expire
<1>3. ASSUME NEW a \in Actors, Step(a) PROVE MailInv'
      BY <1>3, QuietActions, InsertAction, SendActions, SaveActions, ReattemptAction DEF Step
<1>4. ASSUME NEW a \in Actors, Fails(a) PROVE MailInv'
      BY <1>4, QuietActions, SendActions, DieAction DEF Fails
<1>5. ASSUME NEW a \in Actors, Author(a) \/ Arrive(a) \/ RetryDelivery(a) \/ RecordOutcome(a)
      PROVE  MailInv'
      BY <1>5, QuietActions, TakeActions
<1>6. ASSUME NEW a \in Actors, NEW due \in SUBSET Ids, StartSweep(a, due) PROVE MailInv'
      BY <1>6, TakeActions
<1>7. CASE UNCHANGED vars
      BY <1>1, <1>7 DEF vars
<1> QED BY <1>2, <1>3, <1>4, <1>5, <1>6, <1>7, TimeActions DEF Next

LEMMA InitKeepsMail == Init => MailInv
<1> SUFFICES ASSUME Init PROVE MailInv
    OBVIOUS
<1>1. IsRow(NoRow) /\ NoRow.status = "none"
      BY DEF NoRow, IsRow
<1>2. IsActor(Idle) /\ Idle.pc = "idle" /\ Idle.batch = {}
      BY DEF Idle, IsActor
<1>3. TableInv
      BY <1>1, <1>2 DEF Init, TableInv
<1>4. \A a \in Actors : ActorInv(actor[a]) /\ \A i \in Ids : ~Has(actor[a], i)
      BY <1>2 DEF Init, ActorInv, Has, Works, Queues, Busy
<1>5. \A i \in Ids : RowInv(i) /\ mails[i] = 0 /\ rows[i].status = "none"
      BY <1>1 DEF Init, RowInv
<1>6. \A i \in Ids : SureInv(i)
      BY <1>4, <1>5 DEF SureInv, FitsRow, Has
<1> QED BY <1>3, <1>4, <1>5, <1>6 DEF MailInv

LEMMA MailInvariance == Spec => []MailInv
<1> QED BY InitKeepsMail, NextKeepsMail, PTL DEF Spec

LEMMA NextKeepsCache == CacheInv /\ [Next]_vars => CacheInv'
<1> SUFFICES ASSUME CacheInv, [Next]_vars PROVE CacheInv'
    OBVIOUS
<1>1. ASSUME UNCHANGED gate PROVE CacheInv'
      BY <1>1 DEF gate, CacheInv, CacheFollowsRecord
<1>2. CASE RecordConsent \/ EraseCustomer
      BY <1>2 DEF RecordConsent, EraseCustomer, Publish, CacheInv, CacheFollowsRecord
<1>3. CASE OnConsentUpdated \/ OnCustomerErased
      BY <1>3 DEF OnConsentUpdated, OnCustomerErased, Hear, WriteThrough, CacheInv, CacheFollowsRecord
<1>4. CASE Expire
      BY <1>4 DEF Expire, CacheInv, CacheFollowsRecord
<1>5. ASSUME NEW a \in Actors, FillCache(a) PROVE CacheInv'
      BY <1>5 DEF FillCache, CacheInv, CacheFollowsRecord
<1>6. ASSUME NEW a \in Actors, Step(a) PROVE CacheInv'
      BY <1>1, <1>5, <1>6 DEF Step, SaveTemplate, ReadConsent, Insert, Send, SaveOutcomeOfSend,
         EmitDeliveryFailed, Reattempt, SaveOutcome
<1>7. ASSUME NEW a \in Actors, Fails(a) PROVE CacheInv'
      BY <1>1, <1>7 DEF Fails, CacheFails, ReaderFails, SendFails, LoseDeliveryFailed, Die
<1>8. ASSUME NEW a \in Actors, Author(a) \/ Arrive(a) \/ RetryDelivery(a) \/ RecordOutcome(a)
      PROVE  CacheInv'
      BY <1>1, <1>8 DEF Author, Arrive, RetryDelivery, RecordOutcome
<1>9. ASSUME NEW a \in Actors, NEW due \in SUBSET Ids, StartSweep(a, due) PROVE CacheInv'
      BY <1>1, <1>9 DEF StartSweep
<1>10. CASE SetTemplateActive \/ Purge \/ \E i \in Ids : GrowStale(i) \/ GrowOld(i)
      BY <1>1, <1>10 DEF SetTemplateActive, Purge, GrowStale, GrowOld
<1>11. CASE UNCHANGED vars
      BY <1>1, <1>11 DEF vars
<1> QED BY <1>2, <1>3, <1>4, <1>6, <1>7, <1>8, <1>9, <1>10, <1>11 DEF Next

-----------------------------------------------------------------------------
\* A row that says the mail went out had one, and a row skipped for want of
\* consent never has one, whichever dispatch, retry, replay or purge wrote last.
THEOREM StatusIsTrue == Spec => []StatusTellsMail
<1>1. MailInv => StatusTellsMail
      BY DEF MailInv, RowInv, StatusTellsMail
<1> QED BY <1>1, MailInvariance, PTL

\* A message is mailed once however often it comes back, but for rows two
\* handlers raced for, orphans taken up and senders that died before their save.
THEOREM OneMailPerRow == Spec => []MailedOnce
<1>1. MailInv => MailedOnce
      BY DEF MailInv, SureInv, MailedOnce
<1> QED BY <1>1, MailInvariance, PTL

\* Once the newest change of consent was heard, the cache holds the record or
\* nothing, as long as no reader of the older record and no older message wrote.
THEOREM CacheIsFresh == Spec => []CacheFollowsRecord
<1>1. Init => CacheInv
      BY DEF Init, CacheInv, CacheFollowsRecord
<1>2. CacheInv => CacheFollowsRecord
      BY DEF CacheInv
<1> QED BY <1>1, <1>2, NextKeepsCache, PTL DEF Spec

\* Nobody but an actor that raced for a row puts it back to queued or failed
\* after the transport or the gate decided about it.
THEOREM DecisionsStand == Spec => DecisionStands
<1> DEFINE Decided(i) == rows[i].status \in {"sent", "delivered", "bounced", "skipped-no-consent"}
           Stands == \A i \in Ids : i \notin unsure =>
                        (Decided(i) => rows'[i].status \notin {"queued", "failed"})
<1>1. ASSUME MailInv, Next PROVE Stands
      <2> SUFFICES ASSUME NEW i \in Ids, i \notin unsure, Decided(i)
                   PROVE  rows'[i].status \notin {"queued", "failed"}
          OBVIOUS
      <2>1. TableInv /\ SureInv(i)
            BY <1>1 DEF MailInv
      <2>2. CASE UNCHANGED rows
            BY <2>2
      <2>3. ASSUME NEW a \in Actors, rows' = Overwritten(a), actor[a].pc \in {"save", "outcome"}
            PROVE  rows'[i].status \notin {"queued", "failed"}
            <3>1. CASE rows' = rows
                  BY <3>1
            <3>2. CASE rows' = [rows EXCEPT ![actor[a].id] = Entity(actor[a].id, actor[a].copy)]
                  <4>1. CASE actor[a].id # i
                        BY <2>1, <3>2, <4>1 DEF TableInv
                  <4>2. CASE actor[a].id = i
                        <5>1. ActorInv(actor[a]) /\ FitsRow(actor[a], i) /\ Works(actor[a], i)
                              BY <1>1, <2>1, <2>3, <4>2 DEF MailInv, SureInv, Works, Busy
                        <5>2. actor[a].pc = "outcome"
                              BY <2>3, <5>1 DEF FitsRow, Pending
                        <5>3. IsRow(actor[a].copy) /\ actor[a].copy.status \in {"delivered", "bounced"}
                              BY <5>1, <5>2 DEF ActorInv, Busy
                        <5>4. rows'[i] = Entity(i, actor[a].copy)
                              BY <2>1, <3>2, <4>2 DEF TableInv
                        <5>5. rows'[i].status = actor[a].copy.status
                              BY <5>3, <5>4, EntityRow
                        <5> QED BY <5>3, <5>5
                  <4> QED BY <4>1, <4>2
            <3> QED BY <2>3, <3>1, <3>2 DEF Overwritten
      <2>4. ASSUME NEW a \in Actors, Step(a) PROVE rows'[i].status \notin {"queued", "failed"}
            <3>1. CASE SaveOutcomeOfSend(a) \/ SaveOutcome(a)
                  BY <2>3, <3>1 DEF SaveOutcomeOfSend, SaveOutcome
            <3>2. CASE Insert(a)
                  <4>1. CASE \E j \in Ids : rows[j].status = "none" /\ rows' = [rows EXCEPT ![j] = Opened(a)]
                        BY <2>1, <4>1 DEF TableInv
                  <4> QED BY <2>2, <3>2, <4>1 DEF Insert
            <3> QED BY <2>2, <2>4, <3>1, <3>2 DEF Step, SaveTemplate, ReadConsent, FillCache, Send,
                       EmitDeliveryFailed, Reattempt, mail
      <2>5. CASE (\E j \in Ids : GrowStale(j) \/ GrowOld(j))
            <3>0. PICK j \in Ids : GrowStale(j) \/ GrowOld(j)
                  BY <2>5
            <3>1. PICK age : rows' = [rows EXCEPT ![j] = [rows[j] EXCEPT !.age = age]]
                  BY <3>0 DEF GrowStale, GrowOld
            <3>2. PICK z : z = rows[j]
                  OBVIOUS
            <3>3. PICK y : y = [z EXCEPT !.age = age]
                  OBVIOUS
            <3>4. IsRow(z)
                  BY <2>1, <3>2 DEF TableInv
            <3>5. LET x == [z EXCEPT !.age = age] IN x.status = z.status
                  BY <3>4 DEF IsRow
            <3>6. y.status = rows[j].status
                  BY <3>2, <3>3, <3>5
            <3>7. rows' = [rows EXCEPT ![j] = y]
                  BY <3>1, <3>2, <3>3
            <3> QED BY <2>1, <3>6, <3>7 DEF TableInv
      <2>6. CASE Purge
            <3>1. PICK y : y = [NoRow EXCEPT !.status = "purged", !.age = "aged"]
                  OBVIOUS
            <3>2. y.status = "purged"
                  BY <3>1, PurgedRow
            <3>3. \E aged : rows' = [j \in Ids |-> IF j \in aged THEN y ELSE rows[j]]
                  BY <2>6, <3>1 DEF Purge
            <3> QED BY <3>2, <3>3
      <2>7. ASSUME NEW a \in Actors, Fails(a) PROVE UNCHANGED rows
            BY <2>7, SMTT(40) DEF Fails, CacheFails, ReaderFails, SendFails, LoseDeliveryFailed, Die, mail
      <2>8. ASSUME NEW a \in Actors, Author(a) \/ Arrive(a) \/ RetryDelivery(a) \/ RecordOutcome(a)
            PROVE  UNCHANGED rows
            BY <2>8 DEF Author, Arrive, RetryDelivery, RecordOutcome, mail
      <2>9. ASSUME NEW a \in Actors, NEW due, StartSweep(a, due) PROVE UNCHANGED rows
            BY <2>9 DEF StartSweep
      <2>10. CASE \/ SetTemplateActive \/ RecordConsent \/ EraseCustomer
                  \/ OnConsentUpdated \/ OnCustomerErased \/ Expire
            BY <2>2, <2>10 DEF SetTemplateActive, RecordConsent, EraseCustomer, OnConsentUpdated,
               OnCustomerErased, Hear, Expire, mail
      <2> QED BY <1>1, <2>2, <2>4, <2>5, <2>6, <2>7, <2>8, <2>9, <2>10 DEF Next
<1>2. MailInv /\ [Next]_vars => [Stands]_vars
      BY <1>1
<1> QED BY <1>2, MailInvariance, PTL DEF Spec, DecisionStands
=============================================================================
