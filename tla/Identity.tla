------------------------------ MODULE Identity ------------------------------
(***************************************************************************)
(* The gateway's accounts: customers and staff users, their sessions, the  *)
(* roles of the staff, a customer's consent and erasure.                   *)
(*                                                                         *)
(* A request reads the aggregate of an account, decides, and saves every   *)
(* column it read.  There is no version column, so a save that comes late  *)
(* puts back what another request wrote in between.  An account is in      *)
(* "raced" from the first save that met another row than it had read: the  *)
(* guarantees below are those of all other accounts.                       *)
(***************************************************************************)
EXTENDS Integers, FiniteSets, Sequences, Functions, TLC

CONSTANTS
    Actors,         \* requests served at a time
    Customers,      \* customer ids
    Staff,          \* staff user ids
    Emails,         \* addresses a customer may register
    Roles,          \* role names
    Permissions,    \* rows of the permission table
    Codes,          \* permission codes a caller may name
    Patches,        \* changes of consent a caller may send
    InitialGrants,  \* role -> its permissions; roles to create have no entry
    MaxTokens,      \* bound: pairs of tokens issued over a run
    MaxRequests     \* bound: requests over a run

Accounts == Customers \cup Staff
Tokens == 1 .. MaxTokens

\* A role is known by its permissions.
RoleAggregate == SUBSET Permissions

RolePermissions == UNION {[existing -> RoleAggregate] : existing \in SUBSET Roles}

ASSUME IdentityIds ==
    /\ Customers \cap (Staff \cup Emails) = {} /\ IsFiniteSet(Accounts) /\ IsFiniteSet(Actors)
    /\ Permissions \subseteq Codes
    /\ Patches \subseteq UNION {[fields -> BOOLEAN] :
                                   fields \in SUBSET {"transactionalEmail", "marketingEmail"}}
ASSUME IdentityGrants == InitialGrants \in RolePermissions
ASSUME IdentityBounds == {MaxTokens, MaxRequests} \subseteq Nat

VARIABLES
    rows,           \* customer and staff_user, with staff_user_roles
    grants,         \* role -> role_permissions, for the roles that exist
    consent,        \* customer -> consent_record, for those who have one
    carts,          \* customers with an active cart
    actor,          \* request -> what it read and is about to save
    tokens,         \* pairs issued: whose they are and what the access token carries
    exchanged,      \* token -> refreshes it paid for
    revoked,        \* tokens of sessions that were ended
    current,        \* tokens minted from rows read since the last change of roles
    decided,        \* staff -> roles as assignments and revocations left them
    erased,         \* customers whose erasure was committed
    raced,          \* accounts a stale save wrote over
    requests

accounts == <<rows, consent, carts>>
ghosts == <<exchanged, revoked, current, decided, erased, raced>>
vars == <<accounts, grants, actor, tokens, ghosts, requests>>

NoEmail == "none"
\* The synthetic address of a guest: unique, and never typed in by anybody.
GuestEmail(c) == c

-----------------------------------------------------------------------------
(* The aggregates.                                                         *)

\* hash: the token whose argon2 hash is stored, 0 for none.  "none": no row.
CustomerEntity ==
    [status : {"none", "active", "suspended", "guest", "deleted"},
     email : Emails \cup {GuestEmail(c) : c \in Customers} \cup {NoEmail},
     password : BOOLEAN, profile : BOOLEAN, hash : 0 .. MaxTokens, roles : {{}}]

StaffUserEntity ==
    [status : {"none", "active", "suspended"}, email : {NoEmail}, password : {TRUE},
     profile : {TRUE}, hash : 0 .. MaxTokens, roles : SUBSET Roles]

NoRow(i) == [status |-> "none", email |-> NoEmail, password |-> i \in Staff,
             profile |-> i \in Staff, hash |-> 0, roles |-> {}]

\* IConsentRecordProps; marketingSms and the retention policy merge likewise.
ConsentRecord == [transactionalEmail : BOOLEAN, marketingEmail : BOOLEAN]
DefaultConsentRecord == [transactionalEmail |-> TRUE, marketingEmail |-> FALSE]

RotateRefreshTokenHash(row, hash) == [row EXCEPT !.hash = hash]

\* Customer.erase
Erase(row) == [row EXCEPT !.status = "deleted", !.email = NoEmail, !.password = FALSE,
                          !.profile = FALSE, !.hash = 0]
Tombstone == [status |-> "deleted", email |-> NoEmail, password |-> FALSE,
              profile |-> FALSE, hash |-> 0, roles |-> {}]

AssignRole(row, added) == [row EXCEPT !.roles = @ \cup added]

\* StaffUser.revokeRole throws over the last role.
RevokeRole(row, role) == [row EXCEPT !.roles = @ \ {role}]

\* StaffUser.permissionCodes
PermissionCodes(roles) == UNION {grants[r] : r \in roles}

\* applyConsent: a patch names the fields it changes.
Apply(record, patch) ==
    [f \in DOMAIN record |-> IF f \in DOMAIN patch THEN patch[f] ELSE record[f]]

-----------------------------------------------------------------------------
Kinds == {"register", "login", "refresh", "reuse", "logout", "roles", "erase",
          "consent", "cart"}
Minting == {"login", "refresh"}

Request ==
    [kind : Kinds, id : Accounts, read : CustomerEntity \cup StaffUserEntity,
     copy : CustomerEntity \cup StaffUserEntity, given : 0 .. MaxTokens,
     permissions : SUBSET Permissions, fresh : BOOLEAN,
     consent : ConsentRecord]
Idle == [kind |-> "idle"]

ActiveCustomer(e) == [status |-> "active", email |-> e, password |-> TRUE, profile |-> TRUE,
                      hash |-> 0, roles |-> {}]

\* An account without a session, or none yet.
InitialRows(i) ==
    {NoRow(i)} \cup IF i \in Customers THEN {ActiveCustomer(e) : e \in Emails}
                    ELSE {[NoRow(i) EXCEPT !.status = "active", !.roles = held] :
                             held \in SUBSET DOMAIN InitialGrants \ {{}}}

\* The UNIQUE index of customer.email lets any number of NULLs through.
UniqueEmail(table) ==
    \A c, d \in Customers : c # d /\ table[c].email # NoEmail => table[c].email # table[d].email

Init ==
    /\ rows \in {table \in [Accounts -> UNION {InitialRows(i) : i \in Accounts}] :
                    /\ \A i \in Accounts : table[i] \in InitialRows(i)
                    /\ UniqueEmail(table)}
    /\ grants = InitialGrants
    /\ consent = <<>>
    /\ carts = {}
    /\ actor = [a \in Actors |-> Idle]
    /\ tokens = <<>>
    /\ exchanged = [t \in Tokens |-> 0]
    /\ revoked = {} /\ current = {} /\ erased = {} /\ raced = {}
    /\ decided = [s \in Staff |-> rows[s].roles]
    /\ requests = 0

-----------------------------------------------------------------------------
(* What a request reads.                                                   *)

\* Every read of a customer comes back through its mapper; by the unique
\* index an address names one row at most.
FindByEmail(e) == {c \in Customers : rows[c].email = e}

\* findById of the staff table, roles and permissions included.
FindStaff(id) == IF id \in Staff /\ rows[id].status # "none" THEN {rows[id]} ELSE {}

FindCustomer(id) == IF id \in Customers /\ rows[id].status # "none" THEN {rows[id]} ELSE {}

\* Staff first, customers second.
ResolveAuthSubject(id) == FindStaff(id) \cup FindCustomer(id)

\* Only the status of the subject is looked up; what it may do is in the
\* token.
ExistsActive(id) == id \in Staff /\ rows[id].status = "active"

ExistsAuthenticatable(id) == id \in Customers /\ rows[id].status \in {"active", "guest"}

ValidateJwtSubject(id) == ExistsActive(id) \/ ExistsAuthenticatable(id)

\* A caller with an access token; its expiry is not modelled.
Authenticated(id) ==
    ValidateJwtSubject(id) /\ \E t \in DOMAIN tokens : tokens[t].owner = id

\* What a request holds between its read and its save.
Holding(kind, id, copy) ==
    [kind |-> kind, id |-> id, read |-> rows[id], copy |-> copy, given |-> 0,
     permissions |-> {}, fresh |-> TRUE, consent |-> DefaultConsentRecord]

\* RoleTypeormRepository.findAllByNames
FindAllByNames(names) == names \cap DOMAIN grants

RolesExist(names) == names # {} /\ names \ FindAllByNames(names) = {}

\* JwtTokenAdapter signs a pair; the client has it once the request is over.
Issue(owner, permissions) == tokens' = Append(tokens, [owner |-> owner, permissions |-> permissions])

Start(a, request) ==
    /\ actor[a] = Idle
    /\ requests < MaxRequests /\ requests' = requests + 1
    /\ actor' = [actor EXCEPT ![a] = request]
    /\ UNCHANGED <<accounts, grants, tokens, ghosts>>

-----------------------------------------------------------------------------
(* Registration and sessions.                                              *)

\* A new id is a fresh UUID.
Unused(id) == rows[id].status = "none" /\ \A a \in Actors : actor[a] # Idle => actor[a].id # id

\* RegisterCustomerUseCase: the address is looked up, the row inserted later.
RegisterCustomer(a, c, e) ==
    /\ Unused(c)
    /\ FindByEmail(e) = {}
    /\ Start(a, Holding("register", c, ActiveCustomer(e)))

\* RegisterStaffUserUseCase: every role named must exist.
RegisterStaffUser(a, s, names) ==
    /\ Unused(s)
    /\ RolesExist(names)
    /\ Start(a, Holding("roles", s, [NoRow(s) EXCEPT !.status = "active", !.roles = names]))

\* LoginCustomerUseCase, after the password was verified; a guest has none.
LoginCustomer(a, c) ==
    /\ FindCustomer(c) # {} /\ rows[c].status = "active" /\ rows[c].password
    /\ Start(a, Holding("login", c, rows[c]))

\* LoginUseCase
Login(a, s) ==
    /\ rows[s].status = "active"
    /\ Start(a, [Holding("login", s, rows[s]) EXCEPT !.permissions = PermissionCodes(rows[s].roles)])

\* Mutant of Matches: any token of the subject will do.
MatchesAny(row, t) == row.hash # 0

\* argon2 verifies the presented token against the stored hash.
Matches(row, t) == row.hash = t

\* Mutant of Inflated: the claims are copied from the token that is replaced.
Copied(row, t) == tokens[t].permissions

\* The claims of the next access token are read from the roles.
Inflated(row, t) == PermissionCodes(row.roles)

\* RefreshTokenUseCase: nothing for an account that is not active or has no
\* session; a token other than the last one ends the session.
Refresh(a, t) ==
    LET id == tokens[t].owner
    IN  /\ t \in DOMAIN tokens
        /\ ResolveAuthSubject(id) # {}
        /\ rows[id].status = "active" /\ rows[id].hash # 0
        /\ Start(a, IF Matches(rows[id], t)
                    THEN [Holding("refresh", id, rows[id]) EXCEPT
                             !.given = t, !.permissions = Inflated(rows[id], t)]
                    ELSE Holding("reuse", id, RotateRefreshTokenHash(rows[id], 0)))

\* Mutant of Logout: the hash is left to expire.
LeaveSession(a, id) == Authenticated(id) /\ Start(a, Holding("logout", id, rows[id]))

\* LogoutUseCase
Logout(a, id) ==
    /\ Authenticated(id)
    /\ Start(a, Holding("logout", id, RotateRefreshTokenHash(rows[id], 0)))

\* CreateGuestSessionUseCase inserts a new row in one statement.  Its refresh
\* token is stored, but a guest is never active: no refresh takes it.
CreateGuestSession(c) ==
    /\ Unused(c)
    /\ Len(tokens) < MaxTokens /\ requests < MaxRequests /\ requests' = requests + 1
    /\ rows' = [rows EXCEPT ![c] = [status |-> "guest", email |-> GuestEmail(c), password |-> FALSE,
                    profile |-> FALSE, hash |-> Len(tokens) + 1, roles |-> {}]]
    /\ Issue(c, {})
    /\ UNCHANGED <<consent, carts, grants, actor, ghosts>>

-----------------------------------------------------------------------------
(* Roles.                                                                  *)

\* PermissionTypeormRepository.findByCodes
FindByCodes(codes) == codes \cap Permissions

\* assertPermissionsExist
PermissionsExist(codes) == codes \ FindByCodes(codes) = {}

\* RoleTypeormRepository.save of a new role.
InsertRole(role, codes) ==
    grants' = [r \in DOMAIN grants \cup {role} |-> IF r = role THEN FindByCodes(codes) ELSE grants[r]]

\* CreateRoleUseCase; name is UNIQUE.
CreateRole(role, codes) ==
    /\ role \notin DOMAIN grants
    /\ PermissionsExist(codes)
    /\ requests < MaxRequests /\ requests' = requests + 1
    /\ InsertRole(role, codes)
    /\ UNCHANGED <<accounts, actor, tokens, ghosts>>

\* Requests in flight have read the roles of before.
Unfresh == [a \in Actors |-> IF actor[a] = Idle THEN Idle ELSE [actor[a] EXCEPT !.fresh = FALSE]]

\* RoleTypeormRepository.update: one transaction replaces the permissions.
ReplacePermissions(role, codes) == grants' = [grants EXCEPT ![role] = FindByCodes(codes)]

\* UpdateRoleUseCase
UpdateRole(role, codes) ==
    /\ role \in DOMAIN grants /\ codes # grants[role]
    /\ PermissionsExist(codes)
    /\ requests < MaxRequests /\ requests' = requests + 1
    /\ ReplacePermissions(role, codes)
    /\ actor' = Unfresh /\ current' = {}
    /\ UNCHANGED <<accounts, tokens, exchanged, revoked, decided, erased, raced>>

\* AssignStaffRoleUseCase: nothing for a suspended user or an unknown role.
AssignStaffRole(a, s, names) ==
    /\ rows[s].status = "active"
    /\ RolesExist(names)
    /\ Start(a, Holding("roles", s, AssignRole(rows[s], names)))

\* RevokeStaffRoleUseCase: a role the user has, and not the last one.
RevokeStaffRole(a, s, role) ==
    /\ FindStaff(s) # {}
    /\ role \in rows[s].roles /\ Cardinality(rows[s].roles) > 1
    /\ Start(a, Holding("roles", s, RevokeRole(rows[s], role)))

-----------------------------------------------------------------------------
(* Consent, carts and erasure.                                             *)

\* ConsentRecordTypeormRepository.findByCustomerId, or the default.
FindConsent(c) == IF c \in DOMAIN consent THEN consent[c] ELSE DefaultConsentRecord

\* RecordConsentUseCase merges the patch into what it finds.
RecordConsent(a, c, patch) ==
    /\ Authenticated(c)
    /\ Start(a, [Holding("consent", c, rows[c]) EXCEPT
                    !.consent = Apply(FindConsent(c), patch)])

\* The gateway lets a customer open a cart (module Cart).
OpenCart(a, c) == Authenticated(c) /\ c \notin carts /\ Start(a, Holding("cart", c, rows[c]))

\* EraseCustomerUseCase: an erased customer stays as it is, the caller
\* confirms the address it means.
EraseCustomer(a, c, confirmEmail) ==
    /\ FindCustomer(c) # {} /\ rows[c].status # "deleted"
    /\ rows[c].email = confirmEmail
    /\ Start(a, Holding("erase", c, Erase(rows[c])))

-----------------------------------------------------------------------------
(* What a request saves.                                                   *)

Raced(a) == IF rows[actor[a].id] # actor[a].read THEN raced \cup {actor[a].id} ELSE raced

TokensOf(id) == {t \in DOMAIN tokens : tokens[t].owner = id}

Fits(table) == UniqueEmail(table)

\* TypeORM writes every column the mapper names, over whatever is there.
Write(a, row) ==
    LET table == [rows EXCEPT ![actor[a].id] = row]
    IN  Fits(table) /\ rows' = table

Done(a) == actor' = [actor EXCEPT ![a] = Idle]

\* CustomerTypeormRepository.save of a registration, and of the end of a
\* session.
SaveCustomer(a) ==
    /\ actor[a] # Idle /\ actor[a].kind \in {"register", "reuse", "logout"}
    /\ Write(a, actor[a].copy)
    /\ revoked' = IF actor[a].kind # "register" THEN revoked \cup TokensOf(actor[a].id) ELSE revoked
    /\ raced' = Raced(a)
    /\ Done(a)
    /\ UNCHANGED <<consent, carts, grants, tokens, exchanged, current, decided, erased, requests>>

\* A login or a refresh stores the hash of the new token and answers with
\* the pair.
SaveSession(a) ==
    LET request == actor[a] IN
    /\ request # Idle /\ request.kind \in Minting
    /\ Len(tokens) < MaxTokens
    /\ LET t == Len(tokens) + 1
        IN  /\ Write(a, RotateRefreshTokenHash(request.copy, t))
            /\ Issue(request.id, request.permissions)
            /\ current' = IF request.fresh THEN current \cup {t} ELSE current
    /\ exchanged' = IF request.kind = "refresh" THEN [exchanged EXCEPT ![request.given] = @ + 1]
                    ELSE exchanged
    /\ raced' = Raced(a)
    /\ Done(a)
    /\ UNCHANGED <<consent, carts, grants, revoked, decided, erased, requests>>

\* StaffUserTypeormRepository.save replaces staff_user_roles.
SaveStaffRoles(a) ==
    LET request == actor[a]
        added == request.copy.roles \ request.read.roles
        removed == request.read.roles \ request.copy.roles
    IN
    /\ request # Idle /\ request.kind = "roles"
    /\ rows' = [rows EXCEPT ![request.id] = request.copy]
    /\ decided' = [decided EXCEPT ![request.id] = (@ \cup added) \ removed]
    /\ raced' = Raced(a)
    /\ actor' = [Unfresh EXCEPT ![a] = Idle] /\ current' = {}
    /\ UNCHANGED <<consent, carts, grants, tokens, exchanged, revoked, erased, requests>>

\* Mutant of PersistErasure: the consent record stays.
LeaveConsent(a) ==
    /\ Write(a, actor[a].copy)
    /\ carts' = carts \ {actor[a].id}
    /\ UNCHANGED consent

\* CustomerErasureWriterAdapter: one transaction tombstones the row, abandons
\* the active carts and deletes the consent record.
PersistErasure(a) ==
    /\ Write(a, actor[a].copy)
    /\ carts' = carts \ {actor[a].id}
    /\ consent' = Restrict(consent, DOMAIN consent \ {actor[a].id})

SaveErasure(a) ==
    /\ actor[a] # Idle /\ actor[a].kind = "erase"
    /\ PersistErasure(a)
    /\ revoked' = revoked \cup TokensOf(actor[a].id)
    /\ erased' = erased \cup {actor[a].id}
    /\ raced' = Raced(a)
    /\ Done(a)
    /\ UNCHANGED <<grants, tokens, exchanged, current, decided, requests>>

\* ConsentRecordTypeormRepository.save: an upsert.
SaveConsent(a) ==
    /\ actor[a] # Idle /\ actor[a].kind = "consent"
    /\ consent' = [c \in DOMAIN consent \cup {actor[a].id} |->
                      IF c = actor[a].id THEN actor[a].consent ELSE consent[c]]
    /\ raced' = Raced(a)
    /\ Done(a)
    /\ UNCHANGED <<rows, carts, grants, tokens, exchanged, revoked, current, decided, erased, requests>>

SaveCart(a) ==
    /\ actor[a] # Idle /\ actor[a].kind = "cart"
    /\ carts' = carts \cup {actor[a].id}
    /\ raced' = Raced(a)
    /\ Done(a)
    /\ UNCHANGED <<rows, consent, grants, tokens, exchanged, revoked, current, decided, erased, requests>>

\* The UNIQUE index turns a save away: 409, and nothing is written.
SaveRefused(a) ==
    /\ actor[a] # Idle
    /\ ~Fits([rows EXCEPT ![actor[a].id] = actor[a].copy])
    /\ Done(a)
    /\ UNCHANGED <<accounts, grants, tokens, ghosts, requests>>

-----------------------------------------------------------------------------
Begin(a) ==
    \/ \E c \in Customers : \E e \in Emails : RegisterCustomer(a, c, e)
    \/ \E c \in Customers : LoginCustomer(a, c) \/ OpenCart(a, c)
    \/ \E c \in Customers : \E patch \in Patches : RecordConsent(a, c, patch)
    \/ \E c \in Customers : \E e \in Emails \cup {GuestEmail(c)} : EraseCustomer(a, c, e)
    \/ \E t \in DOMAIN tokens : Refresh(a, t)
    \/ \E id \in Accounts : Logout(a, id)

BeginForStaff(a) ==
    \/ \E s \in Staff : \E names \in SUBSET Roles : RegisterStaffUser(a, s, names)
    \/ \E s \in Staff : Login(a, s)
    \/ \E s \in Staff : \E names \in SUBSET Roles : AssignStaffRole(a, s, names)
    \/ \E s \in Staff : \E role \in Roles : RevokeStaffRole(a, s, role)

Save(a) ==
    SaveCustomer(a) \/ SaveSession(a) \/ SaveStaffRoles(a) \/ SaveErasure(a) \/ SaveConsent(a) \/ SaveCart(a)
    \/ SaveRefused(a)

Next ==
    \/ \E a \in Actors : Begin(a) \/ BeginForStaff(a) \/ Save(a)
    \/ \E c \in Customers : CreateGuestSession(c)
    \/ \E role \in Roles, codes \in SUBSET Codes : CreateRole(role, codes) \/ UpdateRole(role, codes)

Spec == Init /\ [][Next]_vars

-----------------------------------------------------------------------------
Entity(i) == IF i \in Customers THEN CustomerEntity ELSE StaffUserEntity

\* The rows are rows of their table, and a request holds rows of its account.
TypeOK ==
    /\ DOMAIN rows = Accounts /\ \A i \in Accounts : rows[i] \in Entity(i)
    /\ grants \in RolePermissions
    /\ consent \in UNION {[known -> ConsentRecord] : known \in SUBSET Customers}
    /\ carts \subseteq Customers /\ erased \subseteq Customers /\ raced \subseteq Accounts
    /\ actor \in [Actors -> Request \cup {Idle}]
    /\ \A a \in Actors :
          actor[a] # Idle => {actor[a].read, actor[a].copy} \subseteq Entity(actor[a].id)
    /\ tokens \in Seq([owner : Accounts, permissions : SUBSET Permissions])
    /\ exchanged \in [Tokens -> Nat]
    /\ revoked \subseteq Tokens /\ current \subseteq Tokens
    /\ decided \in [Staff -> SUBSET Roles]
    /\ requests \in 0 .. MaxRequests

\* Every refresh token pays for one pair at most, however often and by
\* however many clients it is presented (README.md: "Refresh tokens rotate on
\* every refresh").
TokenWorksOnce == \A t \in DOMAIN tokens : exchanged[t] <= 1 \/ tokens[t].owner \in raced

\* No token of a session that a logout, a detected reuse or an erasure ended
\* pays for another pair, whatever requests of the account were on their way.
EndedSessionsStayEnded ==
    [][\A t \in revoked : exchanged'[t] = exchanged[t] \/ tokens[t].owner \in raced']_vars

\* A token minted after the last change of roles carries exactly what the
\* assignments, revocations and role edits so far grant its owner (README.md:
\* "IAM role edits take effect at the next refresh").
NextTokenFollowsRoles ==
    \A t \in current :
        LET s == tokens[t].owner
        IN  s \in Staff \ raced => tokens[t].permissions = PermissionCodes(decided[s])

\* An erased customer stays a tombstone without consent record and active
\* cart, whoever was logged in at the time.
ErasedStaysErased ==
    \A c \in erased \ raced : rows[c] = Tombstone /\ c \notin DOMAIN consent /\ c \notin carts

=============================================================================
