# SecureIAM: TLA+ models, model checking and proofs

SecureIAM (`src/app`) is a FastAPI service for identity and access management:
it registers users and logs them in, exchanges refresh tokens, detects replayed
ones, and manages roles, permissions and organizations, with an audit log of all
of it. The
handlers are short and sequential; what is hard about them is that each is
several database statements and several commits, that any number of them run at
once at PostgreSQL's READ COMMITTED, and that a request may be cut off between
any two statements. The models are about exactly that.

## Inventory

| component | state | operations | how it meets the others |
|---|---|---|---|
| refresh-token lifecycle (`auth_service.py`, `refresh_token_repository.py`) | `refresh_tokens` (owner, `revoked_at`, `replaced_by`, `expires_at`), `users.last_login_at` | login, refresh (rotation), reuse detection (a walk along `replaced_by`), logout | reads `users`, writes the audit log after each commit; requests meet on rows of `refresh_tokens` |
| access control (`authorization_service.py`, `user_role_repository.py`, `role_repository.py`) | `roles`, `role_permissions`, `user_roles` | authorize; create role; assign/revoke role; assign/remove permission | every managing route passes `require_permission`, which queries the tables the routes change |
| organizations (`organization_service.py` and its repositories) | `organizations`, `organization_memberships` | create; add/remove member | assigning a role within an organization asks for membership |
| audit log (`audit_log_repository.py`, `audit_log_service.py`) | `audit_logs`, append-only | record; list a page and count | every `record` is a commit of its own, after the change it reports; readers page with OFFSET meanwhile |
| accounts (`user_repository.py`, `register`, `login`) | `users` | register, look up, update last login | owner of tokens, memberships and assignments; no code path deactivates a user, an operator does |
| access tokens (`core/security.py`, `get_current_user`) | none: signed claims | sign at login and refresh, check at every request | name the user every other operation acts for |
| session (`db/session.py`) | one session per request, identity map kept across commits | commit, roll back on close | makes a second read of a row return the first one's values |
| security helpers, configuration, schemas, migrations | none, or constant | hashing, JWT, settings, validation, seeding | |

Hard behaviours: check-then-act across statements (logout, `is_member` then
INSERT, SELECT then DELETE); row locks held from the claim of a rotation to its
commit; a bounded walk over a chain that others extend; stale objects in the
identity map; a change and its audit row in separate commits; a client that
lost its answer and retries; `IntegrityError` read as "duplicate"; pages cut out
of a log that grows, ordered by the start of transactions that commit in another
order; claims in whole seconds against a clock that is not.

What makes each part correct:

- tokens: a family never has two exchangeable tokens, its chain is linear, a
  session that has ended stays ended, the log is true and complete, replays and
  logouts end the session, every request ends;
- access control: tenants are kept apart, roles within an organization go to
  its members, nobody gains a privilege from nothing, errors mean what they say;
- audit: every change is recorded once, nothing is recorded that did not happen;
  who follows the pages misses nothing, and the total fits the page;
- accounts: an address belongs to the first who registers it, a registration is
  good for a login, and nobody is served as a user without that user's password
  having been presented.

`PROJECT.json` lists each hazard at its line with the properties that cover it.

## Modules

| module | role |
|---|---|
| `TokenFamilies` | abstract specification: sessions, each with at most one current token, open, rotate and close |
| `RefreshTokens` | the detailed model of login, refresh, reuse detection and logout |
| `MCRefreshTokens` | instance for TLC |
| `RefreshTokensProofs` | TLAPS proofs about `RefreshTokens` and its refinement |
| `RequestOverlap` | what a replay and a logout achieve when requests overlap: `RefreshTokens` with a history variable |
| `MCRequestOverlap` | instance for TLC |
| `RequestOverlapProofs` | TLAPS proofs about `RequestOverlap`, and about walks along chains |
| `AccessControl` | roles, permissions, assignments, organizations and memberships behind the permission gate |
| `MCAccessControl` | instance for TLC, with the symmetry of sessions and of organizations |
| `AccessControlProofs` | TLAPS proofs about `AccessControl` |
| `AccessLedgerProofs` | TLAPS proofs about what its audit log accounts for |
| `Withdrawals` | checks that go stale while a request runs: `AccessControl` with history variables |
| `MCWithdrawals` | instance for TLC, with the same symmetry |
| `WithdrawalsProofs` | TLAPS proofs about `Withdrawals` |
| `AuditLog` | recording audit rows, and the readers that page through them |
| `MCAuditLog` | instance for TLC, with the symmetry of writers and of actions |
| `AuditLogProofs` | TLAPS proofs about `AuditLog` |
| `AccountDirectory` | abstract specification: addresses with their passwords; register, log in, deactivate |
| `Accounts` | registration, login, refresh, access tokens and `get_current_user`, over the sessions of `TokenFamilies` |
| `MCAccounts` | instance for TLC, with the symmetry of passwords |
| `AccountsProofs` | TLAPS proofs about `Accounts` and its refinement |

`Accounts` composes with the token lifecycle through `TokenFamilies`: its
sessions are instances of that specification's `Open`, `Rotate` and `Close`, and
`RefreshTokens` is proved to implement it. So the chain from a registration to a
request served runs through the statements of both models.

Definitions named `...OneMore`, `...Unchecked` and the like, marked *mutant* in
a comment, are variants of the definition below them with a plausible bug. No
specification uses them; they show that each property can be broken.

### RefreshTokens

A request is an element of `Requests`, served once; `pc` is the statement it
executes next and its local variables carry the names of the Python locals
(`token`, `next_id`, `candidate`). A raw token is known by the id of its row.
One action is one statement together with the commit that follows it
immediately:

| code | actions |
|---|---|
| `login` | `LoginLookup`, `AuditLoginFailed`, `UpdateLastLogin`, `AuditLoginSucceeded`, `IssueTokenPair`, `Respond` |
| `refresh` | `RefreshRead`, `GetOwner`, `AuditRejected`, `RotateClaim` (the conditional UPDATE, takes the row lock), `RotateLose`, `RotateCommit` (child, link, commit), `AuditRotated`, `Respond` |
| `_handle_revoked_token`, `revoke_descendants` | `WalkRead`, `WalkExhausted`, `WalkClaim`, `WalkLose`, `WalkReRead`, `WalkCommit`, `AuditReuse`, `AuditFamilyRevoked` |
| `logout`, `revoke` | `LogoutRead`, `LogoutRevoke` (waits for the lock, writes unconditionally), `AuditLogout` |
| environment | `Abort` (cut off, transaction rolled back), `Expire`, `Deactivate` |

`lock` models the row lock of an open transaction: another UPDATE of the row
waits (`RowFree`) and then evaluates its WHERE clause on the committed row
(`WhereUnrevoked`). `seen` is the identity map: a second `get_by_id` of a row
the session holds runs its SELECT but returns the object as loaded (`GetById`).
That follows from `expire_on_commit=False`, the absence of `populate_existing`
and the fact that the bulk UPDATE synchronises `revoked_at` only. `family` is a
history variable, the token a chain started from; no action reads it except to
copy it. `last_login_at` is represented by the request that wrote it, `audit`
by a set of events that carry their request.

`RequestOverlap` keeps these actions and adds the history variable `met`, the
requests each one has been in flight with. The code's comments promise that a
replay kills the family and that a logout ends the session, whatever else runs.
That is false (see the violated runs), so the module states what is true: which
overlap it takes to break the promise. A replay on record has ended its session
unless the chain is longer than a walk reaches (`WithinReach`) or a rotation of
the same family was in flight beside it (`Outrun`); a logout, unless a rotation
of that very token was (`RotatedBeside`); and a token is logged out on record
twice only by requests that met.

### AccessControl

A session serves requests one after the other. INSERT and DELETE are followed
by their COMMIT without anything in between, so each is one step; the lookups
before them are steps of their own. `row[g]` is the id of the row holding a
grant (an assignment, a membership or a role's permission), 0 when there is
none; `ids[g]` counts the rows there have been, so a row deleted and inserted
again has a new id, as its UUID does. `added` and `removed` count audit rows
per subject. `UserIds` and `PermissionIds` contain ids without a row, because
callers may send them. `GetCurrentUser` loads the caller and his `is_active`;
`Authorize` evaluates `authorize` with that stale flag and fresh permissions;
then follow the statements of the operation, `RecordAdded` or `RecordRemoved`,
or the answer of an error. Read-only routes are left out. The actor column of
audit rows is left out.

The initial states are all databases with the migrations applied, one
administrator, any organizations with any members, and any further roles.

`Withdrawals` keeps these actions and adds two history variables: the user each
request acts for (`caller`), and what was taken away while it ran (`withdrawn`:
rows removed, users deactivated). What a request checks, it checks once: its
caller's `is_active` and permission, a membership, the row it will delete or has
just inserted. Another request or an operator can make each of these false
before it is used. The three properties say that nothing else can.

### AuditLog

A writer is a request as far as the log can tell: its transaction begins
(`Begin`), and ends with `Record` or otherwise (`End`). `occurred_at` is
PostgreSQL's `now()`, the start of the transaction, so rows are appended to
`log` in the order of their commits with times out of order, and times may be
equal. A reader opens the listing with a filter, a limit and an offset (`Open`),
runs `ListEvents` and `CountEvents` as two statements, and follows the pages as
`limit`, `offset` and `total` of the answer suggest (`NextPage`, a client of the
API, external). `Pages` is the set of results that `ORDER BY occurred_at DESC
LIMIT OFFSET` admits: rows of the same time in any order, anew in every query.
`listed`, `first`, `promised`, `seen`, `shown`, `opened` and `pending` are history
variables.
A page is a set: the order of rows within it is left out. The permission gate of
the route is that of `AccessControl`; here a reader may be turned away any time.

`PagesCover` and `RepeatsBounded` except rows that share their `occurred_at`
with another matching row: the query has no tie-break, so such rows may change
places between two pages and slip through. That exception is what the code
does; without it both properties fail.

The order of the log is not the order of causes. At READ COMMITTED a later
statement of a transaction sees what others have committed since it began, but
the row it records carries the time of its first statement: the request that
loses a rotation reads the token, waits for the winner and then records
`concurrent_rotation_lost`, which may be listed below the winner's
`REFRESH_TOKEN_ROTATED`. What does hold is how far the log can still change
where a client has read it (`LateRowsBounded`): below the rows that were there
when it began, each transaction open at that moment may add one row, and no
other transaction may.

### Accounts

| code | actions |
|---|---|
| `register`, `create_user` | `Register`, `CreateUser` or `CreateUserDuplicate` (the unique index), `RecordRegistered` or `RecordDuplicate` |
| `login`, `get_by_email` | `Login`, `GetByEmail` (with the checks up to the next await), `RecordLoginFailed`; `UpdateLastLogin`, `RecordLoginSucceeded`, `IssueTokenPair` |
| `refresh` | `Refresh`, `GetByHash`, `GetOwner`, `CreateRotationPair`, `RecordRotated` (after which the access token is signed), `RecordRejected` |
| `get_current_user` | `GetCurrentUser` |
| environment | `Abort`, `CloseSession` (logout, reuse detection), `Deactivate`, `Tick` |

An address is a name and the case of its letters, and `Lower` is `str.lower`. A
hash is the password and a salt; the salt is the request that drew it, which
also tells who inserted a row. An access token is its claims; `exp` is rounded
down to a whole second while `now` counts fractions (`Second` ticks). Whether a
refresh token has expired is a choice. The audit rows of refresh and logout are
left to `RefreshTokens`. Users are never deleted.

## Runs

Passing:

| run | instance | shows |
|---|---|---|
| `tokens_concurrent` | 4 requests, 2 in flight, 4 tokens, walk bound 1, one cut off | the inductive invariant `IndInv`, the safety invariants and `NothingUndone` under concurrency and crashes |
| `tokens_overlap` | 4 requests, 3 in flight, 4 tokens, walk bound 2 | the inductive invariant `OverlapInv`; `ReplayEndsSession` (with the exact length of chain that a walk reaches the end of), `LogoutEndsOrOverlaps`, `RepeatedLogoutsOverlap` |
| `tokens_progress` | 3 requests all in flight, fair | the inductive invariant `LedgerInv`, termination of every request, every replay reported, refinement of `TokenFamilies` |
| `access_concurrent` | 2 sessions, 2 requests, one cut off, an unknown user and permission id | the inductive invariant, the ledgers of the audit log, `RoleCreatedOnce`, `ConflictIsDuplicate`; what may go stale while a request runs: `MemberOrRemoved`, `RowOrRemoved`, `AuthorizedOrWithdrawn` |
| `access_serial` | 2 users, 2 organizations, one session, one request cut off | `TenantIsolation` and `DenyByDefault` over sequences of calls |
| `accounts_concurrent` | 4 requests, 2 in flight, one cut off, an address in two spellings, 2 passwords, 3 refresh tokens, half seconds | the inductive invariant, `OneAccountPerAddress`, `RegistrationAccounted`, `RegisteredCanLogin`, `ServedAsRegistrant`, `TokenLifetime`, refinement of `AccountDirectory` |
| `audit_pages` | 2 writers, a reader, filters, ties of time | the inductive invariant, `TotalAgrees`, `PagesCover`, `RepeatsBounded`, `LateRowsBounded` |

Each module's type invariant is checked as the first conjunct of its inductive
invariant.

Violated, each a statement of the repository that the code does not keep (the
quotations are in `PROJECT.json`, `findings`):

| run | what happens |
|---|---|
| `replay_races_rotation` | the walk loses its leaf to a rotation, re-reads the stale object, sees no successor and gives up; the new leaf stays live |
| `replay_of_long_chain` | the bound (25 in the code, 2 here) is spent on hops; a replay of an old token of a long chain kills nothing |
| `logout_races_rotation` | logout revokes a token that a rotation has just exchanged; the session goes on |
| `assign_role_to_nobody` | an unknown user id with no organization is answered "already has this role" |
| `revoke_races_revoke` | two concurrent revocations of one assignment are both recorded |

Four more disagreements have no run of their own. A passing property names each,
as the one exception it has to make:

- two logouts that overlap are both recorded, although "only an actual
  revocation is written to the audit log" (`auth_service.py:241`):
  `RepeatedLogoutsOverlap`;
- a membership removed between `is_member` and the INSERT does not stop
  `assign_role`, which raises an error "if ... the user isn't a member"
  (`authorization_service.py:220`): `MemberOrRemoved`;
- an assignment revoked between its commit and `session.refresh` ends in an error
  and is never recorded, although "every auth outcome and privileged
  RBAC/organization change is an append-only row" (`README.md:121`):
  `RowOrRemoved` at the refresh;
- nor does a request that is cut off between a change and its audit row leave
  one: `RotationAccounted`, `RegistrationAccounted` and `PermissionLedger` state
  that only such requests are missing.

### Bounds

- `MaxFamilyWalkSteps`: a walk of four requests visits at most two rows. With
  the bound 1 of `tokens_concurrent` it hops and runs out, claims a leaf or
  loses it; with the bound 2 of the other runs it hops and then claims, and in
  `replay_of_long_chain` a chain is one longer than the bound. The proofs hold
  for every bound.
- `MaxConcurrent` = 2 in flight of four requests: every property of the token
  model relates two racing requests to what earlier ones left behind; three in
  flight are covered by `tokens_progress` and, where a replay meets a rotation
  and a logout, by `tokens_overlap`. The proofs remove these bounds.
- `MaxAborts` = 1 and `MaxRequests` = 2 (`AccessControl`): the initial states
  already contain every small database, so two requests meet in every situation
  that a longer history of members and roles would prepare. One user is enough
  for `Withdrawals`: with two requests only the administrator can have passed
  the gate twice, and what one of his requests takes away, his own role
  included, the other one may have checked.
- `accounts_concurrent`: four requests are a registration, a login, a refresh
  and a request served, or two registrations and two logins. One address in two
  spellings is enough, as nothing relates different addresses; three tokens are
  what four requests can use. A clock of half seconds and a lifetime of one
  second make every token either exact or rounded.
- `audit_pages`: three rows and pages of one or two, so that a reader needs
  several requests, rows arrive between any two of its statements, out of order
  and with equal times; filters that match all, some or no rows.
- Symmetry is used in the passing runs of `AccessControl` (sessions,
  organizations), `AuditLog` (writers, actions) and `Accounts` (passwords) only,
  over sets whose elements no definition tells apart; they check no liveness.

### Fairness

Only `tokens_progress` assumes fairness: weak fairness of `Step(r)` for each
request `r` already admitted. An asyncio event loop runs every ready task and
PostgreSQL grants a row lock when its holder commits or rolls back; a client
that goes away is `Abort`, which is not fair. Nothing is assumed about clients:
arrivals, expiry and deactivation are never forced.

`AuditLog` and `Accounts` are about safety and assume none: every request of
theirs is a straight line of statements that never wait for one another.

The runs' deadlock check is on. `AllServed` lets a system that has answered its
requests stutter; any other state without a step would be an error.

## Proofs

The seven proof modules quantify over every value of the constants; they assume
`NullAssumption` and `BoundAssumption`, `AccessNullAssumption` and
`AccessAssumption`, `AuditNullAssumption` and `AuditBoundAssumption`,
`AccountNullAssumption` and `AccountBoundAssumption` (NULL is no element of the
other sets, bounds are numbers, a second has at least one tick, the
administrator, his role and the managing permissions exist). Nothing is assumed
finite: users, tokens, requests and sessions may be infinitely many, and where a
proof counts them it first proves that those in use are finitely many.

Only `SerialReplay` has a hypothesis of its own, `MaxConcurrent = 1`; it is about
the length of chains, and the theorem at any concurrency is `ReplaysEndSessions`.

`RefreshTokensProofs`: the single properties are not inductive. That a family
has one live token depends on locks: between the claim and the commit of a
rotation the parent is still live and must not be touched, so `LocksOK` says
who may be at a locked row. What each request remembers of rows must still be
true when it acts, so `RequestOK` says what it knows at each statement.
`IndInv` adds these and `RowsOK`, `AuditOK` to the properties. The main lemma is
that rows only grow: owners, families and successors are written once,
revocations stay, a dead family stays dead because the only step that adds a
token to a family holds the lock on a live one. Then only the moving request
has to be examined. From `IndInv` follow `TypeCorrect`, `OneLive`,
`LinearChains`, `NoOrphans`, `RevokedFamilies`, `TruthfulAudit`, the action
property `GrowOnly`, and `Refinement`: every step opens, rotates or closes an
abstract session or leaves it alone.

That every rotation and every session is accounted for needs more: the
properties speak of the request that issued a token, and nothing in the rows
says which one it was. `LedgerInv` adds `IssuedOK` (no two requests issue one
token, a rotation not yet recorded is still linked, a login is recorded before
it issues) and `RotationRowsOK` (a recorded rotation is the one its request
made). It is inductive given `IndInv` (`LedgersBalance`), and
`RotationsAccounted` and `SessionsRecorded` follow.

`RequestOverlapProofs`: `revoke_descendants` counts its iterations, and what
the count means depends on the shape of chains.
`WalkInv` says that a family has one token without a successor
(`OneLeafPerFamily`), that chains have no cycle (`ChainsAcyclic`: each token has
a set closed under predecessors, `Past`, that holds it and not its successor;
stated with sets because the prover has no induction along a chain), and that a
walk has always left behind more tokens of the family than it has made steps
(`WalkAdvances`). So a walk runs out of steps only in a family of more than
`MaxFamilyWalkSteps + 1` tokens (`WalksAdvance`), and that is the exact bound:
the run `replay_of_long_chain` has one token more and the replay kills nothing.

`OverlapInv` adds, for each request, that what it has read of the rows still
holds or that a request it has met has overtaken it (`Overtaken`): the successor
a walk remembers is the token's successor, the token a logout is about to revoke
has none, another logout of that token on record was in flight with this one.
A step of another request can falsify such a fact only while both are in flight,
which is when they meet. The properties follow at any concurrency
(`ReplaysEndSessions`, `LogoutsEndSessions`, `RepeatedLogouts`). With one
request in flight nothing is ever met, and `SerialReplay` is what is left.

`AccessControlProofs`: roles, organizations, ids and audit rows only grow, so a
check made before an INSERT still holds at it (`ChecksOK`), with one exception
that the code has as well: membership may be gone, and what remains is that the
user was a member once. `AccessInv` adds to the properties the foreign keys,
`RowsOK`, `ChecksOK` and `NewRoleOK` (the session about to record a new role is
the only creator). From it follow `AccessTypes`, `TenantsApart`, `MembersOnly`,
`ConflictsAreDuplicates`, `RolesCreatedOnce`. `DeniedByDefault` is an action
property: from a state without an active manager the only steps are refusals.

`AccessLedgerProofs`: the ledgers compare, for each grant, the rows inserted and
the rows gone with the audit rows and the requests that have still to record.
The finitely many requests in flight (`Busy`) are proved finite, since a step
admits at most one; then each step is shown to move these five amounts by at
most one, in one of a few ways (`Moves`), and the ledgers are arithmetic from
there (`LedgersBalance`, `PermissionsAccounted`, `GrantsAccounted`).

`WithdrawalsProofs`: a request makes each of its checks true by its own
statement, and any other step can undo one only by removing a row or
deactivating a user, which `withdrawn` notes. So each check holds or its
withdrawal is noted (`ChecksStaleOnlyByWithdrawal`), from which
`MembersUnlessRemoved`, `RowsUnlessRemoved` and `AuthorizedUnlessWithdrawn`
follow. `WithdrawalInv` adds what ties the caller to the user that
`get_current_user` loaded. The history variables restrict nothing
(`WithdrawalRefines`), so `AccessInv` is at hand.

`AuditLogProofs`: that a client misses nothing is not visible from what it has
received. `AuditInv` says for each row still owed that at least as many
matching rows lie ahead of it as the client has passed (`Ahead`, `Reached`); a
new row can only add to them, and a page takes rows from exactly there
(`ListEvents` is the step that needs the counting lemmas on `Tops`). For repeats
it keeps a balance: entries received and entries that will come again are paid
for by distinct rows or by rows recorded since. `Fits` relates a page to the
count made after it. From it follow `TotalsAgree`, `PagesAreComplete`,
`RepeatsAreBounded`. `LateRowsAreBounded` follows from `LateOK`: late rows and
the transactions that were open and still are make no more than there were.

`AccountsProofs`: what requests rely on only grows (`Grow`): a row keeps its
address and hash, the log its rows, a request its parameters up to the case of
letters. `AccountInv` says what each request knows at each statement
(`RequestOK`), that every session and access token goes back to a recorded login
with the registrant's password (`TokensOK`), and that a row is remembered by who
inserted it (`RowsOK`). From it follow `OneAccount`, `RegistrationsAccounted`,
`RegisteredLogsIn`, `ServedAreRegistrants`, and `DirectoryImplemented`, in which
`CreateUser`, `RecordLoginSucceeded` and `Deactivate` are the steps of the
directory and all others leave it alone. `TokensLiveAsTold` rests on a lemma
about rounding and on `Signed`, for every lifetime and clock resolution.

Only model-checked: liveness (`RequestsEnd`, `ReplayReported`), which is outside
the prover. Every other property of a passing run is stated by a theorem.

## Not modelled

- The strength of signatures, hashes and random tokens: a token is its id or
  its claims, and a hash tells passwords apart. In `AccessControl` the expiry of
  an access token only makes a request end at the gate.
- The read-only routes (lists of roles, permissions, organizations, members):
  each is one query, and changes nothing.
- Schemas, configuration, routing, response texts.
- Deletion of users and organizations: no code path does it, so ON DELETE
  CASCADE never fires.
- Loss of the database itself.

## Plan

Done: the token lifecycle with its abstract specification and refinement;
access control and organizations; the audit log and its readers; accounts with
their abstract specification, composed with the token families; each with its
inductive invariant proved, and with it every safety property the runs check.

Next, in this order:

1. An abstract specification of access control (grants as a set, a decision
   from it) that `AccessControl` implements, and the proof that it does.
2. The audit variables of the other models as refinements of the append-only
   log of `AuditLog`.
