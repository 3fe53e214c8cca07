---------------------------- MODULE RefreshTokens ----------------------------
(***************************************************************************)
(* Login, refresh-token rotation, reuse detection and logout: AuthService  *)
(* (app/domain/services/auth_service.py) over RefreshTokenRepository       *)
(* (app/repositories/refresh_token_repository.py), one action per database *)
(* statement or commit, any number of requests in flight.                  *)
(*                                                                         *)
(* PostgreSQL runs at READ COMMITTED: a statement sees the rows committed  *)
(* when it starts, an UPDATE waits for the transaction that holds the row  *)
(* and then re-evaluates its WHERE clause.  Every AuditLogRepository.record*)
(* is a commit of its own.  Each request is served once, by a session of   *)
(* its own, and may be cut off between any two statements.                 *)
(***************************************************************************)
EXTENDS Naturals, FiniteSets

CONSTANTS
    Users,               \* rows of users
    Tokens,              \* refresh-token ids; a raw token is known by its id
    Requests,            \* one element per HTTP request served
    NULL,                \* None
    MaxFamilyWalkSteps,  \* _MAX_FAMILY_WALK_STEPS
    MaxConcurrent,       \* bound: requests in flight at the same time
    MaxAborts            \* bound: requests cut off before they finish

ASSUME NullAssumption == NULL \notin Users \cup Tokens \cup Requests
ASSUME BoundAssumption ==
    /\ MaxFamilyWalkSteps \in Nat \ {0}
    /\ MaxConcurrent \in Nat \ {0}
    /\ MaxAborts \in Nat

VARIABLES
    active,       \* users.is_active
    last_login,   \* users.last_login_at, as the request that set it last
    owner,        \* refresh_tokens.user_id; NULL: there is no such row
    revoked,      \* refresh_tokens with a revoked_at
    replaced_by,  \* refresh_tokens.replaced_by
    expired,      \* refresh_tokens whose expires_at has passed
    lock,         \* request whose open transaction has updated the row
    audit,        \* audit_log rows
    pc,           \* the statement a request executes next
    user,         \* login: the user row loaded
    token,        \* refresh, logout: the token row loaded
    issued,       \* the token a request has stored for its response
    reason,       \* why a request is about to be rejected
    next_id,      \* revoke_descendants: the row to visit next
    candidate,    \* revoke_descendants: the row visited, then the result
    seen,         \* candidate.replaced_by as this session loaded it
    steps,        \* revoke_descendants: iterations done
    held,         \* tokens delivered to a client
    family        \* history variable: the token the chain started from

userVars  == <<active, last_login>>
rowVars   == <<owner, revoked, replaced_by, expired, family>>
walkVars  == <<next_id, candidate, seen, steps>>
localVars == <<user, token, issued, reason>>
vars == <<userVars, rowVars, lock, audit, pc, localVars, walkVars, held>>

OrNull(S) == S \cup {NULL}

-----------------------------------------------------------------------------
(* Types *)

LoginFailures == {"unknown_email", "inactive_account", "wrong_password"}
Rejections == {"unknown_token", "revoked_token", "expired_token",
               "inactive_or_deleted_owner", "concurrent_rotation_lost"}
ReuseOutcomes == {"family_already_revoked", "family_was_live"}

Actions == {"USER_LOGIN_FAILED", "USER_LOGIN_SUCCEEDED", "USER_LOGOUT",
            "REFRESH_TOKEN_REJECTED", "REFRESH_TOKEN_ROTATED",
            "REFRESH_TOKEN_REUSE_DETECTED", "REFRESH_TOKEN_FAMILY_REVOKED"}

(* An audit row.  The request stands for the row's own id (a request writes *)
(* at most one row per action); token is the row the event is about.        *)
Events == [request : Requests, action : Actions, token : OrNull(Tokens),
           detail : {"none"} \cup LoginFailures \cup Rejections \cup ReuseOutcomes]

Idle == {"idle"}
Over == {"done", "aborted"}
LoginSteps == {"login_failed", "login_touch", "login_audit", "login_create"}
RotationSteps == {"get_owner", "rotate", "insert", "rotated"}
WalkSteps == {"walk", "claim_leaf", "commit_leaf", "reread"}
ReuseSteps == {"reuse_audit", "family_audit"}
LogoutSteps == {"revoke", "logout_audit"}
InFlight == LoginSteps \cup RotationSteps \cup WalkSteps \cup ReuseSteps
            \cup LogoutSteps \cup {"reject", "respond"}

(* Every column and every local variable holds a value of its kind. *)
TypeOK ==
    /\ active \subseteq Users
    /\ last_login \in [Users -> OrNull(Requests)]
    /\ owner \in [Tokens -> OrNull(Users)]
    /\ revoked \subseteq Tokens /\ expired \subseteq Tokens /\ held \subseteq Tokens
    /\ replaced_by \in [Tokens -> OrNull(Tokens)]
    /\ family \in [Tokens -> OrNull(Tokens)]
    /\ lock \in [Tokens -> OrNull(Requests)]
    /\ audit \subseteq Events
    /\ pc \in [Requests -> Idle \cup Over \cup InFlight]
    /\ user \in [Requests -> OrNull(Users)]
    /\ token \in [Requests -> OrNull(Tokens)]
    /\ issued \in [Requests -> OrNull(Tokens)]
    /\ reason \in [Requests -> {"none"} \cup LoginFailures \cup Rejections]
    /\ next_id \in [Requests -> OrNull(Tokens)]
    /\ candidate \in [Requests -> OrNull(Tokens)]
    /\ seen \in [Requests -> OrNull(Tokens)]
    /\ steps \in [Requests -> 0..MaxFamilyWalkSteps]

Init ==
    /\ active = Users
    /\ last_login = [u \in Users |-> NULL]
    /\ owner = [t \in Tokens |-> NULL]
    /\ revoked = {} /\ expired = {} /\ held = {}
    /\ replaced_by = [t \in Tokens |-> NULL]
    /\ family = [t \in Tokens |-> NULL]
    /\ lock = [t \in Tokens |-> NULL]
    /\ audit = {}
    /\ pc = [r \in Requests |-> "idle"]
    /\ user = [r \in Requests |-> NULL]
    /\ token = [r \in Requests |-> NULL]
    /\ issued = [r \in Requests |-> NULL]
    /\ reason = [r \in Requests |-> "none"]
    /\ next_id = [r \in Requests |-> NULL]
    /\ candidate = [r \in Requests |-> NULL]
    /\ seen = [r \in Requests |-> NULL]
    /\ steps = [r \in Requests |-> 0]

-----------------------------------------------------------------------------
(* Helpers *)

Stored(t) == owner[t] # NULL
Live(t) == Stored(t) /\ t \notin revoked

(* Family f has no token left that could be exchanged. *)
Dead(f) == \A t \in Tokens : family[t] = f => ~Live(t)

Goto(r, step) == pc' = [pc EXCEPT ![r] = step]

(* A new row gets an id no row has.  Ids are interchangeable, so one is      *)
(* fixed; so are requests, and they take their names in order of arrival.    *)
Fresh(t) == ~Stored(t) /\ t = CHOOSE x \in Tokens : ~Stored(x)

(* A request arrives while fewer than MaxConcurrent are being served. *)
Admit(r) ==
    /\ pc[r] = "idle"
    /\ r = CHOOSE q \in Requests : pc[q] = "idle"
    /\ Cardinality({q \in Requests : pc[q] \in InFlight}) < MaxConcurrent

(* AuditLogRepository.record: one INSERT, committed at once. *)
Record(r, action, detail, tok) ==
    audit' = audit \cup {[request |-> r, action |-> action, token |-> tok,
                          detail |-> detail]}

(* get_by_id: the SELECT runs, but a row this session already holds as an   *)
(* object keeps the attributes it was loaded with (the session's identity   *)
(* map, without populate_existing; expire_on_commit is off).  The walk      *)
(* still holds candidate when it reads.                                     *)
GetById(r, id) == IF id = candidate[r] THEN seen[r] ELSE replaced_by[id]

(* UPDATE ... WHERE id = t may run: no other transaction holds the row. *)
RowAlwaysFree(t) == TRUE  \* mutant: the UPDATE does not wait for the row
RowFree(t) == lock[t] = NULL

(* The WHERE clause of the two conditional UPDATEs: revoked_at IS NULL. *)
WhereIdOnly(t) == TRUE  \* mutant: the guard on revoked_at is forgotten
WhereUnrevoked(t) == t \notin revoked

(* SET revoked_at. *)
RevokeNothing(t) == UNCHANGED revoked  \* mutant: the assignment is lost
Revoke(t) == revoked' = revoked \cup {t}

(* COMMIT or ROLLBACK of the request's transaction. *)
KeepLocks(r) == UNCHANGED lock  \* mutant: the transaction stays open
Release(r) == lock' = [t \in Tokens |-> IF lock[t] = r THEN NULL ELSE lock[t]]

(* for _ in range(_MAX_FAMILY_WALK_STEPS): another iteration is left. *)
WalkOneMore(r) == steps[r] <= MaxFamilyWalkSteps     \* mutant: one too many
WalkOneLess(r) == steps[r] + 1 < MaxFamilyWalkSteps  \* mutant: one too few
WalkBudget(r) == steps[r] < MaxFamilyWalkSteps

-----------------------------------------------------------------------------
(* POST /auth/login *)

FailLogin(r, why) == Goto(r, "login_failed") /\ reason' = [reason EXCEPT ![r] = why]

(* get_by_email, then every check up to the next await.  u is NULL for an   *)
(* email of no row; correct: verify_password.                               *)
LoginLookup(r, u, correct) ==
    /\ Admit(r)
    /\ user' = [user EXCEPT ![r] = u]
    /\ \/ u = NULL /\ FailLogin(r, "unknown_email")
       \/ u # NULL /\ u \notin active /\ FailLogin(r, "inactive_account")
       \/ u \in active /\ ~correct /\ FailLogin(r, "wrong_password")
       \/ u \in active /\ correct /\ Goto(r, "login_touch") /\ UNCHANGED reason
    /\ UNCHANGED <<userVars, rowVars, lock, audit, token, issued, walkVars, held>>

AuditLoginFailed(r) ==
    /\ pc[r] = "login_failed"
    /\ Record(r, "USER_LOGIN_FAILED", reason[r], NULL)
    /\ Goto(r, "done")
    /\ UNCHANGED <<userVars, rowVars, lock, localVars, walkVars, held>>

(* Mutant: the token is created before the login is recorded. *)
UpdateLastLoginUnaudited(r) ==
    /\ pc[r] = "login_touch"
    /\ last_login' = [last_login EXCEPT ![user[r]] = r]
    /\ Goto(r, "login_create")
    /\ UNCHANGED <<active, rowVars, lock, audit, localVars, walkVars, held>>

UpdateLastLogin(r) ==
    /\ pc[r] = "login_touch"
    /\ last_login' = [last_login EXCEPT ![user[r]] = r]
    /\ Goto(r, "login_audit")
    /\ UNCHANGED <<active, rowVars, lock, audit, localVars, walkVars, held>>

AuditLoginSucceeded(r) ==
    /\ pc[r] = "login_audit"
    /\ Record(r, "USER_LOGIN_SUCCEEDED", "none", NULL)
    /\ Goto(r, "login_create")
    /\ UNCHANGED <<userVars, rowVars, lock, localVars, walkVars, held>>

(* _issue_token_pair: RefreshTokenRepository.create commits the new row. *)
IssueTokenPair(r, t) ==
    /\ pc[r] = "login_create"
    /\ Fresh(t)
    /\ owner' = [owner EXCEPT ![t] = user[r]]
    /\ family' = [family EXCEPT ![t] = t]
    /\ issued' = [issued EXCEPT ![r] = t]
    /\ Goto(r, "respond")
    /\ UNCHANGED <<userVars, revoked, replaced_by, expired, lock, audit, user,
                   token, reason, walkVars, held>>

-----------------------------------------------------------------------------
(* POST /auth/refresh *)

Reject(r, why) == Goto(r, "reject") /\ reason' = [reason EXCEPT ![r] = why]

(* get_by_hash, then every check up to the next await.  t is NULL for a      *)
(* string that is the hash of no row.  A revoked token with a successor is   *)
(* a replay: revoke_descendants starts from the successor loaded here.       *)
RefreshRead(r, t) ==
    /\ Admit(r)
    /\ token' = [token EXCEPT ![r] = t]
    /\ \/ t = NULL /\ Reject(r, "unknown_token") /\ UNCHANGED next_id
       \/ /\ t \in revoked /\ replaced_by[t] = NULL
          /\ Reject(r, "revoked_token") /\ UNCHANGED next_id
       \/ /\ t \in revoked /\ replaced_by[t] # NULL
          /\ next_id' = [next_id EXCEPT ![r] = replaced_by[t]]
          /\ Goto(r, "walk") /\ UNCHANGED reason
       \/ /\ t # NULL /\ t \notin revoked /\ t \in expired
          /\ Reject(r, "expired_token") /\ UNCHANGED next_id
       \/ /\ t # NULL /\ t \notin revoked /\ t \notin expired
          /\ Goto(r, "get_owner") /\ UNCHANGED <<reason, next_id>>
    /\ UNCHANGED <<userVars, rowVars, lock, audit, user, issued, candidate, seen, steps, held>>

GetOwner(r) ==
    /\ pc[r] = "get_owner"
    /\ \/ owner[token[r]] \in active /\ Goto(r, "rotate") /\ UNCHANGED reason
       \/ owner[token[r]] \notin active /\ Reject(r, "inactive_or_deleted_owner")
    /\ UNCHANGED <<userVars, rowVars, lock, audit, user, token, issued, walkVars, held>>

AuditRejected(r) ==
    /\ pc[r] = "reject"
    /\ Record(r, "REFRESH_TOKEN_REJECTED", reason[r], token[r])
    /\ Goto(r, "done")
    /\ UNCHANGED <<userVars, rowVars, lock, localVars, walkVars, held>>

(* create_rotation_pair: UPDATE ... WHERE id = :id AND revoked_at IS NULL    *)
(* matches the row; it stays locked until the commit.                        *)
RotateClaim(r) ==
    /\ pc[r] = "rotate"
    /\ RowFree(token[r])
    /\ WhereUnrevoked(token[r])
    /\ lock' = [lock EXCEPT ![token[r]] = r]
    /\ Goto(r, "insert")
    /\ UNCHANGED <<userVars, rowVars, audit, localVars, walkVars, held>>

(* create_rotation_pair: the same UPDATE matches nothing and returns None. *)
RotateLose(r) ==
    /\ pc[r] = "rotate"
    /\ RowFree(token[r])
    /\ ~WhereUnrevoked(token[r])
    /\ Reject(r, "concurrent_rotation_lost")
    /\ UNCHANGED <<userVars, rowVars, lock, audit, user, token, issued, walkVars, held>>

(* create_rotation_pair: the child t, the link to it and the revocation of   *)
(* the parent become visible together.                                       *)
RotateCommit(r, t) ==
    /\ pc[r] = "insert"
    /\ Fresh(t)
    /\ owner' = [owner EXCEPT ![t] = owner[token[r]]]
    /\ family' = [family EXCEPT ![t] = family[token[r]]]
    /\ Revoke(token[r])
    /\ replaced_by' = [replaced_by EXCEPT ![token[r]] = t]
    /\ Release(r)
    /\ issued' = [issued EXCEPT ![r] = t]
    /\ Goto(r, "rotated")
    /\ UNCHANGED <<userVars, expired, audit, user, token, reason, walkVars, held>>

(* Mutant: a rotation is answered without being recorded. *)
AuditRotatedSkipped(r) ==
    /\ pc[r] = "rotated"
    /\ Goto(r, "respond")
    /\ UNCHANGED <<userVars, rowVars, lock, audit, localVars, walkVars, held>>

AuditRotated(r) ==
    /\ pc[r] = "rotated"
    /\ Record(r, "REFRESH_TOKEN_ROTATED", "none", token[r])
    /\ Goto(r, "respond")
    /\ UNCHANGED <<userVars, rowVars, lock, localVars, walkVars, held>>

(* The response of login or refresh reaches the client. *)
Respond(r) ==
    /\ pc[r] = "respond"
    /\ held' = held \cup {issued[r]}
    /\ Goto(r, "done")
    /\ UNCHANGED <<userVars, rowVars, lock, audit, localVars, walkVars>>

-----------------------------------------------------------------------------
(* revoke_descendants and _handle_revoked_token: a rotated token came back *)

(* The head of one iteration: load the next row; keep walking unless it has  *)
(* no successor.                                                             *)
WalkRead(r) ==
    LET successor == GetById(r, next_id[r])
    IN  /\ pc[r] = "walk"
        /\ WalkBudget(r)
        /\ steps' = [steps EXCEPT ![r] = @ + 1]
        /\ candidate' = [candidate EXCEPT ![r] = next_id[r]]
        /\ seen' = [seen EXCEPT ![r] = successor]
        /\ IF successor = NULL
           THEN Goto(r, "claim_leaf") /\ UNCHANGED next_id
           ELSE UNCHANGED pc /\ next_id' = [next_id EXCEPT ![r] = successor]
        /\ UNCHANGED <<userVars, rowVars, lock, audit, localVars, held>>

(* The for loop ran out of iterations: return None. *)
WalkExhausted(r) ==
    /\ pc[r] = "walk"
    /\ ~WalkBudget(r)
    /\ candidate' = [candidate EXCEPT ![r] = NULL]
    /\ Goto(r, "reuse_audit")
    /\ UNCHANGED <<userVars, rowVars, lock, audit, localVars, next_id, seen, steps, held>>

(* The conditional UPDATE of the leaf matches. *)
WalkClaim(r) ==
    /\ pc[r] = "claim_leaf"
    /\ RowFree(candidate[r])
    /\ WhereUnrevoked(candidate[r])
    /\ lock' = [lock EXCEPT ![candidate[r]] = r]
    /\ Goto(r, "commit_leaf")
    /\ UNCHANGED <<userVars, rowVars, audit, localVars, walkVars, held>>

(* The conditional UPDATE of the leaf matches nothing. *)
WalkLose(r) ==
    /\ pc[r] = "claim_leaf"
    /\ RowFree(candidate[r])
    /\ ~WhereUnrevoked(candidate[r])
    /\ Goto(r, "reread")
    /\ UNCHANGED <<userVars, rowVars, lock, audit, localVars, walkVars, held>>

(* The row is read again: follow its successor, or return None. *)
WalkReRead(r) ==
    LET successor == GetById(r, candidate[r])
    IN  /\ pc[r] = "reread"
        /\ IF successor = NULL
           THEN /\ candidate' = [candidate EXCEPT ![r] = NULL]
                /\ Goto(r, "reuse_audit")
                /\ UNCHANGED next_id
           ELSE /\ next_id' = [next_id EXCEPT ![r] = successor]
                /\ Goto(r, "walk")
                /\ UNCHANGED candidate
        /\ UNCHANGED <<userVars, rowVars, lock, audit, localVars, seen, steps, held>>

(* The leaf's revocation commits; revoke_descendants returns the leaf. *)
WalkCommit(r) ==
    /\ pc[r] = "commit_leaf"
    /\ Revoke(candidate[r])
    /\ Release(r)
    /\ Goto(r, "reuse_audit")
    /\ UNCHANGED <<userVars, owner, replaced_by, expired, family, audit, localVars,
                   walkVars, held>>

(* Mutant: a replay that killed the family is recorded as FAMILY_REVOKED only. *)
AuditReuseOfDead(r) ==
    /\ pc[r] = "reuse_audit"
    /\ IF candidate[r] # NULL THEN UNCHANGED audit
       ELSE Record(r, "REFRESH_TOKEN_REUSE_DETECTED", "family_already_revoked", token[r])
    /\ Goto(r, IF candidate[r] = NULL THEN "done" ELSE "family_audit")
    /\ UNCHANGED <<userVars, rowVars, lock, localVars, walkVars, held>>

AuditReuse(r) ==
    /\ pc[r] = "reuse_audit"
    /\ Record(r, "REFRESH_TOKEN_REUSE_DETECTED",
              IF candidate[r] = NULL THEN "family_already_revoked" ELSE "family_was_live",
              token[r])
    /\ Goto(r, IF candidate[r] = NULL THEN "done" ELSE "family_audit")
    /\ UNCHANGED <<userVars, rowVars, lock, localVars, walkVars, held>>

AuditFamilyRevoked(r) ==
    /\ pc[r] = "family_audit"
    /\ Record(r, "REFRESH_TOKEN_FAMILY_REVOKED", "none", candidate[r])
    /\ Goto(r, "done")
    /\ UNCHANGED <<userVars, rowVars, lock, localVars, walkVars, held>>

-----------------------------------------------------------------------------
(* POST /auth/logout *)

(* Mutant: the early return for a token that is already revoked is missing. *)
LogoutReadUnchecked(r, t) ==
    /\ Admit(r)
    /\ token' = [token EXCEPT ![r] = t]
    /\ Goto(r, IF t = NULL THEN "done" ELSE "revoke")
    /\ UNCHANGED <<userVars, rowVars, lock, audit, user, issued, reason, walkVars, held>>

LogoutRead(r, t) ==
    /\ Admit(r)
    /\ token' = [token EXCEPT ![r] = t]
    /\ Goto(r, IF t = NULL \/ t \in revoked THEN "done" ELSE "revoke")
    /\ UNCHANGED <<userVars, rowVars, lock, audit, user, issued, reason, walkVars, held>>

(* Mutant: the UPDATE writes back the whole row as it was loaded. *)
LogoutWriteBack(r) ==
    /\ pc[r] = "revoke"
    /\ RowFree(token[r])
    /\ Revoke(token[r])
    /\ replaced_by' = [replaced_by EXCEPT ![token[r]] = NULL]
    /\ Goto(r, "logout_audit")
    /\ UNCHANGED <<userVars, owner, expired, family, lock, audit, localVars, walkVars, held>>

(* revoke: UPDATE by primary key only, whatever the row holds by now. *)
LogoutRevoke(r) ==
    /\ pc[r] = "revoke"
    /\ RowFree(token[r])
    /\ Revoke(token[r])
    /\ Goto(r, "logout_audit")
    /\ UNCHANGED <<userVars, owner, replaced_by, expired, family, lock, audit,
                   localVars, walkVars, held>>

AuditLogout(r) ==
    /\ pc[r] = "logout_audit"
    /\ Record(r, "USER_LOGOUT", "none", token[r])
    /\ Goto(r, "done")
    /\ UNCHANGED <<userVars, rowVars, lock, localVars, walkVars, held>>

-----------------------------------------------------------------------------
(* The environment *)

(* The request ends early: an exception, a cancelled task, a dead process, a *)
(* failed commit, or (at "respond") a response that never arrives.  The      *)
(* session closes and its open transaction rolls back.                       *)
Abort(r) ==
    /\ pc[r] \in InFlight
    /\ Cardinality({q \in Requests : pc[q] = "aborted"}) < MaxAborts
    /\ Release(r)
    /\ Goto(r, "aborted")
    /\ UNCHANGED <<userVars, rowVars, audit, localVars, walkVars, held>>

(* Time passes.  A child expires after its parent: both get the same TTL.    *)
Expire(t) ==
    /\ Stored(t)
    /\ t \notin expired
    /\ \A p \in Tokens : replaced_by[p] = t => p \in expired
    /\ expired' = expired \cup {t}
    /\ UNCHANGED <<userVars, owner, revoked, replaced_by, family, lock, audit, pc,
                   localVars, walkVars, held>>

(* An operator clears is_active; no code path of the application does.       *)
Deactivate(u) ==
    /\ u \in active
    /\ active' = active \ {u}
    /\ UNCHANGED <<last_login, rowVars, lock, audit, pc, localVars, walkVars, held>>

(* Every request has been served: nothing is left to do. *)
AllServed ==
    /\ \A r \in Requests : pc[r] \in Over
    /\ UNCHANGED vars

-----------------------------------------------------------------------------
Arrive(r) ==
    \/ \E u \in OrNull(Users), correct \in BOOLEAN : LoginLookup(r, u, correct)
    \/ \E t \in OrNull(held) : RefreshRead(r, t) \/ LogoutRead(r, t)

Step(r) ==
    \/ AuditLoginFailed(r) \/ UpdateLastLogin(r) \/ AuditLoginSucceeded(r)
    \/ \E t \in Tokens : IssueTokenPair(r, t) \/ RotateCommit(r, t)
    \/ GetOwner(r) \/ AuditRejected(r) \/ RotateClaim(r) \/ RotateLose(r)
    \/ AuditRotated(r) \/ Respond(r)
    \/ WalkRead(r) \/ WalkExhausted(r) \/ WalkClaim(r) \/ WalkLose(r)
    \/ WalkReRead(r) \/ WalkCommit(r) \/ AuditReuse(r) \/ AuditFamilyRevoked(r)
    \/ LogoutRevoke(r) \/ AuditLogout(r)

Next ==
    \/ \E r \in Requests : Arrive(r) \/ Step(r) \/ Abort(r)
    \/ \E t \in Tokens : Expire(t)
    \/ \E u \in Users : Deactivate(u)
    \/ AllServed

Spec == Init /\ [][Next]_vars

(* The event loop keeps running the requests it admitted and the database    *)
(* answers; nobody has to send requests, expire tokens or cut requests off.  *)
FairSpec == Spec /\ \A r \in Requests : WF_vars(Step(r))

-----------------------------------------------------------------------------
(* Safety, whatever the requests and however they interleave *)

(* A family never has two tokens that could both be exchanged: of any number *)
(* of rotations of one token and walks over its chain, the conditional       *)
(* UPDATE lets one through.                                                  *)
OneLivePerFamily ==
    \A s, t \in Tokens : Live(s) /\ Live(t) /\ family[s] = family[t] => s = t

(* The replaced_by chain is linear and stays inside one account: a token     *)
(* with a successor is revoked, its successor is a stored token of the same  *)
(* user and family, and no other token leads to it (create_rotation_pair:    *)
(* "a token can never end up with two children").                            *)
ChainLinear ==
    \A s \in Tokens : replaced_by[s] # NULL =>
        /\ s \in revoked
        /\ Stored(s) /\ owner[replaced_by[s]] = owner[s]
        /\ family[replaced_by[s]] = family[s]
        /\ \A t \in Tokens : replaced_by[t] = replaced_by[s] => t = s

(* A token that no login issued is the successor of some token, so a walk    *)
(* from the start of the family can reach it: a rotation that loses its race *)
(* or is cut off leaves no child behind.                                     *)
NoOrphanChild ==
    \A t \in Tokens : Stored(t) =>
        \/ family[t] = t
        \/ \E s \in Tokens : replaced_by[s] = t

(* Once REFRESH_TOKEN_FAMILY_REVOKED is on record the family is dead, and it *)
(* stays dead: no rotation that was already under way revives it.  The       *)
(* family is that of the token presented: revoke_descendants never reaches   *)
(* another user's or another session's tokens.                               *)
FamilyRevokedIsDead ==
    \A e \in audit : e.action = "REFRESH_TOKEN_FAMILY_REVOKED" =>
        /\ Dead(family[e.token])
        /\ family[e.token] = family[token[e.request]]

(* The log tells the truth about the rows: a token reported as rotated or    *)
(* replayed has a successor, one reported as revoked, lost to another        *)
(* rotation or logged out is revoked.                                        *)
AuditTruthful ==
    \A e \in audit :
        /\ e.action \in {"REFRESH_TOKEN_ROTATED", "REFRESH_TOKEN_REUSE_DETECTED"} =>
              replaced_by[e.token] # NULL
        /\ e.action \in {"USER_LOGOUT", "REFRESH_TOKEN_FAMILY_REVOKED"} =>
              e.token \in revoked
        /\ e.detail \in {"revoked_token", "concurrent_rotation_lost"} =>
              e.token \in revoked

(* Every rotation is the work of one request, which has recorded it, is      *)
(* about to, or was cut off before it could; none is recorded twice.         *)
RotationAccounted ==
    /\ \A t \in Tokens : replaced_by[t] # NULL =>
          \E r \in Requests :
              /\ token[r] = t /\ issued[r] = replaced_by[t]
              /\ \/ pc[r] \in {"rotated", "aborted"}
                 \/ \E e \in audit : e.request = r /\ e.action = "REFRESH_TOKEN_ROTATED"
    /\ \A e, f \in audit :
          (/\ e.action = "REFRESH_TOKEN_ROTATED" /\ f.action = "REFRESH_TOKEN_ROTATED"
           /\ e.token = f.token) => e = f

(* A session starts only after a login on record: the token create of login  *)
(* comes after the commit of USER_LOGIN_SUCCEEDED and of last_login_at.      *)
NoUnrecordedSession ==
    \A t \in Tokens : Stored(t) /\ family[t] = t =>
        /\ last_login[owner[t]] # NULL
        /\ \E r \in Requests, e \in audit :
              /\ issued[r] = t /\ user[r] = owner[t]
              /\ e.request = r /\ e.action = "USER_LOGIN_SUCCEEDED"

(* No step un-revokes a token, re-links it, gives it to another user or      *)
(* revives a session that has ended, the unconditional UPDATE of logout and  *)
(* rotations that were already under way included; no audit row is lost.     *)
NothingUndone ==
    [][/\ revoked \subseteq revoked'
       /\ audit \subseteq audit'
       /\ \A t \in Tokens : Stored(t) =>
             /\ owner'[t] = owner[t]
             /\ replaced_by[t] # NULL => replaced_by'[t] = replaced_by[t]
             /\ Dead(family[t]) => Dead(family[t])']_vars

(* The rows seen as sessions: a family is named by its first token, and its  *)
(* current token is the one that is stored and not revoked.                  *)
CurrentToken(f) ==
    IF \E t \in Tokens : Live(t) /\ family[t] = f
    THEN CHOOSE t \in Tokens : Live(t) /\ family[t] = f
    ELSE NULL

Families == INSTANCE TokenFamilies WITH
    session_owner <- [s \in Tokens |-> IF family[s] = s THEN owner[s] ELSE NULL],
    current <- [s \in Tokens |-> CurrentToken(s)],
    used <- {t \in Tokens : Stored(t)}

(* Requests, locks and walks implement sessions with one current token that  *)
(* once closed stay closed: every commit opens, rotates or closes a session, *)
(* or changes nothing a client can exchange.                                 *)
ImplementsFamilies == Families!Spec

-----------------------------------------------------------------------------
(* Safety that the code's comments promise and only some schedules give *)

(* A replay that has been detected has ended the session: once               *)
(* REFRESH_TOKEN_REUSE_DETECTED is on record for a token, nothing in its     *)
(* family is live (_handle_revoked_token: "if anything in this family is     *)
(* still live, it's killed").                                                *)
ReplayKillsFamily ==
    \A e \in audit :
        e.action = "REFRESH_TOKEN_REUSE_DETECTED" => Dead(family[e.token])

(* A logout on record has ended the session of the token presented (revoke:  *)
(* a token that gets here "cannot be mid-chain").                            *)
LogoutEndsSession ==
    \A e \in audit : e.action = "USER_LOGOUT" => Dead(family[e.token])

-----------------------------------------------------------------------------
(* The inductive invariant behind the safety properties *)

(* A row that is not there has no columns; a stored one belongs to a family  *)
(* whose first token is stored for the same user.                            *)
RowsOK == \A t \in Tokens :
    IF Stored(t) THEN family[t] # NULL /\ owner[family[t]] = owner[t]
    ELSE t \notin revoked /\ replaced_by[t] = NULL /\ family[t] = NULL

(* A locked row is live and its holder is the request about to commit it.    *)
LocksOK ==
    /\ \A t \in Tokens : lock[t] # NULL =>
          /\ Live(t)
          /\ \/ pc[lock[t]] = "insert" /\ token[lock[t]] = t
             \/ pc[lock[t]] = "commit_leaf" /\ candidate[lock[t]] = t
    /\ \A r \in Requests :
          /\ pc[r] = "insert" => lock[token[r]] = r
          /\ pc[r] = "commit_leaf" => lock[candidate[r]] = r

(* What request r knows at each step still holds of the rows. *)
RequestOK(r) ==
    /\ pc[r] \in {"login_touch", "login_audit", "login_create"} => user[r] # NULL
    /\ pc[r] \in RotationSteps \cup WalkSteps \cup ReuseSteps \cup LogoutSteps =>
          token[r] # NULL /\ Stored(token[r])
    /\ pc[r] \in WalkSteps \cup ReuseSteps \cup {"rotated"} => replaced_by[token[r]] # NULL
    /\ pc[r] \in {"rotated", "respond"} => issued[r] # NULL /\ Stored(issued[r])
    /\ pc[r] = "walk" =>
          next_id[r] # NULL /\ Stored(next_id[r]) /\ family[next_id[r]] = family[token[r]]
    /\ pc[r] \in WalkSteps \cup ReuseSteps /\ candidate[r] # NULL =>
          Stored(candidate[r]) /\ family[candidate[r]] = family[token[r]]
    /\ pc[r] \in WalkSteps /\ candidate[r] # NULL =>
          seen[r] \in {NULL, replaced_by[candidate[r]]}
    /\ pc[r] \in {"claim_leaf", "commit_leaf", "reread", "family_audit"} => candidate[r] # NULL
    /\ pc[r] \in ReuseSteps /\ candidate[r] # NULL => Dead(family[candidate[r]])
    /\ pc[r] = "reject" /\ reason[r] \in {"revoked_token", "concurrent_rotation_lost"} =>
          token[r] \in revoked
    /\ pc[r] = "logout_audit" => token[r] \in revoked
    /\ pc[r] = "login_failed" => reason[r] \in LoginFailures
    /\ pc[r] = "idle" => candidate[r] = NULL

(* Audit rows are written by requests that have started, and a family that   *)
(* was revoked has rows.                                                     *)
AuditOK == \A e \in audit :
    /\ pc[e.request] # "idle"
    /\ e.action \in {"REFRESH_TOKEN_ROTATED", "REFRESH_TOKEN_REUSE_DETECTED"} =>
          e.token # NULL
    /\ e.action = "REFRESH_TOKEN_FAMILY_REVOKED" =>
          /\ e.token # NULL /\ Stored(e.token)
          /\ token[e.request] # NULL /\ Stored(token[e.request])

(* Together with the properties it implies: tokens a client holds are stored, *)
(* rows, locks, requests and log agree.                                       *)
IndInv ==
    /\ TypeOK
    /\ \A t \in held : Stored(t)
    /\ RowsOK /\ ChainLinear /\ NoOrphanChild /\ OneLivePerFamily
    /\ LocksOK
    /\ \A r \in Requests : RequestOK(r)
    /\ AuditOK /\ AuditTruthful /\ FamilyRevokedIsDead

(* What a request has issued is its own work: no other request issued it, a  *)
(* rotation is linked to it, and a login has been recorded before it issues. *)
IssuedOK(r) ==
    /\ issued[r] # NULL =>
          /\ Stored(issued[r]) /\ pc[r] \in {"rotated", "respond"} \cup Over
          /\ \A q \in Requests : issued[q] = issued[r] => q = r
    /\ pc[r] = "rotated" => replaced_by[token[r]] = issued[r]
    /\ pc[r] \in {"login_audit", "login_create"} => last_login[user[r]] # NULL
    /\ pc[r] = "login_create" =>
          \E e \in audit : e.request = r /\ e.action = "USER_LOGIN_SUCCEEDED"

(* A recorded rotation is the one its request made. *)
RotationRowsOK == \A e \in audit : e.action = "REFRESH_TOKEN_ROTATED" =>
    /\ e.detail = "none" /\ e.token = token[e.request]
    /\ issued[e.request] # NULL /\ replaced_by[e.token] = issued[e.request]

(* What the log owes to the rows and the rows to the log. *)
LedgerInv ==
    /\ RotationAccounted /\ NoUnrecordedSession
    /\ RotationRowsOK /\ \A r \in Requests : IssuedOK(r)

(* The last token of a chain is the only one of its family without a         *)
(* successor.                                                                *)
OneLeafPerFamily ==
    \A s, t \in Tokens :
        /\ Stored(s) /\ replaced_by[s] = NULL
        /\ Stored(t) /\ replaced_by[t] = NULL
        /\ family[s] = family[t]
        => s = t

(* S holds stored tokens, and with each its predecessor. *)
Past(S) ==
    /\ IsFiniteSet(S) /\ \A t \in S : Stored(t)
    /\ \A p \in Tokens : replaced_by[p] \in S => p \in S

(* Chains have no cycle: a token and what came before it can be told from    *)
(* its successor.                                                            *)
ChainsAcyclic ==
    \A t \in Tokens : replaced_by[t] # NULL =>
        \E S \in SUBSET Tokens : Past(S) /\ t \in S /\ replaced_by[t] \notin S

(* A walk has left behind one more token of the family than it has made      *)
(* steps, and the row it visits next is not one of them.                     *)
WalkAdvances(r) ==
    /\ pc[r] = "walk" =>
          \E S \in SUBSET {t \in Tokens : family[t] = family[token[r]]} :
              /\ Past(S) /\ next_id[r] \notin S
              /\ \A p \in Tokens : replaced_by[p] = next_id[r] => p \in S
              /\ Cardinality(S) > steps[r]
    /\ pc[r] \in {"claim_leaf", "commit_leaf", "reread"} => seen[r] = NULL
    /\ pc[r] = "reread" => candidate[r] \in revoked
    /\ pc[r] = "idle" => steps[r] = 0

-----------------------------------------------------------------------------
(* Liveness *)

(* A request that was admitted comes to an end: nobody waits forever for a   *)
(* row another request holds, and no walk goes on forever.                   *)
RequestsEnd == \A r \in Requests : pc[r] \in InFlight ~> pc[r] \in Over

(* A replayed token is always reported, even when its walk gives up, unless  *)
(* the request is cut off.                                                   *)
ReplayReported ==
    \A r \in Requests : pc[r] = "walk" ~>
        \/ pc[r] = "aborted"
        \/ \E e \in audit : e.request = r /\ e.action = "REFRESH_TOKEN_REUSE_DETECTED"
=============================================================================
