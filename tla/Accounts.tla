------------------------------ MODULE Accounts -------------------------------
(***************************************************************************)
(* From an e-mail address to a request served: AuthService.register and    *)
(* login over UserRepository, the access tokens of core/security.py, and   *)
(* get_current_user, one action per statement or commit, any number of     *)
(* requests in flight, each of which may be cut off.                       *)
(*                                                                         *)
(* Refresh tokens appear as the sessions of TokenFamilies, which the model *)
(* of their code, RefreshTokens, is shown to implement: a login opens a    *)
(* session, a refresh rotates it, logout and reuse detection close it.     *)
(*                                                                         *)
(* Time passes in ticks, Second of them in a second, because the claims of *)
(* an access token are whole seconds and the clock is not.                 *)
(***************************************************************************)
EXTENDS Naturals, FiniteSets

CONSTANTS
    Addresses,      \* e-mail addresses, whatever the case of their letters
    Passwords,
    UserIds,        \* ids for rows of users
    Tokens,         \* ids for refresh tokens
    Requests,       \* one element per HTTP request served
    NULL,           \* None
    Second,         \* ticks in a second
    Ttl,            \* access_token_ttl_minutes, in seconds
    MaxTime,        \* bound: ticks
    MaxConcurrent,  \* bound: requests in flight at the same time
    MaxAborts       \* bound: requests cut off before they finish

ASSUME AccountBoundAssumption ==
    /\ Second \in Nat \ {0} /\ Ttl \in Nat /\ MaxTime \in Nat
    /\ MaxConcurrent \in Nat /\ MaxAborts \in Nat

VARIABLES
    users,          \* rows of users; NULL: there is none
    session_owner,  \* refresh tokens, as in TokenFamilies
    current,
    used,
    access,         \* access tokens signed so far
    audit,          \* audit_log rows of register and login
    now,            \* utc_now()
    pc,             \* the statement a request executes next, or its answer
    email,          \* the request's e-mail address
    password,       \* the request's password
    user,           \* id of the user row a request has loaded or created
    token,          \* refresh: the token presented
    before          \* history: registrations answered when a login began

sessions == <<session_owner, current, used>>
params == <<password, token, before>>
vars == <<users, sessions, access, audit, now, pc, email, params, user>>

Families == INSTANCE TokenFamilies WITH Users <- UserIds

OrNull(S) == S \cup {NULL}

-----------------------------------------------------------------------------
(* Types *)

Emails == [address : Addresses, case : {"lower", "mixed"}]

(* str.lower *)
Lower(e) == [e EXCEPT !.case = "lower"]

(* Argon2id: the hash of one password differs from call to call (the salt,   *)
(* here the request that drew it) and tells whether a password is the same.  *)
Hashes == [digest : Passwords, salt : Requests]
HashPassword(r, p) == [digest |-> p, salt |-> r]
AlwaysVerifies(p, hash) == TRUE  \* mutant: the result is a coroutine, true
VerifyPassword(p, hash) == hash.digest = p

Rows == [email : Emails, password_hash : Hashes, is_active : BOOLEAN,
         last_login : OrNull(Requests)]

ASSUME AccountNullAssumption ==
    /\ NULL \notin UserIds \cup Tokens \cup Requests \cup Passwords
    /\ NULL \notin Emails /\ NULL \notin Rows

(* The claims of an access token; made is a history variable. *)
AccessTokens == [sub : UserIds, exp : Nat, made : Nat]

Actions == {"USER_REGISTERED", "USER_REGISTRATION_FAILED", "USER_LOGIN_SUCCEEDED",
            "USER_LOGIN_FAILED"}
Events == [request : Requests, action : Actions, user : OrNull(UserIds)]

Answers == {"created", "conflict", "tokens", "unauthorized", "inactive", "rejected",
            "served", "invalid_token", "aborted"}
InFlight == {"create_user", "registered", "duplicate", "get_by_email", "login_failed",
             "login_inactive", "update_last_login", "login_succeeded", "issue",
             "get_by_hash", "get_owner", "rotate", "rotated", "reject"}

(* Every column, claim and local variable holds a value of its kind. *)
TypeOK ==
    /\ users \in [UserIds -> OrNull(Rows)]
    /\ Families!TypeOK
    /\ access \subseteq AccessTokens
    /\ audit \subseteq Events
    /\ now \in Nat
    /\ pc \in [Requests -> {"idle"} \cup InFlight \cup Answers]
    /\ email \in [Requests -> OrNull(Emails)]
    /\ password \in [Requests -> OrNull(Passwords)]
    /\ user \in [Requests -> OrNull(UserIds)]
    /\ token \in [Requests -> OrNull(Tokens)]
    /\ before \in [Requests -> SUBSET Requests]

Init ==
    /\ users = [u \in UserIds |-> NULL]
    /\ Families!Init
    /\ access = {} /\ audit = {} /\ now \in 0..Second - 1
    /\ pc = [r \in Requests |-> "idle"]
    /\ email = [r \in Requests |-> NULL] /\ password = [r \in Requests |-> NULL]
    /\ user = [r \in Requests |-> NULL] /\ token = [r \in Requests |-> NULL]
    /\ before = [r \in Requests |-> {}]

-----------------------------------------------------------------------------
(* Helpers *)

Stored(u) == users[u] # NULL

(* SELECT ... WHERE email = e: the rows it finds. *)
WithEmail(e) == {u \in UserIds : Stored(u) /\ users[u].email = e}

Goto(r, step) == pc' = [pc EXCEPT ![r] = step]

(* A request arrives; requests are interchangeable and take their names in   *)
(* order of arrival.                                                         *)
Admit(r) ==
    /\ pc[r] = "idle"
    /\ r = CHOOSE q \in Requests : pc[q] = "idle"
    /\ Cardinality({q \in Requests : pc[q] \in InFlight}) < MaxConcurrent

(* AuditLogRepository.record: one INSERT, committed at once. *)
Record(r, action, u) ==
    audit' = audit \cup {[request |-> r, action |-> action, user |-> u]}

(* create_access_token: exp is rounded down to a whole second. *)
CreateAccessToken(u) ==
    access' = access \cup {[sub |-> u, made |-> now, exp |-> (now + Ttl * Second) \div Second]}

(* decode_access_token: PyJWT refuses a token from its exp on. *)
DecodesAtExpiry(a) == now <= a.exp * Second  \* mutant: one instant too late
Decodes(a) == now < a.exp * Second

-----------------------------------------------------------------------------
(* POST /v1/auth/register *)

Register(r, e, p) ==
    /\ Admit(r)
    /\ email' = [email EXCEPT ![r] = e]
    /\ password' = [password EXCEPT ![r] = p]
    /\ Goto(r, "create_user")
    /\ UNCHANGED <<users, sessions, access, audit, now, user, token, before>>

(* From its query on a request works with the lower-case address. *)
Normalize(r) == email' = [email EXCEPT ![r] = Lower(email[r])]

(* The row create_user adds for request r. *)
NewRow(r, e) == [email |-> e, password_hash |-> HashPassword(r, password[r]),
                 is_active |-> TRUE, last_login |-> NULL]

Insert(r, u, e) ==
    /\ ~Stored(u)
    /\ u = CHOOSE v \in UserIds : ~Stored(v)
    /\ users' = [users EXCEPT ![u] = NewRow(r, e)]
    /\ user' = [user EXCEPT ![r] = u]

(* Mutants: the address is stored as typed; nothing is recorded. *)
CreateUserAsTyped(r, u) ==
    /\ pc[r] = "create_user"
    /\ WithEmail(email[r]) = {}
    /\ Insert(r, u, email[r])
    /\ Goto(r, "registered")
    /\ Normalize(r)
    /\ UNCHANGED <<sessions, access, audit, now, params>>
CreateUserUnrecorded(r, u) ==
    /\ pc[r] = "create_user"
    /\ WithEmail(Lower(email[r])) = {}
    /\ Insert(r, u, Lower(email[r]))
    /\ Goto(r, "created")
    /\ Normalize(r)
    /\ UNCHANGED <<sessions, access, audit, now, params>>

(* UserRepository.create_user: INSERT and COMMIT. *)
CreateUser(r, u) ==
    /\ pc[r] = "create_user"
    /\ WithEmail(Lower(email[r])) = {}
    /\ Insert(r, u, Lower(email[r]))
    /\ Goto(r, "registered")
    /\ Normalize(r)
    /\ UNCHANGED <<sessions, access, audit, now, params>>

(* Mutant: INSERT ... ON CONFLICT DO UPDATE. *)
CreateUserOverwrite(r) ==
    /\ pc[r] = "create_user"
    /\ \E u \in WithEmail(Lower(email[r])) :
          users' = [users EXCEPT ![u].password_hash = HashPassword(r, password[r])]
    /\ Goto(r, "duplicate")
    /\ Normalize(r)
    /\ UNCHANGED <<sessions, access, audit, now, params, user>>

(* The unique index refuses the row: IntegrityError, ROLLBACK. *)
CreateUserDuplicate(r) ==
    /\ pc[r] = "create_user"
    /\ WithEmail(Lower(email[r])) # {}
    /\ Goto(r, "duplicate")
    /\ Normalize(r)
    /\ UNCHANGED <<users, sessions, access, audit, now, params, user>>

(* USER_REGISTERED, then 201. *)
RecordRegistered(r) ==
    /\ pc[r] = "registered"
    /\ Record(r, "USER_REGISTERED", user[r])
    /\ Goto(r, "created")
    /\ UNCHANGED <<users, sessions, access, now, email, params, user>>

(* USER_REGISTRATION_FAILED, then 409. *)
RecordDuplicate(r) ==
    /\ pc[r] = "duplicate"
    /\ Record(r, "USER_REGISTRATION_FAILED", NULL)
    /\ Goto(r, "conflict")
    /\ UNCHANGED <<users, sessions, access, now, email, params, user>>

-----------------------------------------------------------------------------
(* POST /v1/auth/login *)

Login(r, e, p) ==
    /\ Admit(r)
    /\ email' = [email EXCEPT ![r] = e]
    /\ password' = [password EXCEPT ![r] = p]
    /\ before' = [before EXCEPT ![r] = {q \in Requests : pc[q] = "created"}]
    /\ Goto(r, "get_by_email")
    /\ UNCHANGED <<users, sessions, access, audit, now, user, token>>

(* The checks of login on the rows found, up to the next await. *)
CheckCredentials(r, found) ==
    \/ found = {} /\ Goto(r, "login_failed") /\ UNCHANGED user
    \/ \E u \in found :
         /\ user' = [user EXCEPT ![r] = u]
         /\ \/ ~users[u].is_active /\ Goto(r, "login_inactive")
            \/ /\ users[u].is_active /\ ~VerifyPassword(password[r], users[u].password_hash)
               /\ Goto(r, "login_failed")
            \/ /\ users[u].is_active /\ VerifyPassword(password[r], users[u].password_hash)
               /\ Goto(r, "update_last_login")

(* Mutant: the address is looked up as typed. *)
GetByEmailAsTyped(r) ==
    /\ pc[r] = "get_by_email"
    /\ CheckCredentials(r, WithEmail(email[r]))
    /\ Normalize(r)
    /\ UNCHANGED <<users, sessions, access, audit, now, params>>

(* UserRepository.get_by_email. *)
GetByEmail(r) ==
    /\ pc[r] = "get_by_email"
    /\ CheckCredentials(r, WithEmail(Lower(email[r])))
    /\ Normalize(r)
    /\ UNCHANGED <<users, sessions, access, audit, now, params>>

(* USER_LOGIN_FAILED, then 401 or 403. *)
RecordLoginFailed(r) ==
    /\ \/ pc[r] = "login_failed" /\ Goto(r, "unauthorized")
       \/ pc[r] = "login_inactive" /\ Goto(r, "inactive")
    /\ Record(r, "USER_LOGIN_FAILED", user[r])
    /\ UNCHANGED <<users, sessions, access, now, email, params, user>>

(* UserRepository.update_last_login: UPDATE of this column, and COMMIT. *)
UpdateLastLogin(r) ==
    /\ pc[r] = "update_last_login"
    /\ users' = [users EXCEPT ![user[r]].last_login = r]
    /\ Goto(r, "login_succeeded")
    /\ UNCHANGED <<sessions, access, audit, now, email, params, user>>

RecordLoginSucceeded(r) ==
    /\ pc[r] = "login_succeeded"
    /\ Record(r, "USER_LOGIN_SUCCEEDED", user[r])
    /\ Goto(r, "issue")
    /\ UNCHANGED <<users, sessions, access, now, email, params, user>>

(* A new row gets an id no row has; ids are interchangeable. *)
Fresh(t) == t \notin used /\ t = CHOOSE x \in Tokens : x \notin used

(* _issue_token_pair: the access token is signed, the refresh token stored.  *)
(* (A token signed but never delivered is harmless; here it may be used.)    *)
IssueTokenPair(r, t) ==
    /\ pc[r] = "issue"
    /\ Fresh(t)
    /\ Families!Open(t, user[r])
    /\ CreateAccessToken(user[r])
    /\ Goto(r, "tokens")
    /\ UNCHANGED <<users, audit, now, email, params, user>>

-----------------------------------------------------------------------------
(* POST /v1/auth/refresh, as far as TokenFamilies tells: a token that is not *)
(* the current one of its session is not exchanged.  The audit rows of       *)
(* refresh are those of RefreshTokens.                                       *)

Refresh(r, t) ==
    /\ Admit(r)
    /\ token' = [token EXCEPT ![r] = t]
    /\ Goto(r, "get_by_hash")
    /\ UNCHANGED <<users, sessions, access, audit, now, user, email, password, before>>

(* The token presented is the live one of session s. *)
Exchangeable(r, s) == current[s] # NULL /\ current[s] = token[r]

(* get_by_hash, then revoked_at and expires_at; any token may have expired.  *)
GetByHash(r) ==
    /\ pc[r] = "get_by_hash"
    /\ \/ \E s \in Tokens :
            /\ Exchangeable(r, s)
            /\ user' = [user EXCEPT ![r] = session_owner[s]]
            /\ Goto(r, "get_owner")
       \/ Goto(r, "reject") /\ UNCHANGED user
    /\ UNCHANGED <<users, sessions, access, audit, now, email, params>>

(* UserRepository.get_by_id of the owner, then is_active. *)
GetOwner(r) ==
    /\ pc[r] = "get_owner"
    /\ Goto(r, IF users[user[r]].is_active THEN "rotate" ELSE "reject")
    /\ UNCHANGED <<users, sessions, access, audit, now, email, params, user>>

(* create_rotation_pair, unless the token was exchanged or revoked since. *)
CreateRotationPair(r) ==
    /\ pc[r] = "rotate"
    /\ \/ \E s, t \in Tokens : /\ Exchangeable(r, s) /\ Fresh(t)
                               /\ Families!Rotate(s, t)
                               /\ Goto(r, "rotated")
       \/ /\ \A s \in Tokens : ~Exchangeable(r, s)
          /\ Goto(r, "reject") /\ UNCHANGED sessions
    /\ UNCHANGED <<users, access, audit, now, email, params, user>>

(* REFRESH_TOKEN_ROTATED; the access token is signed after its commit. *)
RecordRotated(r) ==
    /\ pc[r] = "rotated"
    /\ CreateAccessToken(user[r])
    /\ Goto(r, "tokens")
    /\ UNCHANGED <<users, sessions, audit, now, email, params, user>>

(* The audit row of a rejection, then 401. *)
RecordRejected(r) ==
    /\ pc[r] = "reject"
    /\ Goto(r, "rejected")
    /\ UNCHANGED <<users, sessions, access, audit, now, email, params, user>>

-----------------------------------------------------------------------------
(* A request with an access token: get_current_user *)

GetCurrentUser(r, a) ==
    /\ Admit(r)
    /\ \/ /\ Decodes(a) /\ Stored(a.sub)
          /\ user' = [user EXCEPT ![r] = a.sub]
          /\ Goto(r, "served")
       \/ /\ ~(Decodes(a) /\ Stored(a.sub))
          /\ Goto(r, "invalid_token") /\ UNCHANGED user
    /\ UNCHANGED <<users, sessions, access, audit, now, email, params>>

-----------------------------------------------------------------------------
(* The rest of the world *)

(* The client goes away or the process stops. *)
Abort(r) ==
    /\ pc[r] \in InFlight
    /\ Cardinality({q \in Requests : pc[q] = "aborted"}) < MaxAborts
    /\ Goto(r, "aborted")
    /\ UNCHANGED <<users, sessions, access, audit, now, email, params, user>>

(* logout, or the detection of a replayed token, at the commit that revokes. *)
CloseSession(s) ==
    /\ Families!Close(s)
    /\ UNCHANGED <<users, access, audit, now, pc, email, params, user>>

(* An operator clears users.is_active. *)
Deactivate(u) ==
    /\ Stored(u) /\ users[u].is_active
    /\ users' = [users EXCEPT ![u].is_active = FALSE]
    /\ UNCHANGED <<sessions, access, audit, now, pc, email, params, user>>

(* The clock matters only once there is an access token. *)
Tick ==
    /\ access # {}
    /\ now < MaxTime
    /\ now' = now + 1
    /\ UNCHANGED <<users, sessions, access, audit, pc, email, params, user>>

-----------------------------------------------------------------------------
Arrive(r) ==
    \/ \E e \in Emails, p \in Passwords : Register(r, e, p) \/ Login(r, e, p)
    \/ \E t \in used : Refresh(r, t)
    \/ \E a \in access : GetCurrentUser(r, a)

Step(r) ==
    \/ \E u \in UserIds : CreateUser(r, u)
    \/ CreateUserDuplicate(r) \/ RecordRegistered(r) \/ RecordDuplicate(r)
    \/ GetByEmail(r) \/ RecordLoginFailed(r) \/ UpdateLastLogin(r)
    \/ RecordLoginSucceeded(r)
    \/ \E t \in Tokens : IssueTokenPair(r, t)
    \/ GetByHash(r) \/ GetOwner(r) \/ CreateRotationPair(r)
    \/ RecordRotated(r) \/ RecordRejected(r)

World ==
    \/ \E s \in Tokens : CloseSession(s)
    \/ \E u \in UserIds : Deactivate(u)
    \/ Tick

(* Every request has been answered. *)
AllServed ==
    /\ \A r \in Requests : pc[r] \in Answers
    /\ UNCHANGED vars

Next == (\E r \in Requests : Arrive(r) \/ Step(r) \/ Abort(r)) \/ World \/ AllServed

Spec == Init /\ [][Next]_vars

-----------------------------------------------------------------------------
(* Properties *)

(* However two registrations of an address interleave and spell it, one row  *)
(* comes of them: create_user lowers the address and the unique index sees   *)
(* every pair.                                                               *)
OneAccountPerAddress ==
    \A u, v \in UserIds :
        Stored(u) /\ Stored(v) /\ Lower(users[u].email) = Lower(users[v].email) => u = v

(* The request that inserted row u. *)
Creator(u) == users[u].password_hash.salt

(* The log and the rows agree about registrations.  Every row was recorded   *)
(* by the request that inserted it, or will be, or that request was cut off  *)
(* between its two commits; every USER_REGISTERED row is about a row of its  *)
(* own request, and every USER_REGISTRATION_FAILED row about an address that *)
(* another request had taken.                                                *)
RegistrationAccounted ==
    /\ \A u \in UserIds : Stored(u) =>
         LET r == Creator(u) IN
         \/ [request |-> r, action |-> "USER_REGISTERED", user |-> u] \in audit
         \/ pc[r] = "registered" /\ user[r] = u
         \/ pc[r] = "aborted"
    /\ \A e \in audit :
         /\ e.action = "USER_REGISTERED" =>
              e.user # NULL /\ Stored(e.user) /\ Creator(e.user) = e.request
         /\ e.action = "USER_REGISTRATION_FAILED" =>
              \E u \in WithEmail(Lower(email[e.request])) : Creator(u) # e.request

(* Who was answered 201 and then logs in with the same password, in any      *)
(* spelling of the address, is not answered 401, whatever other              *)
(* registrations, retries and logins of the address run.                     *)
RegisteredCanLogin ==
    \A r \in Requests : pc[r] = "unauthorized" =>
        \A q \in before[r] : ~(Lower(email[q]) = Lower(email[r]) /\ password[q] = password[r])

(* Somebody has logged in to account u with the address and the password it  *)
(* was registered with, and that login is on record.                         *)
Authenticated(u) ==
    /\ u # NULL /\ Stored(u)
    /\ \E r \in Requests :
         /\ [request |-> r, action |-> "USER_LOGIN_SUCCEEDED", user |-> u] \in audit
         /\ Lower(email[r]) = users[u].email
         /\ users[u].password_hash.digest = password[r]

(* No request is served as a user, with an access token from a login or from *)
(* any number of refreshes, unless the password of that user's registration  *)
(* was presented and the login recorded before.                              *)
ServedAsRegistrant == \A r \in Requests : pc[r] = "served" => Authenticated(user[r])

(* The rounding of exp never lengthens the life of an access token beyond    *)
(* the expires_in its client was told, and shortens it by less than a second.*)
TokenLifetime ==
    \A a \in access :
        /\ Decodes(a) => now < a.made + Ttl * Second
        /\ now + Second <= a.made + Ttl * Second => Decodes(a)

(* The rows and the log seen as a directory. *)
Rowed == {u \in UserIds : Stored(u)}
Registered == {[address |-> users[u].email.address,
                password |-> users[u].password_hash.digest] : u \in Rowed}
Closed == {users[u].email.address : u \in {v \in Rowed : ~users[v].is_active}}
Succeeded == {e \in audit : e.action = "USER_LOGIN_SUCCEEDED"}
Admitted == {[address |-> email[e.request].address,
              password |-> password[e.request]] : e \in Succeeded}

Directory == INSTANCE AccountDirectory WITH
    accounts <- Registered, closed <- Closed, admitted <- Admitted

(* Registration and login, interleaved as they are, implement a directory in *)
(* which an address belongs to who registered it first, with that password,  *)
(* and only who knows it is admitted.                                        *)
ImplementsDirectory == Directory!Spec

-----------------------------------------------------------------------------
(* The inductive invariant *)

(* Request r has inserted row u, with its own address and password. *)
Inserted(r, u) ==
    /\ u # NULL /\ Stored(u)
    /\ email[r] # NULL /\ users[u].email = Lower(email[r])
    /\ users[u].password_hash = HashPassword(r, password[r])

(* A row is in lower case, the only one of its address, and remembered by    *)
(* the request that inserted it.                                             *)
RowsOK ==
    /\ \A u, v \in UserIds : Stored(u) /\ Stored(v) /\ users[u].email = users[v].email => u = v
    /\ \A u \in UserIds : Stored(u) =>
         /\ Inserted(Creator(u), u)
         /\ user[Creator(u)] = u
         /\ pc[Creator(u)] \in {"registered", "created", "aborted"}

(* What a request knows at each statement: the addresses and hashes it read  *)
(* do not change any more.                                                   *)
RequestOK(r) ==
    /\ pc[r] \in {"create_user", "registered", "duplicate", "created", "conflict"}
         => email[r] # NULL /\ password[r] # NULL
    /\ pc[r] \in {"get_by_email", "login_failed", "login_inactive", "unauthorized", "inactive",
                  "update_last_login", "login_succeeded", "issue"}
         => email[r] # NULL /\ password[r] # NULL
    /\ pc[r] \in {"registered", "created"} => Inserted(r, user[r])
    /\ pc[r] = "created" =>
         [request |-> r, action |-> "USER_REGISTERED", user |-> user[r]] \in audit
    /\ pc[r] = "duplicate" => \E u \in WithEmail(Lower(email[r])) : Creator(u) # r
    /\ pc[r] \in {"update_last_login", "login_succeeded", "issue"} =>
         /\ user[r] # NULL /\ Stored(user[r])
         /\ users[user[r]].email = Lower(email[r])
         /\ users[user[r]].password_hash.digest = password[r]
    /\ pc[r] \in {"issue", "get_owner", "rotate", "rotated", "served"} => Authenticated(user[r])
    /\ \A q \in before[r] : pc[q] = "created"
    /\ pc[r] \in {"login_failed", "unauthorized"} =>
         \A q \in before[r] : ~(Lower(email[q]) = Lower(email[r]) /\ password[q] = password[r])

(* Every session and every access token goes back to a login on record. *)
TokensOK ==
    /\ \A s \in Tokens : session_owner[s] # NULL => Authenticated(session_owner[s])
    /\ \A s \in Tokens : current[s] # NULL => session_owner[s] # NULL
    /\ \A a \in access : Authenticated(a.sub)

(* The log tells the truth, and about requests that have an address. *)
LogOK ==
    \A e \in audit :
        /\ pc[e.request] \notin {"idle", "create_user", "get_by_email"}
        /\ e.action \in {"USER_REGISTERED", "USER_REGISTRATION_FAILED", "USER_LOGIN_SUCCEEDED"}
             => email[e.request] # NULL /\ password[e.request] # NULL
        /\ e.action = "USER_LOGIN_SUCCEEDED" =>
             /\ e.user # NULL /\ Stored(e.user)
             /\ users[e.user].email = Lower(email[e.request])
             /\ users[e.user].password_hash.digest = password[e.request]

(* Why accounts keep the properties above. *)
AccountInv ==
    /\ TypeOK /\ RowsOK /\ TokensOK /\ LogOK /\ RegistrationAccounted
    /\ \A r \in Requests : RequestOK(r)
=============================================================================
