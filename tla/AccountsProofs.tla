--------------------------- MODULE AccountsProofs ----------------------------
(***************************************************************************)
(* Proofs about Accounts for any addresses, passwords, requests and tokens.*)
(* The inductive invariant is AccountInv.  It is preserved because what    *)
(* requests rely on only grows: a row keeps its address and its hash, the  *)
(* log keeps its rows, and a request that has arrived keeps its parameters *)
(* (Grow).  So the facts that requests and tokens rest on survive the      *)
(* steps of others (AuthenticatedStable, OthersKeep), and only the request *)
(* that moves has to be examined.                                          *)
(***************************************************************************)
EXTENDS Accounts, TLAPS

(* The statements before which a request has written nothing. *)
Early == {"idle", "create_user", "get_by_email"}

(* The statements and answers of a request after it inserted a row. *)
Late == {"registered", "created", "aborted"}

(* What no step takes back: a row keeps its address and hash, the log its    *)
(* rows, a request that has arrived its parameters, up to the case of        *)
(* letters, and one that is answered or has registered the user it found.    *)
Grow ==
    /\ \A u \in UserIds : Stored(u) =>
         /\ users'[u] # NULL /\ users'[u].email = users[u].email
         /\ users'[u].password_hash = users[u].password_hash
    /\ audit \subseteq audit'
    /\ \A q \in Requests : pc[q] # "idle" =>
         /\ password'[q] = password[q] /\ before'[q] = before[q]
         /\ Lower(email'[q]) = Lower(email[q])
         /\ email[q] # NULL => email'[q] # NULL
    /\ \A q \in Requests : pc[q] \notin Early => pc'[q] \notin Early
    /\ \A q \in Requests : pc[q] \in Answers => pc'[q] = pc[q]
    /\ \A q \in Requests : pc[q] \in Late => pc'[q] \in Late /\ user'[q] = user[q]

NoNewRow == \A u \in UserIds : users'[u] # NULL => users[u] # NULL

(* Request q does not move. *)
Same(q) ==
    /\ pc'[q] = pc[q] /\ user'[q] = user[q] /\ email'[q] = email[q]
    /\ password'[q] = password[q] /\ before'[q] = before[q]

(* What LogOK and RegistrationAccounted say of one row of the log. *)
EventOK(e) ==
    /\ pc[e.request] \notin Early
    /\ e.action \in {"USER_REGISTERED", "USER_REGISTRATION_FAILED", "USER_LOGIN_SUCCEEDED"}
         => email[e.request] # NULL /\ password[e.request] # NULL
    /\ e.action = "USER_LOGIN_SUCCEEDED" =>
         /\ e.user # NULL /\ Stored(e.user)
         /\ users[e.user].email = Lower(email[e.request])
         /\ users[e.user].password_hash.digest = password[e.request]
    /\ e.action = "USER_REGISTERED" =>
         e.user # NULL /\ Stored(e.user) /\ Creator(e.user) = e.request
    /\ e.action = "USER_REGISTRATION_FAILED" =>
         \E u \in WithEmail(Lower(email[e.request])) : Creator(u) # e.request

(* Lowering an address twice is lowering it once. *)
LEMMA LowerFacts ==
    ASSUME NEW e \in Emails
    PROVE  Lower(e) \in Emails /\ Lower(Lower(e)) = Lower(e) /\ Lower(e).address = e.address
BY DEF Emails, Lower

(* Types of what the steps of a request read. *)
LEMMA LocalTypes ==
    ASSUME TypeOK
    PROVE  /\ \A u \in UserIds : Stored(u) => users[u] \in Rows
           /\ \A r \in Requests : email[r] # NULL => email[r] \in Emails
           /\ \A r \in Requests : password[r] # NULL => password[r] \in Passwords
           /\ \A r \in Requests : user[r] # NULL => user[r] \in UserIds
BY DEF TypeOK, Stored, OrNull

-----------------------------------------------------------------------------
(* Types *)

(* An event to be recorded is an event. *)
LEMMA RecordType ==
    ASSUME TypeOK, NEW r \in Requests, NEW action \in Actions, NEW u \in OrNull(UserIds),
           Record(r, action, u)
    PROVE  audit' \subseteq Events
BY DEF TypeOK, Record, Events

(* A signed access token has a subject and an expiry. *)
LEMMA AccessType ==
    ASSUME TypeOK, NEW u \in UserIds, CreateAccessToken(u)
    PROVE  access' \subseteq AccessTokens
<1>1. now + Ttl * Second \in Nat /\ Second \in Nat \ {0}
  BY AccountBoundAssumption DEF TypeOK
<1>2. (now + Ttl * Second) \div Second \in Nat BY <1>1
<1> QED BY <1>2 DEF TypeOK, CreateAccessToken, AccessTokens
-----------------------------------------------------------------------------
(* What survives every step *)

(* A login on record stays the login of its account. *)
LEMMA AuthenticatedStable ==
    ASSUME AccountInv, Grow, NEW u \in OrNull(UserIds), Authenticated(u)
    PROVE  Authenticated(u)'
<1>1. u \in UserIds /\ Stored(u) BY DEF Authenticated, OrNull
<1>2. PICK r \in Requests :
         /\ [request |-> r, action |-> "USER_LOGIN_SUCCEEDED", user |-> u] \in audit
         /\ Lower(email[r]) = users[u].email
         /\ users[u].password_hash.digest = password[r]
  BY DEF Authenticated
<1> DEFINE e == [request |-> r, action |-> "USER_LOGIN_SUCCEEDED", user |-> u]
<1>3. pc[r] # "idle"
  <2>1. e \in audit /\ e.request = r BY <1>2
  <2>2. pc[e.request] # "idle" BY <2>1 DEF AccountInv, LogOK
  <2> QED BY <2>1, <2>2
<1>4. Lower(email'[r]) = users'[u].email /\ users'[u].password_hash.digest = password'[r]
  BY <1>1, <1>2, <1>3 DEF Grow
<1>5. e \in audit' BY <1>2 DEF Grow
<1>6. u # NULL /\ Stored(u)' BY <1>1 DEF Authenticated, Grow, Stored
<1> QED BY <1>4, <1>5, <1>6 DEF Authenticated

(* A row that a request inserted stays what it was. *)
LEMMA InsertedStable ==
    ASSUME AccountInv, Grow, NEW r \in Requests, NEW u \in UserIds, Inserted(r, u), pc[r] # "idle"
    PROVE  Inserted(r, u)'
BY DEF Inserted, Grow, Stored, HashPassword

(* The log goes on telling the truth about what it has. *)
LEMMA EventStable ==
    ASSUME AccountInv, Grow, NEW e \in audit
    PROVE  EventOK(e)'
<1>1. e \in Events /\ e.request \in Requests /\ e.user \in OrNull(UserIds)
  BY DEF AccountInv, TypeOK, Events
<1>2. EventOK(e) BY DEF AccountInv, LogOK, RegistrationAccounted, EventOK, Early
<1>3. pc[e.request] # "idle" BY <1>2 DEF EventOK, Early
<1>4. pc'[e.request] \notin Early BY <1>1, <1>2 DEF EventOK, Grow
<1>5. e.user # NULL => e.user \in UserIds BY <1>1 DEF OrNull
<1>6. /\ password'[e.request] = password[e.request]
      /\ Lower(email'[e.request]) = Lower(email[e.request])
      /\ email[e.request] # NULL => email'[e.request] # NULL
  BY <1>1, <1>3 DEF Grow
<1>7. e.user # NULL /\ Stored(e.user) =>
         /\ users'[e.user] # NULL /\ users'[e.user].email = users[e.user].email
         /\ users'[e.user].password_hash = users[e.user].password_hash
  BY <1>5 DEF Grow
<1>8. ASSUME e.action = "USER_REGISTRATION_FAILED"
      PROVE  \E u \in WithEmail(Lower(email[e.request]))' : Creator(u)' # e.request
  <2>1. PICK u \in WithEmail(Lower(email[e.request])) : Creator(u) # e.request
    BY <1>2, <1>8 DEF EventOK
  <2>2. u \in UserIds /\ Stored(u) /\ users[u].email = Lower(email[e.request])
    BY <2>1 DEF WithEmail
  <2>3. u \in WithEmail(Lower(email[e.request]))' /\ Creator(u)' # e.request
    BY <1>6, <2>1, <2>2 DEF Grow, WithEmail, Stored, Creator
  <2> QED BY <2>3
<1> QED BY <1>2, <1>4, <1>6, <1>7, <1>8 DEF EventOK, Stored, Creator

(* A request that does not move goes on knowing what it knew. *)
LEMMA OthersKeep ==
    ASSUME AccountInv, Grow, NEW q \in Requests, Same(q)
    PROVE  RequestOK(q)'
<1>1. RequestOK(q) BY DEF AccountInv
<1>2. user[q] \in OrNull(UserIds) /\ before[q] \subseteq Requests
  BY DEF AccountInv, TypeOK
<1>3. user[q] # NULL => user[q] \in UserIds BY <1>2 DEF OrNull
<1>4. pc[q] \in {"registered", "created"} => Inserted(q, user[q])'
  <2> SUFFICES ASSUME pc[q] \in {"registered", "created"} PROVE Inserted(q, user[q])'
    OBVIOUS
  <2>1. Inserted(q, user[q]) BY <1>1 DEF RequestOK
  <2>2. user[q] \in UserIds BY <1>3, <2>1 DEF Inserted
  <2>3. Inserted(q, user[q]) /\ user'[q] = user[q] BY <2>1 DEF Same
  <2> QED BY <2>2, <2>3 DEF Inserted, Grow, Stored, HashPassword
<1>5. pc[q] = "duplicate" => \E u \in WithEmail(Lower(email[q]))' : Creator(u)' # q
  <2> SUFFICES ASSUME pc[q] = "duplicate"
               PROVE  \E u \in WithEmail(Lower(email[q]))' : Creator(u)' # q
    OBVIOUS
  <2>1. PICK u \in WithEmail(Lower(email[q])) : Creator(u) # q BY <1>1 DEF RequestOK
  <2>2. u \in WithEmail(Lower(email[q]))' /\ Creator(u)' # q
    BY <2>1 DEF Same, Grow, WithEmail, Stored, Creator
  <2> QED BY <2>2
<1>6. pc[q] \in {"issue", "get_owner", "rotate", "rotated", "served"} => Authenticated(user[q])'
  <2> SUFFICES ASSUME pc[q] \in {"issue", "get_owner", "rotate", "rotated", "served"}
               PROVE  Authenticated(user[q])'
    OBVIOUS
  <2>1. PICK w \in OrNull(UserIds) : w = user[q] BY <1>2
  <2>2. Authenticated(w) BY <1>1, <2>1 DEF RequestOK
  <2>3. Authenticated(w)' BY <2>2, AuthenticatedStable
  <2>4. user'[q] = w BY <2>1 DEF Same
  <2> QED BY <2>3, <2>4 DEF Authenticated
<1>7. \A x \in before[q] : /\ pc'[x] = "created"
                          /\ password'[x] = password[x] /\ Lower(email'[x]) = Lower(email[x])
  <2> SUFFICES ASSUME NEW x \in before[q]
               PROVE  /\ pc'[x] = "created"
                      /\ password'[x] = password[x] /\ Lower(email'[x]) = Lower(email[x])
    OBVIOUS
  <2>1. x \in Requests /\ pc[x] = "created" BY <1>1, <1>2 DEF RequestOK
  <2> QED BY <2>1 DEF Grow, Answers
<1>8. pc[q] \in {"update_last_login", "login_succeeded", "issue"} =>
         /\ user'[q] # NULL /\ Stored(user[q])'
         /\ users'[user'[q]].email = Lower(email'[q])
         /\ users'[user'[q]].password_hash.digest = password'[q]
  BY <1>1, <1>3 DEF RequestOK, Same, Grow, Stored
<1>9. pc[q] = "created" =>
         [request |-> q, action |-> "USER_REGISTERED", user |-> user'[q]] \in audit'
  BY <1>1 DEF RequestOK, Same, Grow
<1> QED BY <1>1, <1>4, <1>5, <1>6, <1>7, <1>8, <1>9 DEF RequestOK, Same

(* A row stays as it is, and remembered by who inserted it. *)
LEMMA RowKept ==
    ASSUME AccountInv, Grow, NEW u \in UserIds, Stored(u)
    PROVE  /\ Stored(u)' /\ users'[u].email = users[u].email
           /\ Inserted(Creator(u), u)'
           /\ user'[Creator(u)'] = u
           /\ pc'[Creator(u)'] \in {"registered", "created", "aborted"}
<1>1. users[u] \in Rows BY LocalTypes DEF AccountInv
<1>2. PICK q \in Requests : q = Creator(u) BY <1>1 DEF Rows, Hashes, Creator
<1>3. Inserted(q, u) /\ user[q] = u /\ pc[q] \in Late BY <1>2 DEF AccountInv, RowsOK, Late
<1>4. pc[q] # "idle" BY <1>3 DEF Late
<1>5. Inserted(q, u)' BY <1>3, <1>4, InsertedStable
<1>6. user'[q] = u /\ pc'[q] \in Late BY <1>3 DEF Grow
<1>7. Stored(u)' /\ Creator(u)' = q /\ users'[u].email = users[u].email
  BY <1>2 DEF Grow, Creator, Stored
<1> QED BY <1>5, <1>6, <1>7 DEF Late, Inserted

(* Rows stay unique when none is added. *)
LEMMA RowsKept ==
    ASSUME AccountInv, Grow, NoNewRow
    PROVE  RowsOK'
<1>1. \A u \in UserIds : Stored(u)' => Stored(u) BY DEF NoNewRow, Stored
<1>2. \A u \in UserIds : Stored(u) =>
         /\ Stored(u)' /\ users'[u].email = users[u].email
         /\ Inserted(Creator(u), u)'
         /\ user'[Creator(u)'] = u
         /\ pc'[Creator(u)'] \in {"registered", "created", "aborted"}
  BY RowKept
<1>3. \A u, v \in UserIds : (Stored(u) /\ Stored(v) /\ users[u].email = users[v].email)' => u = v
  BY <1>1, <1>2 DEF AccountInv, RowsOK
<1> QED BY <1>1, <1>2, <1>3 DEF RowsOK

(* Sessions and access tokens that a step leaves alone. *)
LEMMA TokensKept ==
    ASSUME AccountInv, Grow, UNCHANGED <<sessions, access>>
    PROVE  TokensOK'
<1>1. UNCHANGED <<session_owner, current, access>> BY DEF sessions
<1>2. \A w \in OrNull(UserIds) : Authenticated(w) => Authenticated(w)' BY AuthenticatedStable
<1>3. /\ \A s \in Tokens : session_owner[s] \in OrNull(UserIds)
      /\ \A a \in access : a.sub \in OrNull(UserIds)
  BY DEF AccountInv, TypeOK, Families!TypeOK, AccessTokens, OrNull
<1>4. ASSUME NEW s \in Tokens, session_owner'[s] # NULL PROVE Authenticated(session_owner[s])'
  <2>1. PICK w \in OrNull(UserIds) : w = session_owner[s] BY <1>3
  <2>2. Authenticated(w) BY <1>1, <1>4, <2>1 DEF AccountInv, TokensOK
  <2>3. Authenticated(w)' BY <1>2, <2>2
  <2> QED BY <1>1, <2>1, <2>3 DEF Authenticated
<1>5. ASSUME NEW a \in access PROVE Authenticated(a.sub)'
  <2>1. PICK w \in OrNull(UserIds) : w = a.sub BY <1>3
  <2>2. Authenticated(w) BY <2>1 DEF AccountInv, TokensOK
  <2>3. Authenticated(w)' BY <1>2, <2>2
  <2> QED BY <2>1, <2>3
<1> QED BY <1>1, <1>4, <1>5 DEF AccountInv, TokensOK

(* What is left to show of a step once it is known to take nothing back. *)
LEMMA Preserve ==
    ASSUME AccountInv, TypeOK', Grow, RowsOK', TokensOK',
           \A q \in Requests : Same(q) \/ RequestOK(q)',
           \A e \in audit' : e \in audit \/ EventOK(e)'
    PROVE  AccountInv'
<1>1. \A q \in Requests : RequestOK(q)' BY OthersKeep
<1>2. \A e \in audit' : EventOK(e)' BY EventStable
<1>3. LogOK' BY <1>2 DEF EventOK, LogOK, Early
<1>4. \A u \in UserIds : Stored(u)' =>
         \/ [request |-> Creator(u)', action |-> "USER_REGISTERED", user |-> u] \in audit'
         \/ pc'[Creator(u)'] = "registered" /\ user'[Creator(u)'] = u
         \/ pc'[Creator(u)'] = "aborted"
  <2> SUFFICES ASSUME NEW u \in UserIds, Stored(u)'
               PROVE  \/ [request |-> Creator(u)', action |-> "USER_REGISTERED", user |-> u] \in audit'
                      \/ pc'[Creator(u)'] = "registered" /\ user'[Creator(u)'] = u
                      \/ pc'[Creator(u)'] = "aborted"
    OBVIOUS
  <2>1. users'[u] \in Rows /\ users'[u] # NULL BY DEF TypeOK, Stored, OrNull
  <2>2. PICK r \in Requests : r = Creator(u)' BY <2>1 DEF Rows, Hashes, Creator
  <2>3. user'[r] = u /\ pc'[r] \in {"registered", "created", "aborted"} BY <2>2 DEF RowsOK
  <2>4. pc'[r] = "created" => [request |-> r, action |-> "USER_REGISTERED", user |-> u] \in audit'
    BY <1>1, <2>3 DEF RequestOK
  <2> QED BY <2>2, <2>3, <2>4
<1>5. RegistrationAccounted' BY <1>2, <1>4 DEF EventOK, RegistrationAccounted
<1> QED BY <1>1, <1>3, <1>5 DEF AccountInv

(* Most steps write neither rows nor tokens. *)
LEMMA QuietStep ==
    ASSUME AccountInv, TypeOK', Grow, UNCHANGED <<users, sessions, access>>,
           NEW r \in Requests, \A q \in Requests \ {r} : Same(q), RequestOK(r)',
           \A e \in audit' : e \in audit \/ EventOK(e)'
    PROVE  AccountInv'
<1>1. RowsOK' BY RowsKept DEF NoNewRow
<1>2. TokensOK' BY TokensKept
<1> QED BY <1>1, <1>2, Preserve

-----------------------------------------------------------------------------
(* One lemma per statement *)

(* Register keeps the invariant. *)
LEMMA RegisterStep ==
    ASSUME AccountInv, NEW r \in Requests, NEW e \in Emails, NEW p \in Passwords,
           Register(r, e, p)
    PROVE  AccountInv' /\ Grow
<1> USE DEF Register, Goto, Admit, sessions, params
<1>1. TypeOK' BY DEF AccountInv, TypeOK, InFlight, OrNull, Families!TypeOK
<1>2. Grow BY DEF AccountInv, TypeOK, Grow, Early, Late, Answers, Stored
<1>3. \A q \in Requests \ {r} : Same(q) BY DEF AccountInv, TypeOK, Same
<1>4. RequestOK(r)'
  <2>1. pc'[r] = "create_user" /\ email'[r] = e /\ password'[r] = p BY DEF AccountInv, TypeOK
  <2>2. e # NULL /\ p # NULL BY AccountNullAssumption
  <2>3. \A q \in before[r] : q \in Requests /\ pc[q] = "created"
    BY DEF AccountInv, TypeOK, RequestOK
  <2>4. \A q \in before'[r] : pc'[q] = "created" BY <2>3 DEF AccountInv, TypeOK
  <2> QED BY <2>1, <2>2, <2>4 DEF RequestOK
<1> QED BY <1>1, <1>2, <1>3, <1>4, QuietStep

(* Login keeps the invariant. *)
LEMMA LoginStep ==
    ASSUME AccountInv, NEW r \in Requests, NEW e \in Emails, NEW p \in Passwords,
           Login(r, e, p)
    PROVE  AccountInv' /\ Grow
<1> USE DEF Login, Goto, Admit, sessions, params
<1>1. TypeOK' BY DEF AccountInv, TypeOK, InFlight, OrNull, Families!TypeOK
<1>2. Grow BY DEF AccountInv, TypeOK, Grow, Early, Late, Answers, Stored
<1>3. \A q \in Requests \ {r} : Same(q) BY DEF AccountInv, TypeOK, Same
<1>4. RequestOK(r)'
  <2>1. pc'[r] = "get_by_email" /\ email'[r] = e /\ password'[r] = p BY DEF AccountInv, TypeOK
  <2>2. e # NULL /\ p # NULL BY AccountNullAssumption
  <2>3. before'[r] = {q \in Requests : pc[q] = "created"} BY DEF AccountInv, TypeOK
  <2>4. \A q \in before'[r] : pc'[q] = "created" BY <2>3 DEF AccountInv, TypeOK
  <2> QED BY <2>1, <2>2, <2>4 DEF RequestOK
<1> QED BY <1>1, <1>2, <1>3, <1>4, QuietStep

(* From its first statement on, a request remembers the registrations that   *)
(* were answered before it, with the parameters they had.                    *)
LEMMA BeforeKept ==
    ASSUME AccountInv, Grow, NEW r \in Requests, pc[r] # "idle"
    PROVE  /\ before'[r] = before[r]
           /\ \A q \in before'[r] : pc'[q] = "created"
           /\ (\A q \in before[r] : ~(Lower(email[q]) = Lower(email[r]) /\ password[q] = password[r]))
                => \A q \in before'[r] : ~(Lower(email'[q]) = Lower(email'[r]) /\ password'[q] = password'[r])
<1>1. before'[r] = before[r] BY DEF Grow
<1>2. \A q \in before[r] : q \in Requests /\ pc[q] = "created"
  BY DEF AccountInv, TypeOK, RequestOK
<1>3. \A q \in before[r] : /\ pc'[q] = "created" /\ password'[q] = password[q]
                          /\ Lower(email'[q]) = Lower(email[q])
  BY <1>2 DEF Grow, Answers
<1>4. password'[r] = password[r] /\ Lower(email'[r]) = Lower(email[r]) BY DEF Grow
<1> QED BY <1>1, <1>3, <1>4

(* CreateUserDuplicate keeps the invariant. *)
LEMMA CreateUserDuplicateStep ==
    ASSUME AccountInv, NEW r \in Requests, CreateUserDuplicate(r)
    PROVE  AccountInv' /\ Grow
<1> USE DEF CreateUserDuplicate, Goto, Normalize, sessions, params
<1>0. email[r] \in Emails /\ email[r] # NULL /\ password[r] # NULL
  BY LocalTypes DEF AccountInv, RequestOK
<1>1. Lower(email[r]) \in Emails /\ Lower(email[r]) # NULL
      /\ Lower(Lower(email[r])) = Lower(email[r])
  BY <1>0, LowerFacts, AccountNullAssumption
<1>2. TypeOK' BY <1>1 DEF AccountInv, TypeOK, InFlight, OrNull, Families!TypeOK
<1>3. Grow BY <1>1 DEF AccountInv, TypeOK, Grow, Early, Late, Answers, Stored
<1>4. \A q \in Requests \ {r} : Same(q) BY DEF AccountInv, TypeOK, Same
<1>5. RequestOK(r)'
  <2>1. /\ pc'[r] = "duplicate" /\ email'[r] = Lower(email[r])
        /\ password'[r] = password[r]
    BY DEF AccountInv, TypeOK
  <2>2. PICK u \in UserIds : Stored(u) /\ users[u].email = Lower(email[r]) BY DEF WithEmail
  <2>3. Creator(u) # r BY <2>2 DEF AccountInv, RowsOK
  <2>4. u \in WithEmail(Lower(email[r]))' /\ Creator(u)' # r
    BY <1>1, <2>1, <2>2, <2>3 DEF WithEmail, Stored, Creator
  <2> QED BY <1>0, <1>1, <1>3, <2>1, <2>4, BeforeKept DEF RequestOK
<1> QED BY <1>2, <1>3, <1>4, <1>5, QuietStep

(* RecordRegistered keeps the invariant. *)
LEMMA RecordRegisteredStep ==
    ASSUME AccountInv, NEW r \in Requests, RecordRegistered(r)
    PROVE  AccountInv' /\ Grow
<1> USE DEF RecordRegistered, Goto, sessions, params
<1>0. Inserted(r, user[r]) /\ user[r] \in UserIds /\ email[r] # NULL /\ password[r] # NULL
  BY LocalTypes DEF AccountInv, RequestOK, Inserted
<1> DEFINE e == [request |-> r, action |-> "USER_REGISTERED", user |-> user[r]]
<1>1. audit' = audit \cup {e} /\ audit' \subseteq Events
  BY <1>0, RecordType DEF AccountInv, Record, Actions, OrNull
<1>2. TypeOK' BY <1>1 DEF AccountInv, TypeOK, InFlight, Answers, OrNull, Families!TypeOK
<1>3. Grow BY <1>1 DEF AccountInv, TypeOK, Grow, Early, Late, Answers, Stored, Record
<1>4. \A q \in Requests \ {r} : Same(q) BY DEF AccountInv, TypeOK, Same
<1>5. pc'[r] = "created" BY DEF AccountInv, TypeOK
<1>6. RequestOK(r)'
  <2>1. Inserted(r, user[r])' BY <1>0 DEF Inserted, Stored
  <2> QED BY <1>0, <1>1, <1>3, <1>5, <2>1, BeforeKept DEF RequestOK
<1>7. EventOK(e)'
  BY <1>0, <1>5 DEF EventOK, Early, Stored, Creator, Inserted, HashPassword
<1> QED BY <1>1, <1>2, <1>3, <1>4, <1>6, <1>7, QuietStep

(* RecordDuplicate keeps the invariant. *)
LEMMA RecordDuplicateStep ==
    ASSUME AccountInv, NEW r \in Requests, RecordDuplicate(r)
    PROVE  AccountInv' /\ Grow
<1> USE DEF RecordDuplicate, Goto, sessions, params
<1>0. email[r] # NULL /\ password[r] # NULL
      /\ \E u \in WithEmail(Lower(email[r])) : Creator(u) # r
  BY DEF AccountInv, RequestOK
<1> DEFINE e == [request |-> r, action |-> "USER_REGISTRATION_FAILED", user |-> NULL]
<1>1. audit' = audit \cup {e} /\ audit' \subseteq Events
  BY RecordType DEF AccountInv, Record, Actions, OrNull
<1>2. TypeOK' BY <1>1 DEF AccountInv, TypeOK, InFlight, Answers, OrNull, Families!TypeOK
<1>3. Grow BY <1>1 DEF AccountInv, TypeOK, Grow, Early, Late, Answers, Stored, Record
<1>4. \A q \in Requests \ {r} : Same(q) BY DEF AccountInv, TypeOK, Same
<1>5. pc'[r] = "conflict" BY DEF AccountInv, TypeOK
<1>6. RequestOK(r)' BY <1>0, <1>3, <1>5, BeforeKept DEF RequestOK
<1>7. EventOK(e)' BY <1>0, <1>5 DEF EventOK, Early, Stored, Creator, WithEmail
<1> QED BY <1>1, <1>2, <1>3, <1>4, <1>6, <1>7, QuietStep

(* RecordLoginFailed keeps the invariant. *)
LEMMA RecordLoginFailedStep ==
    ASSUME AccountInv, NEW r \in Requests, RecordLoginFailed(r)
    PROVE  AccountInv' /\ Grow
<1> USE DEF RecordLoginFailed, Goto, sessions, params
<1>0. user[r] \in OrNull(UserIds) /\ email[r] # NULL /\ password[r] # NULL
  BY DEF AccountInv, TypeOK, RequestOK
<1> DEFINE e == [request |-> r, action |-> "USER_LOGIN_FAILED", user |-> user[r]]
<1>1. audit' = audit \cup {e} /\ audit' \subseteq Events
  BY <1>0, RecordType DEF AccountInv, Record, Actions
<1>2. TypeOK' BY <1>1 DEF AccountInv, TypeOK, InFlight, Answers, OrNull, Families!TypeOK
<1>3. Grow BY <1>1 DEF AccountInv, TypeOK, Grow, Early, Late, Answers, Stored, Record
<1>4. \A q \in Requests \ {r} : Same(q) BY DEF AccountInv, TypeOK, Same
<1>5. \/ pc[r] = "login_failed" /\ pc'[r] = "unauthorized"
      \/ pc[r] = "login_inactive" /\ pc'[r] = "inactive"
  BY DEF AccountInv, TypeOK
<1>6. RequestOK(r)'
  <2>1. pc[r] = "login_failed" =>
          \A q \in before[r] : ~(Lower(email[q]) = Lower(email[r]) /\ password[q] = password[r])
    BY DEF AccountInv, RequestOK
  <2> QED BY <1>0, <1>3, <1>5, <2>1, BeforeKept DEF RequestOK
<1>7. EventOK(e)' BY <1>5 DEF EventOK, Early
<1> QED BY <1>1, <1>2, <1>3, <1>4, <1>6, <1>7, QuietStep

(* RecordLoginSucceeded keeps the invariant. *)
LEMMA RecordLoginSucceededStep ==
    ASSUME AccountInv, NEW r \in Requests, RecordLoginSucceeded(r)
    PROVE  AccountInv' /\ Grow
<1> USE DEF RecordLoginSucceeded, Goto, sessions, params
<1>0. /\ user[r] \in UserIds /\ user[r] # NULL /\ Stored(user[r])
      /\ users[user[r]].email = Lower(email[r])
      /\ users[user[r]].password_hash.digest = password[r]
      /\ email[r] # NULL /\ password[r] # NULL
  BY LocalTypes DEF AccountInv, RequestOK
<1> DEFINE e == [request |-> r, action |-> "USER_LOGIN_SUCCEEDED", user |-> user[r]]
<1>1. audit' = audit \cup {e} /\ audit' \subseteq Events
  BY <1>0, RecordType DEF AccountInv, Record, Actions, OrNull
<1>2. TypeOK' BY <1>1 DEF AccountInv, TypeOK, InFlight, Answers, OrNull, Families!TypeOK
<1>3. Grow BY <1>1 DEF AccountInv, TypeOK, Grow, Early, Late, Answers, Stored, Record
<1>4. \A q \in Requests \ {r} : Same(q) BY DEF AccountInv, TypeOK, Same
<1>5. pc'[r] = "issue" BY DEF AccountInv, TypeOK
<1>6. RequestOK(r)'
  <2>1. Authenticated(user[r])' BY <1>0, <1>1 DEF Authenticated, Stored
  <2> QED BY <1>0, <1>3, <1>5, <2>1, BeforeKept DEF RequestOK, Stored
<1>7. EventOK(e)' BY <1>0, <1>5 DEF EventOK, Early, Stored
<1> QED BY <1>1, <1>2, <1>3, <1>4, <1>6, <1>7, QuietStep

(* GetByEmail keeps the invariant. *)
LEMMA GetByEmailStep ==
    ASSUME AccountInv, NEW r \in Requests, GetByEmail(r)
    PROVE  AccountInv' /\ Grow
<1> USE DEF GetByEmail, Goto, Normalize, sessions, params
<1>0. email[r] \in Emails /\ email[r] # NULL /\ password[r] # NULL
  BY LocalTypes DEF AccountInv, RequestOK
<1>1. Lower(email[r]) \in Emails /\ Lower(email[r]) # NULL
      /\ Lower(Lower(email[r])) = Lower(email[r])
  BY <1>0, LowerFacts, AccountNullAssumption
<1> DEFINE found == WithEmail(Lower(email[r]))
<1>a. /\ email'[r] = Lower(email[r]) /\ password'[r] = password[r]
      /\ \/ found = {} /\ pc'[r] = "login_failed"
         \/ \E u \in found :
              /\ user'[r] = u
              /\ \/ pc'[r] = "login_inactive"
                 \/ users[u].password_hash.digest # password[r] /\ pc'[r] = "login_failed"
                 \/ users[u].password_hash.digest = password[r] /\ pc'[r] = "update_last_login"
  BY DEF AccountInv, TypeOK, CheckCredentials, VerifyPassword
<1>b. found \subseteq UserIds /\ \A u \in found : Stored(u) /\ users[u].email = Lower(email[r])
  BY DEF WithEmail
<1>c. \E s \in InFlight : pc' = [pc EXCEPT ![r] = s] /\ s \notin Early
  BY DEF CheckCredentials, InFlight, Early
<1>d. user' = user \/ \E u \in UserIds : user' = [user EXCEPT ![r] = u]
  BY <1>b DEF CheckCredentials
<1>2. TypeOK' BY <1>1, <1>c, <1>d DEF AccountInv, TypeOK, OrNull, Families!TypeOK
<1>3. Grow BY <1>1, <1>c, <1>d DEF AccountInv, TypeOK, Grow, Early, Late, Answers, Stored
<1>4. \A q \in Requests \ {r} : Same(q) BY <1>c, <1>d DEF AccountInv, TypeOK, Same
<1>5. pc'[r] = "login_failed" =>
        \A q \in before[r] : ~(Lower(email[q]) = Lower(email[r]) /\ password[q] = password[r])
  <2> SUFFICES ASSUME pc'[r] = "login_failed", NEW q \in before[r],
                      Lower(email[q]) = Lower(email[r]), password[q] = password[r]
               PROVE  FALSE
    OBVIOUS
  <2>1. q \in Requests /\ Inserted(q, user[q])
    BY DEF AccountInv, TypeOK, RequestOK
  <2>2. user[q] \in UserIds BY <2>1, LocalTypes DEF AccountInv, Inserted
  <2>3. user[q] \in found BY <2>1, <2>2 DEF Inserted, WithEmail
  <2>4. PICK u \in found : users[u].password_hash.digest # password[r] BY <1>a, <2>3
  <2>5. u = user[q] BY <1>b, <2>3, <2>4 DEF AccountInv, RowsOK
  <2>6. users[user[q]].password_hash.digest = password[q] BY <2>1 DEF Inserted, HashPassword
  <2> QED BY <2>4, <2>5, <2>6
<1>6. RequestOK(r)'
  <2>1. pc'[r] = "update_last_login" =>
          /\ user'[r] # NULL /\ Stored(user[r])'
          /\ users'[user'[r]].email = Lower(email'[r])
          /\ users'[user'[r]].password_hash.digest = password'[r]
    BY <1>1, <1>a, <1>b, AccountNullAssumption DEF Stored
  <2>2. pc'[r] \in {"login_failed", "login_inactive", "update_last_login"} BY <1>a
  <2> QED BY <1>0, <1>1, <1>3, <1>5, <1>a, <2>1, <2>2, BeforeKept DEF RequestOK
<1> QED BY <1>2, <1>3, <1>4, <1>6, QuietStep

(* Refresh keeps the invariant. *)
LEMMA RefreshStep ==
    ASSUME AccountInv, NEW r \in Requests, NEW t \in used, Refresh(r, t)
    PROVE  AccountInv' /\ Grow
<1> USE DEF Refresh, Goto, Admit, sessions, params
<1>1. t \in Tokens BY DEF AccountInv, TypeOK, Families!TypeOK
<1>2. TypeOK' BY <1>1 DEF AccountInv, TypeOK, InFlight, Answers, OrNull, Families!TypeOK
<1>3. Grow BY <1>1 DEF AccountInv, TypeOK, Grow, Early, Late, Answers, Stored
<1>4. \A q \in Requests \ {r} : Same(q) BY DEF AccountInv, TypeOK, Same
<1>6. RequestOK(r)'
  <2>1. pc'[r] = "get_by_hash" /\ before' = before BY DEF AccountInv, TypeOK
  <2>2. \A q \in before[r] : q \in Requests /\ pc[q] = "created"
    BY DEF AccountInv, TypeOK, RequestOK
  <2>3. \A q \in before'[r] : pc'[q] = "created" BY <2>1, <2>2 DEF AccountInv, TypeOK
  <2> QED BY <2>1, <2>3 DEF RequestOK
<1> QED BY <1>2, <1>3, <1>4, <1>6, QuietStep

(* GetByHash keeps the invariant. *)
LEMMA GetByHashStep ==
    ASSUME AccountInv, NEW r \in Requests, GetByHash(r)
    PROVE  AccountInv' /\ Grow
<1> USE DEF GetByHash, Goto, sessions, params
<1>1. \/ \E s \in Tokens : /\ session_owner[s] # NULL /\ session_owner[s] \in UserIds
                           /\ user' = [user EXCEPT ![r] = session_owner[s]]
                           /\ pc' = [pc EXCEPT ![r] = "get_owner"]
      \/ pc' = [pc EXCEPT ![r] = "reject"] /\ user' = user
  <2>1. ASSUME NEW s \in Tokens, Exchangeable(r, s)
        PROVE  session_owner[s] # NULL /\ session_owner[s] \in UserIds
    BY <2>1 DEF AccountInv, TokensOK, TypeOK, Families!TypeOK, Exchangeable
  <2> QED BY <2>1
<1>2. TypeOK' BY <1>1 DEF AccountInv, TypeOK, InFlight, Answers, OrNull, Families!TypeOK
<1>3. Grow BY <1>1 DEF AccountInv, TypeOK, Grow, Early, Late, Answers, Stored
<1>4. \A q \in Requests \ {r} : Same(q) BY DEF AccountInv, TypeOK, Same
<1>6. RequestOK(r)'
  <2>1. pc'[r] = "reject" \/ (pc'[r] = "get_owner" /\ Authenticated(user[r])')
    <3>1. CASE pc' = [pc EXCEPT ![r] = "reject"] BY <3>1 DEF AccountInv, TypeOK
    <3>2. ASSUME NEW s \in Tokens, session_owner[s] # NULL, session_owner[s] \in UserIds,
                 user' = [user EXCEPT ![r] = session_owner[s]],
                 pc' = [pc EXCEPT ![r] = "get_owner"]
          PROVE  pc'[r] = "get_owner" /\ Authenticated(user[r])'
      <4>1. user'[r] = session_owner[s] /\ pc'[r] = "get_owner" BY <3>2 DEF AccountInv, TypeOK
      <4>2. Authenticated(session_owner[s]) BY <3>2 DEF AccountInv, TokensOK
      <4>3. UNCHANGED <<users, audit, email, password>> OBVIOUS
      <4> QED BY <4>1, <4>2, <4>3 DEF Authenticated, Stored
    <3> QED BY <1>1, <3>1, <3>2
  <2> QED BY <1>3, <2>1, BeforeKept DEF RequestOK
<1> QED BY <1>2, <1>3, <1>4, <1>6, QuietStep

(* GetOwner keeps the invariant. *)
LEMMA GetOwnerStep ==
    ASSUME AccountInv, NEW r \in Requests, GetOwner(r)
    PROVE  AccountInv' /\ Grow
<1> USE DEF GetOwner, Goto, sessions, params
<1>1. \/ pc' = [pc EXCEPT ![r] = "rotate"]
      \/ pc' = [pc EXCEPT ![r] = "reject"]
  OBVIOUS
<1>2. TypeOK' BY <1>1 DEF AccountInv, TypeOK, InFlight, Answers, OrNull, Families!TypeOK
<1>3. Grow BY <1>1 DEF AccountInv, TypeOK, Grow, Early, Late, Answers, Stored
<1>4. \A q \in Requests \ {r} : Same(q) BY DEF AccountInv, TypeOK, Same
<1>6. RequestOK(r)'
  <2>1. pc'[r] \in {"rotate", "reject"} BY <1>1 DEF AccountInv, TypeOK
  <2>2. Authenticated(user[r])' BY DEF AccountInv, RequestOK, Authenticated, Stored
  <2> QED BY <1>3, <2>1, <2>2, BeforeKept DEF RequestOK
<1> QED BY <1>2, <1>3, <1>4, <1>6, QuietStep

(* RecordRejected keeps the invariant. *)
LEMMA RecordRejectedStep ==
    ASSUME AccountInv, NEW r \in Requests, RecordRejected(r)
    PROVE  AccountInv' /\ Grow
<1> USE DEF RecordRejected, Goto, sessions, params
<1>1. pc' = [pc EXCEPT ![r] = "rejected"] OBVIOUS
<1>2. TypeOK' BY <1>1 DEF AccountInv, TypeOK, InFlight, Answers, OrNull, Families!TypeOK
<1>3. Grow BY <1>1 DEF AccountInv, TypeOK, Grow, Early, Late, Answers, Stored
<1>4. \A q \in Requests \ {r} : Same(q) BY DEF AccountInv, TypeOK, Same
<1>6. RequestOK(r)'
  <2>1. pc'[r] = "rejected" BY DEF AccountInv, TypeOK
  <2> QED BY <1>3, <2>1, BeforeKept DEF RequestOK
<1> QED BY <1>2, <1>3, <1>4, <1>6, QuietStep

(* Abort keeps the invariant. *)
LEMMA AbortStep ==
    ASSUME AccountInv, NEW r \in Requests, Abort(r)
    PROVE  AccountInv' /\ Grow
<1> USE DEF Abort, Goto, sessions, params
<1>1. pc' = [pc EXCEPT ![r] = "aborted"] /\ pc[r] \notin Answers /\ pc[r] # "idle"
  BY DEF InFlight, Answers
<1>2. TypeOK' BY <1>1 DEF AccountInv, TypeOK, InFlight, Answers, OrNull, Families!TypeOK
<1>3. Grow BY <1>1 DEF AccountInv, TypeOK, Grow, Early, Late, Answers, Stored
<1>4. \A q \in Requests \ {r} : Same(q) BY DEF AccountInv, TypeOK, Same
<1>6. RequestOK(r)'
  <2>1. pc'[r] = "aborted" BY DEF AccountInv, TypeOK
  <2> QED BY <1>1, <1>3, <2>1, BeforeKept DEF RequestOK
<1> QED BY <1>2, <1>3, <1>4, <1>6, QuietStep

(* GetCurrentUser keeps the invariant. *)
LEMMA GetCurrentUserStep ==
    ASSUME AccountInv, NEW r \in Requests, NEW a \in access, GetCurrentUser(r, a)
    PROVE  AccountInv' /\ Grow
<1> USE DEF GetCurrentUser, Goto, Admit, sessions, params
<1>1. /\ a.sub \in UserIds
      /\ \/ user' = [user EXCEPT ![r] = a.sub] /\ pc' = [pc EXCEPT ![r] = "served"]
         \/ user' = user /\ pc' = [pc EXCEPT ![r] = "invalid_token"]
  BY DEF AccountInv, TypeOK, AccessTokens
<1>2. TypeOK' BY <1>1 DEF AccountInv, TypeOK, InFlight, Answers, OrNull, Families!TypeOK
<1>3. Grow BY <1>1 DEF AccountInv, TypeOK, Grow, Early, Late, Answers, Stored
<1>4. \A q \in Requests \ {r} : Same(q) BY DEF AccountInv, TypeOK, Same
<1>6. RequestOK(r)'
  <2>1. pc'[r] = "invalid_token" \/ (pc'[r] = "served" /\ user'[r] = a.sub)
    BY <1>1 DEF AccountInv, TypeOK
  <2>2. Authenticated(a.sub)' BY DEF AccountInv, TokensOK, Authenticated, Stored
  <2>3. pc'[r] = "served" => Authenticated(user[r])' BY <2>1, <2>2 DEF Authenticated
  <2>4. \A q \in before[r] : q \in Requests /\ pc[q] = "created"
    BY DEF AccountInv, TypeOK, RequestOK
  <2>5. \A q \in before'[r] : pc'[q] = "created" BY <1>1, <2>4 DEF AccountInv, TypeOK
  <2> QED BY <2>1, <2>3, <2>5 DEF RequestOK
<1> QED BY <1>2, <1>3, <1>4, <1>6, QuietStep

(* CreateUser keeps the invariant. *)
LEMMA CreateUserStep ==
    ASSUME AccountInv, NEW r \in Requests, NEW u \in UserIds, CreateUser(r, u)
    PROVE  AccountInv' /\ Grow
<1> USE DEF CreateUser, Goto, Insert, Normalize, sessions, params
<1> DEFINE row == NewRow(r, Lower(email[r]))
<1>0. email[r] \in Emails /\ email[r] # NULL /\ password[r] \in Passwords /\ password[r] # NULL
  BY LocalTypes DEF AccountInv, RequestOK
<1>1. Lower(email[r]) \in Emails /\ Lower(email[r]) # NULL
      /\ Lower(Lower(email[r])) = Lower(email[r])
  BY <1>0, LowerFacts, AccountNullAssumption
<1>a. /\ row \in Rows /\ row # NULL /\ row.email = Lower(email[r])
      /\ row.password_hash = HashPassword(r, password[r])
  <2>1. HashPassword(r, password[r]) \in Hashes BY <1>0 DEF Hashes, HashPassword
  <2>2. row \in Rows BY <1>1, <2>1 DEF Rows, NewRow, OrNull
  <2> QED BY <2>2, AccountNullAssumption DEF NewRow
<1>b. /\ users' = [users EXCEPT ![u] = row] /\ ~Stored(u)
      /\ \A v \in UserIds : Stored(v) => users[v].email # Lower(email[r])
  BY DEF WithEmail
<1> HIDE DEF row
<1>2. TypeOK' BY <1>1, <1>a, <1>b DEF AccountInv, TypeOK, InFlight, OrNull, Families!TypeOK
<1>3. Grow BY <1>1, <1>b DEF AccountInv, TypeOK, Grow, Early, Late, Answers, Stored
<1>4. \A q \in Requests \ {r} : Same(q) BY DEF AccountInv, TypeOK, Same
<1>5. /\ pc'[r] = "registered" /\ user'[r] = u /\ email'[r] = Lower(email[r])
      /\ password'[r] = password[r] /\ users'[u] = row
  BY <1>b DEF AccountInv, TypeOK
<1>6. Inserted(r, u)' /\ u # NULL /\ Creator(u)' = r
  BY <1>1, <1>5, <1>a, AccountNullAssumption DEF Inserted, Stored, Creator, HashPassword
<1>7. RowsOK'
  <2>1. \A v \in UserIds \ {u} : Stored(v)' => Stored(v) BY <1>b DEF AccountInv, TypeOK, Stored
  <2>2. \A v \in UserIds : Stored(v) =>
           /\ Stored(v)' /\ users'[v].email = users[v].email
           /\ Inserted(Creator(v), v)'
           /\ user'[Creator(v)'] = v
           /\ pc'[Creator(v)'] \in {"registered", "created", "aborted"}
    BY <1>3, RowKept
  <2>3. \A v, w \in UserIds : (Stored(v) /\ Stored(w) /\ users[v].email = users[w].email)' => v = w
    <3>1. \A v \in UserIds \ {u} : Stored(v)' => users'[v].email # users'[u].email
      BY <1>5, <1>a, <1>b, <2>1, <2>2
    <3>2. \A v, w \in UserIds \ {u} :
             (Stored(v) /\ Stored(w) /\ users[v].email = users[w].email)' => v = w
      BY <2>1, <2>2 DEF AccountInv, RowsOK
    <3> QED BY <3>1, <3>2
  <2>4. Inserted(Creator(u), u)' /\ user'[Creator(u)'] = u /\ pc'[Creator(u)'] = "registered"
    BY <1>5, <1>6 DEF Inserted
  <2> QED BY <2>1, <2>2, <2>3, <2>4 DEF RowsOK
<1>8. RequestOK(r)'
  <2>1. Inserted(r, user[r])' BY <1>5, <1>6 DEF Inserted
  <2> QED BY <1>0, <1>1, <1>3, <1>5, <2>1, BeforeKept DEF RequestOK
<1>9. TokensOK' BY <1>3, TokensKept
<1> QED BY <1>2, <1>3, <1>4, <1>7, <1>8, <1>9, Preserve

(* UpdateLastLogin keeps the invariant. *)
LEMMA UpdateLastLoginStep ==
    ASSUME AccountInv, NEW r \in Requests, UpdateLastLogin(r)
    PROVE  AccountInv' /\ Grow
<1> USE DEF UpdateLastLogin, Goto, sessions, params
<1>0. /\ user[r] \in UserIds /\ user[r] # NULL /\ Stored(user[r])
      /\ users[user[r]].email = Lower(email[r])
      /\ users[user[r]].password_hash.digest = password[r]
      /\ email[r] # NULL /\ password[r] # NULL
  BY LocalTypes DEF AccountInv, RequestOK
<1> DEFINE row == [users[user[r]] EXCEPT !.last_login = r]
<1>1. /\ users' = [users EXCEPT ![user[r]] = row] /\ row \in Rows /\ row # NULL
      /\ row.email = users[user[r]].email
      /\ row.password_hash = users[user[r]].password_hash
  <2>1. users[user[r]] \in Rows BY <1>0, LocalTypes DEF AccountInv
  <2>2. row \in Rows BY <2>1 DEF Rows, OrNull
  <2> QED BY <2>1, <2>2, AccountNullAssumption DEF Rows
<1> HIDE DEF row
<1>2. TypeOK'
  <2>1. users' \in [UserIds -> OrNull(Rows)] BY <1>1 DEF AccountInv, TypeOK, OrNull
  <2>2. pc' \in [Requests -> {"idle"} \cup InFlight \cup Answers] BY DEF AccountInv, TypeOK, InFlight
  <2>3. UNCHANGED <<session_owner, current, used, access, audit, now, email, password, token, before, user>>
    OBVIOUS
  <2> QED BY <2>1, <2>2, <2>3 DEF AccountInv, TypeOK, Families!TypeOK
<1>3. Grow BY <1>0, <1>1 DEF AccountInv, TypeOK, Grow, Early, Late, Answers, Stored
<1>4. \A q \in Requests \ {r} : Same(q) BY DEF AccountInv, TypeOK, Same
<1>5. NoNewRow BY <1>0, <1>1 DEF AccountInv, TypeOK, NoNewRow, Stored
<1>6. pc'[r] = "login_succeeded" /\ users'[user[r]] = row BY <1>0, <1>1 DEF AccountInv, TypeOK
<1>7. RequestOK(r)' BY <1>0, <1>1, <1>3, <1>6, BeforeKept DEF RequestOK, Stored
<1>8. RowsOK' /\ TokensOK' BY <1>3, <1>5, RowsKept, TokensKept
<1> QED BY <1>2, <1>3, <1>4, <1>7, <1>8, Preserve

(* Deactivate keeps the invariant. *)
LEMMA DeactivateStep ==
    ASSUME AccountInv, NEW u \in UserIds, Deactivate(u)
    PROVE  AccountInv' /\ Grow
<1> USE DEF Deactivate, sessions, params
<1> DEFINE row == [users[u] EXCEPT !.is_active = FALSE]
<1>1. /\ users' = [users EXCEPT ![u] = row] /\ row \in Rows /\ row # NULL
      /\ row.email = users[u].email /\ row.password_hash = users[u].password_hash
  <2>1. users[u] \in Rows BY LocalTypes DEF AccountInv
  <2>2. row \in Rows BY <2>1 DEF Rows
  <2> QED BY <2>1, <2>2, AccountNullAssumption DEF Rows
<1> HIDE DEF row
<1>2. TypeOK' BY <1>1 DEF AccountInv, TypeOK, OrNull, Families!TypeOK
<1>3. Grow BY <1>1 DEF AccountInv, TypeOK, Grow, Early, Late, Answers, Stored
<1>4. \A q \in Requests : Same(q) BY DEF Same
<1>5. NoNewRow BY <1>1 DEF AccountInv, TypeOK, NoNewRow, Stored
<1>6. RowsOK' /\ TokensOK' BY <1>3, <1>5, RowsKept, TokensKept
<1> QED BY <1>2, <1>3, <1>4, <1>6, Preserve

(* Tick keeps the invariant. *)
LEMMA TickStep ==
    ASSUME AccountInv, Tick
    PROVE  AccountInv' /\ Grow
<1> USE DEF Tick, sessions, params
<1>1. TypeOK' BY DEF AccountInv, TypeOK, Families!TypeOK
<1>2. Grow BY DEF AccountInv, TypeOK, Grow, Stored
<1>3. \A q \in Requests : Same(q) BY DEF Same
<1>4. RowsOK' /\ TokensOK' BY <1>2, RowsKept, TokensKept DEF NoNewRow
<1> QED BY <1>1, <1>2, <1>3, <1>4, Preserve

(* The same when a session is opened, moved on or closed, or an access token *)
(* signed: for every owner and subject there is a login on record.           *)
LEMMA TokensGrow ==
    ASSUME AccountInv, Grow,
           NEW w \in UserIds \cup {NULL}, w = NULL \/ Authenticated(w),
           \A s \in Tokens : session_owner'[s] \in {session_owner[s], w},
           \A s \in Tokens : current'[s] # NULL => session_owner'[s] # NULL,
           \A a \in access' : a \in access \/ (a.sub = w /\ w # NULL)
    PROVE  TokensOK'
<1>1. \A x \in OrNull(UserIds) : Authenticated(x) => Authenticated(x)' BY AuthenticatedStable
<1>2. /\ \A s \in Tokens : session_owner[s] \in OrNull(UserIds)
      /\ \A a \in access : a.sub \in OrNull(UserIds)
  BY DEF AccountInv, TypeOK, Families!TypeOK, AccessTokens, OrNull
<1>3. ASSUME NEW s \in Tokens, session_owner'[s] # NULL PROVE Authenticated(session_owner[s])'
  <2>1. PICK x \in OrNull(UserIds) : x = session_owner'[s] BY <1>2 DEF OrNull
  <2>2. CASE x = w
    <3>1. Authenticated(w)' BY <1>1, <1>3, <2>1, <2>2 DEF OrNull
    <3> QED BY <2>1, <2>2, <3>1 DEF Authenticated
  <2>3. CASE x = session_owner[s]
    <3>1. Authenticated(x) BY <1>3, <2>1, <2>3 DEF AccountInv, TokensOK
    <3>2. Authenticated(x)' BY <1>1, <3>1
    <3> QED BY <2>1, <3>2 DEF Authenticated
  <2> QED BY <2>1, <2>2, <2>3
<1>4. ASSUME NEW a \in access' PROVE Authenticated(a.sub)'
  <2>1. PICK x \in OrNull(UserIds) : x = a.sub BY <1>2 DEF OrNull
  <2>2. Authenticated(x) BY <2>1 DEF AccountInv, TokensOK
  <2>3. Authenticated(x)' BY <1>1, <2>2
  <2> QED BY <2>1, <2>3
<1> QED BY <1>3, <1>4 DEF TokensOK

(* IssueTokenPair keeps the invariant. *)
LEMMA IssueTokenPairStep ==
    ASSUME AccountInv, NEW r \in Requests, NEW t \in Tokens, IssueTokenPair(r, t)
    PROVE  AccountInv' /\ Grow
<1> USE DEF IssueTokenPair, Goto, Families!Open, sessions, params
<1>0. /\ user[r] \in UserIds /\ user[r] # NULL /\ Authenticated(user[r])
  BY LocalTypes DEF AccountInv, RequestOK
<1>1. /\ access' \subseteq AccessTokens
      /\ \A a \in access' : a \in access \/ a.sub = user[r]
  BY <1>0, AccessType DEF AccountInv, CreateAccessToken
<1>2. TypeOK' BY <1>0, <1>1 DEF AccountInv, TypeOK, Answers, Families!TypeOK
<1>3. Grow BY DEF AccountInv, TypeOK, Grow, Early, Late, Answers, Stored
<1>4. \A q \in Requests \ {r} : Same(q) BY DEF AccountInv, TypeOK, Same
<1>5. RequestOK(r)'
  <2>1. pc'[r] = "tokens" BY DEF AccountInv, TypeOK
  <2> QED BY <1>3, <2>1, BeforeKept DEF RequestOK
<1>6. TokensOK'
  <2>1. /\ session_owner'[t] = user[r]
        /\ \A s \in Tokens \ {t} : session_owner'[s] = session_owner[s] /\ current'[s] = current[s]
    BY DEF AccountInv, TypeOK, Families!TypeOK
  <2>2. \A s \in Tokens : current'[s] # NULL => session_owner'[s] # NULL
    BY <1>0, <2>1 DEF AccountInv, TokensOK
  <2>3. PICK w \in UserIds : w = user[r] /\ w # NULL /\ Authenticated(w) BY <1>0
  <2>4. \A s \in Tokens : session_owner'[s] \in {session_owner[s], w} BY <2>1, <2>3
  <2>5. \A a \in access' : a \in access \/ (a.sub = w /\ w # NULL) BY <1>1, <2>3
  <2> QED BY <1>3, <2>2, <2>3, <2>4, <2>5, TokensGrow
<1>7. RowsOK' BY <1>3, RowsKept DEF NoNewRow
<1> QED BY <1>2, <1>3, <1>4, <1>5, <1>6, <1>7, Preserve

(* CreateRotationPair keeps the invariant. *)
LEMMA CreateRotationPairStep ==
    ASSUME AccountInv, NEW r \in Requests, CreateRotationPair(r)
    PROVE  AccountInv' /\ Grow
<1> USE DEF CreateRotationPair, Goto, sessions, params
<1>1. \/ /\ pc' = [pc EXCEPT ![r] = "rotated"] /\ session_owner' = session_owner
         /\ \E s, t \in Tokens : /\ current[s] # NULL /\ current' = [current EXCEPT ![s] = t]
                                /\ used' = used \cup {t}
      \/ pc' = [pc EXCEPT ![r] = "reject"] /\ UNCHANGED <<session_owner, current, used>>
  BY DEF Families!Rotate
<1>2. TypeOK' BY <1>1 DEF AccountInv, TypeOK, InFlight, Families!TypeOK
<1>3. Grow BY <1>1 DEF AccountInv, TypeOK, Grow, Early, Late, Answers, Stored
<1>4. \A q \in Requests \ {r} : Same(q) BY <1>1 DEF AccountInv, TypeOK, Same
<1>5. RequestOK(r)'
  <2>1. pc'[r] \in {"rotated", "reject"} BY <1>1 DEF AccountInv, TypeOK
  <2>2. Authenticated(user[r])' BY DEF AccountInv, RequestOK, Authenticated, Stored
  <2> QED BY <1>3, <2>1, <2>2, BeforeKept DEF RequestOK
<1>6. TokensOK'
  <2>1. session_owner' = session_owner /\ access' = access BY <1>1
  <2>2. \A s \in Tokens : current'[s] # NULL => current[s] # NULL
    BY <1>1 DEF AccountInv, TypeOK, Families!TypeOK
  <2>3. \A s \in Tokens : current'[s] # NULL => session_owner'[s] # NULL
    BY <2>1, <2>2 DEF AccountInv, TokensOK
  <2>4. PICK w \in UserIds \cup {NULL} : w = NULL OBVIOUS
  <2>5. \A s \in Tokens : session_owner'[s] \in {session_owner[s], w} BY <2>1
  <2>6. \A a \in access' : a \in access \/ (a.sub = w /\ w # NULL) BY <2>1
  <2> QED BY <1>3, <2>3, <2>4, <2>5, <2>6, TokensGrow
<1>7. RowsOK' BY <1>3, RowsKept DEF NoNewRow
<1> QED BY <1>2, <1>3, <1>4, <1>5, <1>6, <1>7, Preserve

(* RecordRotated keeps the invariant. *)
LEMMA RecordRotatedStep ==
    ASSUME AccountInv, NEW r \in Requests, RecordRotated(r)
    PROVE  AccountInv' /\ Grow
<1> USE DEF RecordRotated, Goto, sessions, params
<1>0. user[r] \in UserIds /\ Authenticated(user[r])
  BY LocalTypes DEF AccountInv, RequestOK, Authenticated
<1>1. /\ access' \subseteq AccessTokens
      /\ \A a \in access' : a \in access \/ a.sub = user[r]
  BY <1>0, AccessType DEF AccountInv, CreateAccessToken
<1>2. TypeOK' BY <1>1 DEF AccountInv, TypeOK, Answers, Families!TypeOK
<1>3. Grow BY DEF AccountInv, TypeOK, Grow, Early, Late, Answers, Stored
<1>4. \A q \in Requests \ {r} : Same(q) BY DEF AccountInv, TypeOK, Same
<1>5. RequestOK(r)'
  <2>1. pc'[r] = "tokens" BY DEF AccountInv, TypeOK
  <2> QED BY <1>3, <2>1, BeforeKept DEF RequestOK
<1>6. TokensOK'
  <2>1. \A s \in Tokens : current'[s] # NULL => session_owner'[s] # NULL
    BY DEF AccountInv, TokensOK
  <2>2. PICK w \in UserIds : w = user[r] /\ w # NULL /\ Authenticated(w)
    BY <1>0, AccountNullAssumption
  <2>3. \A s \in Tokens : session_owner'[s] \in {session_owner[s], w} OBVIOUS
  <2>4. \A a \in access' : a \in access \/ (a.sub = w /\ w # NULL) BY <1>1, <2>2
  <2> QED BY <1>3, <2>1, <2>2, <2>3, <2>4, TokensGrow
<1>7. RowsOK' BY <1>3, RowsKept DEF NoNewRow
<1> QED BY <1>2, <1>3, <1>4, <1>5, <1>6, <1>7, Preserve

(* CloseSession keeps the invariant. *)
LEMMA CloseSessionStep ==
    ASSUME AccountInv, NEW s \in Tokens, CloseSession(s)
    PROVE  AccountInv' /\ Grow
<1> USE DEF CloseSession, Families!Close, sessions, params
<1>1. TypeOK' BY DEF AccountInv, TypeOK, Families!TypeOK
<1>2. Grow BY DEF AccountInv, TypeOK, Grow, Stored
<1>3. \A q \in Requests : Same(q) BY DEF Same
<1>4. \A x \in Tokens : current'[x] # NULL => session_owner'[x] # NULL
  BY DEF AccountInv, TypeOK, TokensOK, Families!TypeOK
<1>5. TokensOK'
  <2>1. PICK w \in UserIds \cup {NULL} : w = NULL OBVIOUS
  <2>2. \A x \in Tokens : session_owner'[x] \in {session_owner[x], w} OBVIOUS
  <2>3. \A a \in access' : a \in access \/ (a.sub = w /\ w # NULL) OBVIOUS
  <2> QED BY <1>2, <1>4, <2>1, <2>2, <2>3, TokensGrow
<1>6. RowsOK' BY <1>2, RowsKept DEF NoNewRow
<1> QED BY <1>1, <1>2, <1>3, <1>5, <1>6, Preserve

-----------------------------------------------------------------------------
(* The invariant *)

(* Without users there is nothing to account for. *)
LEMMA InitInv == Init => AccountInv
<1> SUFFICES ASSUME Init PROVE AccountInv
  OBVIOUS
<1>1. TypeOK BY AccountBoundAssumption DEF Init, TypeOK, OrNull, Families!Init, Families!TypeOK
<1>2. RowsOK BY DEF Init, RowsOK, Stored
<1>3. TokensOK BY DEF Init, TokensOK, Families!Init
<1>4. LogOK /\ RegistrationAccounted BY DEF Init, LogOK, RegistrationAccounted, Stored
<1>5. \A r \in Requests : RequestOK(r) BY DEF Init, RequestOK
<1> QED BY <1>1, <1>2, <1>3, <1>4, <1>5 DEF AccountInv

(* Nothing changes when nothing changes. *)
LEMMA StutterInv == ASSUME AccountInv, UNCHANGED vars PROVE AccountInv' /\ Grow
<1> USE DEF vars, sessions, params
<1>1. TypeOK' BY DEF AccountInv, TypeOK, Families!TypeOK
<1>2. Grow BY DEF AccountInv, TypeOK, Grow, Stored
<1>3. \A q \in Requests : Same(q) BY DEF Same
<1>4. RowsOK' /\ TokensOK' BY <1>2, RowsKept, TokensKept DEF NoNewRow
<1> QED BY <1>1, <1>2, <1>3, <1>4, Preserve

(* Every step of the specification keeps the invariant, and takes nothing    *)
(* back.                                                                     *)
LEMMA StepInv == ASSUME AccountInv, [Next]_vars PROVE AccountInv' /\ Grow
<1>1. ASSUME NEW r \in Requests, Arrive(r) PROVE AccountInv' /\ Grow
  BY <1>1, RegisterStep, LoginStep, RefreshStep, GetCurrentUserStep DEF Arrive
<1>2. ASSUME NEW r \in Requests, Step(r) PROVE AccountInv' /\ Grow
  BY <1>2, CreateUserStep, CreateUserDuplicateStep, RecordRegisteredStep, RecordDuplicateStep,
     GetByEmailStep, RecordLoginFailedStep, UpdateLastLoginStep, RecordLoginSucceededStep,
     IssueTokenPairStep, GetByHashStep, GetOwnerStep, CreateRotationPairStep,
     RecordRotatedStep, RecordRejectedStep DEF Step
<1>3. ASSUME NEW r \in Requests, Abort(r) PROVE AccountInv' /\ Grow BY <1>3, AbortStep
<1>4. CASE World BY <1>4, CloseSessionStep, DeactivateStep, TickStep DEF World
<1>5. CASE AllServed \/ UNCHANGED vars BY <1>5, StutterInv DEF AllServed
<1> QED BY <1>1, <1>2, <1>3, <1>4, <1>5 DEF Next

(* AccountInv holds throughout, however the statements of registrations,     *)
(* logins, refreshes and served requests interleave and wherever they are    *)
(* cut off.                                                                  *)
THEOREM AccountInvariant == Spec => []AccountInv
<1>1. Init => AccountInv BY InitInv
<1>2. AccountInv /\ [Next]_vars => AccountInv' BY StepInv
<1> QED BY <1>1, <1>2, PTL DEF Spec

(* A row is stored in lower case. *)
LEMMA RowLower ==
    ASSUME AccountInv, NEW u \in UserIds, Stored(u)
    PROVE  /\ users[u].email \in Emails /\ users[u].password_hash.digest \in Passwords
           /\ Lower(users[u].email) = users[u].email
<1>1. users[u] \in Rows /\ users[u].email \in Emails BY LocalTypes DEF AccountInv, Rows
<1>2. PICK q \in Requests : q = Creator(u) BY <1>1 DEF Rows, Hashes, Creator
<1>3. users[u].email = Lower(email[q]) /\ email[q] # NULL
  BY <1>2 DEF AccountInv, RowsOK, Inserted
<1>4. email[q] \in Emails BY <1>3, LocalTypes DEF AccountInv
<1> QED BY <1>1, <1>3, <1>4, LowerFacts DEF Rows, Hashes

(* One row comes of the registrations of an address: OneAccountPerAddress.   *)
THEOREM OneAccount == Spec => []OneAccountPerAddress
<1>1. AccountInv => OneAccountPerAddress
  <2> SUFFICES ASSUME AccountInv, NEW u \in UserIds, NEW v \in UserIds, Stored(u), Stored(v),
                      Lower(users[u].email) = Lower(users[v].email)
               PROVE  u = v
    BY DEF OneAccountPerAddress
  <2>1. \A w \in UserIds : Stored(w) => Lower(users[w].email) = users[w].email BY RowLower
  <2> QED BY <2>1 DEF AccountInv, RowsOK
<1> QED BY <1>1, AccountInvariant, PTL

(* RegistrationAccounted is a part of the invariant: the log and the rows of *)
(* users agree about registrations.                                          *)
THEOREM RegistrationsAccounted == Spec => []RegistrationAccounted
<1>1. AccountInv => RegistrationAccounted BY DEF AccountInv
<1> QED BY <1>1, AccountInvariant, PTL

(* RegisteredCanLogin: a 201 is good for a login with the same password.     *)
THEOREM RegisteredLogsIn == Spec => []RegisteredCanLogin
<1>1. AccountInv => RegisteredCanLogin BY DEF AccountInv, RequestOK, RegisteredCanLogin
<1> QED BY <1>1, AccountInvariant, PTL

(* ServedAsRegistrant: behind every request served there is a login with the *)
(* password of the registration.                                             *)
THEOREM ServedAreRegistrants == Spec => []ServedAsRegistrant
<1>1. AccountInv => ServedAsRegistrant BY DEF AccountInv, RequestOK, ServedAsRegistrant
<1> QED BY <1>1, AccountInvariant, PTL
-----------------------------------------------------------------------------
(* Expiry *)

(* What rounding down to whole seconds does. *)
LEMMA RoundedDown ==
    ASSUME NEW x \in Nat, NEW d \in Nat \ {0}
    PROVE  (x \div d) * d <= x /\ x < (x \div d) * d + d
OBVIOUS

(* exp of every access token is the time it was signed plus the lifetime,    *)
(* rounded down.                                                             *)
Signed == \A a \in access : a.exp = (a.made + Ttl * Second) \div Second

(* TokenLifetime: an access token is accepted for no longer than its client  *)
(* was told, and for less than a second less.                                *)
THEOREM TokensLiveAsTold == Spec => []TokenLifetime
<1>1. Init => Signed BY DEF Init, Signed
<1>2. ASSUME AccountInv, Signed, [Next]_vars PROVE Signed'
  <2>1. ASSUME NEW u \in UserIds \cup {NULL}, CreateAccessToken(u) PROVE Signed'
    BY <1>2, <2>1 DEF CreateAccessToken, Signed
  <2>2. CASE access' = access BY <1>2, <2>2 DEF Signed
  <2>3. access' = access \/ \E u \in UserIds \cup {NULL} : CreateAccessToken(u)
    <3>1. ASSUME NEW r \in Requests, Arrive(r) PROVE access' = access
      BY <3>1 DEF Arrive, Register, Login, Refresh, GetCurrentUser
    <3>2. ASSUME NEW r \in Requests, Step(r)
          PROVE  access' = access \/ CreateAccessToken(user[r])
      BY <3>2 DEF Step, CreateUser, CreateUserDuplicate, RecordRegistered, RecordDuplicate,
         GetByEmail, RecordLoginFailed, UpdateLastLogin, RecordLoginSucceeded, IssueTokenPair,
         GetByHash, GetOwner, CreateRotationPair, RecordRotated, RecordRejected
    <3>3. \A r \in Requests : user[r] \in UserIds \cup {NULL}
      BY <1>2 DEF AccountInv, TypeOK, OrNull
    <3>4. ASSUME NEW r \in Requests, Abort(r) PROVE access' = access BY <3>4 DEF Abort
    <3>5. CASE World BY <3>5 DEF World, CloseSession, Deactivate, Tick
    <3>6. CASE AllServed \/ UNCHANGED vars BY <3>6 DEF AllServed, vars
    <3> QED BY <1>2, <3>1, <3>2, <3>3, <3>4, <3>5, <3>6 DEF Next
  <2> QED BY <2>1, <2>2, <2>3
<1>3. ASSUME AccountInv, Signed PROVE TokenLifetime
  <2> SUFFICES ASSUME NEW a \in access
               PROVE  /\ now < a.exp * Second => now < a.made + Ttl * Second
                      /\ now + Second <= a.made + Ttl * Second => now < a.exp * Second
    BY DEF TokenLifetime, Decodes
  <2> DEFINE x == a.made + Ttl * Second
  <2>1. x \in Nat /\ now \in Nat /\ Second \in Nat \ {0} /\ a.exp \in Nat
    BY <1>3, AccountBoundAssumption DEF AccountInv, TypeOK, AccessTokens
  <2>2. a.exp = x \div Second BY <1>3 DEF Signed
  <2> HIDE DEF x
  <2>3. a.exp * Second <= x /\ x < a.exp * Second + Second BY <2>1, <2>2, RoundedDown
  <2>4. PICK y \in Nat : y = a.exp * Second BY <2>1
  <2>5. /\ now < y => now < x
        /\ now + Second <= x => now < y
    BY <2>1, <2>3, <2>4
  <2> QED BY <2>4, <2>5 DEF x
<1> QED BY <1>1, <1>2, <1>3, AccountInvariant, PTL DEF Spec

-----------------------------------------------------------------------------
(* Refinement *)

(* Spellings of one address are lowered to one. *)
LEMMA SameLower ==
    ASSUME NEW e \in Emails, NEW f \in Emails
    PROVE  e.address = f.address <=> Lower(e) = Lower(f)
BY DEF Emails, Lower

(* A request goes on standing for the account it was admitted to. *)
LEMMA SucceededKept ==
    ASSUME AccountInv, AccountInv', Grow, NEW e \in Succeeded
    PROVE  /\ e \in audit' /\ e.request \in Requests
           /\ email'[e.request].address = email[e.request].address
           /\ password'[e.request] = password[e.request]
<1>1. e \in audit /\ e.action = "USER_LOGIN_SUCCEEDED" BY DEF Succeeded
<1>2. e.request \in Requests BY <1>1 DEF AccountInv, TypeOK, Events
<1>3. email[e.request] # NULL /\ pc[e.request] # "idle" BY <1>1 DEF AccountInv, LogOK
<1>4. email[e.request] \in Emails BY <1>2, <1>3, LocalTypes DEF AccountInv
<1>5. /\ e \in audit' /\ password'[e.request] = password[e.request]
      /\ Lower(email'[e.request]) = Lower(email[e.request]) /\ email'[e.request] # NULL
  BY <1>1, <1>2, <1>3 DEF Grow
<1>6. email'[e.request] \in Emails BY <1>2, <1>5 DEF AccountInv, TypeOK, OrNull
<1> QED BY <1>2, <1>4, <1>5, <1>6, SameLower

(* Steps that record no success admit nobody. *)
LEMMA AdmittedKept ==
    ASSUME AccountInv, AccountInv', Grow,
           \A e \in audit' : e \in audit \/ e.action # "USER_LOGIN_SUCCEEDED"
    PROVE  Admitted' = Admitted
<1>1. Succeeded' = Succeeded BY DEF Succeeded, Grow
<1>2. \A e \in Succeeded : /\ email'[e.request].address = email[e.request].address
                          /\ password'[e.request] = password[e.request]
  BY SucceededKept
<1> QED BY <1>1, <1>2 DEF Admitted

(* Steps that neither add a row nor deactivate one leave the accounts alone. *)
LEMMA RegisteredKept ==
    ASSUME AccountInv, Grow, NoNewRow
    PROVE  Registered' = Registered
<1>1. Rowed' = Rowed BY DEF Rowed, NoNewRow, Grow, Stored
<1>2. \A u \in Rowed : /\ users'[u].email.address = users[u].email.address
                      /\ users'[u].password_hash.digest = users[u].password_hash.digest
  BY DEF Rowed, Grow
<1> QED BY <1>1, <1>2 DEF Registered

(* Likewise for the accounts that are closed. *)
LEMMA ClosedKept ==
    ASSUME AccountInv, Grow, NoNewRow,
           \A u \in UserIds : Stored(u) => users'[u].is_active = users[u].is_active
    PROVE  Closed' = Closed
<1>1. Rowed' = Rowed BY DEF Rowed, NoNewRow, Grow, Stored
<1>2. \A u \in Rowed : /\ users'[u].email.address = users[u].email.address
                      /\ users'[u].is_active = users[u].is_active
  BY DEF Rowed, Grow
<1> QED BY <1>1, <1>2 DEF Closed

(* A step that changes nothing a directory shows. *)
LEMMA DirectoryKept ==
    ASSUME AccountInv, AccountInv', Grow, UNCHANGED <<users, audit>>
    PROVE  UNCHANGED Directory!vars
<1>1. NoNewRow BY DEF NoNewRow
<1>2. Registered' = Registered /\ Closed' = Closed /\ Admitted' = Admitted
  BY <1>1, RegisteredKept, ClosedKept, AdmittedKept
<1> QED BY <1>2 DEF Directory!vars

(* create_user is the registration of the directory. *)
LEMMA CreateUserRegisters ==
    ASSUME AccountInv, AccountInv', Grow, NEW r \in Requests, NEW u \in UserIds, CreateUser(r, u)
    PROVE  Directory!Next
<1>0. email[r] \in Emails /\ password[r] \in Passwords
  BY LocalTypes DEF AccountInv, RequestOK, CreateUser
<1> DEFINE a == email[r].address
           p == password[r]
           row == NewRow(r, Lower(email[r]))
<1>1. a \in Addresses /\ p \in Passwords BY <1>0 DEF Emails
<1>2. /\ row.email.address = a /\ row.password_hash.digest = p /\ row.is_active = TRUE
      /\ row # NULL
  <2>1. HashPassword(r, password[r]) \in Hashes BY <1>0 DEF Hashes, HashPassword
  <2>2. row \in Rows BY <1>0, <2>1, LowerFacts DEF Rows, NewRow, OrNull
  <2> QED BY <1>0, <2>2, LowerFacts, AccountNullAssumption DEF NewRow, HashPassword
<1>3. users' = [users EXCEPT ![u] = row] /\ ~Stored(u) /\ WithEmail(Lower(email[r])) = {}
      /\ audit' = audit
  BY DEF CreateUser, Insert
<1> HIDE DEF row
<1>4. Rowed' = Rowed \cup {u} /\ u \notin Rowed
      /\ users'[u] = row /\ \A v \in Rowed : users'[v] = users[v]
  BY <1>2, <1>3 DEF AccountInv, TypeOK, Rowed, Stored
<1>5. Registered' = Registered \cup {[address |-> a, password |-> p]}
  BY <1>2, <1>4 DEF Registered
<1>6. Closed' = Closed BY <1>2, <1>4 DEF Closed
<1>7. Admitted' = Admitted BY <1>3, AdmittedKept
<1>8. \A x \in Registered : x.address # a
  <2> SUFFICES ASSUME NEW v \in Rowed PROVE users[v].email.address # a
    BY DEF Registered
  <2>1. v \in UserIds /\ Stored(v) /\ users[v].email # Lower(email[r])
    BY <1>3 DEF Rowed, WithEmail
  <2>2. users[v].email \in Emails /\ Lower(users[v].email) = users[v].email BY <2>1, RowLower
  <2> QED BY <1>0, <2>1, <2>2, SameLower
<1>9. Directory!Register(a, p)
  BY <1>5, <1>6, <1>7, <1>8 DEF Directory!Register, Directory!Account
<1> QED BY <1>1, <1>9 DEF Directory!Next

(* The record of a success is the admission of the directory. *)
LEMMA LoginAdmits ==
    ASSUME AccountInv, AccountInv', Grow, NEW r \in Requests, RecordLoginSucceeded(r)
    PROVE  Directory!Next
<1>0. /\ email[r] \in Emails /\ password[r] \in Passwords /\ user[r] \in Rowed
      /\ users[user[r]].email = Lower(email[r])
      /\ users[user[r]].password_hash.digest = password[r]
  BY LocalTypes DEF AccountInv, RequestOK, RecordLoginSucceeded, Rowed
<1> DEFINE a == email[r].address
           p == password[r]
           new == [request |-> r, action |-> "USER_LOGIN_SUCCEEDED", user |-> user[r]]
<1>1. a \in Addresses /\ p \in Passwords BY <1>0 DEF Emails
<1>2. audit' = audit \cup {new} /\ UNCHANGED <<users, email, password>>
  BY DEF RecordLoginSucceeded, Record, params
<1>3. Succeeded' = Succeeded \cup {new} BY <1>2 DEF Succeeded
<1>4. new.request = r OBVIOUS
<1> HIDE DEF new
<1>5. Admitted' = Admitted \cup {[address |-> a, password |-> p]}
  BY <1>2, <1>3, <1>4 DEF Admitted
<1>6. NoNewRow BY <1>2 DEF NoNewRow
<1>7. Registered' = Registered /\ Closed' = Closed BY <1>2, <1>6, RegisteredKept, ClosedKept
<1>8. [address |-> a, password |-> p] \in Registered
  BY <1>0, LowerFacts DEF Registered
<1>9. Directory!LogIn(a, p) BY <1>5, <1>7, <1>8 DEF Directory!LogIn, Directory!Account
<1> QED BY <1>1, <1>9 DEF Directory!Next

(* Clearing is_active closes an account of the directory. *)
LEMMA DeactivateCloses ==
    ASSUME AccountInv, AccountInv', Grow, NEW u \in UserIds, Deactivate(u)
    PROVE  Directory!Next
<1> DEFINE a == users[u].email.address
           row == [users[u] EXCEPT !.is_active = FALSE]
<1>1. users[u].email \in Emails /\ users[u] \in Rows /\ u \in Rowed
  BY RowLower, LocalTypes DEF Deactivate, Rowed, AccountInv
<1>2. a \in Addresses BY <1>1 DEF Emails
<1>3. /\ users' = [users EXCEPT ![u] = row] /\ audit' = audit
      /\ row.email = users[u].email /\ row.is_active = FALSE /\ row # NULL
  <2>1. row \in Rows BY <1>1 DEF Rows
  <2> QED BY <1>1, <2>1, AccountNullAssumption DEF Deactivate, Rows
<1> HIDE DEF row
<1>4. users'[u] = row /\ \A v \in UserIds \ {u} : users'[v] = users[v]
  BY <1>3 DEF AccountInv, TypeOK
<1>5. NoNewRow BY <1>1, <1>3, <1>4 DEF NoNewRow, Rowed, Stored
<1>6. Registered' = Registered /\ Admitted' = Admitted
  BY <1>3, <1>5, RegisteredKept, AdmittedKept
<1>7. Rowed' = Rowed BY <1>5 DEF Rowed, NoNewRow, Grow, Stored
<1>8. Closed' = Closed \cup {a}
  <2> DEFINE C == {v \in Rowed : ~users[v].is_active}
  <2>1. C' = C \cup {u} BY <1>1, <1>3, <1>4, <1>7 DEF Rowed
  <2>2. \A v \in Rowed : users'[v].email.address = users[v].email.address
    BY <1>3, <1>4 DEF Rowed
  <2>3. C \subseteq Rowed OBVIOUS
  <2>4. Closed = {users[v].email.address : v \in C}
        /\ Closed' = {users'[v].email.address : v \in C'}
    BY DEF Closed
  <2> HIDE DEF C
  <2> QED BY <1>1, <2>1, <2>2, <2>3, <2>4
<1>9. \E x \in Registered : x.address = a
  <2> DEFINE x == [address |-> users[u].email.address, password |-> users[u].password_hash.digest]
  <2>1. x \in Registered BY <1>1 DEF Registered
  <2> QED BY <2>1
<1>10. Directory!Deactivate(a) BY <1>6, <1>8, <1>9 DEF Directory!Deactivate
<1> QED BY <1>2, <1>10 DEF Directory!Next

(* Every step is a step of the directory or leaves it alone. *)
LEMMA DirectoryStep ==
    ASSUME AccountInv, [Next]_vars
    PROVE  [Directory!Next]_(Directory!vars)
<1>0. AccountInv' /\ Grow BY StepInv
<1>1. ASSUME NEW r \in Requests, Arrive(r) PROVE UNCHANGED Directory!vars
  <2>1. UNCHANGED <<users, audit>>
    BY <1>1 DEF Arrive, Register, Login, Refresh, GetCurrentUser
  <2> QED BY <1>0, <2>1, DirectoryKept
<1>2. ASSUME NEW r \in Requests, Step(r) PROVE [Directory!Next]_(Directory!vars)
  <2>1. CASE \E u \in UserIds : CreateUser(r, u) BY <1>0, <2>1, CreateUserRegisters
  <2>2. CASE RecordLoginSucceeded(r) BY <1>0, <2>2, LoginAdmits
  <2>3. CASE RecordRegistered(r) \/ RecordDuplicate(r) \/ RecordLoginFailed(r)
    <3>1. users' = users /\ \A e \in audit' : e \in audit \/ e.action # "USER_LOGIN_SUCCEEDED"
      BY <2>3 DEF RecordRegistered, RecordDuplicate, RecordLoginFailed, Record
    <3>2. NoNewRow BY <3>1 DEF NoNewRow
    <3>3. Registered' = Registered /\ Closed' = Closed /\ Admitted' = Admitted
      BY <1>0, <3>1, <3>2, RegisteredKept, ClosedKept, AdmittedKept
    <3> QED BY <3>3 DEF Directory!vars
  <2>4. CASE UpdateLastLogin(r)
    <3>1. user[r] \in UserIds /\ Stored(user[r]) /\ users[user[r]] \in Rows
      BY <2>4, LocalTypes DEF AccountInv, RequestOK, UpdateLastLogin
    <3>2. \A u \in UserIds : Stored(u) => users'[u].is_active = users[u].is_active
      BY <2>4, <3>1 DEF UpdateLastLogin, AccountInv, TypeOK, Rows
    <3>3. NoNewRow BY <2>4, <3>1 DEF UpdateLastLogin, AccountInv, TypeOK, NoNewRow, Stored
    <3>4. audit' = audit BY <2>4 DEF UpdateLastLogin
    <3>5. Registered' = Registered /\ Closed' = Closed /\ Admitted' = Admitted
      BY <1>0, <3>2, <3>3, <3>4, RegisteredKept, ClosedKept, AdmittedKept
    <3> QED BY <3>5 DEF Directory!vars
  <2>5. CASE CreateUserDuplicate(r) \/ GetByEmail(r) \/ (\E t \in Tokens : IssueTokenPair(r, t))
             \/ GetByHash(r) \/ GetOwner(r) \/ CreateRotationPair(r) \/ RecordRotated(r)
             \/ RecordRejected(r)
    <3>1. UNCHANGED <<users, audit>>
      BY <2>5 DEF CreateUserDuplicate, GetByEmail, IssueTokenPair, GetByHash, GetOwner,
                  CreateRotationPair, RecordRotated, RecordRejected
    <3> QED BY <1>0, <3>1, DirectoryKept
  <2> QED BY <1>2, <2>1, <2>2, <2>3, <2>4, <2>5 DEF Step
<1>3. ASSUME NEW r \in Requests, Abort(r) PROVE UNCHANGED Directory!vars
  <2>1. UNCHANGED <<users, audit>> BY <1>3 DEF Abort
  <2> QED BY <1>0, <2>1, DirectoryKept
<1>4. CASE World
  <2>1. CASE \E u \in UserIds : Deactivate(u) BY <1>0, <2>1, DeactivateCloses
  <2>2. CASE (\E s \in Tokens : CloseSession(s)) \/ Tick
    <3>1. UNCHANGED <<users, audit>> BY <2>2 DEF CloseSession, Tick
    <3> QED BY <1>0, <3>1, DirectoryKept
  <2> QED BY <1>4, <2>1, <2>2 DEF World
<1>5. CASE AllServed \/ UNCHANGED vars
  <2>1. UNCHANGED <<users, audit>> BY <1>5 DEF AllServed, vars
  <2> QED BY <1>0, <2>1, DirectoryKept
<1> QED BY <1>1, <1>2, <1>3, <1>4, <1>5 DEF Next

(* Registration and login, statement by statement, implement the abstract    *)
(* directory: ImplementsDirectory.                                           *)
THEOREM DirectoryImplemented == Spec => ImplementsDirectory
<1>1. Init => Directory!Init
  <2> SUFFICES ASSUME Init PROVE Registered = {} /\ Closed = {} /\ Admitted = {}
    BY DEF Directory!Init
  <2>1. Rowed = {} /\ Succeeded = {} BY DEF Init, Rowed, Stored, Succeeded
  <2> QED BY <2>1 DEF Registered, Closed, Admitted
<1>2. AccountInv /\ [Next]_vars => [Directory!Next]_(Directory!vars) BY DirectoryStep
<1> QED BY <1>1, <1>2, AccountInvariant, PTL DEF Spec, ImplementsDirectory, Directory!Spec
=============================================================================
