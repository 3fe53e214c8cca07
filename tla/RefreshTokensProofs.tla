------------------------- MODULE RefreshTokensProofs -------------------------
(***************************************************************************)
(* Proofs about RefreshTokens for every number of users, tokens and        *)
(* requests and every walk bound.  The inductive invariant is IndInv; it   *)
(* is preserved because rows only ever grow (RowsGrow): a stored token     *)
(* keeps its owner, family and successor, a revoked one stays revoked, and *)
(* a dead family stays dead, since the only step that adds a token to a    *)
(* family holds the lock on a live one.  So whatever one request has read  *)
(* is still true after the steps of the others (RequestOK), and only the   *)
(* request that takes a step has to be looked at closely.                  *)
(***************************************************************************)
EXTENDS RefreshTokens, TLAPS

coreRows == <<owner, revoked, replaced_by, family>>

RowsGrow ==
    /\ \A t \in Tokens : Stored(t) => owner'[t] = owner[t] /\ family'[t] = family[t]
    /\ \A t \in Tokens : replaced_by[t] # NULL => replaced_by'[t] = replaced_by[t]
    /\ revoked \subseteq revoked'
    /\ \A t \in Tokens : Stored(t) /\ Dead(family[t]) => Dead(family[t])'

(* The local variables of request r are left alone. *)
LocalsKept(r) ==
    /\ pc'[r] = pc[r] /\ user'[r] = user[r] /\ token'[r] = token[r]
    /\ issued'[r] = issued[r] /\ reason'[r] = reason[r] /\ next_id'[r] = next_id[r]
    /\ candidate'[r] = candidate[r] /\ seen'[r] = seen[r] /\ steps'[r] = steps[r]

RowFacts == RowsOK /\ ChainLinear /\ NoOrphanChild /\ OneLivePerFamily

(* A new row gets an id that no row has. *)
LEMMA FreshIsNew == \A t : Fresh(t) => ~Stored(t)
BY DEF Fresh

(* A request that arrives has not been served yet. *)
LEMMA AdmitIsIdle == \A r : Admit(r) => pc[r] = "idle"
BY DEF Admit

(* The actions that change the columns the invariant is about. *)
LEMMA RowChanges ==
    ASSUME [Next]_vars
    PROVE  \/ UNCHANGED coreRows
           \/ \E r \in Requests, t \in Tokens : IssueTokenPair(r, t) \/ RotateCommit(r, t)
           \/ \E r \in Requests : WalkCommit(r) \/ LogoutRevoke(r)
<1>1. CASE UNCHANGED vars BY <1>1 DEF vars, rowVars, coreRows
<1>2. ASSUME NEW r \in Requests, Arrive(r) PROVE UNCHANGED coreRows
  BY <1>2 DEF Arrive, LoginLookup, RefreshRead, LogoutRead, rowVars, coreRows
<1>3. ASSUME NEW r \in Requests, Abort(r) PROVE UNCHANGED coreRows
  BY <1>3 DEF Abort, rowVars, coreRows
<1>4. ASSUME NEW r \in Requests, Step(r)
      PROVE \/ UNCHANGED coreRows
            \/ \E t \in Tokens : IssueTokenPair(r, t) \/ RotateCommit(r, t)
            \/ WalkCommit(r) \/ LogoutRevoke(r)
  BY <1>4 DEF Step, AuditLoginFailed, UpdateLastLogin, AuditLoginSucceeded, GetOwner,
     AuditRejected, RotateClaim, RotateLose, AuditRotated, Respond, WalkRead,
     WalkExhausted, WalkClaim, WalkLose, WalkReRead, AuditReuse, AuditFamilyRevoked,
     AuditLogout, rowVars, coreRows
<1>5. ASSUME NEW t \in Tokens, Expire(t) PROVE UNCHANGED coreRows
  BY <1>5 DEF Expire, coreRows
<1>6. ASSUME NEW u \in Users, Deactivate(u) PROVE UNCHANGED coreRows
  BY <1>6 DEF Deactivate, rowVars, coreRows
<1> QED BY <1>1, <1>2, <1>3, <1>4, <1>5, <1>6 DEF Next, AllServed

(* Every step keeps chains linear and rows growing: only the login's INSERT, *)
(* the commits of create_rotation_pair and revoke_descendants, and logout's  *)
(* UPDATE change a token row. *)
LEMMA RowsStep ==
    ASSUME IndInv, [Next]_vars
    PROVE  RowFacts' /\ RowsGrow
<1> USE NullAssumption DEF Stored, Live, Dead
<1>1. CASE UNCHANGED coreRows
  BY <1>1 DEF IndInv, RowFacts, RowsGrow, coreRows, RowsOK, ChainLinear, NoOrphanChild,
     OneLivePerFamily
<1>2. ASSUME NEW r \in Requests, NEW t \in Tokens, IssueTokenPair(r, t)
      PROVE RowFacts' /\ RowsGrow
  <2>1. /\ ~Stored(t) /\ user[r] # NULL
        /\ owner' = [owner EXCEPT ![t] = user[r]]
        /\ family' = [family EXCEPT ![t] = t]
        /\ UNCHANGED <<revoked, replaced_by>>
        /\ TypeOK /\ RowFacts
    BY <1>2, FreshIsNew DEF IssueTokenPair, IndInv, RequestOK, RowFacts
  <2>2. RowsOK' BY <2>1 DEF TypeOK, OrNull, RowFacts, RowsOK
  <2>3. ChainLinear' BY <2>1 DEF TypeOK, OrNull, RowFacts, RowsOK, ChainLinear
  <2>4. NoOrphanChild' BY <2>1 DEF TypeOK, OrNull, RowFacts, RowsOK, NoOrphanChild
  <2>5. OneLivePerFamily'
    BY <2>1 DEF TypeOK, OrNull, RowFacts, RowsOK, OneLivePerFamily
  <2>6. RowsGrow BY <2>1 DEF TypeOK, OrNull, RowFacts, RowsOK, RowsGrow
  <2> QED BY <2>2, <2>3, <2>4, <2>5, <2>6 DEF RowFacts
<1>3. ASSUME NEW r \in Requests, NEW t \in Tokens, RotateCommit(r, t)
      PROVE RowFacts' /\ RowsGrow
  <2> DEFINE a == token[r]
  <2>1. /\ ~Stored(t)
        /\ owner' = [owner EXCEPT ![t] = owner[a]]
        /\ family' = [family EXCEPT ![t] = family[a]]
        /\ revoked' = revoked \cup {a}
        /\ replaced_by' = [replaced_by EXCEPT ![a] = t]
    BY <1>3, FreshIsNew DEF RotateCommit, Revoke
  <2>2. /\ a \in Tokens /\ lock[a] = r
        /\ TypeOK /\ RowFacts
    BY <1>3 DEF RotateCommit, IndInv, RequestOK, LocksOK, RowFacts, TypeOK, OrNull,
       RotationSteps
  <2>3. Live(a) /\ replaced_by[a] = NULL
    BY <2>2 DEF IndInv, LocksOK, RowFacts, ChainLinear
  <2> HIDE DEF a
  <2>4. RowsOK' BY <2>1, <2>2, <2>3 DEF TypeOK, OrNull, RowFacts, RowsOK
  <2>5. ChainLinear'
    BY <2>1, <2>2, <2>3 DEF TypeOK, OrNull, RowFacts, RowsOK, ChainLinear
  <2>6. NoOrphanChild'
    BY <2>1, <2>2, <2>3 DEF TypeOK, OrNull, RowFacts, RowsOK, NoOrphanChild
  <2>7. OneLivePerFamily'
    BY <2>1, <2>2, <2>3 DEF TypeOK, OrNull, RowFacts, RowsOK, OneLivePerFamily
  <2>8. RowsGrow BY <2>1, <2>2, <2>3 DEF TypeOK, OrNull, RowFacts, RowsOK, RowsGrow
  <2> QED BY <2>4, <2>5, <2>6, <2>7, <2>8 DEF RowFacts
<1>4. ASSUME NEW r \in Requests, WalkCommit(r) \/ LogoutRevoke(r)
      PROVE RowFacts' /\ RowsGrow
  <2>1. PICK a \in Tokens : /\ Stored(a)
                            /\ revoked' = revoked \cup {a}
                            /\ UNCHANGED <<owner, family, replaced_by>>
    BY <1>4 DEF WalkCommit, LogoutRevoke, Revoke, IndInv, RequestOK, TypeOK, OrNull,
       WalkSteps, LogoutSteps
  <2>2. TypeOK /\ RowFacts BY DEF IndInv, RowFacts
  <2> QED
    BY <2>1, <2>2 DEF RowFacts, RowsGrow, TypeOK, OrNull, RowsOK, ChainLinear,
       NoOrphanChild, OneLivePerFamily
<1> QED BY RowChanges, <1>1, <1>2, <1>3, <1>4

-----------------------------------------------------------------------------
(* One step of one request, seen from its own locals and from the others. *)

(* A step of one request leaves the local variables of the others alone. *)
LEMMA OthersKept ==
    ASSUME TypeOK, NEW q \in Requests, NEW r \in Requests, q # r,
           Arrive(q) \/ Step(q) \/ Abort(q)
    PROVE  LocalsKept(r)
<1> USE DEF TypeOK, LocalsKept, Goto, walkVars, localVars
<1>1. CASE Arrive(q)
  BY <1>1 DEF Arrive, LoginLookup, RefreshRead, LogoutRead, FailLogin, Reject
<1>2. CASE Abort(q) BY <1>2 DEF Abort
<1>3. CASE AuditLoginFailed(q) \/ UpdateLastLogin(q) \/ AuditLoginSucceeded(q)
  BY <1>3 DEF AuditLoginFailed, UpdateLastLogin, AuditLoginSucceeded
<1>4. CASE \E t \in Tokens : IssueTokenPair(q, t) \/ RotateCommit(q, t)
  BY <1>4 DEF IssueTokenPair, RotateCommit
<1>5. CASE GetOwner(q) \/ AuditRejected(q) \/ RotateClaim(q) \/ RotateLose(q)
           \/ AuditRotated(q) \/ Respond(q)
  BY <1>5 DEF GetOwner, AuditRejected, RotateClaim, RotateLose, AuditRotated, Respond,
     Reject
<1>6. CASE WalkRead(q) \/ WalkExhausted(q) \/ WalkReRead(q)
  BY <1>6 DEF WalkRead, WalkExhausted, WalkReRead
<1>7. CASE WalkClaim(q) \/ WalkLose(q) \/ WalkCommit(q) \/ AuditReuse(q)
           \/ AuditFamilyRevoked(q) \/ LogoutRevoke(q) \/ AuditLogout(q)
  BY <1>7 DEF WalkClaim, WalkLose, WalkCommit, AuditReuse, AuditFamilyRevoked,
     LogoutRevoke, AuditLogout
<1> QED BY <1>1, <1>2, <1>3, <1>4, <1>5, <1>6, <1>7 DEF Step

(* What a request knows survives any step that leaves its locals alone. *)
LEMMA RequestStable ==
    ASSUME TypeOK, TypeOK', NEW r \in Requests, RequestOK(r), RowsOK, LocalsKept(r), RowsGrow
    PROVE  RequestOK(r)'
<1>1. \A t \in Tokens : Stored(t) => Stored(t)' /\ family'[t] = family[t]
  BY DEF RowsGrow, Stored
<1>2. \A t \in Tokens : replaced_by[t] # NULL => replaced_by'[t] = replaced_by[t]
  BY DEF RowsGrow
<1>3. revoked \subseteq revoked' BY DEF RowsGrow
<1>4. \A t \in Tokens : Stored(t) /\ Dead(family[t]) => Dead(family[t])'
  BY DEF RowsGrow
<1>5. /\ token[r] \in Tokens \cup {NULL} /\ candidate[r] \in Tokens \cup {NULL}
      /\ next_id[r] \in Tokens \cup {NULL} /\ issued[r] \in Tokens \cup {NULL}
      /\ seen[r] \in Tokens \cup {NULL}
  BY DEF TypeOK, OrNull
<1> QED
  BY <1>1, <1>2, <1>3, <1>4, <1>5, NullAssumption DEF RequestOK, LocalsKept, WalkSteps,
     ReuseSteps, RotationSteps, LogoutSteps

-----------------------------------------------------------------------------
(* Type correctness *)

(* Every step keeps the types. *)
LEMMA TypeStep ==
    ASSUME IndInv, [Next]_vars
    PROVE  TypeOK'
<1> USE NullAssumption, BoundAssumption
    DEF Idle, Over, InFlight, LoginSteps, RotationSteps, WalkSteps, ReuseSteps, LogoutSteps,
        LoginFailures, Rejections, ReuseOutcomes, Actions, Events, OrNull, TypeOK, Goto,
        Record, userVars, rowVars, walkVars, localVars
<1>0. TypeOK /\ \A r \in Requests : RequestOK(r) BY DEF IndInv
<1>1. CASE UNCHANGED vars BY <1>0, <1>1 DEF vars
<1>2. ASSUME NEW r \in Requests, Arrive(r) PROVE TypeOK'
  <2>1. ASSUME NEW u \in OrNull(Users), NEW c \in BOOLEAN, LoginLookup(r, u, c)
        PROVE TypeOK'
    BY <1>0, <2>1 DEF LoginLookup, FailLogin
  <2>2. ASSUME NEW t \in OrNull(held), RefreshRead(r, t) PROVE TypeOK'
    BY <1>0, <2>2 DEF RefreshRead, Reject
  <2>3. ASSUME NEW t \in OrNull(held), LogoutRead(r, t) PROVE TypeOK'
    BY <1>0, <2>3 DEF LogoutRead
  <2> QED BY <1>2, <2>1, <2>2, <2>3 DEF Arrive
<1>3. ASSUME NEW r \in Requests, Step(r) PROVE TypeOK'
  <2>1. CASE AuditLoginFailed(r) BY <1>0, <2>1 DEF AuditLoginFailed
  <2>2. CASE UpdateLastLogin(r) BY <1>0, <2>2 DEF UpdateLastLogin
  <2>3. CASE AuditLoginSucceeded(r) BY <1>0, <2>3 DEF AuditLoginSucceeded
  <2>4. ASSUME NEW t \in Tokens, IssueTokenPair(r, t) PROVE TypeOK'
    BY <1>0, <2>4 DEF IssueTokenPair
  <2>5. ASSUME NEW t \in Tokens, RotateCommit(r, t) PROVE TypeOK'
    BY <1>0, <2>5 DEF RotateCommit, Revoke, Release, RequestOK
  <2>6. CASE GetOwner(r) BY <1>0, <2>6 DEF GetOwner, Reject
  <2>7. CASE AuditRejected(r) BY <1>0, <2>7 DEF AuditRejected
  <2>8. CASE RotateClaim(r) BY <1>0, <2>8 DEF RotateClaim
  <2>9. CASE RotateLose(r) BY <1>0, <2>9 DEF RotateLose, Reject
  <2>10. CASE AuditRotated(r) BY <1>0, <2>10 DEF AuditRotated
  <2>11. CASE Respond(r) BY <1>0, <2>11 DEF Respond, RequestOK
  <2>12. CASE WalkRead(r) BY <1>0, <2>12 DEF WalkRead, WalkBudget, GetById, RequestOK
  <2>13. CASE WalkExhausted(r) BY <1>0, <2>13 DEF WalkExhausted
  <2>14. CASE WalkClaim(r) BY <1>0, <2>14 DEF WalkClaim
  <2>15. CASE WalkLose(r) BY <1>0, <2>15 DEF WalkLose
  <2>16. CASE WalkReRead(r) BY <1>0, <2>16 DEF WalkReRead, GetById
  <2>17. CASE WalkCommit(r) BY <1>0, <2>17 DEF WalkCommit, Revoke, Release, RequestOK
  <2>18. CASE AuditReuse(r) BY <1>0, <2>18 DEF AuditReuse
  <2>19. CASE AuditFamilyRevoked(r) BY <1>0, <2>19 DEF AuditFamilyRevoked
  <2>20. CASE LogoutRevoke(r) BY <1>0, <2>20 DEF LogoutRevoke, Revoke, RequestOK
  <2>21. CASE AuditLogout(r) BY <1>0, <2>21 DEF AuditLogout
  <2> QED
    BY <1>3, <2>1, <2>2, <2>3, <2>4, <2>5, <2>6, <2>7, <2>8, <2>9, <2>10, <2>11, <2>12,
       <2>13, <2>14, <2>15, <2>16, <2>17, <2>18, <2>19, <2>20, <2>21 DEF Step
<1>4. ASSUME NEW r \in Requests, Abort(r) PROVE TypeOK'
  BY <1>0, <1>4 DEF Abort, Release
<1>5. ASSUME NEW t \in Tokens, Expire(t) PROVE TypeOK' BY <1>0, <1>5 DEF Expire
<1>6. ASSUME NEW u \in Users, Deactivate(u) PROVE TypeOK' BY <1>0, <1>6 DEF Deactivate
<1> QED BY <1>1, <1>2, <1>3, <1>4, <1>5, <1>6 DEF Next, AllServed

-----------------------------------------------------------------------------
(* What the request that takes the step knows afterwards *)

(* get_by_id may be stale, but a successor it does report is the real one. *)
LEMMA GetByIdSound ==
    ASSUME NEW r \in Requests, RequestOK(r), pc[r] \in WalkSteps, NEW id \in Tokens,
           GetById(r, id) # NULL
    PROVE  GetById(r, id) = replaced_by[id]
BY NullAssumption DEF GetById, RequestOK

(* The leaf of a family is its only token that can be live: once it is       *)
(* revoked the family is dead.                                               *)
LEMMA LeafKillsFamily ==
    ASSUME OneLivePerFamily, NEW a \in Tokens, Live(a), revoked' = revoked \cup {a},
           UNCHANGED <<owner, family>>
    PROVE  Dead(family[a])'
BY DEF OneLivePerFamily, Live, Dead, Stored

(* What the request that takes the step knows afterwards holds of the rows. *)
LEMMA RequestStep ==
    ASSUME IndInv, TypeOK', RowsGrow, NEW r \in Requests, Arrive(r) \/ Step(r) \/ Abort(r)
    PROVE  RequestOK(r)'
<1> USE NullAssumption
    DEF RotationSteps, WalkSteps, ReuseSteps, LogoutSteps, Goto, OrNull, TypeOK, Stored
<1>0. /\ TypeOK /\ RequestOK(r) /\ RowsOK /\ ChainLinear
      /\ \A t \in held : Stored(t)
  BY DEF IndInv
<1> USE <1>0 DEF RequestOK
<1>1. CASE Arrive(r)
  <2>1. ASSUME NEW u \in OrNull(Users), NEW c \in BOOLEAN, LoginLookup(r, u, c)
        PROVE RequestOK(r)'
    BY <2>1, AdmitIsIdle DEF LoginLookup, FailLogin, LoginFailures, walkVars
  <2>2. ASSUME NEW t \in OrNull(held), RefreshRead(r, t) PROVE RequestOK(r)'
    BY <2>2, AdmitIsIdle DEF RefreshRead, Reject, rowVars, ChainLinear
  <2>3. ASSUME NEW t \in OrNull(held), LogoutRead(r, t) PROVE RequestOK(r)'
    BY <2>3, AdmitIsIdle DEF LogoutRead, rowVars
  <2> QED BY <1>1, <2>1, <2>2, <2>3 DEF Arrive
<1>2. CASE Abort(r) BY <1>2 DEF Abort
<1>3. CASE Step(r)
  <2>1. CASE AuditLoginFailed(r) BY <2>1 DEF AuditLoginFailed
  <2>2. CASE UpdateLastLogin(r) BY <2>2 DEF UpdateLastLogin, localVars
  <2>3. CASE AuditLoginSucceeded(r) BY <2>3 DEF AuditLoginSucceeded, localVars
  <2>4. ASSUME NEW t \in Tokens, IssueTokenPair(r, t) PROVE RequestOK(r)'
    BY <2>4 DEF IssueTokenPair
  <2>5. ASSUME NEW t \in Tokens, RotateCommit(r, t) PROVE RequestOK(r)'
    <3>1. token[r] \in Tokens /\ owner[token[r]] # NULL BY <2>5 DEF RotateCommit
    <3>2. pc'[r] = "rotated" /\ token'[r] = token[r] /\ replaced_by'[token[r]] = t
          /\ issued'[r] = t /\ owner'[t] = owner[token[r]]
      BY <2>5, <3>1 DEF RotateCommit
    <3>3. owner'[token[r]] # NULL BY <3>1 DEF RowsGrow
    <3> QED BY <3>1, <3>2, <3>3
  <2>6. CASE GetOwner(r) BY <2>6 DEF GetOwner, Reject, rowVars
  <2>7. CASE AuditRejected(r) BY <2>7 DEF AuditRejected
  <2>8. CASE RotateClaim(r) BY <2>8 DEF RotateClaim, rowVars, localVars
  <2>9. CASE RotateLose(r) BY <2>9 DEF RotateLose, Reject, WhereUnrevoked, rowVars
  <2>10. CASE AuditRotated(r) BY <2>10 DEF AuditRotated, rowVars, localVars
  <2>11. CASE Respond(r) BY <2>11 DEF Respond
  <2>12. CASE WalkRead(r)
    <3> DEFINE n == next_id[r]
    <3> DEFINE s == GetById(r, n)
    <3>1. pc[r] = "walk" /\ n \in Tokens /\ Stored(n) /\ family[n] = family[token[r]]
      BY <2>12 DEF WalkRead
    <3>2. s # NULL => s = replaced_by[n] BY <3>1, GetByIdSound
    <3>3. s # NULL => s \in Tokens /\ Stored(s) /\ family[s] = family[token[r]]
      BY <3>1, <3>2 DEF ChainLinear
    <3>4. /\ UNCHANGED rowVars /\ token'[r] = token[r]
          /\ candidate'[r] = n /\ seen'[r] = s
          /\ IF s = NULL THEN pc'[r] = "claim_leaf" /\ next_id'[r] = n
             ELSE pc'[r] = "walk" /\ next_id'[r] = s
      BY <2>12 DEF WalkRead, localVars
    <3> HIDE DEF n, s
    <3> QED BY <3>1, <3>2, <3>3, <3>4 DEF rowVars
  <2>13. CASE WalkExhausted(r) BY <2>13 DEF WalkExhausted, rowVars, localVars
  <2>14. CASE WalkClaim(r) BY <2>14 DEF WalkClaim, rowVars, localVars, walkVars
  <2>15. CASE WalkLose(r) BY <2>15 DEF WalkLose, rowVars, localVars, walkVars
  <2>16. CASE WalkReRead(r)
    <3> DEFINE n == candidate[r]
    <3> DEFINE s == GetById(r, n)
    <3>1. pc[r] = "reread" /\ n \in Tokens /\ Stored(n) /\ family[n] = family[token[r]]
      BY <2>16 DEF WalkReRead
    <3>2. s # NULL => s = replaced_by[n] BY <3>1, GetByIdSound
    <3>3. s # NULL => s \in Tokens /\ Stored(s) /\ family[s] = family[token[r]]
      BY <3>1, <3>2 DEF ChainLinear
    <3>4. /\ UNCHANGED rowVars /\ token'[r] = token[r] /\ seen'[r] = seen[r]
          /\ IF s = NULL THEN pc'[r] = "reuse_audit" /\ candidate'[r] = NULL
             ELSE pc'[r] = "walk" /\ next_id'[r] = s /\ candidate'[r] = n
      BY <2>16 DEF WalkReRead, localVars
    <3>5. seen[r] \in {NULL, replaced_by[n]} /\ replaced_by[token[r]] # NULL
          /\ token[r] # NULL /\ Stored(token[r])
      BY <3>1
    <3> HIDE DEF n, s
    <3> QED BY <3>1, <3>2, <3>3, <3>4, <3>5 DEF rowVars
  <2>17. CASE WalkCommit(r)
    <3>1. /\ pc[r] = "commit_leaf" /\ candidate[r] \in Tokens
          /\ lock[candidate[r]] = r /\ OneLivePerFamily
          /\ revoked' = revoked \cup {candidate[r]}
          /\ UNCHANGED <<owner, family, replaced_by, candidate, token>>
          /\ pc'[r] = "reuse_audit"
      BY <2>17 DEF WalkCommit, Revoke, IndInv, LocksOK, walkVars, localVars
    <3>2. Live(candidate[r]) BY <3>1 DEF IndInv, LocksOK
    <3>3. Dead(family[candidate[r]])' BY <3>1, <3>2, LeafKillsFamily
    <3> QED BY <3>1, <3>3
  <2>18. CASE AuditReuse(r)
    <3>1. /\ pc[r] = "reuse_audit" /\ UNCHANGED <<owner, family, revoked, replaced_by>>
          /\ UNCHANGED <<candidate, token>>
          /\ pc'[r] = IF candidate[r] = NULL THEN "done" ELSE "family_audit"
      BY <2>18 DEF AuditReuse, walkVars, localVars, rowVars
    <3>2. candidate[r] # NULL => Dead(family[candidate[r]])' BY <3>1 DEF Dead, Live
    <3> QED BY <3>1, <3>2
  <2>19. CASE AuditFamilyRevoked(r) BY <2>19 DEF AuditFamilyRevoked
  <2>20. CASE LogoutRevoke(r) BY <2>20 DEF LogoutRevoke, Revoke, localVars
  <2>21. CASE AuditLogout(r) BY <2>21 DEF AuditLogout
  <2> QED
    BY <1>3, <2>1, <2>2, <2>3, <2>4, <2>5, <2>6, <2>7, <2>8, <2>9, <2>10, <2>11, <2>12,
       <2>13, <2>14, <2>15, <2>16, <2>17, <2>18, <2>19, <2>20, <2>21 DEF Step
<1> QED BY <1>1, <1>2, <1>3

-----------------------------------------------------------------------------
(* Row locks *)

Holding == {"insert", "commit_leaf"}

(* A step of q that takes and releases no lock keeps the locks in order. *)
LEMMA LocksQuiet ==
    ASSUME TypeOK, LocksOK, NEW q \in Requests, UNCHANGED lock,
           pc[q] \notin Holding, pc'[q] \notin Holding,
           \A r \in Requests \ {q} : LocalsKept(r),
           \A t \in Tokens : lock[t] # NULL => Live(t)'
    PROVE  LocksOK'
BY NullAssumption DEF LocksOK, LocalsKept, Holding, TypeOK, OrNull

(* So does the end of q's transaction. *)
LEMMA LocksReleased ==
    ASSUME TypeOK, LocksOK, NEW q \in Requests, Release(q), pc'[q] \notin Holding,
           \A r \in Requests \ {q} : LocalsKept(r) /\ RequestOK(r),
           \A t \in Tokens : lock[t] \notin {NULL, q} => Live(t)'
    PROVE  LocksOK'
<1>1. \A t \in Tokens : lock'[t] # NULL => lock'[t] = lock[t] /\ lock[t] \notin {NULL, q}
  BY DEF Release
<1>2. \A t \in Tokens : lock'[t] # NULL =>
         /\ Live(t)'
         /\ \/ pc'[lock'[t]] = "insert" /\ token'[lock'[t]] = t
            \/ pc'[lock'[t]] = "commit_leaf" /\ candidate'[lock'[t]] = t
  BY <1>1 DEF LocksOK, LocalsKept, TypeOK, OrNull
<1>3. ASSUME NEW r \in Requests
      PROVE  /\ pc'[r] = "insert" => lock'[token'[r]] = r
             /\ pc'[r] = "commit_leaf" => lock'[candidate'[r]] = r
  <2>1. CASE r = q BY <2>1 DEF Holding
  <2>2. CASE r # q
    <3>1. /\ pc[r] = "insert" => token[r] \in Tokens
          /\ pc[r] = "commit_leaf" => candidate[r] \in Tokens
      BY <2>2 DEF RequestOK, RotationSteps, TypeOK, OrNull
    <3> QED BY <2>2, <3>1 DEF Release, LocksOK, LocalsKept
  <2> QED BY <2>1, <2>2
<1> QED BY <1>2, <1>3 DEF LocksOK

(* Row locks are held by the request about to commit the row, at every step. *)
LEMMA LocksStep ==
    ASSUME IndInv, TypeOK', NEW q \in Requests, Arrive(q) \/ Step(q) \/ Abort(q)
    PROVE  LocksOK'
<1> USE NullAssumption DEF Goto, TypeOK
<1>0. /\ TypeOK /\ LocksOK /\ RequestOK(q)
      /\ \A r \in Requests \ {q} : LocalsKept(r) /\ RequestOK(r)
  BY OthersKept DEF IndInv
<1>a. ASSUME UNCHANGED lock, UNCHANGED coreRows, pc[q] \notin Holding, pc'[q] \notin Holding
      PROVE LocksOK'
  <2>1. \A t \in Tokens : lock[t] # NULL => Live(t)'
    BY <1>0, <1>a DEF coreRows, LocksOK, Live, Stored
  <2> QED BY <1>0, <1>a, <2>1, LocksQuiet
<1> USE DEF Holding, rowVars, coreRows
<1>1. CASE Arrive(q)
  BY <1>1, <1>a, <1>0, AdmitIsIdle DEF Arrive, LoginLookup, FailLogin, RefreshRead, Reject,
     LogoutRead
<1>2. CASE Abort(q)
  <2>1. /\ pc'[q] = "aborted" /\ UNCHANGED coreRows /\ Release(q)
    BY <1>2, <1>0 DEF Abort
  <2>2. \A t \in Tokens : lock[t] \notin {NULL, q} => Live(t)'
    BY <2>1, <1>0 DEF LocksOK, Live, Stored
  <2> QED BY <2>1, <2>2, <1>0, LocksReleased
<1>3. CASE AuditLoginFailed(q) \/ UpdateLastLogin(q) \/ AuditLoginSucceeded(q)
           \/ GetOwner(q) \/ AuditRejected(q) \/ RotateLose(q) \/ AuditRotated(q)
           \/ Respond(q)
  BY <1>3, <1>a, <1>0 DEF AuditLoginFailed, UpdateLastLogin, AuditLoginSucceeded, GetOwner,
     AuditRejected, RotateLose, AuditRotated, Respond, Reject
<1>4. CASE WalkRead(q) \/ WalkExhausted(q) \/ WalkLose(q) \/ WalkReRead(q) \/ AuditReuse(q)
           \/ AuditFamilyRevoked(q) \/ AuditLogout(q)
  BY <1>4, <1>a, <1>0 DEF WalkRead, WalkExhausted, WalkLose, WalkReRead, AuditReuse,
     AuditFamilyRevoked, AuditLogout
<1>5. ASSUME NEW t \in Tokens, IssueTokenPair(q, t) PROVE LocksOK'
  <2>1. /\ UNCHANGED <<lock, revoked>> /\ pc[q] = "login_create" /\ pc'[q] = "respond"
        /\ ~Stored(t) /\ owner' = [owner EXCEPT ![t] = user[q]]
    BY <1>5, <1>0, FreshIsNew DEF IssueTokenPair
  <2>2. \A x \in Tokens : lock[x] # NULL => Live(x)'
    BY <2>1, <1>0 DEF LocksOK, Live, Stored
  <2> QED BY <2>1, <2>2, <1>0, LocksQuiet
<1>6. CASE LogoutRevoke(q)
  <2>1. /\ UNCHANGED <<lock, owner>> /\ pc[q] = "revoke" /\ pc'[q] = "logout_audit"
        /\ lock[token[q]] = NULL /\ revoked' = revoked \cup {token[q]}
    BY <1>6, <1>0 DEF LogoutRevoke, RowFree, Revoke
  <2>2. \A x \in Tokens : lock[x] # NULL => Live(x)'
    BY <2>1, <1>0 DEF LocksOK, Live, Stored
  <2> QED BY <2>1, <2>2, <1>0, LocksQuiet
<1>7. CASE RotateClaim(q)
  <2>1. token[q] \in Tokens /\ Live(token[q])
    BY <1>7, <1>0 DEF RotateClaim, RequestOK, RotationSteps, WhereUnrevoked, Live, OrNull
  <2> QED
    BY <1>7, <1>0, <2>1 DEF RotateClaim, RowFree, LocksOK, LocalsKept, Live, Stored, OrNull,
       localVars, walkVars
<1>8. CASE WalkClaim(q)
  <2>1. candidate[q] \in Tokens /\ Live(candidate[q])
    BY <1>8, <1>0 DEF WalkClaim, RequestOK, WalkSteps, WhereUnrevoked, Live, OrNull
  <2> QED
    BY <1>8, <1>0, <2>1 DEF WalkClaim, RowFree, LocksOK, LocalsKept, Live, Stored, OrNull,
       localVars, walkVars
<1>9. ASSUME NEW t \in Tokens, RotateCommit(q, t) PROVE LocksOK'
  <2>1. /\ Release(q) /\ pc[q] = "insert" /\ pc'[q] = "rotated" /\ ~Stored(t)
        /\ owner' = [owner EXCEPT ![t] = owner[token[q]]]
        /\ revoked' = revoked \cup {token[q]} /\ lock[token[q]] = q
    BY <1>9, <1>0, FreshIsNew DEF RotateCommit, Revoke, LocksOK
  <2>2. \A x \in Tokens : lock[x] \notin {NULL, q} => Live(x)'
    BY <2>1, <1>0 DEF LocksOK, Live, Stored
  <2> QED BY <2>1, <2>2, <1>0, LocksReleased
<1>10. CASE WalkCommit(q)
  <2>1. /\ Release(q) /\ pc[q] = "commit_leaf" /\ pc'[q] = "reuse_audit" /\ owner' = owner
        /\ revoked' = revoked \cup {candidate[q]} /\ lock[candidate[q]] = q
    BY <1>10, <1>0 DEF WalkCommit, Revoke, LocksOK
  <2>2. \A x \in Tokens : lock[x] \notin {NULL, q} => Live(x)'
    BY <2>1, <1>0 DEF LocksOK, Live, Stored
  <2> QED BY <2>1, <2>2, <1>0, LocksReleased
<1> QED BY <1>1, <1>2, <1>3, <1>4, <1>5, <1>6, <1>7, <1>8, <1>9, <1>10 DEF Step

-----------------------------------------------------------------------------
(* The log *)

(* What the invariant says of one audit row. *)
EventOK(e) ==
    /\ pc[e.request] # "idle"
    /\ e.action \in {"REFRESH_TOKEN_ROTATED", "REFRESH_TOKEN_REUSE_DETECTED"} =>
          e.token # NULL /\ replaced_by[e.token] # NULL
    /\ e.action \in {"USER_LOGOUT", "REFRESH_TOKEN_FAMILY_REVOKED"} => e.token \in revoked
    /\ e.detail \in {"revoked_token", "concurrent_rotation_lost"} => e.token \in revoked
    /\ e.action = "REFRESH_TOKEN_FAMILY_REVOKED" =>
          /\ e.token # NULL /\ Stored(e.token)
          /\ token[e.request] # NULL /\ Stored(token[e.request])
          /\ Dead(family[e.token])
          /\ family[e.token] = family[token[e.request]]

(* The three invariants about the log, audit row by audit row. *)
LEMMA EventsOK ==
    (\A e \in audit : EventOK(e)) <=> AuditOK /\ AuditTruthful /\ FamilyRevokedIsDead
BY DEF EventOK, AuditOK, AuditTruthful, FamilyRevokedIsDead

(* A request that has started keeps the token it was given. *)
LEMMA StartedStays ==
    ASSUME TypeOK, [Next]_vars, NEW r \in Requests, pc[r] # "idle"
    PROVE  pc'[r] # "idle" /\ token'[r] = token[r]
<1> USE DEF TypeOK, Goto, walkVars, localVars
<1>1. CASE UNCHANGED vars BY <1>1 DEF vars
<1>2. ASSUME NEW q \in Requests, q # r, Arrive(q) \/ Step(q) \/ Abort(q)
      PROVE pc'[r] # "idle" /\ token'[r] = token[r]
  BY <1>2, OthersKept DEF LocalsKept
<1>3. CASE Arrive(r)
  BY <1>3, AdmitIsIdle DEF Arrive, LoginLookup, RefreshRead, LogoutRead
<1>4. CASE Step(r)
  BY <1>4 DEF Step, AuditLoginFailed, UpdateLastLogin, AuditLoginSucceeded, IssueTokenPair,
     GetOwner, AuditRejected, RotateClaim, RotateLose, RotateCommit, AuditRotated, Respond,
     WalkRead, WalkExhausted, WalkClaim, WalkLose, WalkReRead, WalkCommit, AuditReuse,
     AuditFamilyRevoked, LogoutRevoke, AuditLogout, Reject
<1>5. CASE Abort(r) BY <1>5 DEF Abort
<1>6. ASSUME NEW t \in Tokens, Expire(t) PROVE pc'[r] # "idle" /\ token'[r] = token[r]
  BY <1>6 DEF Expire
<1>7. ASSUME NEW u \in Users, Deactivate(u) PROVE pc'[r] # "idle" /\ token'[r] = token[r]
  BY <1>7 DEF Deactivate
<1> QED BY <1>1, <1>2, <1>3, <1>4, <1>5, <1>6, <1>7 DEF Next, AllServed

(* Every step adds at most one row to the log, written by one of these. *)
Audits(r) ==
    \/ AuditLoginFailed(r) \/ AuditLoginSucceeded(r) \/ AuditRejected(r) \/ AuditRotated(r)
    \/ AuditReuse(r) \/ AuditFamilyRevoked(r) \/ AuditLogout(r)

(* Only the calls of AuditLogRepository.record change the log. *)
LEMMA AuditChanges ==
    ASSUME [Next]_vars
    PROVE  UNCHANGED audit \/ \E r \in Requests : Audits(r)
<1>1. CASE UNCHANGED vars BY <1>1 DEF vars
<1>2. ASSUME NEW r \in Requests, Arrive(r) \/ Abort(r) PROVE UNCHANGED audit
  BY <1>2 DEF Arrive, LoginLookup, RefreshRead, LogoutRead, Abort
<1>3. ASSUME NEW r \in Requests, Step(r) PROVE UNCHANGED audit \/ Audits(r)
  BY <1>3 DEF Step, Audits, UpdateLastLogin, IssueTokenPair, GetOwner, RotateClaim,
     RotateLose, RotateCommit, Respond, WalkRead, WalkExhausted, WalkClaim, WalkLose,
     WalkReRead, WalkCommit, LogoutRevoke
<1>4. ASSUME NEW t \in Tokens, Expire(t) PROVE UNCHANGED audit BY <1>4 DEF Expire
<1>5. ASSUME NEW u \in Users, Deactivate(u) PROVE UNCHANGED audit BY <1>5 DEF Deactivate
<1> QED BY <1>1, <1>2, <1>3, <1>4, <1>5 DEF Next, AllServed

(* Rows of the log stay true, and the ones a step adds are true. *)
LEMMA AuditStep ==
    ASSUME IndInv, [Next]_vars, TypeOK', RowsGrow
    PROVE  audit \subseteq audit' /\ \A e \in audit' : EventOK(e)'
<1> USE NullAssumption
<1>0. TypeOK /\ (\A r \in Requests : RequestOK(r)) /\ (\A e \in audit : EventOK(e))
  BY EventsOK DEF IndInv
<1>1. ASSUME NEW e \in audit PROVE EventOK(e)'
  <2>1. /\ e.request \in Requests /\ e.token \in Tokens \cup {NULL}
        /\ token[e.request] \in Tokens \cup {NULL} /\ EventOK(e)
    BY <1>0 DEF TypeOK, Events, OrNull
  <2>2. pc'[e.request] # "idle" /\ token'[e.request] = token[e.request]
    BY <2>1, <1>0, StartedStays DEF EventOK
  <2>3. /\ \A t \in Tokens : Stored(t) => Stored(t)' /\ family'[t] = family[t]
        /\ \A t \in Tokens : replaced_by[t] # NULL => replaced_by'[t] # NULL
        /\ revoked \subseteq revoked'
        /\ \A t \in Tokens : Stored(t) /\ Dead(family[t]) => Dead(family[t])'
    BY DEF RowsGrow, Stored
  <2> QED BY <2>1, <2>2, <2>3 DEF EventOK
<1>2. CASE UNCHANGED audit BY <1>1, <1>2
<1>3. ASSUME NEW r \in Requests, Audits(r)
      PROVE  audit \subseteq audit' /\ \A e \in audit' : EventOK(e)'
  <2>0. RequestOK(r) /\ RowsOK BY <1>0 DEF IndInv
  <2>1. ASSUME NEW e, audit' = audit \cup {e}, EventOK(e)'
        PROVE  audit \subseteq audit' /\ \A f \in audit' : EventOK(f)'
    BY <1>1, <2>1
  <2> USE <1>0, <2>0 DEF Goto, Record, TypeOK, OrNull, RotationSteps, WalkSteps, ReuseSteps,
        LogoutSteps, rowVars, localVars, walkVars, EventOK, Stored
  <2>2. CASE AuditLoginFailed(r)
    <3>1. PICK e : /\ e = [request |-> r, action |-> "USER_LOGIN_FAILED",
                          token |-> NULL, detail |-> reason[r]]
                   /\ audit' = audit \cup {e}
      BY <2>2 DEF AuditLoginFailed
    <3>2. EventOK(e)' BY <3>1, <2>2 DEF AuditLoginFailed, RequestOK,
         LoginFailures
    <3> QED BY <2>1, <3>1, <3>2
  <2>3. CASE AuditLoginSucceeded(r)
    <3>1. PICK e : /\ e = [request |-> r, action |-> "USER_LOGIN_SUCCEEDED",
                          token |-> NULL, detail |-> "none"]
                   /\ audit' = audit \cup {e}
      BY <2>3 DEF AuditLoginSucceeded
    <3>2. EventOK(e)' BY <3>1, <2>3 DEF AuditLoginSucceeded, RequestOK
    <3> QED BY <2>1, <3>1, <3>2
  <2>4. CASE AuditRejected(r)
    <3>1. PICK e : /\ e = [request |-> r, action |-> "REFRESH_TOKEN_REJECTED",
                          token |-> token[r], detail |-> reason[r]]
                   /\ audit' = audit \cup {e}
      BY <2>4 DEF AuditRejected
    <3>2. EventOK(e)' BY <3>1, <2>4 DEF AuditRejected, RequestOK
    <3> QED BY <2>1, <3>1, <3>2
  <2>5. CASE AuditRotated(r)
    <3>1. PICK e : /\ e = [request |-> r, action |-> "REFRESH_TOKEN_ROTATED",
                          token |-> token[r], detail |-> "none"]
                   /\ audit' = audit \cup {e}
      BY <2>5 DEF AuditRotated
    <3>2. EventOK(e)' BY <3>1, <2>5 DEF AuditRotated, RequestOK
    <3> QED BY <2>1, <3>1, <3>2
  <2>6. CASE AuditLogout(r)
    <3>1. PICK e : /\ e = [request |-> r, action |-> "USER_LOGOUT",
                          token |-> token[r], detail |-> "none"]
                   /\ audit' = audit \cup {e}
      BY <2>6 DEF AuditLogout
    <3>2. EventOK(e)' BY <3>1, <2>6 DEF AuditLogout, RequestOK
    <3> QED BY <2>1, <3>1, <3>2
  <2>7. CASE AuditReuse(r)
    <3>1. PICK e : /\ e = [request |-> r, action |-> "REFRESH_TOKEN_REUSE_DETECTED",
                          token |-> token[r], detail |->
                            IF candidate[r] = NULL THEN "family_already_revoked"
                            ELSE "family_was_live"]
                   /\ audit' = audit \cup {e}
      BY <2>7 DEF AuditReuse
    <3>2. EventOK(e)' BY <3>1, <2>7 DEF AuditReuse, RequestOK
    <3> QED BY <2>1, <3>1, <3>2
  <2>8. CASE AuditFamilyRevoked(r)
    <3>1. PICK e : /\ e = [request |-> r, action |-> "REFRESH_TOKEN_FAMILY_REVOKED",
                          token |-> candidate[r], detail |-> "none"]
                   /\ audit' = audit \cup {e}
      BY <2>8 DEF AuditFamilyRevoked
    <3>2. /\ candidate[r] # NULL /\ candidate[r] \in Tokens /\ Stored(candidate[r])
          /\ Dead(family[candidate[r]])
          /\ family[candidate[r]] = family[token[r]] /\ token[r] # NULL /\ Stored(token[r])
      BY <2>8 DEF AuditFamilyRevoked, RequestOK
    <3>3. /\ UNCHANGED <<owner, revoked, family, token>> /\ pc'[r] = "done"
      BY <2>8 DEF AuditFamilyRevoked
    <3>4. Dead(family[candidate[r]])' BY <2>8, <3>2, <3>3 DEF Dead, Live, AuditFamilyRevoked
    <3>5. candidate[r] \in revoked BY <3>2 DEF Dead, Live
    <3>6. EventOK(e)' BY <3>1, <2>8, <3>2, <3>3, <3>4, <3>5 DEF AuditFamilyRevoked
    <3> QED BY <2>1, <3>1, <3>6
  <2> QED BY <1>3, <2>2, <2>3, <2>4, <2>5, <2>6, <2>7, <2>8 DEF Audits
<1> QED BY <1>2, <1>3, AuditChanges

-----------------------------------------------------------------------------
(* The invariant and what follows from it *)

(* Only stored tokens are handed to clients. *)
LEMMA HeldStep ==
    ASSUME IndInv, [Next]_vars, RowsGrow
    PROVE  \A t \in held' : Stored(t)'
<1>0. TypeOK /\ (\A t \in held : Stored(t)) /\ (\A r \in Requests : RequestOK(r))
  BY DEF IndInv
<1>1. \A t \in Tokens : Stored(t) => Stored(t)' BY DEF RowsGrow, Stored
<1>2. UNCHANGED held \/ \E r \in Requests : Respond(r)
  <2>1. CASE UNCHANGED vars BY <2>1 DEF vars
  <2>2. ASSUME NEW r \in Requests, Arrive(r) \/ Abort(r) PROVE UNCHANGED held
    BY <2>2 DEF Arrive, LoginLookup, RefreshRead, LogoutRead, Abort
  <2>3. ASSUME NEW r \in Requests, Step(r) PROVE UNCHANGED held \/ Respond(r)
    BY <2>3 DEF Step, AuditLoginFailed, UpdateLastLogin, AuditLoginSucceeded, IssueTokenPair,
       GetOwner, AuditRejected, RotateClaim, RotateLose, RotateCommit, AuditRotated,
       WalkRead, WalkExhausted, WalkClaim, WalkLose, WalkReRead, WalkCommit, AuditReuse,
       AuditFamilyRevoked, LogoutRevoke, AuditLogout
  <2>4. ASSUME NEW t \in Tokens, Expire(t) PROVE UNCHANGED held BY <2>4 DEF Expire
  <2>5. ASSUME NEW u \in Users, Deactivate(u) PROVE UNCHANGED held BY <2>5 DEF Deactivate
  <2> QED BY <2>1, <2>2, <2>3, <2>4, <2>5 DEF Next, AllServed
<1>3. ASSUME NEW r \in Requests, Respond(r)
      PROVE  issued[r] \in Tokens /\ Stored(issued[r]) /\ held' = held \cup {issued[r]}
  BY <1>0, <1>3 DEF Respond, RequestOK, TypeOK, OrNull
<1> QED BY <1>0, <1>1, <1>2, <1>3 DEF TypeOK

(* The empty database satisfies the invariant. *)
LEMMA InitInv == Init => IndInv
BY NullAssumption, BoundAssumption
   DEF Init, IndInv, TypeOK, OrNull, Idle, Over, InFlight, Events, RowsOK, ChainLinear,
       NoOrphanChild, OneLivePerFamily, LocksOK, RequestOK, AuditOK, AuditTruthful,
       FamilyRevokedIsDead, Stored, Live, RotationSteps, WalkSteps, ReuseSteps, LogoutSteps

(* Every step preserves the invariant, and rows and log only grow. *)
LEMMA StepInv == IndInv /\ [Next]_vars => IndInv' /\ RowsGrow /\ audit \subseteq audit'
<1> SUFFICES ASSUME IndInv, [Next]_vars
             PROVE  IndInv' /\ RowsGrow /\ audit \subseteq audit'
  OBVIOUS
<1>1. TypeOK /\ RowsOK /\ LocksOK /\ \A r \in Requests : RequestOK(r) BY DEF IndInv
<1>2. TypeOK' BY TypeStep
<1>3. RowFacts' /\ RowsGrow BY RowsStep
<1>4. (\A e \in audit' : EventOK(e)') /\ audit \subseteq audit' BY <1>2, <1>3, AuditStep
<1>5. \A t \in held' : Stored(t)' BY <1>3, HeldStep
<1>6. LocksOK' /\ \A r \in Requests : RequestOK(r)'
  <2>1. ASSUME NEW q \in Requests, Arrive(q) \/ Step(q) \/ Abort(q)
        PROVE  LocksOK' /\ \A r \in Requests : RequestOK(r)'
    <3>1. LocksOK' BY <1>2, <2>1, LocksStep
    <3>2. ASSUME NEW r \in Requests PROVE RequestOK(r)'
      <4>1. CASE r = q BY <4>1, <1>2, <1>3, <2>1, RequestStep
      <4>2. CASE r # q
        <5>1. LocalsKept(r) BY <4>2, <1>1, <2>1, OthersKept
        <5> QED BY <5>1, <1>1, <1>2, <1>3, RequestStable
      <4> QED BY <4>1, <4>2
    <3> QED BY <3>1, <3>2
  <2>2. CASE UNCHANGED vars \/ (\E t \in Tokens : Expire(t)) \/ (\E u \in Users : Deactivate(u))
    <3>1. UNCHANGED <<coreRows, lock, pc, localVars, walkVars>>
      BY <2>2 DEF vars, Expire, Deactivate, rowVars, coreRows
    <3>2. LocksOK' BY <3>1, <1>1 DEF LocksOK, Live, Stored, coreRows, localVars, walkVars
    <3>3. ASSUME NEW r \in Requests PROVE RequestOK(r)'
      <4>1. LocalsKept(r) BY <3>1 DEF LocalsKept, localVars, walkVars
      <4> QED BY <4>1, <1>1, <1>2, <1>3, RequestStable
    <3> QED BY <3>2, <3>3
  <2> QED BY <2>1, <2>2 DEF Next, AllServed
<1>7. AuditOK' /\ AuditTruthful' /\ FamilyRevokedIsDead'
  <2>1. ((\A e \in audit : EventOK(e)) <=> AuditOK /\ AuditTruthful /\ FamilyRevokedIsDead)'
    BY EventsOK, PTL
  <2> QED BY <2>1, <1>4
<1> QED BY <1>2, <1>3, <1>4, <1>5, <1>6, <1>7 DEF IndInv, RowFacts

(* Rows, locks, requests and log agree in every reachable state, for any     *)
(* number of requests interleaved at any statement of AuthService and cut    *)
(* off anywhere.                                                             *)
THEOREM Invariance == Spec => []IndInv
<1>1. IndInv /\ [Next]_vars => IndInv' BY StepInv
<1> QED BY InitInv, <1>1, PTL DEF Spec

(* Every column and local variable keeps its type. *)
THEOREM TypeCorrect == Spec => []TypeOK
<1>1. IndInv => TypeOK BY DEF IndInv
<1> QED BY Invariance, <1>1, PTL

(* At most one token of a family can be exchanged: of all rotations and      *)
(* walks that reach a row, the conditional UPDATE lets one through.          *)
THEOREM OneLive == Spec => []OneLivePerFamily
<1>1. IndInv => OneLivePerFamily BY DEF IndInv
<1> QED BY Invariance, <1>1, PTL

(* create_rotation_pair keeps every replaced_by chain linear, within one     *)
(* user and one family.                                                      *)
THEOREM LinearChains == Spec => []ChainLinear
<1>1. IndInv => ChainLinear BY DEF IndInv
<1> QED BY Invariance, <1>1, PTL

(* create_rotation_pair leaves no child that no parent points to, however    *)
(* its race ends and wherever it is cut off.                                 *)
THEOREM NoOrphans == Spec => []NoOrphanChild
<1>1. IndInv => NoOrphanChild BY DEF IndInv
<1> QED BY Invariance, <1>1, PTL

(* A family reported as revoked by reuse detection is dead for good, and is  *)
(* the family of the token presented.                                        *)
THEOREM RevokedFamilies == Spec => []FamilyRevokedIsDead
<1>1. IndInv => FamilyRevokedIsDead BY DEF IndInv
<1> QED BY Invariance, <1>1, PTL

(* What the log says of a token is true of its row. *)
THEOREM TruthfulAudit == Spec => []AuditTruthful
<1>1. IndInv => AuditTruthful BY DEF IndInv
<1> QED BY Invariance, <1>1, PTL

(* Nothing is un-revoked, re-linked, handed to another user or removed from  *)
(* the log, and a session that has ended stays ended.                        *)
THEOREM GrowOnly == Spec => NothingUndone
<1> DEFINE A == /\ revoked \subseteq revoked'
                /\ audit \subseteq audit'
                /\ \A t \in Tokens : Stored(t) =>
                      /\ owner'[t] = owner[t]
                      /\ replaced_by[t] # NULL => replaced_by'[t] = replaced_by[t]
                      /\ Dead(family[t]) => Dead(family[t])'
<1>1. IndInv /\ [Next]_vars => [A]_vars BY StepInv DEF RowsGrow
<1> HIDE DEF A
<1>2. Spec => [][A]_vars BY Invariance, <1>1, PTL DEF Spec
<1> QED BY <1>2 DEF NothingUndone, A

-----------------------------------------------------------------------------
(* The log and the rows account for each other *)

(* A request does one of its own steps, or its local variables stay. *)
LEMMA RequestMoves ==
    ASSUME TypeOK, [Next]_vars, NEW r \in Requests
    PROVE  LocalsKept(r) \/ Arrive(r) \/ Step(r) \/ Abort(r)
<1>1. ASSUME NEW q \in Requests, q # r, Arrive(q) \/ Step(q) \/ Abort(q) PROVE LocalsKept(r)
  BY <1>1, OthersKept
<1>2. CASE UNCHANGED vars \/ (\E t \in Tokens : Expire(t)) \/ (\E u \in Users : Deactivate(u))
  BY <1>2 DEF vars, Expire, Deactivate, localVars, walkVars, LocalsKept
<1> QED BY <1>1, <1>2 DEF Next, AllServed

(* last_login_at is never cleared. *)
LEMMA LoginsStay ==
    ASSUME TypeOK, [Next]_vars
    PROVE  \A u \in Users : last_login[u] # NULL => last_login'[u] # NULL
<1>1. UNCHANGED last_login \/ \E r \in Requests : UpdateLastLogin(r)
  <2>1. CASE UNCHANGED vars BY <2>1 DEF vars, userVars
  <2>2. ASSUME NEW r \in Requests, Arrive(r) \/ Abort(r) PROVE UNCHANGED last_login
    BY <2>2 DEF Arrive, LoginLookup, RefreshRead, LogoutRead, Abort, userVars
  <2>3. ASSUME NEW r \in Requests, Step(r) PROVE UNCHANGED last_login \/ UpdateLastLogin(r)
    BY <2>3 DEF Step, AuditLoginFailed, AuditLoginSucceeded, IssueTokenPair, GetOwner,
       AuditRejected, RotateClaim, RotateLose, RotateCommit, AuditRotated, Respond, WalkRead,
       WalkExhausted, WalkClaim, WalkLose, WalkReRead, WalkCommit, AuditReuse,
       AuditFamilyRevoked, LogoutRevoke, AuditLogout, userVars
  <2>4. ASSUME NEW t \in Tokens, Expire(t) PROVE UNCHANGED last_login
    BY <2>4 DEF Expire, userVars
  <2>5. ASSUME NEW u \in Users, Deactivate(u) PROVE UNCHANGED last_login BY <2>5 DEF Deactivate
  <2> QED BY <2>1, <2>2, <2>3, <2>4, <2>5 DEF Next, AllServed
<1> QED BY <1>1, NullAssumption DEF UpdateLastLogin, TypeOK

(* Tokens are issued by the commits of login and of create_rotation_pair. *)
LEMMA IssuedChanges ==
    ASSUME [Next]_vars
    PROVE  \/ UNCHANGED issued
           \/ \E r \in Requests, t \in Tokens : IssueTokenPair(r, t) \/ RotateCommit(r, t)
<1>1. CASE UNCHANGED vars BY <1>1 DEF vars, localVars
<1>2. ASSUME NEW r \in Requests, Arrive(r) \/ Abort(r) PROVE UNCHANGED issued
  BY <1>2 DEF Arrive, LoginLookup, RefreshRead, LogoutRead, Abort, localVars
<1>3. ASSUME NEW r \in Requests, Step(r)
      PROVE UNCHANGED issued \/ \E t \in Tokens : IssueTokenPair(r, t) \/ RotateCommit(r, t)
  BY <1>3 DEF Step, AuditLoginFailed, UpdateLastLogin, AuditLoginSucceeded, GetOwner,
     AuditRejected, RotateClaim, RotateLose, AuditRotated, Respond, WalkRead, WalkExhausted,
     WalkClaim, WalkLose, WalkReRead, WalkCommit, AuditReuse, AuditFamilyRevoked,
     LogoutRevoke, AuditLogout, localVars
<1>4. ASSUME NEW t \in Tokens, Expire(t) PROVE UNCHANGED issued BY <1>4 DEF Expire, localVars
<1>5. ASSUME NEW u \in Users, Deactivate(u) PROVE UNCHANGED issued
  BY <1>5 DEF Deactivate, localVars
<1> QED BY <1>1, <1>2, <1>3, <1>4, <1>5 DEF Next, AllServed

(* A request that has issued a token keeps it, and no other issues it too. *)
LEMMA IssuedKept ==
    ASSUME IndInv, LedgerInv, [Next]_vars
    PROVE  /\ \A r \in Requests : issued[r] # NULL => issued'[r] = issued[r]
           /\ \A q, r \in Requests : issued'[r] # NULL /\ issued'[q] = issued'[r] => q = r
<1>0. TypeOK /\ \A r \in Requests : IssuedOK(r) BY DEF IndInv, LedgerInv
<1>1. CASE UNCHANGED issued BY <1>0, <1>1 DEF IssuedOK
<1>2. ASSUME NEW q \in Requests, NEW t \in Tokens, IssueTokenPair(q, t) \/ RotateCommit(q, t)
      PROVE  /\ \A r \in Requests : issued[r] # NULL => issued'[r] = issued[r]
             /\ \A p, r \in Requests : issued'[r] # NULL /\ issued'[p] = issued'[r] => p = r
  <2>1. /\ issued' = [issued EXCEPT ![q] = t] /\ ~Stored(t) /\ pc[q] \in {"login_create", "insert"}
    BY <1>2, FreshIsNew DEF IssueTokenPair, RotateCommit
  <2>2. issued[q] = NULL BY <1>0, <2>1 DEF IssuedOK, Over
  <2>3. \A r \in Requests : issued[r] # NULL => issued[r] # t BY <1>0, <2>1 DEF IssuedOK
  <2>4. \A r \in Requests : issued'[r] = IF r = q THEN t ELSE issued[r] BY <1>0, <2>1 DEF TypeOK
  <2> QED BY <1>0, <2>2, <2>3, <2>4, NullAssumption DEF IssuedOK
<1> QED BY <1>1, <1>2, IssuedChanges

(* What a request has issued stays accounted for, whoever takes the step. *)
LEMMA IssuedStep ==
    ASSUME IndInv, IndInv', LedgerInv, [Next]_vars, RowsGrow, audit \subseteq audit',
           NEW r \in Requests
    PROVE  IssuedOK(r)'
<1> USE NullAssumption
<1>0. /\ TypeOK /\ TypeOK' /\ IssuedOK(r) /\ RequestOK(r) /\ RequestOK(r)'
  BY DEF IndInv, LedgerInv
<1>1. issued[r] # NULL => issued'[r] = issued[r] BY IssuedKept
<1>2. issued'[r] # NULL => \A q \in Requests : issued'[q] = issued'[r] => q = r BY IssuedKept
<1>3. \A t \in Tokens : Stored(t) => Stored(t)' BY DEF RowsGrow, Stored
<1>4. \A u \in Users : last_login[u] # NULL => last_login'[u] # NULL BY <1>0, LoginsStay
<1>5. /\ issued[r] \in Tokens \cup {NULL} /\ token[r] \in Tokens \cup {NULL}
      /\ user[r] \in Users \cup {NULL}
  BY <1>0 DEF TypeOK, OrNull
<1>6. ASSUME issued'[r] = issued[r],
             issued[r] # NULL => pc'[r] \in {"rotated", "respond"} \cup Over,
             pc'[r] = "rotated" => pc[r] = "rotated" /\ token'[r] = token[r],
             pc'[r] \in {"login_audit", "login_create"} =>
                 pc[r] = pc'[r] /\ user'[r] = user[r]
      PROVE  IssuedOK(r)'
  <2>1. issued'[r] # NULL => Stored(issued[r])' BY <1>0, <1>3, <1>5, <1>6 DEF IssuedOK, Stored
  <2>2. pc'[r] = "rotated" => replaced_by'[token'[r]] = issued'[r]
    <3>1. pc[r] = "rotated" => token[r] \in Tokens /\ replaced_by[token[r]] # NULL
      BY <1>0, <1>5 DEF RequestOK, RotationSteps
    <3> QED BY <1>0, <1>6, <3>1 DEF IssuedOK, RowsGrow
  <2>3. pc'[r] \in {"login_audit", "login_create"} => last_login'[user'[r]] # NULL
    BY <1>0, <1>4, <1>5, <1>6 DEF IssuedOK, RequestOK
  <2>4. pc'[r] = "login_create" =>
          \E e \in audit' : e.request = r /\ e.action = "USER_LOGIN_SUCCEEDED"
    BY <1>0, <1>6 DEF IssuedOK
  <2> QED BY <1>2, <1>6, <2>1, <2>2, <2>3, <2>4 DEF IssuedOK
<1> USE DEF Goto, Over
<1>7. CASE LocalsKept(r) BY <1>0, <1>6, <1>7 DEF LocalsKept, IssuedOK
<1>8. CASE Arrive(r)
  <2>1. pc[r] = "idle" /\ issued'[r] = issued[r]
        /\ pc'[r] \notin {"rotated", "login_audit", "login_create"}
    BY <1>0, <1>8, AdmitIsIdle DEF Arrive, LoginLookup, RefreshRead, LogoutRead, FailLogin,
       Reject, TypeOK
  <2> QED BY <1>0, <1>6, <2>1 DEF IssuedOK
<1>9. CASE Abort(r) BY <1>0, <1>6, <1>9 DEF Abort, localVars, TypeOK
<1>10. CASE Step(r)
  <2>1. CASE UpdateLastLogin(r)
    <3>1. /\ pc'[r] = "login_audit" /\ last_login'[user'[r]] = r /\ issued'[r] = issued[r]
          /\ pc[r] = "login_touch"
      BY <1>0, <1>5, <2>1 DEF UpdateLastLogin, localVars, TypeOK, RequestOK
    <3>2. issued[r] = NULL BY <1>0, <3>1 DEF IssuedOK
    <3> QED BY <3>1, <3>2 DEF IssuedOK
  <2>2. CASE AuditLoginSucceeded(r)
    <3> DEFINE e == [request |-> r, action |-> "USER_LOGIN_SUCCEEDED", token |-> NULL,
                     detail |-> "none"]
    <3>1. /\ pc[r] = "login_audit" /\ pc'[r] = "login_create" /\ issued'[r] = issued[r]
          /\ user'[r] = user[r] /\ e \in audit'
      BY <1>0, <2>2 DEF AuditLoginSucceeded, Record, localVars, TypeOK
    <3>2. issued[r] = NULL /\ last_login'[user'[r]] # NULL
      BY <1>0, <1>4, <1>5, <3>1 DEF IssuedOK, RequestOK
    <3>3. \E f \in audit' : f.request = r /\ f.action = "USER_LOGIN_SUCCEEDED"
      BY <3>1
    <3> QED BY <3>1, <3>2, <3>3 DEF IssuedOK
  <2>3. ASSUME NEW t \in Tokens, IssueTokenPair(r, t) PROVE IssuedOK(r)'
    <3>1. pc'[r] = "respond" BY <1>0, <2>3 DEF IssueTokenPair, TypeOK
    <3> QED BY <1>0, <1>2, <3>1 DEF IssuedOK, RequestOK
  <2>4. ASSUME NEW t \in Tokens, RotateCommit(r, t) PROVE IssuedOK(r)'
    <3>1. pc'[r] = "rotated" /\ issued'[r] = t BY <1>0, <2>4 DEF RotateCommit, TypeOK
    <3>2. replaced_by'[token'[r]] = t
      BY <1>0, <2>4 DEF RotateCommit, TypeOK, RequestOK, RotationSteps, OrNull
    <3> QED BY <1>0, <1>2, <3>1, <3>2 DEF IssuedOK, RequestOK
  <2>5. CASE \/ AuditLoginFailed(r) \/ GetOwner(r) \/ AuditRejected(r) \/ RotateClaim(r)
             \/ RotateLose(r) \/ AuditRotated(r) \/ Respond(r)
    <3>1. /\ issued'[r] = issued[r]
          /\ pc[r] \in {"rotated", "respond"} => pc'[r] \in {"respond", "done"}
          /\ pc[r] \notin Over
          /\ pc'[r] \notin {"rotated", "login_audit", "login_create"}
      BY <1>0, <2>5 DEF AuditLoginFailed, GetOwner, AuditRejected, RotateClaim, RotateLose,
         AuditRotated, Respond, Reject, localVars, TypeOK
    <3> QED BY <1>0, <1>6, <3>1 DEF IssuedOK
  <2>6. CASE \/ WalkRead(r) \/ WalkExhausted(r) \/ WalkClaim(r) \/ WalkLose(r)
             \/ WalkReRead(r) \/ WalkCommit(r) \/ AuditReuse(r) \/ AuditFamilyRevoked(r)
             \/ LogoutRevoke(r) \/ AuditLogout(r)
    <3>1. /\ issued'[r] = issued[r]
          /\ pc[r] \in WalkSteps \cup ReuseSteps \cup LogoutSteps
          /\ pc'[r] \notin {"rotated", "login_audit", "login_create"}
      BY <1>0, <2>6 DEF WalkRead, WalkExhausted, WalkClaim, WalkLose, WalkReRead, WalkCommit,
         AuditReuse, AuditFamilyRevoked, LogoutRevoke, AuditLogout, localVars, TypeOK,
         WalkSteps, ReuseSteps, LogoutSteps
    <3>2. issued[r] = NULL BY <1>0, <3>1 DEF IssuedOK, WalkSteps, ReuseSteps, LogoutSteps
    <3> QED BY <1>6, <3>1, <3>2
  <2> QED BY <1>10, <2>1, <2>2, <2>3, <2>4, <2>5, <2>6 DEF Step
<1> QED BY <1>0, <1>7, <1>8, <1>9, <1>10, RequestMoves

(* A request that has started keeps the user it loaded. *)
LEMMA UserStays ==
    ASSUME TypeOK, [Next]_vars, NEW r \in Requests, pc[r] # "idle"
    PROVE  user'[r] = user[r]
<1>1. CASE LocalsKept(r) BY <1>1 DEF LocalsKept
<1>2. CASE Arrive(r) BY <1>2, AdmitIsIdle DEF Arrive, LoginLookup, RefreshRead, LogoutRead
<1>3. CASE Abort(r) BY <1>3 DEF Abort, localVars
<1>4. CASE Step(r)
  BY <1>4 DEF Step, AuditLoginFailed, UpdateLastLogin, AuditLoginSucceeded, IssueTokenPair,
     GetOwner, AuditRejected, RotateClaim, RotateLose, RotateCommit, AuditRotated, Respond,
     WalkRead, WalkExhausted, WalkClaim, WalkLose, WalkReRead, WalkCommit, AuditReuse,
     AuditFamilyRevoked, LogoutRevoke, AuditLogout, localVars
<1> QED BY <1>1, <1>2, <1>3, <1>4, RequestMoves

(* A rotation on record keeps belonging to its request, and a request records *)
(* the rotation it made.                                                      *)
LEMMA RotationRowsStep ==
    ASSUME IndInv, IndInv', LedgerInv, [Next]_vars, RowsGrow
    PROVE  RotationRowsOK'
<1>0. /\ TypeOK /\ TypeOK' /\ RotationRowsOK /\ AuditOK
      /\ \A r \in Requests : IssuedOK(r) /\ RequestOK(r)
  BY DEF IndInv, LedgerInv
<1> USE NullAssumption
<1>1. ASSUME NEW e \in audit, e.action = "REFRESH_TOKEN_ROTATED"
      PROVE  /\ e.detail = "none" /\ e.token = token'[e.request]
             /\ issued'[e.request] # NULL /\ replaced_by'[e.token] = issued'[e.request]
  <2>1. e.request \in Requests /\ e.token \in Tokens
    BY <1>0, <1>1 DEF TypeOK, Events, OrNull, AuditOK
  <2>2. token'[e.request] = token[e.request]
    BY <1>0, <1>1, <2>1, StartedStays DEF AuditOK
  <2>3. issued'[e.request] = issued[e.request]
    BY <1>0, <1>1, <2>1, IssuedKept DEF RotationRowsOK
  <2> QED BY <1>0, <1>1, <2>1, <2>2, <2>3 DEF RotationRowsOK, RowsGrow
<1>2. CASE UNCHANGED audit BY <1>1, <1>2 DEF RotationRowsOK
<1>3. ASSUME NEW r \in Requests, Audits(r) PROVE RotationRowsOK'
  <2>1. CASE AuditRotated(r)
    <3> DEFINE e == [request |-> r, action |-> "REFRESH_TOKEN_ROTATED", token |-> token[r],
                     detail |-> "none"]
    <3>1. /\ pc[r] = "rotated" /\ audit' = audit \cup {e}
          /\ UNCHANGED <<token, issued, replaced_by>>
      BY <2>1 DEF AuditRotated, Record, localVars, rowVars
    <3>2. issued[r] # NULL /\ replaced_by[token[r]] = issued[r]
      BY <1>0, <3>1 DEF IssuedOK, RequestOK
    <3> QED BY <1>1, <3>1, <3>2 DEF RotationRowsOK
  <2>2. CASE ~AuditRotated(r)
    <3>1. \A e \in audit' \ audit : e.action # "REFRESH_TOKEN_ROTATED"
      BY <1>3, <2>2 DEF Audits, AuditLoginFailed, AuditLoginSucceeded, AuditRejected,
         AuditReuse, AuditFamilyRevoked, AuditLogout, Record
    <3> QED BY <1>1, <3>1 DEF RotationRowsOK
  <2> QED BY <2>1, <2>2
<1> QED BY <1>2, <1>3, AuditChanges

(* Every rotation has its request, before, during and after the step that     *)
(* records it.                                                                *)
LEMMA RotationAccountedStep ==
    ASSUME IndInv, IndInv', LedgerInv, [Next]_vars, RowsGrow, audit \subseteq audit',
           RotationRowsOK', \A r \in Requests : IssuedOK(r)'
    PROVE  RotationAccounted'
<1> USE NullAssumption
<1>0. /\ TypeOK /\ TypeOK' /\ RotationAccounted /\ AuditOK' /\ AuditOK
      /\ \A r \in Requests : IssuedOK(r)
  BY DEF IndInv, LedgerInv
<1> DEFINE Recorded(r, log) == \E e \in log : e.request = r /\ e.action = "REFRESH_TOKEN_ROTATED"
           Accounts(r) == pc[r] \in {"rotated", "aborted"} \/ Recorded(r, audit)
           AccountsNext(r) == pc'[r] \in {"rotated", "aborted"} \/ Recorded(r, audit')
<1>1. ASSUME NEW r \in Requests, Accounts(r) PROVE AccountsNext(r)
  <2>1. CASE Recorded(r, audit) BY <2>1
  <2>2. CASE pc[r] \in {"rotated", "aborted"}
    <3>1. CASE LocalsKept(r) BY <2>2, <3>1 DEF LocalsKept
    <3>2. CASE Arrive(r) BY <2>2, <3>2, AdmitIsIdle DEF Arrive, LoginLookup, RefreshRead, LogoutRead
    <3>3. CASE Abort(r) BY <1>0, <3>3 DEF Abort, Goto, TypeOK
    <3>4. CASE Step(r)
      <4>1. AuditRotated(r)
        BY <2>2, <3>4 DEF Step, AuditLoginFailed, UpdateLastLogin, AuditLoginSucceeded,
           IssueTokenPair, RotateCommit, GetOwner, AuditRejected, RotateClaim, RotateLose,
           Respond, WalkRead, WalkExhausted, WalkClaim, WalkLose, WalkReRead, WalkCommit,
           AuditReuse, AuditFamilyRevoked, LogoutRevoke, AuditLogout
      <4>2. [request |-> r, action |-> "REFRESH_TOKEN_ROTATED", token |-> token[r],
             detail |-> "none"] \in audit'
        BY <4>1 DEF AuditRotated, Record
      <4>3. Recorded(r, audit') BY <4>2
      <4> QED BY <4>3
    <3> QED BY <1>0, <3>1, <3>2, <3>3, <3>4, RequestMoves
  <2> QED BY <1>1, <2>1, <2>2
<1>2. ASSUME NEW t \in Tokens, replaced_by'[t] # NULL
      PROVE  \E r \in Requests :
                token'[r] = t /\ issued'[r] = replaced_by'[t] /\ AccountsNext(r)
  <2>1. CASE replaced_by[t] # NULL
    <3>1. PICK r \in Requests : token[r] = t /\ issued[r] = replaced_by[t] /\ Accounts(r)
      BY <1>0, <2>1 DEF RotationAccounted
    <3>2. replaced_by'[t] = replaced_by[t] BY <2>1 DEF RowsGrow
    <3>3. issued'[r] = issued[r] /\ pc[r] # "idle"
      BY <1>0, <2>1, <3>1, IssuedKept DEF IssuedOK, Over
    <3>4. token'[r] = token[r] BY <1>0, <3>3, StartedStays
    <3>5. AccountsNext(r) BY <1>1, <3>1
    <3> HIDE DEF AccountsNext
    <3> QED BY <3>1, <3>2, <3>3, <3>4, <3>5
  <2>2. CASE replaced_by[t] = NULL
    <3>1. PICK r \in Requests, c \in Tokens : RotateCommit(r, c)
      BY <1>2, <2>2, RowChanges DEF coreRows, IssueTokenPair, WalkCommit, LogoutRevoke
    <3>2. token[r] = t
      BY <1>0, <1>2, <2>2, <3>1 DEF RotateCommit, TypeOK
    <3>3. token'[r] = t /\ issued'[r] = c /\ replaced_by'[t] = c /\ pc'[r] = "rotated"
      BY <1>0, <3>1, <3>2 DEF RotateCommit, Goto, TypeOK
    <3> QED BY <3>3
  <2> QED BY <2>1, <2>2
<1>3. ASSUME NEW e \in audit', NEW f \in audit', e.action = "REFRESH_TOKEN_ROTATED",
             f.action = "REFRESH_TOKEN_ROTATED", e.token = f.token
      PROVE  e = f
  <2>1. e \in Events /\ f \in Events BY <1>0 DEF TypeOK
  <2>2. issued'[e.request] = issued'[f.request] /\ issued'[e.request] # NULL
        /\ e.detail = "none" /\ f.detail = "none"
    BY <1>3 DEF RotationRowsOK
  <2>3. e.request = f.request BY <2>1, <2>2 DEF IssuedOK, Events
  <2> QED BY <1>3, <2>1, <2>2, <2>3 DEF Events
<1> QED BY <1>2, <1>3 DEF RotationAccounted

(* Every session keeps the login that started it on record. *)
LEMMA SessionRecordedStep ==
    ASSUME IndInv, IndInv', LedgerInv, [Next]_vars, RowsGrow, audit \subseteq audit'
    PROVE  NoUnrecordedSession'
<1> USE NullAssumption
<1>0. /\ TypeOK /\ TypeOK' /\ NoUnrecordedSession /\ RowsOK
      /\ \A r \in Requests : IssuedOK(r) /\ RequestOK(r)
  BY DEF IndInv, LedgerInv
<1>1. \A u \in Users : last_login[u] # NULL => last_login'[u] # NULL BY <1>0, LoginsStay
<1> SUFFICES ASSUME NEW t \in Tokens, Stored(t)', family'[t] = t
             PROVE  /\ last_login'[owner'[t]] # NULL
                    /\ \E r \in Requests, e \in audit' :
                          /\ issued'[r] = t /\ user'[r] = owner'[t]
                          /\ e.request = r /\ e.action = "USER_LOGIN_SUCCEEDED"
  BY DEF NoUnrecordedSession
<1>2. CASE Stored(t)
  <2>1. owner'[t] = owner[t] /\ family[t] = t /\ owner[t] \in Users
    BY <1>0, <1>2 DEF RowsGrow, TypeOK, OrNull, Stored
  <2>2. PICK r \in Requests, e \in audit : /\ issued[r] = t /\ user[r] = owner[t]
                                           /\ e.request = r /\ e.action = "USER_LOGIN_SUCCEEDED"
    BY <1>0, <1>2, <2>1 DEF NoUnrecordedSession
  <2>3. issued'[r] = t BY <2>2, IssuedKept
  <2>4. user'[r] = user[r]
    <3>1. pc[r] # "idle" BY <1>0, <2>2 DEF IssuedOK, Over
    <3> QED BY <1>0, <3>1, UserStays
  <2>5. last_login[owner[t]] # NULL BY <1>0, <1>2, <2>1 DEF NoUnrecordedSession
  <2> QED BY <1>1, <2>1, <2>2, <2>3, <2>4, <2>5
<1>3. CASE ~Stored(t)
  <2>1. PICK r \in Requests, c \in Tokens : IssueTokenPair(r, c) \/ RotateCommit(r, c)
    BY <1>3, RowChanges DEF coreRows, WalkCommit, LogoutRevoke, Stored
  <2>2. c = t BY <1>0, <1>3, <2>1 DEF IssueTokenPair, RotateCommit, TypeOK, Stored
  <2>3. ~RotateCommit(r, t)
    <3> SUFFICES ASSUME RotateCommit(r, t) PROVE FALSE OBVIOUS
    <3>1. token[r] \in Tokens /\ Stored(token[r])
      BY <1>0 DEF RotateCommit, RequestOK, RotationSteps, TypeOK, OrNull
    <3>2. Stored(family[token[r]]) /\ family[token[r]] # t
      BY <1>0, <1>3, <3>1 DEF RowsOK, Stored
    <3>3. family'[t] = family[token[r]] BY <1>0 DEF RotateCommit, TypeOK
    <3> QED BY <3>2, <3>3
  <2>4. /\ pc[r] = "login_create" /\ issued'[r] = t /\ user'[r] = user[r]
        /\ owner'[t] = user[r] /\ UNCHANGED <<audit, last_login>>
    BY <1>0, <2>1, <2>2, <2>3 DEF IssueTokenPair, TypeOK, userVars
  <2> QED BY <1>0, <2>4 DEF IssuedOK
<1> QED BY <1>2, <1>3

(* The log and the rows account for each other in every reachable state:     *)
(* each issued token has one request, each recorded rotation is linked in    *)
(* the chain.                                                                *)
THEOREM LedgersBalance == Spec => []LedgerInv
<1>1. Init => LedgerInv
  BY NullAssumption DEF Init, LedgerInv, RotationAccounted, NoUnrecordedSession, Stored,
     RotationRowsOK, IssuedOK
<1>2. IndInv /\ IndInv' /\ LedgerInv /\ [Next]_vars => LedgerInv'
  <2> SUFFICES ASSUME IndInv, IndInv', LedgerInv, [Next]_vars PROVE LedgerInv' OBVIOUS
  <2>1. RowsGrow /\ audit \subseteq audit' BY StepInv
  <2>2. \A r \in Requests : IssuedOK(r)' BY <2>1, IssuedStep
  <2>3. RotationRowsOK' BY <2>1, RotationRowsStep
  <2>4. RotationAccounted' BY <2>1, <2>2, <2>3, RotationAccountedStep
  <2>5. NoUnrecordedSession' BY <2>1, SessionRecordedStep
  <2> QED BY <2>2, <2>3, <2>4, <2>5 DEF LedgerInv
<1> QED BY <1>1, <1>2, Invariance, PTL DEF Spec

(* Every link of a chain is the work of one refresh request, which recorded  *)
(* it, is about to, or was cut off; no rotation is recorded twice, although  *)
(* the commit of create_rotation_pair and the audit row are two commits.     *)
THEOREM RotationsAccounted == Spec => []RotationAccounted
<1>1. LedgerInv => RotationAccounted BY DEF LedgerInv
<1> QED BY LedgersBalance, <1>1, PTL

(* No session exists without the USER_LOGIN_SUCCEEDED row and the            *)
(* last_login_at of the login that opened it, wherever a request is cut off. *)
THEOREM SessionsRecorded == Spec => []NoUnrecordedSession
<1>1. LedgerInv => NoUnrecordedSession BY DEF LedgerInv
<1> QED BY LedgersBalance, <1>1, PTL

-----------------------------------------------------------------------------
(* RefreshTokens implements TokenFamilies *)

(* The only live token of a family is its current token. *)
LEMMA CurrentIs ==
    OneLivePerFamily =>
        /\ \A t \in Tokens : Live(t) => CurrentToken(family[t]) = t
        /\ \A f : (\A t \in Tokens : ~(Live(t) /\ family[t] = f)) => CurrentToken(f) = NULL
<1> SUFFICES ASSUME OneLivePerFamily
             PROVE  /\ \A t \in Tokens : Live(t) => CurrentToken(family[t]) = t
                    /\ \A f : (\A t \in Tokens : ~(Live(t) /\ family[t] = f)) =>
                                CurrentToken(f) = NULL
  OBVIOUS
<1>1. ASSUME NEW t \in Tokens, Live(t) PROVE CurrentToken(family[t]) = t
  <2>1. PICK c : /\ c = CHOOSE x \in Tokens : Live(x) /\ family[x] = family[t]
                 /\ c \in Tokens /\ Live(c) /\ family[c] = family[t]
    BY <1>1
  <2>2. c = t BY <2>1, <1>1 DEF OneLivePerFamily
  <2> QED BY <1>1, <2>1, <2>2 DEF CurrentToken
<1>2. ASSUME NEW f, \A t \in Tokens : ~(Live(t) /\ family[t] = f)
      PROVE CurrentToken(f) = NULL
  BY <1>2 DEF CurrentToken
<1> QED BY <1>1, <1>2

(* The same facts in the state a step leads to. *)
LEMMA CurrentIsNext ==
    (OneLivePerFamily =>
        /\ \A t \in Tokens : Live(t) => CurrentToken(family[t]) = t
        /\ \A f : (\A t \in Tokens : ~(Live(t) /\ family[t] = f)) => CurrentToken(f) = NULL)'
BY CurrentIs, PTL

(* A family none of whose tokens changes keeps its current token. *)
LEMMA CurrentKept ==
    ASSUME OneLivePerFamily, OneLivePerFamily', NEW f \in Tokens,
           \A t \in Tokens : (Live(t) /\ family[t] = f) <=> (Live(t)' /\ family'[t] = f)
    PROVE  CurrentToken(f)' = CurrentToken(f)
<1>1. CASE \E t \in Tokens : Live(t) /\ family[t] = f
  <2>1. PICK t \in Tokens : Live(t) /\ family[t] = f BY <1>1
  <2>2. CurrentToken(f) = t BY <2>1, CurrentIs
  <2>3. Live(t)' /\ family'[t] = f BY <2>1
  <2>4. CurrentToken(f)' = t BY <2>3, CurrentIsNext
  <2> QED BY <2>2, <2>4
<1>2. CASE \A t \in Tokens : ~(Live(t) /\ family[t] = f)
  <2>1. CurrentToken(f) = NULL BY <1>2, CurrentIs
  <2>2. CurrentToken(f)' = NULL BY <1>2, CurrentIsNext
  <2> QED BY <2>1, <2>2
<1> QED BY <1>1, <1>2

(* Every step of the code opens, rotates or closes one session, or none. *)
LEMMA SimulateStep ==
    ASSUME IndInv, IndInv', [Next]_vars
    PROVE  [Families!Next]_(Families!vars)
<1> DEFINE so == [s \in Tokens |-> IF family[s] = s THEN owner[s] ELSE NULL]
           cu == [s \in Tokens |-> CurrentToken(s)]
           us == {t \in Tokens : Stored(t)}
<1> USE NullAssumption DEF TypeOK, OrNull, Stored, Live
<1>0. /\ TypeOK /\ RowsOK /\ OneLivePerFamily /\ TypeOK' /\ RowsOK' /\ OneLivePerFamily'
      /\ ChainLinear /\ \A r \in Requests : RequestOK(r)
  BY DEF IndInv
<1>1. ASSUME UNCHANGED <<owner, family>>, revoked' \in {revoked}
      PROVE UNCHANGED Families!vars
  <2>1. \A s \in Tokens : CurrentToken(s)' = CurrentToken(s) BY <1>0, <1>1, CurrentKept
  <2>2. cu' = cu BY <2>1
  <2>3. so' = so /\ us' = us BY <1>1
  <2> QED BY <2>2, <2>3 DEF Families!vars
<1>2. ASSUME NEW r \in Requests, NEW t \in Tokens, IssueTokenPair(r, t)
      PROVE  Families!Next
  <2>1. /\ owner[t] = NULL /\ user[r] \in Users /\ family[t] = NULL
        /\ owner' = [owner EXCEPT ![t] = user[r]]
        /\ family' = [family EXCEPT ![t] = t]
        /\ revoked' = revoked /\ t \notin revoked
    BY <1>0, <1>2, FreshIsNew DEF IssueTokenPair, RequestOK, RowsOK
  <2>2. CurrentToken(t)' = t BY <1>0, <2>1, CurrentIsNext
  <2>3. \A x \in Tokens : Live(x) => family[x] # t BY <1>0, <2>1 DEF RowsOK
  <2>4. ASSUME NEW s \in Tokens, s # t PROVE CurrentToken(s)' = CurrentToken(s)
    <3>1. \A x \in Tokens : (Live(x) /\ family[x] = s) <=> (Live(x)' /\ family'[x] = s)
      BY <1>0, <2>1, <2>3, <2>4
    <3> QED BY <1>0, <3>1, CurrentKept
  <2>5. cu' = [cu EXCEPT ![t] = t] BY <2>2, <2>4
  <2>6. PICK u \in Users : u = user[r] BY <2>1
  <2>7. so' = [so EXCEPT ![t] = u] BY <1>0, <2>1, <2>6
  <2>8. t \notin us /\ us' = us \cup {t} BY <1>0, <2>1
  <2>9. Families!Open(t, u) BY <2>5, <2>7, <2>8 DEF Families!Open
  <2> QED BY <2>9 DEF Families!Next
<1>3. ASSUME NEW r \in Requests, NEW t \in Tokens, RotateCommit(r, t)
      PROVE  Families!Next
  <2>1. PICK a \in Tokens : a = token[r] BY <1>0, <1>3 DEF RotateCommit, RequestOK, RotationSteps
  <2>2. /\ owner[t] = NULL /\ family[t] = NULL /\ t \notin revoked
        /\ owner' = [owner EXCEPT ![t] = owner[a]]
        /\ family' = [family EXCEPT ![t] = family[a]]
        /\ revoked' = revoked \cup {a}
    BY <1>0, <1>3, <2>1, FreshIsNew DEF RotateCommit, Revoke, RowsOK
  <2>3. Live(a) BY <1>3, <2>1 DEF RotateCommit, IndInv, LocksOK
  <2>4. PICK f \in Tokens : f = family[a] /\ f # t BY <1>0, <2>2, <2>3 DEF RowsOK
  <2>5. CurrentToken(f) = a BY <1>0, <2>3, <2>4, CurrentIs
  <2>6. Live(t)' /\ family'[t] = f BY <1>0, <2>2, <2>3, <2>4
  <2>7. CurrentToken(f)' = t BY <1>0, <2>6, CurrentIsNext
  <2>8. ASSUME NEW s \in Tokens, s # f PROVE CurrentToken(s)' = CurrentToken(s)
    <3>1. \A x \in Tokens : (Live(x) /\ family[x] = s) <=> (Live(x)' /\ family'[x] = s)
      BY <1>0, <2>2, <2>3, <2>4, <2>8
    <3> QED BY <1>0, <3>1, CurrentKept
  <2>9. cu[f] # NULL /\ cu' = [cu EXCEPT ![f] = t] BY <2>5, <2>7, <2>8
  <2>10. so' = so BY <1>0, <2>2, <2>3, <2>4
  <2>11. t \notin us /\ us' = us \cup {t} BY <1>0, <2>2, <2>3
  <2>12. Families!Rotate(f, t) BY <2>9, <2>10, <2>11 DEF Families!Rotate
  <2> QED BY <2>12 DEF Families!Next
<1>4. ASSUME NEW r \in Requests, WalkCommit(r) \/ LogoutRevoke(r)
      PROVE  Families!Next \/ UNCHANGED Families!vars
  <2>1. PICK a \in Tokens : /\ Stored(a)
                            /\ revoked' = revoked \cup {a}
                            /\ UNCHANGED <<owner, family>>
    BY <1>0, <1>4 DEF WalkCommit, LogoutRevoke, Revoke, RequestOK, WalkSteps, LogoutSteps
  <2>2. CASE a \in revoked BY <2>1, <2>2, <1>1
  <2>3. CASE a \notin revoked
    <3>1. PICK f \in Tokens : f = family[a] BY <1>0, <2>1 DEF RowsOK
    <3>2. CurrentToken(f) = a BY <1>0, <2>1, <2>3, <3>1, CurrentIs
    <3>3. CurrentToken(f)' = NULL
      BY <1>0, <2>1, <2>3, <3>1, CurrentIsNext DEF OneLivePerFamily
    <3>4. ASSUME NEW s \in Tokens, s # f PROVE CurrentToken(s)' = CurrentToken(s)
      <4>1. \A x \in Tokens : (Live(x) /\ family[x] = s) <=> (Live(x)' /\ family'[x] = s)
        BY <1>0, <2>1, <3>1, <3>4
      <4> QED BY <1>0, <4>1, CurrentKept
    <3>5. cu[f] # NULL /\ cu' = [cu EXCEPT ![f] = NULL] BY <3>2, <3>3, <3>4
    <3>6. so' = so /\ us' = us BY <2>1
    <3>7. Families!Close(f) BY <3>5, <3>6 DEF Families!Close
    <3> QED BY <3>7 DEF Families!Next
  <2> QED BY <2>2, <2>3
<1> QED BY <1>1, <1>2, <1>3, <1>4, RowChanges DEF coreRows

(* Any interleaving of logins, rotations, walks and logouts is a behaviour   *)
(* of sessions that have one current token and stay closed once closed.      *)
THEOREM Refinement == Spec => ImplementsFamilies
<1>1. Init => Families!Init
  <2> SUFFICES ASSUME Init PROVE Families!Init OBVIOUS
  <2>1. \A t \in Tokens : ~Live(t) BY DEF Init, Live, Stored
  <2>2. \A s \in Tokens : CurrentToken(s) = NULL BY <2>1 DEF CurrentToken
  <2> QED BY <2>2, NullAssumption DEF Init, Families!Init, Stored
<1>2. IndInv /\ IndInv' /\ [Next]_vars => [Families!Next]_(Families!vars)
  BY SimulateStep
<1> QED BY <1>1, <1>2, Invariance, PTL DEF Spec, ImplementsFamilies, Families!Spec
=============================================================================
