------------------------ MODULE RequestOverlapProofs -------------------------
(***************************************************************************)
(* What a replay and a logout guarantee, for every number of users, tokens *)
(* and requests and at any concurrency.                                    *)
(*                                                                         *)
(* The first half is about walks (WalkInv): chains have one leaf and no    *)
(* cycle, and a walk meets a new token at each step, so it can only run    *)
(* out of steps in a family of at least _MAX_FAMILY_WALK_STEPS + 2 tokens. *)
(* The second half (OverlapInv) is about overtaking: whatever a request    *)
(* finds changed between two of its statements was changed by one it has   *)
(* met, and only a rotation leaves a live token behind.                    *)
(***************************************************************************)
EXTENDS RequestOverlap, RefreshTokensProofs, FiniteSetTheorems

StoredTokens == {t \in Tokens : Stored(t)}
Serving == {r \in Requests : pc[r] \in InFlight}

WalkInv ==
    /\ OneLeafPerFamily /\ ChainsAcyclic
    /\ \A r \in Requests : WalkAdvances(r)
    /\ IsFiniteSet(StoredTokens)
    /\ IsFiniteSet(Serving) /\ Cardinality(Serving) <= MaxConcurrent

-----------------------------------------------------------------------------
(* Chains *)

(* A link that a step adds leads to a token that was not stored before. *)
LEMMA OldLinks ==
    ASSUME IndInv, [Next]_vars, NEW p \in Tokens, NEW x \in Tokens, Stored(x),
           replaced_by'[p] = x
    PROVE  replaced_by[p] = x
<1>1. CASE UNCHANGED replaced_by BY <1>1
<1>2. ASSUME NEW r \in Requests, NEW t \in Tokens, RotateCommit(r, t)
      PROVE  replaced_by[p] = x
  <2>1. ~Stored(t) /\ replaced_by' = [replaced_by EXCEPT ![token[r]] = t]
    BY <1>2, FreshIsNew DEF RotateCommit
  <2> QED BY <2>1 DEF IndInv, TypeOK
<1> QED
  BY <1>1, <1>2, RowChanges DEF coreRows, IssueTokenPair, WalkCommit, LogoutRevoke

(* What came before stays what came before. *)
LEMMA PastStable ==
    ASSUME IndInv, [Next]_vars, RowsGrow, NEW S \in SUBSET Tokens, Past(S)
    PROVE  Past(S)'
<1>1. \A t \in S : Stored(t) /\ Stored(t)' BY DEF Past, RowsGrow, Stored
<1>2. ASSUME NEW p \in Tokens, replaced_by'[p] \in S PROVE p \in S
  <2>1. replaced_by[p] \in S BY <1>1, <1>2, OldLinks
  <2> QED BY <2>1 DEF Past
<1> QED BY <1>1, <1>2 DEF Past

(* Every step leaves one leaf per family: a new family has one token, and a  *)
(* rotation replaces the leaf.                                               *)
LEMMA OneLeafStep ==
    ASSUME IndInv, [Next]_vars, OneLeafPerFamily
    PROVE  OneLeafPerFamily'
<1> USE NullAssumption DEF Stored
<1>0. TypeOK /\ RowsOK /\ ChainLinear BY DEF IndInv
<1>1. CASE UNCHANGED <<owner, replaced_by, family>> BY <1>1 DEF OneLeafPerFamily
<1>2. ASSUME NEW r \in Requests, NEW t \in Tokens, IssueTokenPair(r, t)
      PROVE  OneLeafPerFamily'
  <2>1. /\ ~Stored(t) /\ UNCHANGED replaced_by
        /\ owner' = [owner EXCEPT ![t] = user[r]] /\ family' = [family EXCEPT ![t] = t]
    BY <1>2, FreshIsNew DEF IssueTokenPair
  <2>2. \A s \in Tokens : Stored(s) => family[s] # t BY <1>0, <2>1 DEF RowsOK
  <2> QED BY <1>0, <2>1, <2>2 DEF TypeOK, OneLeafPerFamily
<1>3. ASSUME NEW r \in Requests, NEW t \in Tokens, RotateCommit(r, t)
      PROVE  OneLeafPerFamily'
  <2>1. PICK a \in Tokens : a = token[r] /\ Live(a)
    BY <1>0, <1>3 DEF RotateCommit, IndInv, LocksOK, RequestOK, RotationSteps, TypeOK, OrNull
  <2>2. /\ ~Stored(t)
        /\ owner' = [owner EXCEPT ![t] = owner[a]] /\ family' = [family EXCEPT ![t] = family[a]]
        /\ replaced_by' = [replaced_by EXCEPT ![a] = t]
    BY <1>3, <2>1, FreshIsNew DEF RotateCommit
  <2>3. Stored(a) /\ replaced_by[a] = NULL BY <1>0, <2>1 DEF Live, ChainLinear
  <2> QED BY <1>0, <2>1, <2>2, <2>3 DEF TypeOK, OneLeafPerFamily
<1> QED
  BY <1>1, <1>2, <1>3, RowChanges DEF coreRows, WalkCommit, LogoutRevoke

(* Every step keeps chains without cycles: a rotation links to a token that  *)
(* was not stored before.                                                    *)
LEMMA AcyclicStep ==
    ASSUME IndInv, [Next]_vars, RowsGrow, ChainsAcyclic, IsFiniteSet(StoredTokens)
    PROVE  ChainsAcyclic'
<1> USE NullAssumption
<1>0. TypeOK /\ RowsOK /\ ChainLinear BY DEF IndInv
<1> SUFFICES ASSUME NEW t \in Tokens, replaced_by'[t] # NULL
             PROVE  \E S \in SUBSET Tokens : Past(S)' /\ t \in S /\ replaced_by'[t] \notin S
  BY DEF ChainsAcyclic
<1>1. CASE replaced_by[t] # NULL
  <2>1. PICK S \in SUBSET Tokens : Past(S) /\ t \in S /\ replaced_by[t] \notin S
    BY <1>1 DEF ChainsAcyclic
  <2>2. Past(S)' BY <2>1, PastStable
  <2>3. replaced_by'[t] = replaced_by[t] BY <1>1 DEF RowsGrow
  <2> QED BY <2>1, <2>2, <2>3
<1>2. CASE replaced_by[t] = NULL
  <2>1. PICK r \in Requests, c \in Tokens : RotateCommit(r, c)
    BY <1>2, RowChanges DEF coreRows, IssueTokenPair, WalkCommit, LogoutRevoke
  <2>2. token[r] = t /\ replaced_by'[t] = c /\ ~Stored(c)
    BY <1>0, <1>2, <2>1, FreshIsNew DEF RotateCommit, TypeOK
  <2>3. Stored(t) BY <1>0, <2>1, <2>2 DEF RotateCommit, IndInv, RequestOK, RotationSteps
  <2>4. PICK S \in SUBSET Tokens : S = StoredTokens BY DEF StoredTokens
  <2>5. Past(S) BY <1>0, <2>4 DEF Past, StoredTokens, ChainLinear
  <2>6. Past(S)' BY <2>5, PastStable
  <2>7. t \in S /\ c \notin S BY <2>2, <2>3, <2>4 DEF StoredTokens
  <2> QED BY <2>2, <2>6, <2>7
<1> QED BY <1>1, <1>2

-----------------------------------------------------------------------------
(* Walks *)

Kin(r) == {t \in Tokens : family[t] = family[token[r]]}

(* What a walk has left behind. *)
Behind(r, S) ==
    /\ Past(S) /\ next_id[r] \notin S
    /\ \A p \in Tokens : replaced_by[p] = next_id[r] => p \in S
    /\ Cardinality(S) > steps[r]

(* A walk that does not move still has it behind. *)
LEMMA WalkStable ==
    ASSUME IndInv, [Next]_vars, RowsGrow, NEW r \in Requests, WalkAdvances(r), LocalsKept(r)
    PROVE  WalkAdvances(r)'
<1>0. TypeOK /\ RequestOK(r) /\ RowsOK BY DEF IndInv
<1>1. ASSUME pc[r] = "walk" PROVE \E S \in SUBSET Kin(r)' : Behind(r, S)'
  <2>1. PICK S \in SUBSET Kin(r) : Behind(r, S) BY <1>1 DEF WalkAdvances, Kin, Behind
  <2>2. S \in SUBSET Tokens BY <2>1 DEF Kin
  <2>3. Past(S)' BY <2>1, <2>2, PastStable DEF Behind
  <2>4. /\ next_id[r] \in Tokens /\ Stored(next_id[r])
        /\ token[r] \in Tokens /\ Stored(token[r])
    BY <1>0, <1>1 DEF RequestOK, WalkSteps, TypeOK, OrNull
  <2>5. family'[token'[r]] = family[token[r]] BY <2>4 DEF RowsGrow, LocalsKept
  <2>6. \A t \in S : family'[t] = family[t] BY <2>1, <2>2 DEF RowsGrow, Behind, Past
  <2>7. S \in SUBSET Kin(r)' BY <2>1, <2>5, <2>6 DEF Kin
  <2>8. \A p \in Tokens : replaced_by'[p] = next_id[r] => replaced_by[p] = next_id[r]
    BY <2>4, OldLinks
  <2> QED BY <2>1, <2>3, <2>7, <2>8 DEF Behind, LocalsKept
<1>2. pc[r] = "reread" => candidate[r] \in revoked' BY DEF WalkAdvances, RowsGrow
<1> QED BY <1>1, <1>2 DEF WalkAdvances, LocalsKept, Kin, Behind

(* A replayed token and what came before it are behind the walk it starts. *)
LEMMA WalkStarts ==
    ASSUME IndInv, ChainsAcyclic, NEW t \in Tokens, replaced_by[t] # NULL
    PROVE  \E S \in SUBSET {x \in Tokens : family[x] = family[t]} :
              /\ Past(S) /\ replaced_by[t] \notin S
              /\ \A p \in Tokens : replaced_by[p] = replaced_by[t] => p \in S
              /\ Cardinality(S) \in Nat /\ Cardinality(S) > 0
<1>0. TypeOK /\ ChainLinear BY DEF IndInv
<1>1. PICK A \in SUBSET Tokens : Past(A) /\ t \in A /\ replaced_by[t] \notin A
  BY DEF ChainsAcyclic
<1>2. PICK S \in SUBSET A : S = {x \in A : family[x] = family[t]} OBVIOUS
<1>3. IsFiniteSet(S) BY <1>1, FS_Subset DEF Past
<1>4. \A p \in Tokens : replaced_by[p] \in S => p \in S
  BY <1>0, <1>1, <1>2, NullAssumption DEF Past, ChainLinear
<1>5. Past(S) BY <1>1, <1>3, <1>4 DEF Past
<1>6. t \in S BY <1>1, <1>2
<1>7. Cardinality(S) \in Nat /\ Cardinality(S) # 0
  BY <1>3, <1>6, FS_CardinalityType, FS_EmptySet
<1>8. \A p \in Tokens : replaced_by[p] = replaced_by[t] => p \in S
  BY <1>0, <1>6 DEF ChainLinear
<1>9. S \in SUBSET {x \in Tokens : family[x] = family[t]} BY <1>2
<1>10. Cardinality(S) > 0 BY <1>7
<1> QED BY <1>1, <1>2, <1>5, <1>7, <1>8, <1>9, <1>10

(* A walk that goes on leaves the row it visited behind. *)
LEMMA WalkGoesOn ==
    ASSUME IndInv, NEW n \in Tokens, Stored(n), NEW S \in SUBSET Tokens, Past(S), n \notin S,
           \A p \in Tokens : replaced_by[p] = n => p \in S,
           NEW s \in Tokens, s = replaced_by[n]
    PROVE  /\ Past(S \cup {n}) /\ s \notin S \cup {n}
           /\ \A p \in Tokens : replaced_by[p] = s => p \in S \cup {n}
           /\ Cardinality(S \cup {n}) = Cardinality(S) + 1 /\ Cardinality(S) \in Nat
<1>0. TypeOK /\ ChainLinear BY DEF IndInv
<1>1. IsFiniteSet(S) BY DEF Past
<1>2. /\ IsFiniteSet(S \cup {n}) /\ Cardinality(S \cup {n}) = Cardinality(S) + 1
      /\ Cardinality(S) \in Nat
  BY <1>1, FS_AddElement, FS_CardinalityType
<1>3. Past(S \cup {n}) BY <1>2 DEF Past
<1>4. s \notin S \cup {n} BY DEF Past
<1>5. \A p \in Tokens : replaced_by[p] = s => p = n BY <1>0, NullAssumption DEF ChainLinear
<1> QED BY <1>2, <1>3, <1>4, <1>5

(* The request that takes the step advances, if it walks. *)
LEMMA WalkStep ==
    ASSUME IndInv, IndInv', ChainsAcyclic, NEW r \in Requests, WalkAdvances(r),
           Arrive(r) \/ Step(r) \/ Abort(r)
    PROVE  WalkAdvances(r)'
<1> USE NullAssumption DEF Goto
<1>0. TypeOK /\ RequestOK(r) /\ TypeOK' BY DEF IndInv
<1>1. ASSUME pc'[r] \notin {"walk", "claim_leaf", "commit_leaf", "reread", "idle"}
      PROVE  WalkAdvances(r)'
  BY <1>1 DEF WalkAdvances
<1>2. CASE Arrive(r)
  <2>1. ASSUME NEW t \in OrNull(held), RefreshRead(r, t), pc'[r] = "walk"
        PROVE  WalkAdvances(r)'
    <3>1. /\ t \in Tokens /\ replaced_by[t] # NULL /\ token'[r] = t
          /\ next_id'[r] = replaced_by[t] /\ steps'[r] = steps[r] /\ pc[r] = "idle"
          /\ UNCHANGED <<owner, replaced_by, family>>
      BY <1>0, <2>1, AdmitIsIdle DEF RefreshRead, Reject, TypeOK, OrNull, rowVars
    <3>2. steps[r] = 0 BY <3>1 DEF WalkAdvances
    <3>3. PICK S \in SUBSET {x \in Tokens : family[x] = family[t]} :
              /\ Past(S) /\ replaced_by[t] \notin S
              /\ \A p \in Tokens : replaced_by[p] = replaced_by[t] => p \in S
              /\ Cardinality(S) \in Nat /\ Cardinality(S) > 0
      BY <3>1, WalkStarts
    <3>4. Past(S)' BY <3>1, <3>3 DEF Past, Stored
    <3>5. S \in SUBSET Kin(r)' BY <3>1, <3>3 DEF Kin
    <3>6. Behind(r, S)' BY <3>1, <3>2, <3>3, <3>4 DEF Behind
    <3> QED BY <2>1, <3>5, <3>6 DEF WalkAdvances, Kin, Behind
  <2>2. \/ pc'[r] \notin {"walk", "claim_leaf", "commit_leaf", "reread", "idle"}
        \/ \E t \in OrNull(held) : RefreshRead(r, t) /\ pc'[r] = "walk"
    <3>1. ASSUME NEW u \in OrNull(Users), NEW c \in BOOLEAN, LoginLookup(r, u, c)
          PROVE  pc'[r] \notin {"walk", "claim_leaf", "commit_leaf", "reread", "idle"}
      BY <1>0, <3>1 DEF LoginLookup, FailLogin, TypeOK
    <3>2. ASSUME NEW t \in OrNull(held), LogoutRead(r, t)
          PROVE  pc'[r] \notin {"walk", "claim_leaf", "commit_leaf", "reread", "idle"}
      BY <1>0, <3>2 DEF LogoutRead, TypeOK
    <3>3. ASSUME NEW t \in OrNull(held), RefreshRead(r, t)
          PROVE  pc'[r] \notin {"claim_leaf", "commit_leaf", "reread", "idle"}
      BY <1>0, <3>3 DEF RefreshRead, Reject, TypeOK
    <3> QED BY <1>2, <3>1, <3>2, <3>3 DEF Arrive
  <2> QED BY <1>1, <2>1, <2>2
<1>3. CASE Abort(r)
  <2>1. pc'[r] = "aborted" BY <1>0, <1>3 DEF Abort, TypeOK
  <2> QED BY <1>1, <2>1
<1>4. CASE Step(r)
  <2>1. CASE WalkRead(r)
    <3> DEFINE n == next_id[r]
               s == GetById(r, n)
    <3>1. /\ pc[r] = "walk" /\ n \in Tokens /\ Stored(n) /\ family[n] = family[token[r]]
          /\ UNCHANGED <<owner, replaced_by, family>> /\ token'[r] = token[r]
          /\ steps'[r] = steps[r] + 1 /\ steps[r] \in Nat /\ seen'[r] = s
          /\ IF s = NULL THEN pc'[r] = "claim_leaf" ELSE pc'[r] = "walk" /\ next_id'[r] = s
      BY <1>0, <2>1, BoundAssumption
      DEF WalkRead, TypeOK, OrNull, RequestOK, localVars, rowVars
    <3>2. s # NULL => s = replaced_by[n] BY <1>0, <3>1, GetByIdSound DEF WalkSteps
    <3>3. CASE s = NULL BY <3>1, <3>3 DEF WalkAdvances
    <3>4. CASE s # NULL
      <4>1. PICK S \in SUBSET Kin(r) : Behind(r, S) BY <3>1 DEF WalkAdvances, Kin, Behind
      <4>2. S \in SUBSET Tokens BY <4>1 DEF Kin
      <4>3. s \in Tokens BY <1>0, <3>1, <3>2, <3>4 DEF TypeOK, OrNull
      <4> HIDE DEF n, s
      <4>4. /\ Past(S) /\ n \notin S /\ Cardinality(S) > steps[r]
            /\ \A p \in Tokens : replaced_by[p] = n => p \in S
        BY <4>1 DEF Behind, n
      <4>5. PICK T : T = S \cup {n} OBVIOUS
      <4>6. /\ Past(T) /\ s \notin T
            /\ \A p \in Tokens : replaced_by[p] = s => p \in T
            /\ Cardinality(T) = Cardinality(S) + 1 /\ Cardinality(S) \in Nat
        BY <3>1, <3>2, <3>4, <4>2, <4>3, <4>4, <4>5, WalkGoesOn
      <4>7. T \in SUBSET Kin(r)' BY <3>1, <4>1, <4>5 DEF Kin
      <4>8. Past(T)' BY <3>1, <4>6 DEF Past, Stored
      <4>9. Cardinality(T) > steps'[r] BY <3>1, <4>4, <4>6
      <4>10. Behind(r, T)' BY <3>1, <3>4, <4>6, <4>8, <4>9 DEF Behind
      <4> QED BY <3>1, <3>4, <4>7, <4>10 DEF WalkAdvances, Kin, Behind
    <3> QED BY <3>3, <3>4
  <2>2. CASE WalkClaim(r)
    <3>1. pc[r] = "claim_leaf" /\ pc'[r] = "commit_leaf" /\ seen'[r] = seen[r]
      BY <1>0, <2>2 DEF WalkClaim, walkVars, TypeOK
    <3> QED BY <3>1 DEF WalkAdvances
  <2>3. CASE WalkLose(r)
    <3>1. /\ pc[r] = "claim_leaf" /\ pc'[r] = "reread" /\ seen'[r] = seen[r]
          /\ candidate'[r] \in revoked'
      BY <1>0, <2>3 DEF WalkLose, walkVars, rowVars, TypeOK, WhereUnrevoked
    <3> QED BY <3>1 DEF WalkAdvances
  <2>4. CASE WalkReRead(r)
    <3>1. pc[r] = "reread" /\ seen[r] = NULL BY <2>4 DEF WalkReRead, WalkAdvances
    <3>2. GetById(r, candidate[r]) = NULL BY <3>1 DEF GetById
    <3>3. pc'[r] = "reuse_audit" BY <1>0, <2>4, <3>2 DEF WalkReRead, TypeOK
    <3> QED BY <1>1, <3>3
  <2>5. CASE \/ AuditLoginFailed(r) \/ UpdateLastLogin(r) \/ AuditLoginSucceeded(r)
             \/ GetOwner(r) \/ AuditRejected(r) \/ RotateClaim(r) \/ RotateLose(r)
             \/ AuditRotated(r) \/ Respond(r)
             \/ \E t \in Tokens : IssueTokenPair(r, t) \/ RotateCommit(r, t)
    <3>1. pc'[r] \notin {"walk", "claim_leaf", "commit_leaf", "reread", "idle"}
      BY <1>0, <2>5 DEF AuditLoginFailed, UpdateLastLogin, AuditLoginSucceeded, GetOwner,
         AuditRejected, RotateClaim, RotateLose, AuditRotated, Respond, IssueTokenPair,
         RotateCommit, Reject, TypeOK
    <3> QED BY <1>1, <3>1
  <2>6. CASE \/ WalkExhausted(r) \/ WalkCommit(r) \/ AuditReuse(r) \/ AuditFamilyRevoked(r)
             \/ LogoutRevoke(r) \/ AuditLogout(r)
    <3>1. pc'[r] \notin {"walk", "claim_leaf", "commit_leaf", "reread", "idle"}
      BY <1>0, <2>6 DEF WalkExhausted, WalkCommit, AuditReuse, AuditFamilyRevoked,
         LogoutRevoke, AuditLogout, TypeOK
    <3> QED BY <1>1, <3>1
  <2> QED BY <1>4, <2>1, <2>2, <2>3, <2>4, <2>5, <2>6 DEF Step
<1> QED BY <1>2, <1>3, <1>4

-----------------------------------------------------------------------------
(* Requests in flight *)

(* A request that takes a step is being served. *)
LEMMA StepsAreServed ==
    ASSUME NEW q \in Requests, Step(q) \/ Abort(q)
    PROVE  q \in Serving
<1> USE DEF Serving, InFlight, LoginSteps, RotationSteps, WalkSteps, ReuseSteps, LogoutSteps
<1>1. CASE Abort(q) BY <1>1 DEF Abort
<1>2. CASE Step(q)
  BY <1>2 DEF Step, AuditLoginFailed, UpdateLastLogin, AuditLoginSucceeded, IssueTokenPair,
     GetOwner, AuditRejected, RotateClaim, RotateLose, RotateCommit, AuditRotated, Respond,
     WalkRead, WalkExhausted, WalkClaim, WalkLose, WalkReRead, WalkCommit, AuditReuse,
     AuditFamilyRevoked, LogoutRevoke, AuditLogout
<1> QED BY <1>1, <1>2

(* A request comes to be served only by being admitted. *)
LEMMA ServingStep ==
    ASSUME TypeOK, [Next]_vars
    PROVE  \/ Serving' \subseteq Serving
           \/ \E q \in Requests : Admit(q) /\ Serving' \subseteq Serving \cup {q}
<1>1. ASSUME NEW q \in Requests, Arrive(q) \/ Step(q) \/ Abort(q)
      PROVE  Serving' \subseteq Serving \cup {q}
  <2>1. \A r \in Requests : r # q => pc'[r] = pc[r] BY <1>1, OthersKept DEF LocalsKept
  <2> QED BY <2>1 DEF Serving
<1>2. ASSUME NEW q \in Requests, Arrive(q) PROVE Admit(q)
  BY <1>2 DEF Arrive, LoginLookup, RefreshRead, LogoutRead
<1>3. ASSUME NEW q \in Requests, Step(q) \/ Abort(q) PROVE Serving' \subseteq Serving
  BY <1>1, <1>3, StepsAreServed
<1>4. CASE UNCHANGED vars \/ (\E t \in Tokens : Expire(t)) \/ (\E u \in Users : Deactivate(u))
  <2>1. UNCHANGED pc BY <1>4 DEF vars, Expire, Deactivate
  <2> QED BY <2>1 DEF Serving
<1> QED BY <1>1, <1>2, <1>3, <1>4 DEF Next, AllServed

(* No more than MaxConcurrent requests are served at the same time. *)
LEMMA RoomStep ==
    ASSUME TypeOK, [Next]_vars, IsFiniteSet(Serving), Cardinality(Serving) <= MaxConcurrent
    PROVE  IsFiniteSet(Serving') /\ Cardinality(Serving') <= MaxConcurrent
<1> USE BoundAssumption
<1>1. Cardinality(Serving) \in Nat BY FS_CardinalityType
<1>2. CASE Serving' \subseteq Serving
  <2>1. IsFiniteSet(Serving') /\ Cardinality(Serving') <= Cardinality(Serving)
    BY <1>2, FS_Subset
  <2>2. Cardinality(Serving') \in Nat BY <2>1, FS_CardinalityType
  <2> QED BY <1>1, <2>1, <2>2
<1>3. ASSUME NEW q \in Requests, Admit(q), Serving' \subseteq Serving \cup {q}
      PROVE  IsFiniteSet(Serving') /\ Cardinality(Serving') <= MaxConcurrent
  <2>1. Cardinality(Serving) < MaxConcurrent BY <1>3 DEF Admit, Serving
  <2>2. /\ IsFiniteSet(Serving \cup {q})
        /\ Cardinality(Serving \cup {q})
              = IF q \in Serving THEN Cardinality(Serving) ELSE Cardinality(Serving) + 1
    BY FS_AddElement, Zenon
  <2>3. PICK n \in Nat : n = Cardinality(Serving) BY <1>1
  <2>4. PICK k : k = Cardinality(Serving \cup {q}) OBVIOUS
  <2>5. k = n \/ k = n + 1 BY <2>2, <2>3, <2>4
  <2>6. IsFiniteSet(Serving') /\ Cardinality(Serving') <= k
    BY <1>3, <2>2, <2>4, FS_Subset
  <2>7. Cardinality(Serving') \in Nat BY <2>6, FS_CardinalityType
  <2> QED BY <2>1, <2>3, <2>5, <2>6, <2>7
<1> QED BY <1>2, <1>3, ServingStep

(* Stored tokens are finitely many: a step stores at most one. *)
LEMMA StoredStep ==
    ASSUME TypeOK, [Next]_vars, IsFiniteSet(StoredTokens)
    PROVE  IsFiniteSet(StoredTokens')
<1>1. UNCHANGED owner \/ \E t \in Tokens : StoredTokens' \subseteq StoredTokens \cup {t}
  <2>1. ASSUME NEW r \in Requests, NEW t \in Tokens, IssueTokenPair(r, t) \/ RotateCommit(r, t)
        PROVE  StoredTokens' \subseteq StoredTokens \cup {t}
    <3>1. PICK u : owner' = [owner EXCEPT ![t] = u] BY <2>1 DEF IssueTokenPair, RotateCommit
    <3> QED BY <3>1 DEF TypeOK, StoredTokens, Stored
  <2>2. ASSUME NEW r \in Requests, WalkCommit(r) \/ LogoutRevoke(r) PROVE UNCHANGED owner
    BY <2>2 DEF WalkCommit, LogoutRevoke
  <2> QED BY <2>1, <2>2, RowChanges DEF coreRows
<1>2. CASE UNCHANGED owner BY <1>2 DEF StoredTokens, Stored
<1>3. ASSUME NEW t \in Tokens, StoredTokens' \subseteq StoredTokens \cup {t}
      PROVE  IsFiniteSet(StoredTokens')
  <2>1. IsFiniteSet(StoredTokens \cup {t}) BY FS_AddElement
  <2> QED BY <1>3, <2>1, FS_Subset
<1> QED BY <1>1, <1>2, <1>3

(* At any concurrency: a family has one token without a successor, chains    *)
(* have no cycle, and revoke_descendants meets a new token of the family in  *)
(* every iteration.                                                          *)
THEOREM WalksAdvance == Spec => []WalkInv
<1>1. Init => WalkInv
  <2> SUFFICES ASSUME Init PROVE WalkInv OBVIOUS
  <2>1. StoredTokens = {} BY DEF Init, StoredTokens, Stored
  <2>2. Serving = {}
    BY DEF Init, Serving, InFlight, LoginSteps, RotationSteps, WalkSteps, ReuseSteps, LogoutSteps
  <2>3. /\ IsFiniteSet(StoredTokens) /\ IsFiniteSet(Serving)
        /\ Cardinality(Serving) <= MaxConcurrent
    BY <2>1, <2>2, FS_EmptySet, BoundAssumption
  <2>4. OneLeafPerFamily /\ ChainsAcyclic /\ \A r \in Requests : WalkAdvances(r)
    BY DEF Init, OneLeafPerFamily, ChainsAcyclic, WalkAdvances, Stored
  <2> QED BY <2>3, <2>4 DEF WalkInv
<1>2. IndInv /\ IndInv' /\ WalkInv /\ [Next]_vars => WalkInv'
  <2> SUFFICES ASSUME IndInv, IndInv', WalkInv, [Next]_vars PROVE WalkInv' OBVIOUS
  <2>1. RowsGrow /\ TypeOK BY StepInv DEF IndInv
  <2>2. OneLeafPerFamily' BY OneLeafStep DEF WalkInv
  <2>3. ChainsAcyclic' BY <2>1, AcyclicStep DEF WalkInv
  <2>4. ASSUME NEW r \in Requests PROVE WalkAdvances(r)'
    <3>1. CASE LocalsKept(r) BY <2>1, <3>1, WalkStable DEF WalkInv
    <3>2. CASE Arrive(r) \/ Step(r) \/ Abort(r) BY <3>2, WalkStep DEF WalkInv
    <3> QED BY <2>1, <3>1, <3>2, RequestMoves
  <2>5. IsFiniteSet(StoredTokens') BY <2>1, StoredStep DEF WalkInv
  <2>6. IsFiniteSet(Serving') /\ Cardinality(Serving') <= MaxConcurrent
    BY <2>1, RoomStep DEF WalkInv
  <2> QED BY <2>2, <2>3, <2>4, <2>5, <2>6 DEF WalkInv
<1> QED BY <1>1, <1>2, Invariance, PTL DEF Spec

-----------------------------------------------------------------------------
(* Requests that meet *)

Tracking ==
    /\ met \in [Requests -> SUBSET Requests]
    /\ \A q, r \in Requests : pc[q] \in InFlight /\ pc[r] \in InFlight /\ q # r => q \in met[r]

(* What a step of requests and of the history variable keeps and adds. *)
LEMMA MeetStep ==
    ASSUME met \in [Requests -> SUBSET Requests], Meet
    PROVE  Tracking' /\ \A r \in Requests : met[r] \subseteq met'[r]
BY DEF Tracking, Meet

(* A rotation stays one: its request keeps both tokens, the row its link. *)
LEMMA RotationStays ==
    ASSUME IndInv, LedgerInv, RowsGrow, [Next]_vars, NEW q \in Requests, Rotation(q)
    PROVE  /\ Rotation(q)' /\ token'[q] = token[q]
           /\ token[q] \in Tokens /\ Stored(token[q]) /\ family'[token[q]] = family[token[q]]
<1>0. TypeOK /\ ChainLinear /\ IssuedOK(q) BY DEF IndInv, LedgerInv
<1>1. token[q] \in Tokens /\ replaced_by[token[q]] = issued[q] /\ issued[q] # NULL
  BY <1>0 DEF Rotation, TypeOK, OrNull
<1>2. pc[q] # "idle" BY <1>0, <1>1 DEF IssuedOK, Over
<1>3. token'[q] = token[q] BY <1>0, <1>2, StartedStays
<1>4. issued'[q] = issued[q] BY <1>1, IssuedKept
<1>5. replaced_by'[token[q]] = replaced_by[token[q]] BY <1>1 DEF RowsGrow
<1>6. Stored(token[q]) BY <1>0, <1>1 DEF ChainLinear
<1> QED BY <1>1, <1>3, <1>4, <1>5, <1>6 DEF Rotation, RowsGrow

(* Who was outrun stays outrun. *)
LEMMA OutrunStays ==
    ASSUME IndInv, LedgerInv, RowsGrow, [Next]_vars, Tracking, Meet, NEW r \in Requests
    PROVE  /\ \A f : Outrun(r, f) => Outrun(r, f)'
           /\ \A t : RotatedBeside(r, t) => RotatedBeside(r, t)'
<1>1. ASSUME NEW q \in met[r], Rotation(q)
      PROVE  /\ q \in met'[r] /\ Rotation(q)' /\ token'[q] = token[q]
             /\ family'[token[q]] = family[token[q]]
  <2>1. q \in Requests BY <1>1 DEF Tracking
  <2> QED BY <1>1, <2>1, MeetStep, RotationStays DEF Tracking
<1>2. ASSUME NEW f, Outrun(r, f) PROVE Outrun(r, f)'
  <2>1. PICK q \in met[r] : Rotation(q) /\ family[token[q]] = f BY <1>2 DEF Outrun
  <2> QED BY <1>1, <2>1 DEF Outrun
<1>3. ASSUME NEW t, RotatedBeside(r, t) PROVE RotatedBeside(r, t)'
  <2>1. PICK q \in met[r] : Rotation(q) /\ token[q] = t BY <1>3 DEF RotatedBeside
  <2> QED BY <1>1, <2>1 DEF RotatedBeside
<1> QED BY <1>2, <1>3

(* A link that a step adds is a rotation by a request that is in flight, and *)
(* whoever is in flight with it has been outrun.                             *)
LEMMA NewLink ==
    ASSUME IndInv, [Next]_vars, Tracking, Meet, NEW r \in Requests, pc'[r] \in InFlight,
           NEW t \in Tokens, replaced_by'[t] # replaced_by[t], token'[r] # t \/ pc'[r] # "rotated"
    PROVE  /\ Stored(t) /\ family'[t] = family[t]
           /\ RotatedBeside(r, t)' /\ Outrun(r, family[t])'
<1> USE NullAssumption
<1>0. TypeOK BY DEF IndInv
<1>1. PICK q \in Requests, c \in Tokens : RotateCommit(q, c)
  BY RowChanges DEF coreRows, IssueTokenPair, WalkCommit, LogoutRevoke
<1>2. /\ token[q] = t /\ token'[q] = token[q] /\ replaced_by'[t] = c /\ issued'[q] = c
      /\ pc'[q] = "rotated" /\ ~Stored(c) /\ pc[q] = "insert"
      /\ family' = [family EXCEPT ![c] = family[token[q]]]
  BY <1>0, <1>1, FreshIsNew DEF RotateCommit, Goto, TypeOK, localVars
<1>3. Stored(t) BY <1>2 DEF IndInv, RequestOK, RotationSteps
<1>4. family'[t] = family[t] BY <1>0, <1>2, <1>3 DEF TypeOK
<1>5. q # r BY <1>2
<1>6. pc'[q] \in InFlight BY <1>2 DEF InFlight, RotationSteps
<1>7. q \in met'[r] BY <1>5, <1>6, MeetStep DEF Tracking
<1>8. Rotation(q)' BY <1>2 DEF Rotation
<1> QED BY <1>2, <1>3, <1>4, <1>7, <1>8 DEF RotatedBeside, Outrun

-----------------------------------------------------------------------------
(* Chains and walks, one family at a time *)

(* Chains only get longer. *)
LEMMA ShorterBefore ==
    ASSUME IndInv, RowsGrow, NEW f \in Tokens, WithinReach(f)'
    PROVE  WithinReach(f)
<1>1. PICK A : A = {t \in Tokens : family[t] = f} OBVIOUS
<1>2. PICK B : B = {t \in Tokens : family'[t] = f} OBVIOUS
<1>3. A \subseteq B
  BY <1>1, <1>2, NullAssumption DEF IndInv, RowsOK, RowsGrow
<1>4. IsFiniteSet(B) /\ Cardinality(B) <= MaxFamilyWalkSteps + 1
  BY <1>2 DEF WithinReach
<1>5. IsFiniteSet(A) /\ Cardinality(A) <= Cardinality(B) BY <1>3, <1>4, FS_Subset
<1>6. Cardinality(A) \in Nat /\ Cardinality(B) \in Nat /\ MaxFamilyWalkSteps \in Nat
  BY <1>4, <1>5, FS_CardinalityType, BoundAssumption
<1>7. Cardinality(A) <= MaxFamilyWalkSteps + 1 BY <1>4, <1>5, <1>6
<1> QED BY <1>1, <1>5, <1>7 DEF WithinReach

(* A walk that gives up has met a family that is too long for it. *)
LEMMA ExhaustedIsLong ==
    ASSUME IndInv, NEW r \in Requests, WalkAdvances(r), pc[r] = "walk", ~WalkBudget(r)
    PROVE  ~WithinReach(family[token[r]])
<1> SUFFICES ASSUME WithinReach(family[token[r]]) PROVE FALSE OBVIOUS
<1>0. TypeOK /\ RequestOK(r) /\ RowsOK BY DEF IndInv
<1>1. PICK S \in SUBSET Kin(r) : Behind(r, S) BY DEF WalkAdvances, Kin, Behind
<1>2. next_id[r] \in Tokens /\ family[next_id[r]] = family[token[r]]
  BY <1>0 DEF RequestOK, WalkSteps, TypeOK, OrNull
<1>4. IsFiniteSet(Kin(r)) /\ Cardinality(Kin(r)) <= MaxFamilyWalkSteps + 1
  BY DEF WithinReach, Kin
<1>5. PICK T : T = S \cup {next_id[r]} OBVIOUS
<1>6. T \subseteq Kin(r) BY <1>1, <1>2, <1>5 DEF Kin
<1>7. IsFiniteSet(S) /\ next_id[r] \notin S /\ Cardinality(S) > steps[r]
  BY <1>1 DEF Behind, Past
<1>8. Cardinality(T) = Cardinality(S) + 1 BY <1>5, <1>7, FS_AddElement
<1>9. Cardinality(T) <= Cardinality(Kin(r)) BY <1>4, <1>6, FS_Subset
<1>10. /\ Cardinality(S) \in Nat /\ Cardinality(Kin(r)) \in Nat /\ MaxFamilyWalkSteps \in Nat
       /\ steps[r] \in Nat /\ steps[r] >= MaxFamilyWalkSteps
  BY <1>0, <1>4, <1>7, FS_CardinalityType, BoundAssumption DEF WalkBudget, TypeOK
<1> QED BY <1>4, <1>7, <1>8, <1>9, <1>10

(* A family whose leaf is revoked is dead. *)
LEMMA RevokedLeaf ==
    ASSUME IndInv, OneLeafPerFamily, NEW a \in Tokens, Stored(a), a \in revoked,
           replaced_by[a] = NULL
    PROVE  Dead(family[a])
<1>1. \A t \in Tokens : Live(t) => replaced_by[t] = NULL BY DEF IndInv, Live, ChainLinear
<1> QED BY <1>1 DEF Dead, Live, OneLeafPerFamily

-----------------------------------------------------------------------------
(* What a request has read *)

(* A token on record as rotated, replayed or logged out has a row. *)
LEMMA RecordedIsStored ==
    ASSUME IndInv, NEW e \in audit,
           e.action \in {"REFRESH_TOKEN_REUSE_DETECTED", "USER_LOGOUT"}
    PROVE  e.token \in Tokens /\ Stored(e.token) /\ e.request \in Requests
<1>0. TypeOK /\ RowsOK /\ ChainLinear /\ AuditTruthful /\ AuditOK BY DEF IndInv
<1>1. e.request \in Requests BY <1>0 DEF TypeOK, Events
<1>2. CASE e.action = "REFRESH_TOKEN_REUSE_DETECTED"
  <2>1. e.token # NULL /\ replaced_by[e.token] # NULL BY <1>0, <1>2 DEF AuditOK, AuditTruthful
  <2>2. e.token \in OrNull(Tokens) BY <1>0 DEF TypeOK, Events
  <2> QED BY <1>0, <1>1, <2>1, <2>2 DEF ChainLinear, OrNull
<1>3. CASE e.action = "USER_LOGOUT"
  <2>1. e.token \in revoked BY <1>0, <1>3 DEF AuditTruthful
  <2> QED BY <1>0, <1>1, <2>1 DEF TypeOK, RowsOK
<1> QED BY <1>2, <1>3

(* A step that adds a row for a replay or a logout writes it for the token   *)
(* its request was given.                                                    *)
LEMMA NewRow ==
    ASSUME IndInv, [Next]_vars, NEW e \in audit', e \notin audit
    PROVE  /\ e.action = "REFRESH_TOKEN_REUSE_DETECTED" =>
                \E r \in Requests : /\ pc[r] = "reuse_audit" /\ e.token = token[r]
                                    /\ e.request = r /\ UNCHANGED coreRows
           /\ e.action = "USER_LOGOUT" =>
                \E r \in Requests : /\ pc[r] = "logout_audit" /\ e.token = token[r]
                                    /\ e.request = r /\ audit' = audit \cup {e}
                                    /\ UNCHANGED coreRows
<1>1. PICK r \in Requests : Audits(r) BY AuditChanges
<1>2. CASE AuditReuse(r)
  BY <1>2 DEF AuditReuse, Record, coreRows, rowVars
<1>3. CASE AuditLogout(r)
  BY <1>3 DEF AuditLogout, Record, coreRows, rowVars
<1>4. CASE \/ AuditLoginFailed(r) \/ AuditLoginSucceeded(r) \/ AuditRejected(r)
           \/ AuditRotated(r) \/ AuditFamilyRevoked(r)
  BY <1>4 DEF AuditLoginFailed, AuditLoginSucceeded, AuditRejected, AuditRotated,
     AuditFamilyRevoked, Record
<1> QED BY <1>1, <1>2, <1>3, <1>4 DEF Audits

(* A request that does not move: what the others did since was done by       *)
(* requests it has met.                                                      *)
LEMMA OvertakenStays ==
    ASSUME IndInv, LedgerInv, RowsGrow, [Next]_vars, Tracking, Meet,
           NEW r \in Requests, Overtaken(r), LocalsKept(r)
    PROVE  Overtaken(r)'
<1> USE NullAssumption
<1>0. TypeOK /\ RequestOK(r) /\ RowsOK BY DEF IndInv
<1>1. /\ pc'[r] = pc[r] /\ token'[r] = token[r] /\ candidate'[r] = candidate[r]
      /\ seen'[r] = seen[r]
  BY DEF LocalsKept
<1>2. /\ \A f : Outrun(r, f) => Outrun(r, f)'
      /\ \A t : RotatedBeside(r, t) => RotatedBeside(r, t)'
  BY OutrunStays
<1>3. ASSUME pc[r] \in WalkSteps \cup ReuseSteps \cup LogoutSteps
      PROVE  /\ token[r] \in Tokens /\ Stored(token[r]) /\ family'[token[r]] = family[token[r]]
             /\ family[token[r]] \in Tokens /\ pc'[r] \in InFlight /\ pc'[r] # "rotated"
             /\ Dead(family[token[r]]) => Dead(family[token[r]])'
             /\ WithinReach(family[token[r]])' => WithinReach(family[token[r]])
             /\ Outrun(r, family[token[r]]) => Outrun(r, family[token[r]])'
  <2>1. token[r] \in Tokens /\ Stored(token[r]) BY <1>0, <1>3 DEF RequestOK, TypeOK, OrNull
  <2>2. family'[token[r]] = family[token[r]] BY <2>1 DEF RowsGrow
  <2>3. family[token[r]] \in Tokens BY <1>0, <2>1 DEF RowsOK, TypeOK, OrNull
  <2>4. pc'[r] \in InFlight /\ pc'[r] # "rotated"
    BY <1>1, <1>3 DEF InFlight, WalkSteps, ReuseSteps, LogoutSteps
  <2>5. Dead(family[token[r]]) => Dead(family[token[r]])'
    <3>1. PICK t \in Tokens : t = token[r] BY <2>1
    <3>2. Dead(family[t]) => Dead(family[t])' BY <2>1, <3>1 DEF RowsGrow
    <3> QED BY <1>1, <3>1, <3>2 DEF Dead
  <2>6. WithinReach(family[token[r]])' => WithinReach(family[token[r]])
    <3>1. PICK f \in Tokens : f = family[token[r]] BY <2>3
    <3>2. WithinReach(f)' => WithinReach(f) BY ShorterBefore
    <3> QED BY <1>1, <2>2, <3>1, <3>2 DEF WithinReach
  <2>7. Outrun(r, family[token[r]]) => Outrun(r, family[token[r]])'
    <3>1. PICK f : f = family[token[r]] OBVIOUS
    <3>2. Outrun(r, f) => Outrun(r, f)' BY <1>2
    <3> QED BY <1>1, <2>2, <3>1, <3>2 DEF Outrun
  <2> QED BY <2>1, <2>2, <2>3, <2>4, <2>5, <2>6, <2>7
<1>4. ASSUME pc'[r] \in WalkSteps, candidate'[r] # NULL
      PROVE  seen'[r] = replaced_by'[candidate'[r]] \/ Outrun(r, family[token[r]])'
  <2>1. /\ candidate[r] \in Tokens /\ family[candidate[r]] = family[token[r]]
        /\ seen[r] = replaced_by[candidate[r]] \/ Outrun(r, family[token[r]])
    BY <1>0, <1>1, <1>4 DEF Overtaken, RequestOK, TypeOK, OrNull
  <2>2. CASE replaced_by'[candidate[r]] = replaced_by[candidate[r]]
    BY <1>1, <1>3, <1>4, <2>1, <2>2
  <2>3. CASE replaced_by'[candidate[r]] # replaced_by[candidate[r]]
    <3>1. Outrun(r, family[candidate[r]])' /\ family'[candidate[r]] = family[candidate[r]]
      BY <1>1, <1>3, <1>4, <2>1, <2>3, NewLink
    <3>2. Outrun(r, family[token[r]])' BY <1>1, <1>3, <1>4, <2>1, <3>1 DEF Outrun
    <3> QED BY <3>2
  <2> QED BY <2>2, <2>3
<1>5. ASSUME pc'[r] = "reuse_audit"
      PROVE  \/ Dead(family[token[r]])' \/ ~WithinReach(family[token[r]])'
             \/ Outrun(r, family[token[r]])'
  BY <1>1, <1>3, <1>5 DEF Overtaken, ReuseSteps
<1>6. ASSUME pc'[r] = "revoke", replaced_by'[token'[r]] # NULL
      PROVE  RotatedBeside(r, token[r])'
  <2>1. CASE replaced_by[token[r]] # NULL BY <1>1, <1>2, <1>6, <2>1 DEF Overtaken
  <2>2. CASE replaced_by[token[r]] = NULL
    <3>1. RotatedBeside(r, token[r])'
      BY <1>1, <1>3, <1>6, <2>2, NewLink DEF LogoutSteps, RotatedBeside
    <3> QED BY <3>1
  <2> QED BY <2>1, <2>2
<1>7. ASSUME pc'[r] = "logout_audit"
      PROVE  Dead(family[token[r]])' \/ RotatedBeside(r, token[r])'
  <2>1. Dead(family[token[r]]) \/ RotatedBeside(r, token[r])
    BY <1>1, <1>7 DEF Overtaken
  <2>2. RotatedBeside(r, token[r]) => RotatedBeside(r, token[r])'
    <3>1. PICK t : t = token[r] OBVIOUS
    <3>2. RotatedBeside(r, t) => RotatedBeside(r, t)' BY <1>2
    <3> QED BY <1>1, <3>1, <3>2 DEF RotatedBeside
  <2> QED BY <1>1, <1>3, <1>7, <2>1, <2>2 DEF LogoutSteps
<1>8. ASSUME pc'[r] \in LogoutSteps, NEW e \in audit', e.action = "USER_LOGOUT",
             e.token = token'[r], e.request # r
      PROVE  e.request \in met'[r] /\ r \in met'[e.request]
  <2>1. CASE e \in audit
    <3>1. e.request \in met[r] /\ r \in met[e.request] BY <1>1, <1>8, <2>1 DEF Overtaken
    <3>2. e.request \in Requests BY <1>8, <2>1, RecordedIsStored
    <3> QED BY <3>1, <3>2, MeetStep DEF Tracking
  <2>2. CASE e \notin audit
    <3>1. e.request \in Requests /\ pc[e.request] = "logout_audit" BY <1>8, <2>2, NewRow
    <3>2. pc[e.request] \in InFlight /\ pc[r] \in InFlight
      BY <1>1, <1>8, <3>1 DEF InFlight, LogoutSteps
    <3>3. e.request \in met[r] /\ r \in met[e.request] BY <1>8, <3>1, <3>2 DEF Tracking
    <3> QED BY <3>1, <3>3, MeetStep DEF Tracking
  <2> QED BY <2>1, <2>2
<1> QED BY <1>4, <1>5, <1>6, <1>7, <1>8 DEF Overtaken

(* The request that takes the step: what it has read holds, or it was        *)
(* overtaken before.                                                         *)
LEMMA OvertakenStep ==
    ASSUME IndInv, IndInv', LedgerInv, WalkInv, RowsGrow, [Next]_vars, Tracking, Meet,
           NEW r \in Requests, Overtaken(r), Arrive(r) \/ Step(r) \/ Abort(r)
    PROVE  Overtaken(r)'
<1> USE NullAssumption DEF Goto
<1>0. /\ TypeOK /\ RequestOK(r) /\ RowsOK /\ ChainLinear /\ OneLivePerFamily
      /\ AuditTruthful /\ RequestOK(r)' /\ (\A t \in held : Stored(t))
      /\ OneLeafPerFamily /\ WalkAdvances(r)
  BY DEF IndInv, WalkInv
<1> DEFINE Careful == WalkSteps \cup {"reuse_audit"} \cup LogoutSteps
<1>1. ASSUME pc'[r] \notin Careful PROVE Overtaken(r)'
  BY <1>1 DEF Overtaken, LogoutSteps
<1>2. /\ \A f : Outrun(r, f) => Outrun(r, f)'
      /\ \A t : RotatedBeside(r, t) => RotatedBeside(r, t)'
  BY OutrunStays
<1>3. CASE Arrive(r)
  <2>1. ASSUME NEW u \in OrNull(Users), NEW c \in BOOLEAN, LoginLookup(r, u, c)
        PROVE  Overtaken(r)'
    <3>1. pc'[r] \notin Careful
      BY <1>0, <2>1 DEF LoginLookup, FailLogin, TypeOK, WalkSteps, LogoutSteps
    <3> QED BY <1>1, <3>1
  <2>2. ASSUME NEW t \in OrNull(held), RefreshRead(r, t) PROVE Overtaken(r)'
    <3>1. candidate'[r] = NULL /\ pc'[r] \notin {"reuse_audit", "revoke", "logout_audit"}
      BY <1>0, <2>2, AdmitIsIdle DEF RefreshRead, Reject, TypeOK, RequestOK
    <3> QED BY <3>1 DEF Overtaken, LogoutSteps
  <2>3. ASSUME NEW t \in OrNull(held), LogoutRead(r, t) PROVE Overtaken(r)'
    <3>1. /\ token'[r] = t /\ UNCHANGED <<revoked, replaced_by, audit>>
          /\ pc'[r] = "done" \/ (pc'[r] = "revoke" /\ t # NULL /\ t \notin revoked)
      BY <1>0, <2>3 DEF LogoutRead, TypeOK, rowVars
    <3>2. CASE pc'[r] = "done" BY <3>2 DEF Overtaken, WalkSteps, LogoutSteps
    <3>3. CASE pc'[r] = "revoke"
      <4>1. t \in Tokens /\ t \notin revoked BY <1>0, <3>1, <3>3 DEF TypeOK, OrNull
      <4>2. replaced_by'[t] = NULL BY <1>0, <3>1, <4>1 DEF ChainLinear
      <4>3. \A e \in audit' : e.action = "USER_LOGOUT" => e.token # t
        BY <1>0, <3>1, <4>1 DEF AuditTruthful
      <4> QED BY <3>1, <3>3, <4>2, <4>3 DEF Overtaken, WalkSteps, LogoutSteps
    <3> QED BY <3>1, <3>2, <3>3
  <2> QED BY <1>3, <2>1, <2>2, <2>3 DEF Arrive
<1>4. CASE Step(r)
  <2>1. CASE WalkRead(r)
    <3>1. /\ pc[r] = "walk" /\ next_id[r] \in Tokens /\ token[r] \in Tokens
          /\ token'[r] = token[r] /\ UNCHANGED <<replaced_by, family>>
      BY <1>0, <2>1 DEF WalkRead, RequestOK, WalkSteps, TypeOK, OrNull, rowVars, localVars
    <3>2. \/ GetById(r, next_id[r]) = replaced_by[next_id[r]]
          \/ Outrun(r, family[token[r]])
      BY <3>1 DEF GetById, Overtaken, WalkSteps
    <3>3. /\ candidate'[r] = next_id[r] /\ seen'[r] = GetById(r, next_id[r])
          /\ pc'[r] \in {"walk", "claim_leaf"}
      BY <1>0, <2>1 DEF WalkRead, TypeOK
    <3>4. Outrun(r, family[token[r]]) => Outrun(r, family[token[r]])'
      BY <1>2, <3>1 DEF Outrun
    <3> QED BY <3>1, <3>2, <3>3, <3>4 DEF Overtaken, LogoutSteps
  <2>2. CASE WalkExhausted(r)
    <3>1. pc'[r] = "reuse_audit" /\ UNCHANGED <<family, token>>
      BY <1>0, <2>2 DEF WalkExhausted, TypeOK, rowVars, localVars
    <3>2. ~WithinReach(family[token[r]]) BY <1>0, <2>2, ExhaustedIsLong DEF WalkExhausted
    <3>3. ~WithinReach(family[token[r]])' BY <3>1, <3>2 DEF WithinReach
    <3> QED BY <3>1, <3>3 DEF Overtaken, WalkSteps, LogoutSteps
  <2>3. CASE WalkClaim(r) \/ WalkLose(r)
    <3>1. /\ pc[r] = "claim_leaf" /\ pc'[r] \in {"commit_leaf", "reread"}
          /\ UNCHANGED <<candidate, seen, replaced_by, family, token>>
      BY <1>0, <2>3 DEF WalkClaim, WalkLose, TypeOK, rowVars, walkVars, localVars
    <3>2. Outrun(r, family[token[r]]) => Outrun(r, family[token[r]])'
      BY <1>2, <3>1 DEF Outrun
    <3> QED BY <3>1, <3>2 DEF Overtaken, WalkSteps, LogoutSteps
  <2>4. CASE WalkReRead(r)
    <3>1. /\ pc[r] = "reread" /\ seen[r] = NULL /\ candidate[r] \in revoked
          /\ candidate[r] \in Tokens /\ Stored(candidate[r])
          /\ family[candidate[r]] = family[token[r]]
      BY <1>0, <2>4 DEF WalkReRead, WalkAdvances, RequestOK, WalkSteps, TypeOK, OrNull
    <3>2. GetById(r, candidate[r]) = NULL BY <3>1 DEF GetById
    <3>3. pc'[r] = "reuse_audit" /\ UNCHANGED <<token, owner, revoked, family>>
      BY <1>0, <2>4, <3>2 DEF WalkReRead, TypeOK, rowVars, localVars
    <3>4. replaced_by[candidate[r]] = NULL \/ Outrun(r, family[token[r]])
      BY <3>1 DEF Overtaken, WalkSteps
    <3>5. CASE replaced_by[candidate[r]] = NULL
      <4>1. Dead(family[token[r]]) BY <1>0, <3>1, <3>5, RevokedLeaf
      <4>2. Dead(family[token[r]])' BY <4>1, <3>3 DEF Dead, Live, Stored
      <4> QED BY <3>3, <4>2 DEF Overtaken, WalkSteps, LogoutSteps
    <3>6. CASE Outrun(r, family[token[r]])
      <4>1. Outrun(r, family[token[r]])' BY <1>2, <3>3, <3>6 DEF Outrun
      <4> QED BY <3>3, <4>1 DEF Overtaken, WalkSteps, LogoutSteps
    <3> QED BY <3>4, <3>5, <3>6
  <2>5. CASE WalkCommit(r)
    <3>1. pc'[r] = "reuse_audit" /\ candidate'[r] = candidate[r] /\ candidate[r] # NULL
      BY <1>0, <2>5 DEF WalkCommit, TypeOK, RequestOK, walkVars
    <3>2. Dead(family[candidate[r]])' /\ family'[candidate'[r]] = family'[token'[r]]
      BY <1>0, <3>1 DEF RequestOK, ReuseSteps
    <3>3. Dead(family[token[r]])' BY <3>2
    <3> QED BY <3>1, <3>3 DEF Overtaken, WalkSteps, LogoutSteps
  <2>6. CASE LogoutRevoke(r)
    <3>1. /\ pc[r] = "revoke" /\ pc'[r] = "logout_audit"
          /\ UNCHANGED <<token, owner, family, audit, replaced_by>>
          /\ revoked' = revoked \cup {token[r]} /\ token[r] \in Tokens /\ Stored(token[r])
      BY <1>0, <2>6
      DEF LogoutRevoke, Revoke, TypeOK, RequestOK, LogoutSteps, OrNull, localVars
    <3>2. ASSUME NEW e \in audit', e.action = "USER_LOGOUT", e.token = token'[r], e.request # r
          PROVE  e.request \in met'[r] /\ r \in met'[e.request]
      <4>1. e \in audit /\ e.token = token[r] BY <3>1, <3>2
      <4>2. e.request \in met[r] /\ r \in met[e.request]
        BY <3>1, <3>2, <4>1 DEF Overtaken, LogoutSteps
      <4>3. e.request \in Requests BY <3>2, <4>1, RecordedIsStored
      <4> QED BY <4>2, <4>3, MeetStep DEF Tracking
    <3>3. CASE replaced_by[token[r]] # NULL
      <4>1. RotatedBeside(r, token[r])' BY <1>2, <3>1, <3>3 DEF Overtaken, RotatedBeside
      <4> QED BY <3>1, <3>2, <4>1 DEF Overtaken, WalkSteps
    <3>4. CASE replaced_by[token[r]] = NULL
      <4>1. ASSUME token[r] \in revoked PROVE Dead(family[token[r]])'
        <5>1. Dead(family[token[r]]) BY <1>0, <3>1, <3>4, <4>1, RevokedLeaf
        <5> QED BY <5>1, <3>1 DEF Dead, Live, Stored
      <4>2. ASSUME token[r] \notin revoked PROVE Dead(family[token[r]])'
        <5>1. PICK t \in Tokens : t = token[r] BY <3>1
        <5>2. Dead(family[t])' BY <1>0, <3>1, <4>2, <5>1, LeafKillsFamily DEF Live
        <5> QED BY <3>1, <5>1, <5>2 DEF Dead
      <4>3. Dead(family[token[r]])' BY <4>1, <4>2
      <4> QED BY <3>1, <3>2, <4>3 DEF Overtaken, WalkSteps
    <3> QED BY <3>3, <3>4
  <2>7. CASE \/ AuditLoginFailed(r) \/ UpdateLastLogin(r) \/ AuditLoginSucceeded(r)
             \/ GetOwner(r) \/ AuditRejected(r) \/ RotateClaim(r) \/ RotateLose(r)
             \/ AuditRotated(r) \/ Respond(r) \/ AuditReuse(r) \/ AuditFamilyRevoked(r)
             \/ AuditLogout(r) \/ \E t \in Tokens : IssueTokenPair(r, t) \/ RotateCommit(r, t)
    <3>1. pc'[r] \notin Careful
      BY <1>0, <2>7 DEF AuditLoginFailed, UpdateLastLogin, AuditLoginSucceeded, GetOwner,
         AuditRejected, RotateClaim, RotateLose, AuditRotated, Respond, IssueTokenPair,
         RotateCommit, Reject, AuditReuse, AuditFamilyRevoked, AuditLogout, TypeOK, WalkSteps,
         LogoutSteps
    <3> QED BY <1>1, <3>1
  <2> QED BY <1>4, <2>1, <2>2, <2>3, <2>4, <2>5, <2>6, <2>7 DEF Step
<1>5. CASE Abort(r)
  <2>1. pc'[r] = "aborted" BY <1>0, <1>5 DEF Abort, TypeOK
  <2> QED BY <1>1, <2>1 DEF WalkSteps, LogoutSteps
<1> QED BY <1>3, <1>4, <1>5

-----------------------------------------------------------------------------
(* What is on record *)

(* A replay or a logout that is recorded has ended its session or was        *)
(* overtaken, and one on record stays so.                                    *)
LEMMA PromisesStep ==
    ASSUME IndInv, LedgerInv, RowsGrow, [Next]_vars, Tracking, Meet,
           \A r \in Requests : Overtaken(r),
           ReplayEndsSession, LogoutEndsOrOverlaps, RepeatedLogoutsOverlap
    PROVE  ReplayEndsSession' /\ LogoutEndsOrOverlaps' /\ RepeatedLogoutsOverlap'
<1>0. TypeOK /\ RowsOK BY DEF IndInv
<1>1. ASSUME NEW r \in Requests, NEW t \in Tokens, Stored(t)
      PROVE  /\ Dead(family[t]) => Dead(family[t])'
             /\ WithinReach(family[t])' => WithinReach(family[t])
             /\ Outrun(r, family[t]) => Outrun(r, family[t])'
             /\ RotatedBeside(r, t) => RotatedBeside(r, t)'
  <2>1. family'[t] = family[t] BY <1>1 DEF RowsGrow
  <2>2. Dead(family[t]) => Dead(family[t])' BY <1>1 DEF RowsGrow
  <2>3. PICK f \in Tokens : f = family[t] BY <1>0, <1>1 DEF RowsOK, TypeOK, OrNull
  <2>4. WithinReach(f)' => WithinReach(f) BY ShorterBefore
  <2>5. (Outrun(r, f) => Outrun(r, f)') /\ (RotatedBeside(r, t) => RotatedBeside(r, t)')
    BY OutrunStays
  <2> QED BY <2>1, <2>2, <2>3, <2>4, <2>5 DEF WithinReach, Outrun
<1>2. ReplayEndsSession'
  <2> SUFFICES ASSUME NEW e \in audit', e.action = "REFRESH_TOKEN_REUSE_DETECTED"
               PROVE  \/ Dead(family[e.token])' \/ ~WithinReach(family[e.token])'
                      \/ Outrun(e.request, family[e.token])'
    BY DEF ReplayEndsSession
  <2>1. CASE e \in audit
    <3>1. e.token \in Tokens /\ Stored(e.token) /\ e.request \in Requests
      BY <2>1, RecordedIsStored
    <3> QED BY <1>1, <2>1, <3>1 DEF ReplayEndsSession
  <2>2. CASE e \notin audit
    <3>1. PICK r \in Requests : /\ pc[r] = "reuse_audit" /\ e.token = token[r]
                                /\ e.request = r
      BY <2>2, NewRow
    <3>2. token[r] \in Tokens /\ Stored(token[r])
      BY <1>0, <3>1 DEF IndInv, RequestOK, ReuseSteps, TypeOK, OrNull
    <3>3. \/ Dead(family[e.token]) \/ ~WithinReach(family[e.token])
          \/ Outrun(e.request, family[e.token])
      BY <3>1 DEF Overtaken
    <3> QED BY <1>1, <3>1, <3>2, <3>3
  <2> QED BY <2>1, <2>2
<1>3. LogoutEndsOrOverlaps'
  <2> SUFFICES ASSUME NEW e \in audit', e.action = "USER_LOGOUT"
               PROVE  Dead(family[e.token])' \/ RotatedBeside(e.request, e.token)'
    BY DEF LogoutEndsOrOverlaps
  <2>1. CASE e \in audit
    <3>1. e.token \in Tokens /\ Stored(e.token) /\ e.request \in Requests
      BY <2>1, RecordedIsStored
    <3> QED BY <1>1, <2>1, <3>1 DEF LogoutEndsOrOverlaps
  <2>2. CASE e \notin audit
    <3>1. PICK r \in Requests : /\ pc[r] = "logout_audit" /\ e.token = token[r]
                                /\ e.request = r
      BY <2>2, NewRow
    <3>2. token[r] \in Tokens /\ Stored(token[r])
      BY <1>0, <3>1 DEF IndInv, RequestOK, LogoutSteps, TypeOK, OrNull
    <3>3. Dead(family[e.token]) \/ RotatedBeside(e.request, e.token)
      BY <3>1 DEF Overtaken
    <3> QED BY <1>1, <3>1, <3>2, <3>3
  <2> QED BY <2>1, <2>2
<1>4. RepeatedLogoutsOverlap'
  <2>1. ASSUME NEW e \in audit', NEW f \in audit, e.action = "USER_LOGOUT",
               f.action = "USER_LOGOUT", e.token = f.token, e.request # f.request, e \notin audit
        PROVE  e.request \in met'[f.request] /\ f.request \in met'[e.request]
    <3>1. PICK r \in Requests : pc[r] = "logout_audit" /\ e.token = token[r] /\ e.request = r
      BY <2>1, NewRow
    <3>2. f.request \in met[r] /\ r \in met[f.request]
      BY <2>1, <3>1 DEF Overtaken, LogoutSteps
    <3>3. f.request \in Requests BY <2>1, RecordedIsStored
    <3> QED BY <3>1, <3>2, <3>3, MeetStep DEF Tracking
  <2>2. ASSUME NEW e \in audit, NEW f \in audit, e.action = "USER_LOGOUT",
               f.action = "USER_LOGOUT", e.token = f.token, e.request # f.request
        PROVE  e.request \in met'[f.request]
    <3>1. f.request \in Requests BY <2>2, RecordedIsStored
    <3>2. e.request \in met[f.request] BY <2>2 DEF RepeatedLogoutsOverlap
    <3> QED BY <3>1, <3>2, MeetStep DEF Tracking
  <2>3. ASSUME NEW e \in audit', NEW f \in audit', e \notin audit, f \notin audit,
               e.action = "USER_LOGOUT", f.action = "USER_LOGOUT"
        PROVE  e = f
    <3>1. audit' = audit \cup {e} BY <2>3, NewRow
    <3> QED BY <2>3, <3>1
  <2> QED BY <2>1, <2>2, <2>3 DEF RepeatedLogoutsOverlap
<1> QED BY <1>2, <1>3, <1>4

(* A state in which nothing happens has nobody to meet. *)
LEMMA NobodyToMeet ==
    ASSUME Tracking, UNCHANGED overlapVars
    PROVE  Meet
<1>1. met' = met /\ pc' = pc BY DEF overlapVars, vars
<1>2. \A r \in Requests :
        met[r] = IF pc'[r] \in InFlight
                 THEN met[r] \cup {q \in Requests \ {r} : pc'[q] \in InFlight}
                 ELSE met[r]
  BY <1>1 DEF Tracking
<1> QED BY <1>1, <1>2 DEF Meet, Tracking

-----------------------------------------------------------------------------
(* Theorems *)

(* The history variable leaves every behaviour of RefreshTokens possible and *)
(* adds none.                                                                *)
LEMMA OnlyAHistory == OverlapSpec => Spec
<1>1. OverlapInit => Init BY DEF OverlapInit
<1>2. [OverlapNext]_overlapVars => [Next]_vars BY DEF OverlapNext, overlapVars
<1> QED BY <1>1, <1>2, PTL DEF OverlapSpec, Spec

(* At any concurrency: what a request finds changed was changed by requests  *)
(* it has met, and the promises about replays and logouts hold but for them. *)
THEOREM OverlapsAreMet == OverlapSpec => []OverlapInv
<1>1. OverlapInit => OverlapInv
  <2> SUFFICES ASSUME OverlapInit PROVE OverlapInv OBVIOUS
  <2>1. OneLeafPerFamily /\ ChainsAcyclic /\ \A r \in Requests : WalkAdvances(r)
    BY DEF OverlapInit, Init, OneLeafPerFamily, ChainsAcyclic, WalkAdvances, Stored
  <2>2. \A r \in Requests : pc[r] \notin InFlight /\ Overtaken(r)
    BY DEF OverlapInit, Init, Overtaken, InFlight, LoginSteps, RotationSteps, WalkSteps,
       ReuseSteps, LogoutSteps
  <2>3. ReplayEndsSession /\ LogoutEndsOrOverlaps /\ RepeatedLogoutsOverlap
    BY DEF OverlapInit, Init, ReplayEndsSession, LogoutEndsOrOverlaps, RepeatedLogoutsOverlap
  <2> QED BY <2>1, <2>2, <2>3 DEF OverlapInv, OverlapInit
<1>2. IndInv /\ IndInv' /\ LedgerInv /\ WalkInv /\ WalkInv' /\ OverlapInv
        /\ [OverlapNext]_overlapVars => OverlapInv'
  <2> SUFFICES ASSUME IndInv, IndInv', LedgerInv, WalkInv, WalkInv', OverlapInv,
                      [OverlapNext]_overlapVars
               PROVE  OverlapInv'
    OBVIOUS
  <2>1. [Next]_vars BY DEF OverlapNext, overlapVars
  <2>2. RowsGrow BY <2>1, StepInv
  <2>3. Tracking BY DEF OverlapInv, Tracking
  <2>4. Meet BY <2>3, NobodyToMeet DEF OverlapNext
  <2>5. Tracking' BY <2>3, <2>4, MeetStep DEF Tracking
  <2>6. ASSUME NEW r \in Requests PROVE Overtaken(r)'
    <3>1. Overtaken(r) BY DEF OverlapInv
    <3>2. TypeOK BY DEF IndInv
    <3>3. CASE LocalsKept(r) BY <2>1, <2>2, <2>3, <2>4, <3>1, <3>3, OvertakenStays
    <3>4. CASE Arrive(r) \/ Step(r) \/ Abort(r)
      BY <2>1, <2>2, <2>3, <2>4, <3>1, <3>4, OvertakenStep
    <3> QED BY <2>1, <3>2, <3>3, <3>4, RequestMoves
  <2>7. ReplayEndsSession' /\ LogoutEndsOrOverlaps' /\ RepeatedLogoutsOverlap'
    BY <2>1, <2>2, <2>3, <2>4, PromisesStep DEF OverlapInv
  <2> QED BY <2>5, <2>6, <2>7 DEF OverlapInv, WalkInv, Tracking
<1> QED BY <1>1, <1>2, OnlyAHistory, Invariance, LedgersBalance, WalksAdvance, PTL
        DEF OverlapSpec

(* A replay that is reported has ended its session, at any concurrency, but  *)
(* for a chain longer than revoke_descendants walks or a rotation of the     *)
(* same family by a request in flight at the same time.                      *)
THEOREM ReplaysEndSessions == OverlapSpec => []ReplayEndsSession
<1>1. OverlapInv => ReplayEndsSession BY DEF OverlapInv
<1> QED BY OverlapsAreMet, <1>1, PTL

(* A logout on record has ended its session, at any concurrency, but for a   *)
(* rotation of the same token by a request in flight at the same time: only  *)
(* then does revoke meet a token that is mid-chain.                          *)
THEOREM LogoutsEndSessions == OverlapSpec => []LogoutEndsOrOverlaps
<1>1. OverlapInv => LogoutEndsOrOverlaps BY DEF OverlapInv
<1> QED BY OverlapsAreMet, <1>1, PTL

(* Logout records a token twice only for requests in flight together.         *)
THEOREM RepeatedLogouts == OverlapSpec => []RepeatedLogoutsOverlap
<1>1. OverlapInv => RepeatedLogoutsOverlap BY DEF OverlapInv
<1> QED BY OverlapsAreMet, <1>1, PTL

-----------------------------------------------------------------------------
(* One request at a time *)

(* With room for one request nobody meets. *)
LEMMA NobodyMeets ==
    ASSUME MaxConcurrent = 1, IsFiniteSet(Serving), Cardinality(Serving) <= MaxConcurrent
    PROVE  \A q, r \in Requests : pc[q] \in InFlight /\ pc[r] \in InFlight => q = r
<1>1. Cardinality(Serving) \in Nat BY FS_CardinalityType
<1>2. Cardinality(Serving) = 0 => Serving = {} BY FS_EmptySet
<1>3. Cardinality(Serving) = 1 => \E x : Serving = {x} BY FS_Singleton
<1> QED BY <1>1, <1>2, <1>3 DEF Serving

(* So when requests are served one at a time a replay that is reported has   *)
(* ended the session, whatever was rotated before, if no chain is longer     *)
(* than _MAX_FAMILY_WALK_STEPS + 1 tokens.                                   *)
THEOREM SerialReplay ==
    ASSUME MaxConcurrent = 1
    PROVE  OverlapSpec => []((\A f \in Tokens : WithinReach(f)) => ReplayKillsFamily)
<1> DEFINE Lonely == met = [r \in Requests |-> {}]
<1>1. OverlapInit => Lonely BY DEF OverlapInit
<1>2. WalkInv' /\ Lonely /\ [OverlapNext]_overlapVars => Lonely'
  <2> SUFFICES ASSUME WalkInv', Lonely, [OverlapNext]_overlapVars PROVE Lonely' OBVIOUS
  <2>1. (MaxConcurrent = 1 /\ IsFiniteSet(Serving) /\ Cardinality(Serving) <= MaxConcurrent
           => \A q, r \in Requests : pc[q] \in InFlight /\ pc[r] \in InFlight => q = r)'
    BY NobodyMeets, PTL
  <2>2. \A q, r \in Requests : pc'[q] \in InFlight /\ pc'[r] \in InFlight => q = r
    BY <2>1 DEF WalkInv
  <2>3. CASE Meet
    <3>1. \A r \in Requests : pc'[r] \in InFlight =>
            {q \in Requests \ {r} : pc'[q] \in InFlight} = {}
      BY <2>2
    <3> QED BY <2>3, <3>1 DEF Meet
  <2>4. CASE UNCHANGED overlapVars BY <2>4 DEF overlapVars
  <2> QED BY <2>3, <2>4 DEF OverlapNext
<1>3. Lonely /\ IndInv /\ ReplayEndsSession
        => ((\A f \in Tokens : WithinReach(f)) => ReplayKillsFamily)
  <2> SUFFICES ASSUME Lonely, IndInv, ReplayEndsSession, \A f \in Tokens : WithinReach(f),
                      NEW e \in audit, e.action = "REFRESH_TOKEN_REUSE_DETECTED"
               PROVE  Dead(family[e.token])
    BY DEF ReplayKillsFamily
  <2>1. e.token \in Tokens /\ Stored(e.token) /\ e.request \in Requests BY RecordedIsStored
  <2>2. family[e.token] \in Tokens BY <2>1 DEF IndInv, TypeOK, RowsOK, OrNull
  <2>3. ~Outrun(e.request, family[e.token]) BY <2>1 DEF Outrun
  <2> QED BY <2>2, <2>3 DEF ReplayEndsSession
<1>4. OverlapSpec => []Lonely
  BY <1>1, <1>2, OnlyAHistory, WalksAdvance, PTL DEF OverlapSpec
<1> QED BY <1>3, <1>4, OnlyAHistory, Invariance, ReplaysEndSessions, PTL
=============================================================================
