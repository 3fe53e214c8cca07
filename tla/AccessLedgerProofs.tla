-------------------------- MODULE AccessLedgerProofs --------------------------
(***************************************************************************)
(* The audit log of AccessControl balances, for every number of sessions,  *)
(* users, roles, permissions and organizations.  Every statement of a      *)
(* request moves one of five amounts of a grant by one, or none: the rows  *)
(* inserted, the rows gone, the two counts of audit rows, and the requests *)
(* that still have to record (Moves).  PermissionLedger and GrantLedger    *)
(* compare these amounts, so they are arithmetic from there on.  Counting  *)
(* requests needs the ones in flight to be finitely many (Busy), which is  *)
(* proved and not assumed: a step admits at most one.                      *)
(***************************************************************************)
EXTENDS AccessControlProofs, FiniteSetTheorems

Busy == {s \in Sessions : pc[s] # "idle"}

(* The sessions that Pending counts. *)
Waiting(x, statements) ==
    {s \in Sessions : pc[s] \in statements /\ op[s].arg = x}

(* The statements at which an insertion, or a removal, is still to be recorded. *)
Owing == {"refresh", "record_added", "record_removed"}

-----------------------------------------------------------------------------
(* Counting sessions *)

(* A session becomes busy only by its own step. *)
LEMMA BusyStep ==
    ASSUME TypeOK, [Next]_vars, IsFiniteSet(Busy)
    PROVE  IsFiniteSet(Busy')
<1>1. ASSUME NEW q \in Sessions, Serve(q) PROVE IsFiniteSet(Busy')
  <2>1. \A r \in Sessions : r # q => pc'[r] = pc[r] BY <1>1, OthersKept
  <2>2. Busy' \subseteq Busy \cup {q} BY <2>1 DEF Busy
  <2>3. IsFiniteSet(Busy \cup {q}) BY FS_AddElement
  <2> QED BY <2>2, <2>3, FS_Subset
<1>2. CASE (\E u \in Users : Deactivate(u)) \/ AllServed \/ UNCHANGED vars
  <2>1. UNCHANGED pc BY <1>2 DEF Deactivate, AllServed, vars
  <2> QED BY <2>1 DEF Busy
<1> QED BY <1>1, <1>2 DEF Next

(* Sets that differ in at most one element have sizes that differ by one. *)
LEMMA OneApart ==
    ASSUME NEW S, NEW T, NEW q, IsFiniteSet(S), IsFiniteSet(T), S \ {q} = T \ {q}
    PROVE  /\ Cardinality(S) \in Nat /\ Cardinality(T) \in Nat
           /\ (q \in S <=> q \in T) => Cardinality(T) = Cardinality(S)
           /\ q \notin S /\ q \in T => Cardinality(T) = Cardinality(S) + 1
           /\ q \in S /\ q \notin T => Cardinality(S) = Cardinality(T) + 1
<1>1. Cardinality(S) \in Nat /\ Cardinality(T) \in Nat BY FS_CardinalityType
<1>2. (q \in S <=> q \in T) => S = T OBVIOUS
<1>3. ASSUME q \notin S, q \in T PROVE Cardinality(T) = Cardinality(S) + 1
  <2>1. T = S \cup {q} BY <1>3
  <2> QED BY <1>3, <2>1, FS_AddElement
<1>4. ASSUME q \in S, q \notin T PROVE Cardinality(S) = Cardinality(T) + 1
  <2>1. S = T \cup {q} BY <1>4
  <2> QED BY <1>4, <2>1, FS_AddElement
<1> QED BY <1>1, <1>2, <1>3, <1>4

(* What the session that moves adds to or takes from the requests pending. *)
LEMMA PendingMoves ==
    ASSUME TypeOK, NEW q \in Sessions, Serve(q), IsFiniteSet(Busy), IsFiniteSet(Busy'),
           NEW x, NEW st \in SUBSET Owing
    PROVE  /\ Pending(x, st) \in Nat /\ Pending(x, st)' \in Nat
           /\ (q \in Waiting(x, st) <=> q \in Waiting(x, st)') =>
                 Pending(x, st)' = Pending(x, st)
           /\ q \notin Waiting(x, st) /\ q \in Waiting(x, st)' =>
                 Pending(x, st)' = Pending(x, st) + 1
           /\ q \in Waiting(x, st) /\ q \notin Waiting(x, st)' =>
                 Pending(x, st) = Pending(x, st)' + 1
<1>1. PICK S : S = Waiting(x, st) OBVIOUS
<1>2. PICK T : T = Waiting(x, st)' OBVIOUS
<1>3. S \subseteq Busy /\ T \subseteq Busy' BY <1>1, <1>2 DEF Waiting, Busy, Owing
<1>4. IsFiniteSet(S) /\ IsFiniteSet(T) BY <1>3, FS_Subset
<1>5. \A r \in Sessions : r # q => (r \in S <=> r \in T)
  BY <1>1, <1>2, OthersKept DEF Waiting
<1>6. S \ {q} = T \ {q}
  <2>1. S \subseteq Sessions /\ T \subseteq Sessions BY <1>1, <1>2 DEF Waiting
  <2> QED BY <1>5, <2>1
<1>7. Pending(x, st) = Cardinality(S) /\ Pending(x, st)' = Cardinality(T)
  BY <1>1, <1>2 DEF Pending, Waiting
<1> QED BY <1>1, <1>2, <1>4, <1>6, <1>7, OneApart

-----------------------------------------------------------------------------
(* What a statement does to rows, log and its own session *)

Unmoved == UNCHANGED <<row, ids, log, aborts>>

(* It changes no row, and nothing has to be recorded before or after. *)
Looks(q) == Unmoved /\ pc[q] \notin Owing /\ pc'[q] \notin Owing

(* It creates a role or an organization. *)
Creates(q) ==
    /\ Unmoved /\ pc[q] = "insert" /\ pc'[q] = "record_added"
    /\ op[q] \in Operations /\ op'[q] = op[q] /\ op[q].arg \notin Grants

(* It reads back the row just inserted. *)
Refreshes(q) ==
    /\ Unmoved /\ pc[q] = "refresh"
    /\ op[q] \in Operations /\ op[q].arg \in Assignments \cup Memberships
    /\ pc'[q] = "idle" \/ (pc'[q] = "record_added" /\ op'[q] = op[q])

(* It inserts the row of a grant. *)
Adds(q) ==
    LET x == op[q].arg
    IN  /\ op[q] \in Operations /\ op'[q] = op[q] /\ x \in Grants /\ ~Present(x)
        /\ pc[q] = "insert"
        /\ pc'[q] = IF x \in RolePermissions THEN "record_added" ELSE "refresh"
        /\ ids' = [ids EXCEPT ![x] = @ + 1] /\ row' = [row EXCEPT ![x] = ids[x] + 1]
        /\ UNCHANGED <<log, aborts>>

(* It deletes the row of a grant; of an assignment or membership, if found.  *)
Deletes(q) ==
    LET x == op[q].arg
    IN  /\ op[q] \in Operations /\ op'[q] = op[q] /\ x \in Grants
        /\ pc[q] = "delete" /\ pc'[q] = "record_removed"
        /\ \/ Present(x) /\ row' = [row EXCEPT ![x] = 0]
           \/ /\ op[q].kind \in {"revoke_role", "remove_member"}
              /\ row' = [row EXCEPT ![x] = IF @ = found[q] THEN 0 ELSE @]
        /\ UNCHANGED <<ids, log, aborts>>

(* An organization that is created is not a grant. *)
LEMMA NoGrants == \A x \in NewRoles \cup NewOrganizations : x \notin Grants
<1>1. \A g \in Memberships : DOMAIN g = {"user", "organization"} BY DEF Memberships
<1>2. \A g \in Assignments : DOMAIN g = {"user", "role", "organization"} BY DEF Assignments
<1>3. \A g \in RolePermissions : DOMAIN g = {"role", "permission"} BY DEF RolePermissions
<1>4. \A g \in NewOrganizations : DOMAIN g = {"organization"} BY DEF NewOrganizations
<1>5. "user" \notin {"organization"} /\ "role" \notin {"organization"} OBVIOUS
<1>6. \A g \in NewOrganizations : g \notin Grants BY <1>1, <1>2, <1>3, <1>4, <1>5 DEF Grants
<1> QED BY <1>6, TablesDisjoint

(* Every statement is one of these. *)
LEMMA Statement ==
    ASSUME TypeOK, NEW q \in Sessions, Serve(q)
    PROVE  \/ Looks(q) \/ Creates(q) \/ Refreshes(q) \/ Adds(q) \/ Deletes(q)
           \/ RecordAdded(q) \/ RecordRemoved(q) \/ Abort(q)
<1> USE DEF TypeOK, Goto, Close, Continue, Reads, locals, tables, counts, Unmoved, At
<1>1. CASE (\E u \in Users : GetCurrentUser(q, u)) \/ Forbid(q) \/ AnswerConflict(q)
  BY <1>1 DEF GetCurrentUser, Forbid, AnswerConflict, Looks, Owing
<1>2. CASE \E request \in Operations : Authorize(q, request)
  BY <1>2 DEF Authorize, FirstStatement, Operations, Looks, Owing
<1>3. CASE \/ CreateRoleGetOrganization(q) \/ AssignRoleGetRole(q)
           \/ AssignRoleGetOrganization(q) \/ AssignRoleIsMember(q)
           \/ AssignPermissionGetRole(q) \/ AssignPermissionGetPermission(q)
           \/ RemovePermissionGetRole(q) \/ AddMemberGetUser(q) \/ AddMemberGetOrganization(q)
  BY <1>3 DEF CreateRoleGetOrganization, AssignRoleGetRole, AssignRoleGetOrganization,
     AssignRoleIsMember, AssignPermissionGetRole, AssignPermissionGetPermission,
     RemovePermissionGetRole, AddMemberGetUser, AddMemberGetOrganization, Looks, Owing
<1>4. CASE RevokeRoleFind(q) \/ RemoveMemberFind(q)
  BY <1>4 DEF RevokeRoleFind, RemoveMemberFind, FindRow, Looks, Owing
<1>5. CASE AssignRoleRefresh(q) \/ AddMemberRefresh(q)
  <2>1. op[q] \in Operations /\ op[q].arg \in Assignments \cup Memberships
    BY <1>5, OperationArgs DEF AssignRoleRefresh, AddMemberRefresh
  <2> QED BY <1>5, <2>1 DEF AssignRoleRefresh, AddMemberRefresh, RefreshRow, Refreshes
<1>6. CASE CreateRoleInsert(q) \/ CreateOrganizationInsert(q)
  <2>1. op[q] \in Operations /\ op[q].arg \notin Grants
    BY <1>6, OperationArgs, NoGrants DEF CreateRoleInsert, CreateOrganizationInsert
  <2> QED BY <1>6, <2>1 DEF CreateRoleInsert, CreateOrganizationInsert, Looks, Creates, Owing
<1>7. CASE AssignRoleInsert(q) \/ AddMemberInsert(q)
  <2>1. /\ op[q] \in Operations /\ op[q].arg \in Grants /\ op[q].arg \notin RolePermissions
        /\ pc[q] = "insert" /\ InsertRow(q, op[q].arg, "refresh")
    BY <1>7, OperationArgs, TablesDisjoint DEF AssignRoleInsert, AddMemberInsert, Grants
  <2> QED BY <2>1 DEF InsertRow, Looks, Adds, Owing
<1>8. CASE AssignPermissionInsert(q)
  <2>1. /\ op[q] \in Operations /\ op[q].arg \in Grants /\ op[q].arg \in RolePermissions
        /\ pc[q] = "insert" /\ InsertRow(q, op[q].arg, "record_added")
    BY <1>8, OperationArgs DEF AssignPermissionInsert, Grants
  <2> QED BY <2>1 DEF InsertRow, Looks, Adds, Owing
<1>9. CASE RevokeRoleDelete(q) \/ RemoveMemberDelete(q)
  <2>1. op[q] \in Operations /\ op[q].arg \in Assignments \cup Memberships
    BY <1>9, OperationArgs DEF RevokeRoleDelete, RemoveMemberDelete
  <2> QED BY <1>9, <2>1 DEF RevokeRoleDelete, RemoveMemberDelete, DeleteRow, Deletes, Grants
<1>10. CASE RemovePermissionDelete(q)
  <2>1. op[q] \in Operations /\ op[q].arg \in RolePermissions /\ op[q].arg \in Grants
    BY <1>10, OperationArgs DEF RemovePermissionDelete, Grants
  <2>2. CASE Present(op[q].arg) BY <1>10, <2>1, <2>2 DEF RemovePermissionDelete, Deletes
  <2>3. CASE ~Present(op[q].arg)
    <3>1. row' = row BY <1>10, <2>1, <2>3 DEF RemovePermissionDelete, Present
    <3> QED BY <1>10, <2>3, <3>1 DEF RemovePermissionDelete, Looks, Owing
  <2> QED BY <2>2, <2>3
<1> QED BY <1>1, <1>2, <1>3, <1>4, <1>5, <1>6, <1>7, <1>8, <1>9, <1>10
        DEF Serve, RoleStep, PermissionStep, OrganizationStep

-----------------------------------------------------------------------------
(* The amounts of a grant *)

(* The statements of a request that has inserted g and not recorded it. *)
ToAdd(g) == IF g \in RolePermissions THEN {"record_added"} ELSE {"refresh", "record_added"}
ToRemove == {"record_removed"}

AddedKept(g) == added'[g] = added[g] /\ ids'[g] = ids[g]
RemovedKept(g) == removed'[g] = removed[g] /\ Gone(g)' = Gone(g)
ToAddKept(g) == Pending(g, ToAdd(g))' = Pending(g, ToAdd(g))
ToRemoveKept(g) == Pending(g, ToRemove)' = Pending(g, ToRemove)

(* A request ends without recording: it was cut off, or its row was gone. *)
Forgets(g) ==
    /\ AddedKept(g) /\ RemovedKept(g)
    /\ ToAddKept(g) \/ Pending(g, ToAdd(g)) = Pending(g, ToAdd(g))' + 1
    /\ ToRemoveKept(g) \/ Pending(g, ToRemove) = Pending(g, ToRemove)' + 1
    /\ aborts' = 0 => aborts = 0 /\ ToRemoveKept(g) /\ (g \in RolePermissions => ToAddKept(g))

RowAdded(g) ==
    /\ added'[g] = added[g] /\ ids'[g] = ids[g] + 1
    /\ Pending(g, ToAdd(g))' = Pending(g, ToAdd(g)) + 1
    /\ RemovedKept(g) /\ ToRemoveKept(g) /\ UNCHANGED aborts

(* A DELETE removes the row, unless it is the one of revoke_role or          *)
(* remove_member and the row is no longer the one they found.                *)
RowDeleted(q, g) ==
    /\ AddedKept(g) /\ ToAddKept(g) /\ UNCHANGED aborts
    /\ removed'[g] = removed[g] /\ Pending(g, ToRemove)' = Pending(g, ToRemove) + 1
    /\ \/ Gone(g)' = Gone(g) + 1
       \/ /\ Gone(g)' = Gone(g) /\ g \notin RolePermissions
          /\ pc[q] = "delete" /\ op[q].kind \in {"revoke_role", "remove_member"}
          /\ op[q].arg = g /\ ~(Present(g) /\ found[q] = row[g])

AddRecorded(g) ==
    /\ added'[g] = added[g] + 1 /\ ids'[g] = ids[g]
    /\ Pending(g, ToAdd(g)) = Pending(g, ToAdd(g))' + 1
    /\ RemovedKept(g) /\ ToRemoveKept(g) /\ UNCHANGED aborts

RemovalRecorded(g) ==
    /\ AddedKept(g) /\ ToAddKept(g) /\ UNCHANGED aborts
    /\ removed'[g] = removed[g] + 1 /\ Gone(g)' = Gone(g)
    /\ Pending(g, ToRemove) = Pending(g, ToRemove)' + 1

Moves(q, g) ==
    Forgets(g) \/ RowAdded(g) \/ RowDeleted(q, g) \/ AddRecorded(g) \/ RemovalRecorded(g)

(* A step moves one amount of each grant by one, or none. *)
LEMMA MovesStep ==
    ASSUME TypeOK, NEW q \in Sessions, Serve(q), IsFiniteSet(Busy), IsFiniteSet(Busy'),
           NEW g \in Grants
    PROVE  Moves(q, g)
<1> DEFINE wa == q \in Waiting(g, ToAdd(g))
           wr == q \in Waiting(g, ToRemove)
           P == Pending(g, ToAdd(g))
           D == Pending(g, ToRemove)
<1>1. /\ P \in Nat /\ P' \in Nat /\ ((wa <=> wa') => P' = P)
      /\ (~wa /\ wa' => P' = P + 1) /\ (wa /\ ~wa' => P = P' + 1)
  BY PendingMoves DEF ToAdd, Owing
<1>2. /\ D \in Nat /\ D' \in Nat /\ ((wr <=> wr') => D' = D)
      /\ (~wr /\ wr' => D' = D + 1) /\ (wr /\ ~wr' => D = D' + 1)
  BY PendingMoves DEF ToRemove, Owing
<1>3. /\ wa <=> pc[q] \in ToAdd(g) /\ op[q].arg = g
      /\ wa' <=> pc'[q] \in ToAdd(g) /\ op'[q].arg = g
      /\ wr <=> pc[q] \in ToRemove /\ op[q].arg = g
      /\ wr' <=> pc'[q] \in ToRemove /\ op'[q].arg = g
  BY DEF Waiting
<1> HIDE DEF wa, wr, P, D
<1>4. /\ ids[g] \in Nat /\ row[g] \in Nat /\ added[g] \in Nat /\ removed[g] \in Nat
      /\ aborts \in Nat /\ g \in Subjects
  BY DEF TypeOK, Subjects
<1>5. ASSUME row'[g] = row[g], ids'[g] = ids[g] PROVE Gone(g)' = Gone(g)
  BY <1>5 DEF Gone, Present
<1>6. ASSUME P' = P, D' = D, AddedKept(g), RemovedKept(g), UNCHANGED aborts PROVE Moves(q, g)
  BY <1>6 DEF Moves, Forgets, ToAddKept, ToRemoveKept, P, D
<1> USE DEF ToAdd, ToRemove
<1>7. CASE Looks(q)
  <2>1. P' = P /\ D' = D BY <1>1, <1>2, <1>3, <1>7 DEF Looks, Owing
  <2>2. AddedKept(g) /\ RemovedKept(g) /\ UNCHANGED aborts
    BY <1>5, <1>7 DEF Looks, Unmoved, AddedKept, RemovedKept, log
  <2> QED BY <1>6, <2>1, <2>2
<1>8. CASE Creates(q)
  <2>1. P' = P /\ D' = D BY <1>1, <1>2, <1>3, <1>8 DEF Creates
  <2>2. AddedKept(g) /\ RemovedKept(g) /\ UNCHANGED aborts
    BY <1>5, <1>8 DEF Creates, Unmoved, AddedKept, RemovedKept, log
  <2> QED BY <1>6, <2>1, <2>2
<1>9. CASE Refreshes(q)
  <2>1. D' = D /\ (P' = P \/ P = P' + 1)
    BY <1>1, <1>2, <1>3, <1>9, TablesDisjoint DEF Refreshes
  <2>2. AddedKept(g) /\ RemovedKept(g) /\ UNCHANGED aborts
    BY <1>5, <1>9 DEF Refreshes, Unmoved, AddedKept, RemovedKept, log
  <2>3. g \in RolePermissions => P' = P
    BY <1>1, <1>3, <1>9, TablesDisjoint DEF Refreshes
  <2> QED BY <2>1, <2>2, <2>3 DEF Moves, Forgets, ToAddKept, ToRemoveKept, P, D
<1>10. CASE Abort(q)
  <2>1. pc'[q] = "idle" /\ aborts' = aborts + 1 /\ UNCHANGED <<row, ids, added, removed>>
    BY <1>10 DEF Abort, Close, Goto, TypeOK, tables, log
  <2>2. (P' = P \/ P = P' + 1) /\ (D' = D \/ D = D' + 1) BY <1>1, <1>2, <1>3, <2>1
  <2>3. AddedKept(g) /\ RemovedKept(g) /\ aborts' # 0
    BY <1>4, <1>5, <2>1 DEF AddedKept, RemovedKept
  <2> QED BY <2>2, <2>3 DEF Moves, Forgets, ToAddKept, ToRemoveKept, P, D
<1>11. CASE Adds(q)
  <2>1. /\ pc[q] = "insert" /\ op'[q] = op[q] /\ UNCHANGED <<added, removed, aborts>>
        /\ pc'[q] = IF op[q].arg \in RolePermissions THEN "record_added" ELSE "refresh"
    BY <1>11 DEF Adds, log
  <2>2. CASE op[q].arg = g
    <3>1. P' = P + 1 /\ D' = D BY <1>1, <1>2, <1>3, <2>1, <2>2
    <3>2. ids'[g] = ids[g] + 1 /\ row'[g] = ids[g] + 1 /\ row[g] = 0
      BY <1>11, <2>2 DEF Adds, TypeOK, Present
    <3>3. Gone(g)' = Gone(g) BY <1>4, <3>2 DEF Gone, Present
    <3> QED BY <2>1, <3>1, <3>2, <3>3
        DEF Moves, RowAdded, RemovedKept, ToRemoveKept, P, D
  <2>3. CASE op[q].arg # g
    <3>1. P' = P /\ D' = D BY <1>1, <1>2, <1>3, <2>1, <2>3
    <3>2. ids'[g] = ids[g] /\ row'[g] = row[g] BY <1>11, <2>3 DEF Adds, TypeOK
    <3> QED BY <1>5, <1>6, <2>1, <3>1, <3>2 DEF AddedKept, RemovedKept
  <2> QED BY <2>2, <2>3
<1>12. CASE Deletes(q)
  <2>1. /\ pc[q] = "delete" /\ pc'[q] = "record_removed" /\ op'[q] = op[q]
        /\ UNCHANGED <<ids, added, removed, aborts>>
    BY <1>12 DEF Deletes, log
  <2>2. CASE op[q].arg = g
    <3>1. P' = P /\ D' = D + 1 BY <1>1, <1>2, <1>3, <2>1, <2>2
    <3>2. \/ row[g] # 0 /\ row'[g] = 0
          \/ /\ op[q].kind \in {"revoke_role", "remove_member"} /\ row'[g] = row[g]
             /\ ~(Present(g) /\ found[q] = row[g])
      BY <1>12, <2>2 DEF Deletes, TypeOK, Present
    <3>3. CASE row[g] # 0 /\ row'[g] = 0
      <4>1. Gone(g)' = Gone(g) + 1 BY <1>4, <2>1, <3>3 DEF Gone, Present
      <4> QED BY <2>1, <3>1, <4>1 DEF Moves, RowDeleted, AddedKept, ToAddKept, P, D
    <3>4. CASE /\ op[q].kind \in {"revoke_role", "remove_member"} /\ row'[g] = row[g]
               /\ ~(Present(g) /\ found[q] = row[g])
      <4>1. Gone(g)' = Gone(g) BY <1>5, <2>1, <3>4
      <4>2. g \notin RolePermissions
        BY <1>12, <2>2, <3>4, OperationArgs, TablesDisjoint DEF Deletes
      <4> QED BY <2>1, <2>2, <3>1, <3>4, <4>1, <4>2
          DEF Moves, RowDeleted, AddedKept, ToAddKept, P, D
    <3> QED BY <3>2, <3>3, <3>4
  <2>3. CASE op[q].arg # g
    <3>1. P' = P /\ D' = D BY <1>1, <1>2, <1>3, <2>1, <2>3
    <3>2. row'[g] = row[g] BY <1>12, <2>3 DEF Deletes, TypeOK
    <3> QED BY <1>5, <1>6, <2>1, <3>1, <3>2 DEF AddedKept, RemovedKept
  <2> QED BY <2>2, <2>3
<1>13. CASE RecordAdded(q)
  <2>1. /\ pc[q] = "record_added" /\ pc'[q] = "idle"
        /\ UNCHANGED <<row, ids, removed, aborts>>
        /\ added' = [added EXCEPT ![op[q].arg] = @ + 1]
    BY <1>13 DEF RecordAdded, Close, Goto, TypeOK, tables, counts
  <2>2. Gone(g)' = Gone(g) BY <1>5, <2>1
  <2>3. CASE op[q].arg = g
    <3>1. P = P' + 1 /\ D' = D BY <1>1, <1>2, <1>3, <2>1, <2>3
    <3>2. added'[g] = added[g] + 1 BY <1>4, <2>1, <2>3 DEF TypeOK
    <3> QED BY <2>1, <2>2, <3>1, <3>2
        DEF Moves, AddRecorded, RemovedKept, ToRemoveKept, P, D
  <2>4. CASE op[q].arg # g
    <3>1. P' = P /\ D' = D BY <1>1, <1>2, <1>3, <2>1, <2>4
    <3>2. added'[g] = added[g] BY <1>4, <2>1, <2>4 DEF TypeOK
    <3> QED BY <1>6, <2>1, <2>2, <3>1, <3>2 DEF AddedKept, RemovedKept
  <2> QED BY <2>3, <2>4
<1>14. CASE RecordRemoved(q)
  <2>1. /\ pc[q] = "record_removed" /\ pc'[q] = "idle"
        /\ UNCHANGED <<row, ids, added, aborts>>
        /\ removed' = [removed EXCEPT ![op[q].arg] = @ + 1]
    BY <1>14 DEF RecordRemoved, Close, Goto, TypeOK, tables, counts
  <2>2. Gone(g)' = Gone(g) BY <1>5, <2>1
  <2>3. CASE op[q].arg = g
    <3>1. P' = P /\ D = D' + 1 BY <1>1, <1>2, <1>3, <2>1, <2>3
    <3>2. removed'[g] = removed[g] + 1 BY <1>4, <2>1, <2>3 DEF TypeOK
    <3> QED BY <2>1, <2>2, <3>1, <3>2
        DEF Moves, RemovalRecorded, AddedKept, ToAddKept, P, D
  <2>4. CASE op[q].arg # g
    <3>1. P' = P /\ D' = D BY <1>1, <1>2, <1>3, <2>1, <2>4
    <3>2. removed'[g] = removed[g] BY <1>4, <2>1, <2>4 DEF TypeOK
    <3> QED BY <1>6, <2>1, <2>2, <3>1, <3>2 DEF AddedKept, RemovedKept
  <2> QED BY <2>3, <2>4
<1> QED BY <1>7, <1>8, <1>9, <1>10, <1>11, <1>12, <1>13, <1>14, Statement

-----------------------------------------------------------------------------
(* The ledgers *)

(* Role permissions: what is on record or about to be is what happened, as   *)
(* long as no request is cut off, and never more.                            *)
LEMMA PermissionStepLedger ==
    ASSUME TypeOK, TypeOK', NEW q \in Sessions, Serve(q), IsFiniteSet(Busy),
           IsFiniteSet(Busy'), PermissionLedger
    PROVE  PermissionLedger'
<1> SUFFICES ASSUME NEW g \in RolePermissions
             PROVE  LET granted == added[g] + Pending(g, {"record_added"})
                        revoked == removed[g] + Pending(g, {"record_removed"})
                    IN  (/\ granted <= ids[g] /\ revoked <= Gone(g)
                         /\ aborts = 0 => granted = ids[g] /\ revoked = Gone(g))'
  BY DEF PermissionLedger
<1>1. g \in Grants /\ g \in Subjects BY DEF Grants, Subjects
<1>2. PICK P, D : P = Pending(g, {"record_added"}) /\ D = Pending(g, {"record_removed"}) OBVIOUS
<1>3. PICK P2, D2 : P2 = Pending(g, {"record_added"})' /\ D2 = Pending(g, {"record_removed"})'
  OBVIOUS
<1>4. P \in Nat /\ D \in Nat /\ P2 \in Nat /\ D2 \in Nat
  BY <1>2, <1>3, PendingMoves DEF Owing
<1>5. PICK n, n2 : n = Gone(g) /\ n2 = Gone(g)' OBVIOUS
<1>6. /\ added[g] \in Nat /\ removed[g] \in Nat /\ ids[g] \in Nat /\ aborts \in Nat
      /\ added'[g] \in Nat /\ removed'[g] \in Nat /\ ids'[g] \in Nat /\ aborts' \in Nat
  BY <1>1 DEF TypeOK
<1>7. n \in Int /\ n2 \in Int BY <1>5, <1>6 DEF Gone
<1>8. /\ added[g] + P <= ids[g] /\ removed[g] + D <= n
      /\ aborts = 0 => added[g] + P = ids[g] /\ removed[g] + D = n
  BY <1>2, <1>5 DEF PermissionLedger
<1>9. \/ /\ added'[g] = added[g] /\ ids'[g] = ids[g] /\ removed'[g] = removed[g] /\ n2 = n
         /\ (P2 = P \/ P = P2 + 1) /\ (D2 = D \/ D = D2 + 1)
         /\ aborts' = 0 => aborts = 0 /\ P2 = P /\ D2 = D
      \/ /\ added'[g] = added[g] /\ ids'[g] = ids[g] + 1 /\ removed'[g] = removed[g] /\ n2 = n
         /\ P2 = P + 1 /\ D2 = D /\ aborts' = aborts
      \/ /\ added'[g] = added[g] /\ ids'[g] = ids[g] /\ removed'[g] = removed[g] /\ n2 = n + 1
         /\ P2 = P /\ D2 = D + 1 /\ aborts' = aborts
      \/ /\ added'[g] = added[g] + 1 /\ ids'[g] = ids[g] /\ removed'[g] = removed[g] /\ n2 = n
         /\ P = P2 + 1 /\ D2 = D /\ aborts' = aborts
      \/ /\ added'[g] = added[g] /\ ids'[g] = ids[g] /\ removed'[g] = removed[g] + 1 /\ n2 = n
         /\ P2 = P /\ D = D2 + 1 /\ aborts' = aborts
  <2>1. Moves(q, g) BY <1>1, MovesStep
  <2> QED BY <1>2, <1>3, <1>5, <2>1 DEF Moves, Forgets, RowAdded, RowDeleted, AddRecorded,
      RemovalRecorded, AddedKept, RemovedKept, ToAddKept, ToRemoveKept, ToAdd, ToRemove
<1>10. /\ added'[g] + P2 <= ids'[g] /\ removed'[g] + D2 <= n2
       /\ aborts' = 0 => added'[g] + P2 = ids'[g] /\ removed'[g] + D2 = n2
  BY <1>4, <1>6, <1>7, <1>8, <1>9
<1> QED BY <1>3, <1>5, <1>10

(* Role assignments and memberships: no grant is on record that was not      *)
(* made, and as long as no request is cut off no removal is missed.          *)
LEMMA GrantStepLedger ==
    ASSUME TypeOK, TypeOK', NEW q \in Sessions, Serve(q), IsFiniteSet(Busy),
           IsFiniteSet(Busy'), GrantLedger
    PROVE  GrantLedger'
<1> SUFFICES ASSUME NEW g \in Assignments \cup Memberships
             PROVE  (/\ added[g] + Pending(g, {"refresh", "record_added"}) <= ids[g]
                     /\ aborts = 0 => removed[g] + Pending(g, {"record_removed"}) >= Gone(g))'
  BY DEF GrantLedger
<1>1. g \in Grants /\ g \in Subjects /\ g \notin RolePermissions
  BY TablesDisjoint DEF Grants, Subjects
<1>2. PICK P, D : /\ P = Pending(g, {"refresh", "record_added"})
                  /\ D = Pending(g, {"record_removed"})
  OBVIOUS
<1>3. PICK P2, D2 : /\ P2 = Pending(g, {"refresh", "record_added"})'
                    /\ D2 = Pending(g, {"record_removed"})'
  OBVIOUS
<1>4. P \in Nat /\ D \in Nat /\ P2 \in Nat /\ D2 \in Nat
  BY <1>2, <1>3, PendingMoves DEF Owing
<1>5. PICK n, n2 : n = Gone(g) /\ n2 = Gone(g)' OBVIOUS
<1>6. /\ added[g] \in Nat /\ removed[g] \in Nat /\ ids[g] \in Nat /\ aborts \in Nat
      /\ added'[g] \in Nat /\ removed'[g] \in Nat /\ ids'[g] \in Nat /\ aborts' \in Nat
  BY <1>1 DEF TypeOK
<1>7. n \in Int /\ n2 \in Int BY <1>5, <1>6 DEF Gone
<1>8. /\ added[g] + P <= ids[g]
      /\ aborts = 0 => removed[g] + D >= n
  BY <1>2, <1>5 DEF GrantLedger
<1>9. \/ /\ added'[g] = added[g] /\ ids'[g] = ids[g] /\ removed'[g] = removed[g] /\ n2 = n
         /\ P2 = P \/ P = P2 + 1
         /\ aborts' = 0 => aborts = 0 /\ D2 = D
      \/ /\ added'[g] = added[g] /\ ids'[g] = ids[g] + 1 /\ removed'[g] = removed[g] /\ n2 = n
         /\ P2 = P + 1 /\ D2 = D /\ aborts' = aborts
      \/ /\ added'[g] = added[g] /\ ids'[g] = ids[g] /\ removed'[g] = removed[g]
         /\ n2 = n + 1 \/ n2 = n
         /\ P2 = P /\ D2 = D + 1 /\ aborts' = aborts
      \/ /\ added'[g] = added[g] + 1 /\ ids'[g] = ids[g] /\ removed'[g] = removed[g] /\ n2 = n
         /\ P = P2 + 1 /\ D2 = D /\ aborts' = aborts
      \/ /\ added'[g] = added[g] /\ ids'[g] = ids[g] /\ removed'[g] = removed[g] + 1 /\ n2 = n
         /\ P2 = P /\ D = D2 + 1 /\ aborts' = aborts
  <2>1. Moves(q, g) BY <1>1, MovesStep
  <2> QED BY <1>1, <1>2, <1>3, <1>5, <2>1 DEF Moves, Forgets, RowAdded, RowDeleted,
      AddRecorded, RemovalRecorded, AddedKept, RemovedKept, ToAddKept, ToRemoveKept, ToAdd,
      ToRemove
<1>10. /\ added'[g] + P2 <= ids'[g]
       /\ aborts' = 0 => removed'[g] + D2 >= n2
  BY <1>4, <1>6, <1>7, <1>8, <1>9
<1> QED BY <1>3, <1>5, <1>10

(* Nobody has anything to record before the first request. *)
LEMMA NothingPending ==
    ASSUME Init
    PROVE  /\ Busy = {} /\ IsFiniteSet(Busy)
           /\ \A x : \A st \in SUBSET Owing : Pending(x, st) = 0
<1>1. Busy = {} BY DEF Init, Busy
<1>2. \A x : \A st \in SUBSET Owing :
         {s \in Sessions : pc[s] \in st /\ op[s].arg = x} = {}
  BY DEF Init, Owing
<1> QED BY <1>1, <1>2, FS_EmptySet DEF Pending

(* A row that was seeded is on record, and none is gone. *)
LEMMA InitLedgers == ASSUME Init, AccessInv PROVE PermissionLedger /\ GrantLedger
<1>1. \A g \in Grants : /\ added[g] = ids[g] /\ removed[g] = 0 /\ row[g] = ids[g]
                        /\ ids[g] \in {0, 1}
  BY DEF Init, Subjects
<1>2. \A g \in Grants : Gone(g) = 0 BY <1>1 DEF Gone, Present
<1>3. \A x : /\ Pending(x, {"record_added"}) = 0 /\ Pending(x, {"record_removed"}) = 0
             /\ Pending(x, {"refresh", "record_added"}) = 0
  BY NothingPending DEF Owing
<1>4. PermissionLedger BY <1>1, <1>2, <1>3 DEF PermissionLedger, Grants
<1>5. GrantLedger BY <1>1, <1>2, <1>3 DEF GrantLedger, Grants
<1> QED BY <1>4, <1>5

Ledgers == IsFiniteSet(Busy) /\ PermissionLedger /\ GrantLedger

(* The log and the three grant tables account for each other in every        *)
(* reachable state, for any number of sessions.                              *)
THEOREM LedgersBalance == Spec => []Ledgers
<1>1. Init => Ledgers BY InitInv, InitLedgers, NothingPending DEF Ledgers
<1>2. AccessInv /\ AccessInv' /\ Ledgers /\ [Next]_vars => Ledgers'
  <2> SUFFICES ASSUME AccessInv, AccessInv', Ledgers, [Next]_vars PROVE Ledgers' OBVIOUS
  <2>1. TypeOK /\ TypeOK' BY DEF AccessInv
  <2>2. IsFiniteSet(Busy') BY <2>1, BusyStep DEF Ledgers
  <2>3. ASSUME NEW q \in Sessions, Serve(q) PROVE PermissionLedger' /\ GrantLedger'
    BY <2>1, <2>2, <2>3, PermissionStepLedger, GrantStepLedger DEF Ledgers
  <2>4. CASE (\E u \in Users : Deactivate(u)) \/ AllServed \/ UNCHANGED vars
    <3>1. UNCHANGED <<row, ids, added, removed, pc, op, aborts>>
      BY <2>4 DEF Deactivate, AllServed, vars, tables, log, locals, counts
    <3>2. /\ \A x, st : Pending(x, st)' = Pending(x, st)
          /\ \A g : Gone(g)' = Gone(g)
      BY <3>1 DEF Pending, Gone, Present
    <3>3. PermissionLedger' BY <3>1, <3>2 DEF Ledgers, PermissionLedger
    <3>4. GrantLedger' BY <3>1, <3>2 DEF Ledgers, GrantLedger
    <3> QED BY <2>2, <3>3, <3>4 DEF Ledgers
  <2> QED BY <2>2, <2>3, <2>4 DEF Ledgers, Next
<1> QED BY <1>1, <1>2, AccessInvariance, PTL DEF Spec

(* Every permission given to a role and every one taken from it is recorded  *)
(* once, whoever else changes the same role, unless the request that did it  *)
(* was cut off: the rowcount of the DELETE decides who records.              *)
THEOREM PermissionsAccounted == Spec => []PermissionLedger
<1>1. Ledgers => PermissionLedger BY DEF Ledgers
<1> QED BY LedgersBalance, <1>1, PTL

(* No assignment or membership is on record that was not made, and no        *)
(* removal goes unrecorded, whoever else assigns and revokes the same grant. *)
THEOREM GrantsAccounted == Spec => []GrantLedger
<1>1. Ledgers => GrantLedger BY DEF Ledgers
<1> QED BY LedgersBalance, <1>1, PTL
=============================================================================
