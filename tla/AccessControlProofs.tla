------------------------- MODULE AccessControlProofs -------------------------
(***************************************************************************)
(* Proofs about AccessControl for every set of users, roles, organizations *)
(* and permissions, every number of sessions and every limit on requests.  *)
(* The inductive invariant is AccessInv.  It is preserved because roles,   *)
(* organizations, the ids given to rows and the audit rows only grow       *)
(* (GrowStep): what one request has looked up before its INSERT is still   *)
(* true when the INSERT runs, whatever the others committed in between     *)
(* (ChecksStable).  The proof of a step is therefore in two halves: what   *)
(* the request that moves does to the tables and to its own locals         *)
(* (Effects, RowsStep, TypeStep), and that the facts the other requests    *)
(* rely on survive it (ChecksStep).                                        *)
(***************************************************************************)
EXTENDS AccessControl, TLAPS

(* The argument of an operation is of the kind its route takes. *)
LEMMA OperationArgs ==
    ASSUME NEW o \in Operations
    PROVE  /\ o.kind \in {"assign_role", "revoke_role"} => o.arg \in Assignments
           /\ o.kind \in {"assign_permission", "remove_permission"} => o.arg \in RolePermissions
           /\ o.kind \in {"add_member", "remove_member"} => o.arg \in Memberships
           /\ o.kind = "create_role" => o.arg \in NewRoles
           /\ o.kind = "create_organization" => o.arg \in NewOrganizations
           /\ Required(o.kind) \in Managing
           /\ FirstStatement(o) \in Statements \ {"authorize", "already_exists"}
BY DEF Operations, Required, FirstStatement, Managing, Statements

(* Rows of different tables are different. *)
LEMMA TablesDisjoint ==
    /\ \A g \in Memberships : g \notin Assignments /\ g \notin RolePermissions
    /\ \A g \in RolePermissions : g \notin Assignments /\ g \notin Memberships
    /\ \A g \in Assignments : g \notin RolePermissions /\ g \notin Memberships
    /\ \A g \in NewRoles : g \notin Grants /\ g \notin NewOrganizations
<1>1. \A g \in Memberships : DOMAIN g = {"user", "organization"} BY DEF Memberships
<1>2. \A g \in Assignments : DOMAIN g = {"user", "role", "organization"} BY DEF Assignments
<1>3. \A g \in RolePermissions : DOMAIN g = {"role", "permission"} BY DEF RolePermissions
<1>4. \A g \in NewRoles : DOMAIN g = {"role", "organization"} BY DEF NewRoles
<1>5. /\ "role" \notin {"user", "organization"} /\ "permission" \notin {"user", "organization"}
      /\ "permission" \notin {"user", "role", "organization"}
      /\ "permission" \notin {"role", "organization"}
      /\ "user" \notin {"role", "organization"}
  OBVIOUS
<1>6. \A g \in NewOrganizations : DOMAIN g = {"organization"} BY DEF NewOrganizations
<1>7. "role" \notin {"organization"} OBVIOUS
<1> QED BY <1>1, <1>2, <1>3, <1>4, <1>5, <1>6, <1>7 DEF Grants

(* The seeded database satisfies the invariant: nobody but the administrator *)
(* holds a role, and no request has been served.                             *)
LEMMA InitInv == Init => AccessInv
<1> SUFFICES ASSUME Init PROVE AccessInv OBVIOUS
<1> USE AccessAssumption, AccessNullAssumption
<1>1. PICK members \in SUBSET [user : Users, organization : organizations] :
         ids = [g \in Grants |-> IF g \in Seeded(members) THEN 1 ELSE 0]
  BY DEF Init
<1>2. organizations \subseteq Organizations /\ roles \subseteq Roles /\ AdminRole \in roles
  BY DEF Init
<1>3. \A g \in Grants : Present(g) <=> g \in Seeded(members) BY <1>1 DEF Init, Present
<1>4. \A g \in Seeded(members) :
         \/ g = [user |-> AdminUser, role |-> AdminRole, organization |-> NULL]
         \/ g \in RolePermissions /\ g.role = AdminRole /\ g.permission \in Permissions
         \/ g \in Memberships /\ g.user \in Users /\ g.organization \in organizations
  BY <1>2 DEF Seeded, RolePermissions, Memberships, Managing
<1>5. \A g \in Seeded(members) : Referenced(g)
  BY <1>2, <1>4, TablesDisjoint DEF Referenced, OrNull, Assignments
<1>6. row \in [Grants -> Nat] /\ ids \in [Grants -> Nat] /\ added \in [Subjects -> Nat]
  BY <1>1 DEF Init, Subjects
<1>7. TypeOK
  BY <1>2, <1>3, <1>5, <1>6 DEF Init, TypeOK, OrNull
<1>8. \A a \in Assignments : Present(a) =>
         a = [user |-> AdminUser, role |-> AdminRole, organization |-> NULL]
  BY <1>3, <1>4, TablesDisjoint DEF Grants
<1>9. RowsOK /\ ScopedRoleHadMember
  BY <1>1, <1>3, <1>8 DEF Init, RowsOK, ScopedRoleHadMember, ScopeMatches
<1>10. RoleCreatedOnce
  BY TablesDisjoint DEF Init, RoleCreatedOnce, Subjects
<1>11. ConflictIsDuplicate /\ \A s \in Sessions : ChecksOK(s) /\ NewRoleOK(s)
  BY DEF Init, ConflictIsDuplicate, ChecksOK, NewRoleOK, At
<1> QED BY <1>7, <1>9, <1>10, <1>11 DEF AccessInv

-----------------------------------------------------------------------------
(* What one step of a session may do *)

(* A step of one session leaves the others alone. *)
LEMMA OthersKept ==
    ASSUME TypeOK, NEW q \in Sessions, NEW r \in Sessions, q # r, Serve(q)
    PROVE  pc'[r] = pc[r] /\ op'[r] = op[r]
<1> USE DEF TypeOK, Goto, Close, Continue, Reads, locals
<1>1. CASE (\E u \in Users : GetCurrentUser(q, u)) \/ Forbid(q) \/ AnswerConflict(q) \/ Abort(q)
  BY <1>1 DEF GetCurrentUser, Forbid, AnswerConflict, Abort
<1>2. CASE \E request \in Operations : Authorize(q, request) BY <1>2 DEF Authorize
<1>3. CASE RoleStep(q)
  BY <1>3 DEF RoleStep, CreateRoleGetOrganization, CreateRoleInsert, AssignRoleGetRole,
     AssignRoleGetOrganization, AssignRoleIsMember, AssignRoleInsert, AssignRoleRefresh,
     RevokeRoleFind, RevokeRoleDelete, InsertRow, RefreshRow, FindRow, DeleteRow
<1>4. CASE PermissionStep(q)
  BY <1>4 DEF PermissionStep, AssignPermissionGetRole, AssignPermissionGetPermission,
     AssignPermissionInsert, RemovePermissionGetRole, RemovePermissionDelete, InsertRow
<1>5. CASE OrganizationStep(q)
  BY <1>5 DEF OrganizationStep, CreateOrganizationInsert, AddMemberGetUser,
     AddMemberGetOrganization, AddMemberInsert, AddMemberRefresh, RemoveMemberFind,
     RemoveMemberDelete, InsertRow, RefreshRow, FindRow, DeleteRow
<1>6. CASE RecordAdded(q) \/ RecordRemoved(q) BY <1>6 DEF RecordAdded, RecordRemoved
<1> QED BY <1>1, <1>2, <1>3, <1>4, <1>5, <1>6 DEF Serve

(* A session that inserts a grant does so for its own operation. *)
Inserts(s, g) ==
    /\ pc[s] = "insert" /\ op[s].arg = g
    /\ op[s].kind \in {"assign_role", "assign_permission", "add_member"}
    /\ Referenced(g)
    /\ ids' = [ids EXCEPT ![g] = @ + 1]
    /\ row' = [row EXCEPT ![g] = ids[g] + 1]

(* Rows are inserted one at a time, deleted, or left alone. *)
RowEffect(s) ==
    \/ UNCHANGED <<row, ids>>
    \/ \E g \in Grants : Inserts(s, g)
    \/ ids' = ids /\ row' \in [Grants -> Nat] /\ \A g \in Grants : row'[g] \in {0, row[g]}

(* Roles are created by the operation that asks for them, with its scope. *)
RoleEffect(s) ==
    \/ UNCHANGED <<roles, role_organization>>
    \/ /\ At(s, "create_role", "insert") /\ op[s].arg.role \notin roles
       /\ roles' = roles \cup {op[s].arg.role}
       /\ role_organization' =
            [role_organization EXCEPT ![op[s].arg.role] = op[s].arg.organization]
       /\ pc' = [pc EXCEPT ![s] = "record_added"] /\ UNCHANGED op

(* Every statement has one of these effects on the tables. *)
LEMMA Effects ==
    ASSUME TypeOK, NEW q \in Sessions, Serve(q)
    PROVE  RowEffect(q) /\ RoleEffect(q) /\ organizations \subseteq organizations'
<1> USE DEF TypeOK, Goto, Continue, Reads, locals, tables, RowEffect, RoleEffect
<1>1. CASE (\E u \in Users : GetCurrentUser(q, u)) \/ Forbid(q) \/ AnswerConflict(q) \/ Abort(q)
  BY <1>1 DEF GetCurrentUser, Forbid, AnswerConflict, Abort
<1>2. CASE \E request \in Operations : Authorize(q, request) BY <1>2 DEF Authorize
<1>3. CASE \/ CreateRoleGetOrganization(q) \/ AssignRoleGetRole(q)
           \/ AssignRoleGetOrganization(q) \/ AssignRoleIsMember(q)
           \/ AssignRoleRefresh(q) \/ RevokeRoleFind(q)
           \/ AssignPermissionGetRole(q) \/ AssignPermissionGetPermission(q)
           \/ RemovePermissionGetRole(q) \/ AddMemberGetUser(q)
           \/ AddMemberGetOrganization(q) \/ AddMemberRefresh(q) \/ RemoveMemberFind(q)
           \/ RecordAdded(q) \/ RecordRemoved(q)
  BY <1>3 DEF CreateRoleGetOrganization, AssignRoleGetRole, AssignRoleGetOrganization,
     AssignRoleIsMember, AssignRoleRefresh, RevokeRoleFind, AssignPermissionGetRole,
     AssignPermissionGetPermission, RemovePermissionGetRole, AddMemberGetUser,
     AddMemberGetOrganization, AddMemberRefresh, RemoveMemberFind, RecordAdded, RecordRemoved,
     RefreshRow, FindRow
<1>4. CASE CreateRoleInsert(q)
  BY <1>4 DEF CreateRoleInsert
<1>5. CASE CreateOrganizationInsert(q)
  BY <1>5 DEF CreateOrganizationInsert
<1>6. CASE AssignRoleInsert(q) \/ AssignPermissionInsert(q) \/ AddMemberInsert(q)
  <2>1. op[q] \in Operations BY <1>6 DEF AssignRoleInsert, AssignPermissionInsert, AddMemberInsert, At
  <2>2. op[q].arg \in Grants
    BY <1>6, <2>1, OperationArgs
       DEF AssignRoleInsert, AssignPermissionInsert, AddMemberInsert, At, Grants
  <2>3. UNCHANGED <<row, ids>> \/ Inserts(q, op[q].arg)
    BY <1>6 DEF AssignRoleInsert, AssignPermissionInsert, AddMemberInsert, At, InsertRow, Inserts
  <2>4. UNCHANGED <<organizations, roles, role_organization>>
    BY <1>6 DEF AssignRoleInsert, AssignPermissionInsert, AddMemberInsert, InsertRow
  <2> QED BY <2>2, <2>3, <2>4
<1>7. CASE RevokeRoleDelete(q) \/ RemoveMemberDelete(q) \/ RemovePermissionDelete(q)
  BY <1>7 DEF RevokeRoleDelete, RemoveMemberDelete, RemovePermissionDelete, DeleteRow
<1> QED BY <1>1, <1>2, <1>3, <1>4, <1>5, <1>6, <1>7
        DEF Serve, RoleStep, PermissionStep, OrganizationStep

-----------------------------------------------------------------------------
(* Rows *)

(* No statement takes away what a request may have checked: rows of roles    *)
(* and organizations stay, a role keeps its scope, ids only grow.            *)
TablesGrow ==
    /\ roles \subseteq roles' /\ organizations \subseteq organizations'
    /\ \A p \in roles : role_organization'[p] = role_organization[p]
    /\ \A g \in Grants : ids[g] <= ids'[g]

(* Every step of a session grows the tables. *)
LEMMA GrowStep ==
    ASSUME TypeOK, NEW q \in Sessions, Serve(q)
    PROVE  TablesGrow
<1>1. RowEffect(q) /\ RoleEffect(q) /\ organizations \subseteq organizations' BY Effects
<1>2. \A g \in Grants : ids[g] <= ids'[g] BY <1>1 DEF RowEffect, Inserts, TypeOK
<1>3. roles \subseteq roles' /\ \A p \in roles : role_organization'[p] = role_organization[p]
  BY <1>1 DEF RoleEffect, TypeOK
<1> QED BY <1>1, <1>2, <1>3 DEF TablesGrow

(* The rows of the three grant tables stay in order at every step. *)
LEMMA RowsStep ==
    ASSUME AccessInv, NEW q \in Sessions, Serve(q)
    PROVE  /\ RowsOK' /\ ScopedRoleHadMember'
           /\ \A g \in Grants : Present(g)' => Referenced(g)'
<1> USE DEF TypeOK, Present
<1>0. TypeOK /\ RowsOK /\ ScopedRoleHadMember /\ ChecksOK(q) /\ TablesGrow
  BY GrowStep DEF AccessInv
<1>1. Assignments \subseteq Grants /\ \A a \in Assignments : a.role \in Roles
  BY DEF Grants, Assignments
<1>2. \A a \in Assignments : a.organization # NULL =>
         [user |-> a.user, organization |-> a.organization] \in Grants
  BY DEF Assignments, Memberships, Grants, OrNull
<1>3. \A g \in Grants : Referenced(g) => Referenced(g)'
  BY <1>0 DEF Referenced, TablesGrow, OrNull
<1>4. \A a \in Assignments : a.role \in roles /\ ScopeMatches(a) => ScopeMatches(a)'
  BY <1>0 DEF ScopeMatches, TablesGrow
<1>5. \A a \in Assignments : Present(a) => a.role \in roles
  BY <1>0, <1>1 DEF Referenced
<1>6. CASE \A g \in Grants : row'[g] \in {0, row[g]}
  <2>1. \A g \in Grants : Present(g)' => Present(g) BY <1>6
  <2>2. \A g \in Grants : Present(g)' => Referenced(g)' BY <1>0, <1>3, <2>1
  <2>3. \A a \in Assignments : Present(a)' => ScopeMatches(a)'
    BY <1>0, <1>1, <1>4, <1>5, <2>1 DEF RowsOK
  <2>4. \A g \in Grants : Present(g)' => ids'[g] > 0
    <3> SUFFICES ASSUME NEW g \in Grants, Present(g)' PROVE ids'[g] > 0 OBVIOUS
    <3>1. ids[g] \in Nat /\ ids[g] > 0 /\ ids[g] <= ids'[g] BY <1>0, <2>1 DEF RowsOK, TablesGrow
    <3>2. ids'[g] \in Nat BY <1>0, Effects DEF RowEffect, Inserts
    <3> QED BY <3>1, <3>2
  <2> HIDE DEF Present
  <2>5. ASSUME NEW a \in Assignments, Present(a)', a.organization # NULL
        PROVE  ids'[[user |-> a.user, organization |-> a.organization]] > 0
    <3> DEFINE m == [user |-> a.user, organization |-> a.organization]
    <3>1. m \in Grants /\ ids[m] > 0 BY <1>0, <1>1, <1>2, <2>1, <2>5 DEF ScopedRoleHadMember
    <3> HIDE DEF m
    <3>2. ids[m] \in Nat /\ ids'[m] \in Nat /\ ids[m] <= ids'[m]
      BY <1>0, <3>1, Effects DEF RowEffect, Inserts, TablesGrow
    <3>3. ids'[m] > 0 BY <3>1, <3>2
    <3> QED BY <3>3 DEF m
  <2> QED BY <2>2, <2>3, <2>4, <2>5 DEF RowsOK, ScopedRoleHadMember
<1>7. CASE \E g \in Grants : Inserts(q, g)
  <2>1. PICK g \in Grants : Inserts(q, g) BY <1>7
  <2>2. /\ ids' = [ids EXCEPT ![g] = @ + 1] /\ row' = [row EXCEPT ![g] = ids[g] + 1]
        /\ Referenced(g) /\ pc[q] = "insert" /\ op[q].arg = g /\ op[q] \in Operations
    BY <1>0, <2>1 DEF Inserts
  <2>3. \A h \in Grants : Present(h)' => h = g \/ Present(h) BY <1>0, <2>2
  <2>4. \A h \in Grants : ids[h] \in Nat /\ ids'[h] \in Nat /\ ids[h] <= ids'[h]
    BY <1>0, <2>2
  <2>5. ids'[g] > 0 BY <1>0, <2>2
  <2>6. g \in Assignments => op[q].kind = "assign_role"
    BY <2>1, <2>2, OperationArgs, TablesDisjoint DEF Inserts
  <2>7. \A h \in Grants : Present(h)' => Referenced(h)'
    BY <1>0, <1>3, <2>2, <2>3
  <2>8. g \in Assignments => g.role \in roles /\ ScopeMatches(g)
    BY <1>0, <2>2, <2>6 DEF ChecksOK
  <2>9. \A a \in Assignments : Present(a)' => ScopeMatches(a)'
    BY <1>0, <1>1, <1>4, <1>5, <2>3, <2>8 DEF RowsOK
  <2> HIDE DEF Present
  <2>10. \A h \in Grants : Present(h)' => ids'[h] > 0
    <3> SUFFICES ASSUME NEW h \in Grants, Present(h)' PROVE ids'[h] > 0 OBVIOUS
    <3>1. CASE h = g BY <2>5, <3>1
    <3>2. CASE Present(h)
      <4>1. ids[h] > 0 BY <1>0, <3>2 DEF RowsOK
      <4> QED BY <2>4, <4>1
    <3> QED BY <2>3, <3>1, <3>2
  <2>11. ASSUME NEW a \in Assignments, Present(a)', a.organization # NULL
         PROVE  ids'[[user |-> a.user, organization |-> a.organization]] > 0
    <3> DEFINE m == [user |-> a.user, organization |-> a.organization]
    <3>1. m \in Grants BY <1>2, <2>11
    <3>2. ids[m] > 0
      <4>1. CASE a = g BY <1>0, <2>2, <2>6, <2>11, <4>1 DEF ChecksOK, At
      <4>2. CASE Present(a) BY <1>0, <2>11, <4>2 DEF ScopedRoleHadMember
      <4> QED BY <1>1, <2>3, <2>11, <4>1, <4>2
    <3> HIDE DEF m
    <3>3. ids'[m] > 0 BY <2>4, <3>1, <3>2
    <3> QED BY <3>3 DEF m
  <2> QED BY <2>7, <2>9, <2>10, <2>11 DEF RowsOK, ScopedRoleHadMember
<1> QED BY <1>0, <1>6, <1>7, Effects DEF RowEffect

-----------------------------------------------------------------------------
(* Types *)

(* The types of what a session remembers. *)
LocalTypes ==
    /\ pc \in [Sessions -> {"idle"} \cup Statements]
    /\ op \in [Sessions -> OrNull(Operations)]
    /\ \A s \in Sessions : pc[s] \notin {"idle", "authorize"} => op[s] \in Operations
    /\ actor \in [Sessions -> OrNull(UserIds)]
    /\ is_active \in [Sessions -> BOOLEAN]
    /\ found \in [Sessions -> Nat]

(* Closing a session keeps them. *)
LEMMA CloseTypes ==
    ASSUME TypeOK, NEW q \in Sessions, Close(q)
    PROVE  LocalTypes'
<1> USE DEF TypeOK, Close, Goto
<1>1. pc' \in [Sessions -> {"idle"} \cup Statements] OBVIOUS
<1>2. op' \in [Sessions -> OrNull(Operations)] /\ actor' \in [Sessions -> OrNull(UserIds)]
  BY DEF OrNull
<1>3. \A s \in Sessions : pc'[s] \notin {"idle", "authorize"} => op'[s] \in Operations OBVIOUS
<1>4. is_active' \in [Sessions -> BOOLEAN] OBVIOUS
<1>5. found' \in [Sessions -> Nat] OBVIOUS
<1> QED BY <1>1, <1>2, <1>3, <1>4, <1>5 DEF LocalTypes

(* So does a statement that only reads. *)
LEMMA ReadTypes ==
    ASSUME TypeOK, NEW q \in Sessions, pc[q] \notin {"idle", "authorize"},
           NEW step \in Statements, NEW passed, Reads(q, passed, step)
    PROVE  LocalTypes'
<1>1. CASE Close(q) BY <1>1, CloseTypes
<1>2. CASE Continue(q, step) BY <1>2 DEF Continue, Goto, TypeOK, LocalTypes, locals
<1> QED BY <1>1, <1>2 DEF Reads

(* And the SELECT of a row to delete. *)
LEMMA FindTypes ==
    ASSUME TypeOK, NEW q \in Sessions, pc[q] = "find", NEW g \in Grants, FindRow(q, g)
    PROVE  LocalTypes'
<1>1. CASE Close(q) BY <1>1, CloseTypes
<1>2. CASE ~Close(q) BY <1>2 DEF FindRow, Goto, TypeOK, LocalTypes, Statements
<1> QED BY <1>1, <1>2

(* Every step of a session keeps the types and the foreign keys. *)
LEMMA TypeStep ==
    ASSUME AccessInv, NEW q \in Sessions, Serve(q)
    PROVE  TypeOK'
<1> USE AccessAssumption DEF TypeOK, Goto, Continue, Reads, locals, tables, log, counts,
    OrNull, Statements, At
<1>0. TypeOK /\ \A g \in Grants : Present(g)' => Referenced(g)' BY RowsStep DEF AccessInv
<1>00. Close(q) => LocalTypes' BY <1>0, CloseTypes
<1> HIDE DEF Present, Referenced
<1>1. CASE \E u \in Users : GetCurrentUser(q, u)
  <2>1. is_active' \in [Sessions -> BOOLEAN] BY <1>0, <1>1 DEF GetCurrentUser
  <2> QED BY <1>0, <1>1, <2>1 DEF GetCurrentUser
<1>2. CASE Forbid(q) \/ AnswerConflict(q) \/ Abort(q)
  BY <1>0, <1>00, <1>2 DEF Forbid, AnswerConflict, Abort, LocalTypes
<1>3. CASE \E request \in Operations : Authorize(q, request)
  BY <1>0, <1>3, OperationArgs DEF Authorize
<1>4. CASE \/ CreateRoleGetOrganization(q) \/ AssignRoleGetRole(q)
           \/ AssignRoleGetOrganization(q) \/ AssignRoleIsMember(q)
           \/ AssignRoleRefresh(q) \/ AssignPermissionGetRole(q)
           \/ AssignPermissionGetPermission(q) \/ RemovePermissionGetRole(q)
           \/ AddMemberGetUser(q) \/ AddMemberGetOrganization(q) \/ AddMemberRefresh(q)
  <2>1. PICK step \in Statements, passed \in BOOLEAN :
           Reads(q, passed, step) /\ pc[q] \notin {"idle", "authorize"}
    BY <1>4 DEF CreateRoleGetOrganization, AssignRoleGetRole, AssignRoleGetOrganization,
       AssignRoleIsMember, AssignRoleRefresh, RefreshRow, AssignPermissionGetRole,
       AssignPermissionGetPermission, RemovePermissionGetRole, AddMemberGetUser,
       AddMemberGetOrganization, AddMemberRefresh
  <2>2. LocalTypes' BY <1>0, <2>1, ReadTypes
  <2>3. UNCHANGED <<active, tables, log, counts>> BY <2>1
  <2> QED BY <1>0, <2>2, <2>3 DEF LocalTypes
<1>5. CASE RevokeRoleFind(q) \/ RemoveMemberFind(q)
  <2>1. op[q].arg \in Grants /\ FindRow(q, op[q].arg) /\ pc[q] = "find"
    BY <1>0, <1>5, OperationArgs DEF RevokeRoleFind, RemoveMemberFind, Grants
  <2>2. LocalTypes' BY <1>0, <2>1, FindTypes
  <2> QED BY <1>0, <2>1, <2>2 DEF FindRow, LocalTypes
<1>6. CASE CreateRoleInsert(q)
  <2>1. op[q] \in Operations /\ op[q].arg \in NewRoles
    BY <1>0, <1>6, OperationArgs DEF CreateRoleInsert
  <2> QED BY <1>0, <1>6, <2>1 DEF CreateRoleInsert, NewRoles
<1>7. CASE CreateOrganizationInsert(q)
  <2>1. op[q] \in Operations /\ op[q].arg \in NewOrganizations
    BY <1>0, <1>7, OperationArgs DEF CreateOrganizationInsert
  <2> QED BY <1>0, <1>7, <2>1 DEF CreateOrganizationInsert, NewOrganizations
<1>8. CASE AssignRoleInsert(q) \/ AssignPermissionInsert(q) \/ AddMemberInsert(q)
  <2>1. op[q].arg \in Grants
    BY <1>0, <1>8, OperationArgs
       DEF AssignRoleInsert, AssignPermissionInsert, AddMemberInsert, Grants
  <2> QED BY <1>0, <1>8, <2>1 DEF AssignRoleInsert, AssignPermissionInsert, AddMemberInsert,
      InsertRow
<1>9. CASE RevokeRoleDelete(q) \/ RemoveMemberDelete(q) \/ RemovePermissionDelete(q)
  BY <1>0, <1>00, <1>9 DEF RevokeRoleDelete, RemoveMemberDelete, RemovePermissionDelete,
     DeleteRow, LocalTypes
<1>10. CASE RecordAdded(q) \/ RecordRemoved(q)
  BY <1>0, <1>00, <1>10 DEF RecordAdded, RecordRemoved, LocalTypes
<1> QED BY <1>1, <1>2, <1>3, <1>4, <1>5, <1>6, <1>7, <1>8, <1>9, <1>10
        DEF Serve, RoleStep, PermissionStep, OrganizationStep

-----------------------------------------------------------------------------
(* What a request has checked *)

(* The checks of a session that does not move stay true. *)
LEMMA ChecksStable ==
    ASSUME TypeOK, TypeOK', NEW r \in Sessions, ChecksOK(r), TablesGrow,
           pc'[r] = pc[r], op'[r] = op[r]
    PROVE  ChecksOK(r)'
<1> DEFINE x == op[r].arg
<1>0. pc[r] \notin {"idle", "authorize"} => op[r] \in Operations BY DEF TypeOK
<1>1. ASSUME pc[r] \in {"get_organization", "is_member", "insert"}, op[r].kind = "assign_role"
      PROVE  x.role \in roles' /\ role_organization'[x.role] = role_organization[x.role]
  BY <1>1 DEF ChecksOK, TablesGrow
<1>2. ASSUME At(r, "assign_role", "insert"), x.organization # NULL
      PROVE  ids'[[user |-> x.user, organization |-> x.organization]] > 0
  <2> DEFINE m == [user |-> x.user, organization |-> x.organization]
  <2>1. m \in Grants
    BY <1>0, <1>2, OperationArgs DEF At, Assignments, Memberships, Grants, OrNull
  <2>2. ids[m] > 0 BY <1>2 DEF ChecksOK
  <2> HIDE DEF m
  <2>3. ids'[m] > 0 BY <2>1, <2>2 DEF TypeOK, TablesGrow
  <2> QED BY <2>3 DEF m
<1> QED BY <1>1, <1>2 DEF ChecksOK, TablesGrow, At, ScopeMatches

(* The session that takes the step has checked what the next statement needs. *)
LEMMA ChecksStep ==
    ASSUME AccessInv, TypeOK', NEW q \in Sessions, Serve(q)
    PROVE  ChecksOK(q)'
<1> USE DEF ChecksOK, Goto, Close, Continue, Reads, locals, tables, At, TypeOK
<1>0. TypeOK /\ ChecksOK(q) BY DEF AccessInv
<1>1. CASE (\E u \in Users : GetCurrentUser(q, u)) \/ Forbid(q) \/ AnswerConflict(q) \/ Abort(q)
  BY <1>0, <1>1 DEF GetCurrentUser, Forbid, AnswerConflict, Abort
<1>2. CASE \E request \in Operations : Authorize(q, request)
  BY <1>0, <1>2 DEF Authorize, FirstStatement, Operations
<1>3. CASE CreateRoleGetOrganization(q) \/ AssignRoleGetRole(q) \/ AssignRoleGetOrganization(q)
  BY <1>0, <1>3 DEF CreateRoleGetOrganization, AssignRoleGetRole, AssignRoleGetOrganization,
     ScopeMatches
<1>4. CASE AssignRoleIsMember(q)
  <2>1. op[q] \in Operations /\ op[q].arg \in Assignments
    BY <1>0, <1>4, OperationArgs DEF AssignRoleIsMember
  <2>2. op[q].arg.organization # NULL =>
          [user |-> op[q].arg.user, organization |-> op[q].arg.organization] \in Grants
    BY <2>1 DEF Assignments, Memberships, Grants, OrNull
  <2>3. pc'[q] = "insert" /\ op[q].arg.organization # NULL =>
          ids[[user |-> op[q].arg.user, organization |-> op[q].arg.organization]] > 0
    BY <1>0, <1>4, <2>2 DEF AssignRoleIsMember, IsMember, AccessInv, RowsOK
  <2> QED BY <1>0, <1>4, <2>3 DEF AssignRoleIsMember, ScopeMatches
<1>5. CASE AssignRoleInsert(q) \/ AssignPermissionInsert(q) \/ AddMemberInsert(q)
  BY <1>0, <1>5 DEF AssignRoleInsert, AssignPermissionInsert, AddMemberInsert, InsertRow
<1>6. CASE AssignRoleRefresh(q) \/ RevokeRoleFind(q) \/ AddMemberRefresh(q) \/ RemoveMemberFind(q)
  BY <1>0, <1>6 DEF AssignRoleRefresh, RevokeRoleFind, AddMemberRefresh, RemoveMemberFind,
     RefreshRow, FindRow
<1>7. CASE \/ AssignPermissionGetRole(q) \/ AssignPermissionGetPermission(q)
           \/ RemovePermissionGetRole(q) \/ AddMemberGetUser(q) \/ AddMemberGetOrganization(q)
  BY <1>0, <1>7 DEF AssignPermissionGetRole, AssignPermissionGetPermission,
     RemovePermissionGetRole, AddMemberGetUser, AddMemberGetOrganization
<1>8. CASE RevokeRoleDelete(q) \/ RemoveMemberDelete(q) \/ RemovePermissionDelete(q)
  BY <1>0, <1>8 DEF RevokeRoleDelete, RemoveMemberDelete, RemovePermissionDelete, DeleteRow
<1>9. CASE CreateRoleInsert(q) \/ CreateOrganizationInsert(q)
  BY <1>0, <1>9 DEF CreateRoleInsert, CreateOrganizationInsert
<1>10. CASE RecordAdded(q) \/ RecordRemoved(q)
  BY <1>0, <1>10 DEF RecordAdded, RecordRemoved
<1> QED BY <1>1, <1>2, <1>3, <1>4, <1>5, <1>6, <1>7, <1>8, <1>9, <1>10
        DEF Serve, RoleStep, PermissionStep, OrganizationStep

(* Of the statements, only an INSERT of a grant or of a new role or           *)
(* organization leads to a conflict, and for members and role permissions     *)
(* the lookups before it leave only one cause: the row is there.              *)
LEMMA ConflictStep ==
    ASSUME AccessInv, TypeOK', NEW q \in Sessions, Serve(q)
    PROVE  ConflictIsDuplicate'
<1> USE DEF ConflictIsDuplicate
<1>0. TypeOK /\ ConflictIsDuplicate /\ RowsOK /\ ChecksOK(q) /\ TablesGrow
  BY GrowStep DEF AccessInv
<1>1. ASSUME NEW r \in Sessions, r # q, pc'[r] = "already_exists",
             op'[r].kind \in {"add_member", "assign_permission"}
      PROVE  ids'[op'[r].arg] > 0
  <2>1. pc[r] = "already_exists" /\ op[r] = op'[r] BY <1>0, <1>1, OthersKept
  <2>2. op[r].arg \in Grants BY <1>0, <1>1, <2>1, OperationArgs DEF TypeOK, Grants
  <2>3. ids[op[r].arg] > 0 BY <1>0, <1>1, <2>1
  <2> QED BY <1>0, <2>1, <2>2, <2>3 DEF TablesGrow, TypeOK
<1>2. ASSUME pc'[q] = "already_exists", op'[q].kind \in {"add_member", "assign_permission"}
      PROVE  ids'[op'[q].arg] > 0
  <2>1. AssignPermissionInsert(q) \/ AddMemberInsert(q)
    <3> USE <1>0, <1>2 DEF Goto, Close, Continue, Reads, locals, At, TypeOK
    <3>1. CASE \/ \E u \in Users : GetCurrentUser(q, u)
               \/ \E request \in Operations : Authorize(q, request)
      BY <3>1, OperationArgs DEF GetCurrentUser, Authorize
    <3>2. CASE RoleStep(q)
      BY <3>2 DEF RoleStep, CreateRoleGetOrganization, CreateRoleInsert, AssignRoleGetRole,
         AssignRoleGetOrganization, AssignRoleIsMember, AssignRoleInsert, AssignRoleRefresh,
         RevokeRoleFind, RevokeRoleDelete, InsertRow, RefreshRow, FindRow, DeleteRow
    <3>3. CASE PermissionStep(q)
      BY <3>3 DEF PermissionStep, AssignPermissionGetRole, AssignPermissionGetPermission,
         RemovePermissionGetRole, RemovePermissionDelete
    <3>4. CASE OrganizationStep(q)
      BY <3>4 DEF OrganizationStep, CreateOrganizationInsert, AddMemberGetUser,
         AddMemberGetOrganization, AddMemberRefresh, RemoveMemberFind, RemoveMemberDelete,
         RefreshRow, FindRow, DeleteRow
    <3>5. CASE Forbid(q) \/ RecordAdded(q) \/ RecordRemoved(q) \/ AnswerConflict(q) \/ Abort(q)
      BY <3>5 DEF Forbid, RecordAdded, RecordRemoved, AnswerConflict, Abort
    <3> QED BY <3>1, <3>2, <3>3, <3>4, <3>5 DEF Serve
  <2>2. op' = op /\ pc[q] = "insert" /\ op[q] \in Operations
    BY <1>0, <2>1 DEF AssignPermissionInsert, AddMemberInsert, At, InsertRow, TypeOK
  <2>3. op[q].arg \in Grants /\ Referenced(op[q].arg)
    BY <1>0, <2>1, <2>2, OperationArgs, TablesDisjoint
       DEF AssignPermissionInsert, AddMemberInsert, At, ChecksOK, Referenced, Grants, OrNull
  <2>4. Present(op[q].arg) \/ ids'[op[q].arg] = ids[op[q].arg] + 1
    BY <1>0, <2>1, <2>3 DEF AssignPermissionInsert, AddMemberInsert, InsertRow, TypeOK
  <2>5. ids[op[q].arg] \in Nat /\ ids'[op[q].arg] \in Nat /\ ids[op[q].arg] <= ids'[op[q].arg]
    BY <1>0, <2>3 DEF TypeOK, TablesGrow
  <2>6. CASE Present(op[q].arg)
    <3>1. ids[op[q].arg] > 0 BY <1>0, <2>3, <2>6 DEF RowsOK
    <3> QED BY <2>2, <2>5, <3>1
  <2>7. CASE ids'[op[q].arg] = ids[op[q].arg] + 1 BY <2>2, <2>5, <2>7
  <2> QED BY <2>4, <2>6, <2>7
<1> QED BY <1>1, <1>2

-----------------------------------------------------------------------------
(* Creation of roles *)

(* The log of created roles changes only when a session records one. *)
LEMMA CreatedLog ==
    ASSUME AccessInv, NEW q \in Sessions, Serve(q)
    PROVE  \/ UNCHANGED added
           \/ RecordAdded(q)
<1> USE DEF Reads, log
<1>1. CASE RoleStep(q)
  BY <1>1 DEF RoleStep, CreateRoleGetOrganization, CreateRoleInsert, AssignRoleGetRole,
     AssignRoleGetOrganization, AssignRoleIsMember, AssignRoleInsert, AssignRoleRefresh,
     RevokeRoleFind, RevokeRoleDelete, InsertRow, RefreshRow, FindRow, DeleteRow
<1>2. CASE PermissionStep(q) \/ OrganizationStep(q)
  BY <1>2 DEF PermissionStep, AssignPermissionGetRole, AssignPermissionGetPermission,
     AssignPermissionInsert, RemovePermissionGetRole, RemovePermissionDelete,
     OrganizationStep, CreateOrganizationInsert, AddMemberGetUser,
     AddMemberGetOrganization, AddMemberInsert, AddMemberRefresh, RemoveMemberFind,
     RemoveMemberDelete, InsertRow, RefreshRow, FindRow, DeleteRow
<1> QED BY <1>1, <1>2 DEF Serve, GetCurrentUser, Authorize, Forbid, RecordRemoved,
    AnswerConflict, Abort

(* A session comes to record a new role only by creating it. *)
LEMMA ToRecordRole ==
    ASSUME AccessInv, NEW q \in Sessions, Serve(q), At(q, "create_role", "record_added")'
    PROVE  CreateRoleInsert(q) /\ op' = op /\ op[q].arg.role \notin roles
<1> USE DEF AccessInv, Goto, Close, Continue, Reads, locals, At, TypeOK
<1>1. CASE (\E u \in Users : GetCurrentUser(q, u)) \/ Forbid(q) \/ AnswerConflict(q) \/ Abort(q)
  BY <1>1 DEF GetCurrentUser, Forbid, AnswerConflict, Abort
<1>2. CASE \E request \in Operations : Authorize(q, request)
  BY <1>2 DEF Authorize, FirstStatement, Operations
<1>3. CASE RoleStep(q)
  BY <1>3 DEF RoleStep, CreateRoleGetOrganization, CreateRoleInsert, AssignRoleGetRole,
     AssignRoleGetOrganization, AssignRoleIsMember, AssignRoleInsert, AssignRoleRefresh,
     RevokeRoleFind, RevokeRoleDelete, InsertRow, RefreshRow, FindRow, DeleteRow
<1>4. CASE PermissionStep(q) \/ OrganizationStep(q)
  BY <1>4 DEF PermissionStep, AssignPermissionGetRole, AssignPermissionGetPermission,
     AssignPermissionInsert, RemovePermissionGetRole, RemovePermissionDelete,
     OrganizationStep, CreateOrganizationInsert, AddMemberGetUser,
     AddMemberGetOrganization, AddMemberInsert, AddMemberRefresh, RemoveMemberFind,
     RemoveMemberDelete, InsertRow, RefreshRow, FindRow, DeleteRow
<1>5. CASE RecordAdded(q) \/ RecordRemoved(q) BY <1>5 DEF RecordAdded, RecordRemoved
<1> QED BY <1>1, <1>2, <1>3, <1>4, <1>5 DEF Serve

(* Whatever the interleaving, one of the requests that create a role of the   *)
(* same name succeeds and is recorded.                                        *)
LEMMA NewRoleStep ==
    ASSUME AccessInv, TypeOK', NEW q \in Sessions, Serve(q)
    PROVE  RoleCreatedOnce' /\ \A s \in Sessions : NewRoleOK(s)'
<1>0. /\ TypeOK /\ RoleCreatedOnce /\ TablesGrow
      /\ \A s \in Sessions : NewRoleOK(s)
  BY GrowStep DEF AccessInv
<1>1. \A s \in Sessions : At(s, "create_role", "record_added") =>
          op[s].arg \in NewRoles /\ op[s].arg.role \in Roles
  BY <1>0, OperationArgs DEF At, TypeOK, NewRoles
<1>2. \A s \in Sessions : s # q /\ At(s, "create_role", "record_added")' =>
          At(s, "create_role", "record_added") /\ op'[s] = op[s]
  BY <1>0, OthersKept DEF At
<1>3. \A n \in NewRoles : added[n] \in Nat /\ n.role \in Roles BY <1>0 DEF TypeOK, NewRoles, Subjects
<1>4. CASE At(q, "create_role", "record_added")'
  <2>1. CreateRoleInsert(q) /\ op' = op /\ op[q].arg.role \notin roles BY <1>4, ToRecordRole
  <2>2. op[q].arg \in NewRoles
    BY <1>0, <2>1, OperationArgs DEF CreateRoleInsert, At, TypeOK
  <2>3. /\ roles' = roles \cup {op[q].arg.role} /\ UNCHANGED added
        /\ role_organization' =
             [role_organization EXCEPT ![op[q].arg.role] = op[q].arg.organization]
    BY <2>1 DEF CreateRoleInsert, log
  <2>4. \A n \in NewRoles : n.role = op[q].arg.role => added[n] = 0
    BY <1>0, <1>3, <2>1 DEF RoleCreatedOnce
  <2>5. RoleCreatedOnce' BY <1>0, <1>3, <2>3, <2>4 DEF RoleCreatedOnce, TablesGrow
  <2>6. ASSUME NEW s \in Sessions, At(s, "create_role", "record_added")', s # q
        PROVE  op[s].arg.role \in roles
    BY <1>0, <1>2, <2>6 DEF NewRoleOK
  <2>7. NewRoleOK(q)'
    BY <1>0, <1>2, <2>1, <2>2, <2>3, <2>4, <2>6 DEF NewRoleOK, TypeOK, NewRoles
  <2>8. ASSUME NEW s \in Sessions, s # q PROVE NewRoleOK(s)'
    BY <1>0, <1>1, <1>2, <2>1, <2>3, <2>6, <2>8 DEF NewRoleOK, TablesGrow
  <2> QED BY <2>5, <2>7, <2>8
<1>5. CASE RecordAdded(q)
  <2> DEFINE x == op[q].arg
  <2>1. /\ added' = [added EXCEPT ![x] = @ + 1] /\ UNCHANGED <<roles, role_organization>>
        /\ ~At(q, "create_role", "record_added")' /\ pc[q] = "record_added"
        /\ op[q] \in Operations
    BY <1>0, <1>5 DEF RecordAdded, tables, Close, Goto, At, TypeOK
  <2>2. CASE op[q].kind = "create_role"
    <3>1. /\ x \in NewRoles /\ x \in Subjects /\ x.role \in roles /\ added[x] = 0
          /\ role_organization[x.role] = x.organization
      BY <1>0, <2>1, <2>2, OperationArgs DEF NewRoleOK, At, Subjects
    <3>2. added'[x] = 1 /\ \A n \in NewRoles : n # x => added'[n] = added[n]
      BY <1>0, <2>1, <3>1 DEF TypeOK, Subjects
    <3>3. RoleCreatedOnce' BY <1>0, <2>1, <3>1, <3>2 DEF RoleCreatedOnce
    <3>4. ASSUME NEW s \in Sessions, s # q, At(s, "create_role", "record_added")
          PROVE  op[s].arg.role # x.role
      BY <1>0, <2>1, <2>2, <3>4 DEF NewRoleOK, At
    <3>5. ASSUME NEW s \in Sessions PROVE NewRoleOK(s)'
      BY <1>0, <1>2, <2>1, <3>2, <3>4 DEF NewRoleOK
    <3> QED BY <3>3, <3>5
  <2>3. CASE op[q].kind # "create_role"
    <3>1. x \notin NewRoles
      <4>1. x \in Grants \/ x \in NewOrganizations
        BY <2>1, <2>3, OperationArgs DEF Operations, Grants
      <4> QED BY <4>1, TablesDisjoint
    <3>2. \A n \in NewRoles : added'[n] = added[n] BY <1>0, <2>1, <3>1 DEF TypeOK, Subjects
    <3>3. RoleCreatedOnce' BY <1>0, <2>1, <3>2 DEF RoleCreatedOnce
    <3>4. ASSUME NEW s \in Sessions PROVE NewRoleOK(s)'
      BY <1>0, <1>2, <2>1, <3>2 DEF NewRoleOK
    <3> QED BY <3>3, <3>4
  <2> QED BY <2>2, <2>3
<1>6. CASE ~At(q, "create_role", "record_added")' /\ ~RecordAdded(q)
  <2>1. UNCHANGED added BY <1>6, CreatedLog
  <2>2. UNCHANGED <<roles, role_organization>>
    BY <1>0, <1>6, Effects DEF RoleEffect, At, TypeOK
  <2>3. RoleCreatedOnce' BY <1>0, <2>1, <2>2 DEF RoleCreatedOnce
  <2>4. ASSUME NEW s \in Sessions PROVE NewRoleOK(s)'
    BY <1>0, <1>2, <1>6, <2>1, <2>2 DEF NewRoleOK
  <2> QED BY <2>3, <2>4
<1> QED BY <1>4, <1>5, <1>6

-----------------------------------------------------------------------------
(* The invariant and what follows from it *)

(* Every step preserves the invariant. *)
LEMMA StepInv == AccessInv /\ [Next]_vars => AccessInv'
<1> SUFFICES ASSUME AccessInv, [Next]_vars PROVE AccessInv' OBVIOUS
<1>1. CASE \E s \in Sessions : Serve(s)
  <2>1. PICK q \in Sessions : Serve(q) BY <1>1
  <2>2. TypeOK' BY <2>1, TypeStep
  <2>3. RowsOK' /\ ScopedRoleHadMember' BY <2>1, RowsStep
  <2>4. ConflictIsDuplicate' BY <2>1, <2>2, ConflictStep
  <2>5. RoleCreatedOnce' /\ \A s \in Sessions : NewRoleOK(s)' BY <2>1, <2>2, NewRoleStep
  <2>6. ASSUME NEW s \in Sessions PROVE ChecksOK(s)'
    <3>1. CASE s = q BY <2>1, <2>2, <3>1, ChecksStep
    <3>2. CASE s # q
      BY <2>1, <2>2, <3>2, OthersKept, GrowStep, ChecksStable DEF AccessInv
    <3> QED BY <3>1, <3>2
  <2> QED BY <2>2, <2>3, <2>4, <2>5, <2>6 DEF AccessInv
<1>2. CASE (\E u \in Users : Deactivate(u)) \/ AllServed \/ UNCHANGED vars
  <2>1. UNCHANGED <<tables, log, pc, locals, counts>> /\ active' \subseteq active
    BY <1>2 DEF Deactivate, AllServed, vars
  <2> USE DEF tables, log, locals, counts
  <2>2. TypeOK' BY <2>1 DEF AccessInv, TypeOK, Present, Referenced
  <2>3. RowsOK' /\ ScopedRoleHadMember' /\ ConflictIsDuplicate' /\ RoleCreatedOnce'
    BY <2>1 DEF AccessInv, RowsOK, ScopedRoleHadMember, ConflictIsDuplicate, RoleCreatedOnce,
       Present, ScopeMatches
  <2>4. \A s \in Sessions : ChecksOK(s)' /\ NewRoleOK(s)'
    BY <2>1 DEF AccessInv, ChecksOK, NewRoleOK, At, ScopeMatches
  <2> QED BY <2>2, <2>3, <2>4 DEF AccessInv
<1> QED BY <1>1, <1>2 DEF Next

(* The tables, the checks of the requests in flight and the log of created   *)
(* roles agree in every reachable state, for any number of sessions, users,  *)
(* roles and organizations.                                                  *)
THEOREM AccessInvariance == Spec => []AccessInv
BY InitInv, StepInv, PTL DEF Spec

(* Columns and locals keep their types, and no statement of any route leaves *)
(* a row whose foreign keys dangle.                                          *)
THEOREM AccessTypes == Spec => []TypeOK
<1>1. AccessInv => TypeOK BY DEF AccessInv
<1> QED BY AccessInvariance, <1>1, PTL

(* No role of one organization ever counts in another, or globally: the      *)
(* check of assign_role and the scope filter are enough at any concurrency.  *)
THEOREM TenantsApart == Spec => []TenantIsolation
<1>1. AccessInv => TenantIsolation
  BY DEF AccessInv, RowsOK, TenantIsolation, InScope, ScopeMatches
<1> QED BY AccessInvariance, <1>1, PTL

(* A role within an organization is never given to someone who was not a     *)
(* member of it at some time, although membership and INSERT are two         *)
(* statements.                                                               *)
THEOREM MembersOnly == Spec => []ScopedRoleHadMember
<1>1. AccessInv => ScopedRoleHadMember BY DEF AccessInv
<1> QED BY AccessInvariance, <1>1, PTL

(* add_member and assign_permission_to_role never take a foreign key's       *)
(* IntegrityError for a duplicate.                                           *)
THEOREM ConflictsAreDuplicates == Spec => []ConflictIsDuplicate
<1>1. AccessInv => ConflictIsDuplicate BY DEF AccessInv
<1> QED BY AccessInvariance, <1>1, PTL

(* A role name is created, scoped and recorded by one request. *)
THEOREM RolesCreatedOnce == Spec => []RoleCreatedOnce
<1>1. AccessInv => RoleCreatedOnce BY DEF AccessInv
<1> QED BY AccessInvariance, <1>1, PTL

(* A step from a locked-out state changes no table and stays locked out: the *)
(* only requests there are at the gate, and the gate refuses them.           *)
LEMMA LockedStep == TypeOK /\ LockedOut /\ [Next]_vars => LockedOut' /\ UNCHANGED tables
<1> SUFFICES ASSUME TypeOK, LockedOut, [Next]_vars PROVE LockedOut' /\ UNCHANGED tables OBVIOUS
<1>1. \A s \in Sessions : pc[s] \in {"idle", "authorize"} BY DEF LockedOut
<1>2. ASSUME UNCHANGED tables, active' \subseteq active,
             \A s \in Sessions :
                \/ pc'[s] = "idle"
                \/ /\ pc'[s] = pc[s] /\ actor'[s] = actor[s] /\ is_active'[s] = is_active[s]
                \/ pc'[s] = "authorize" /\ (is_active'[s] => actor'[s] \in active)
      PROVE  LockedOut' /\ UNCHANGED tables
  <2>1. \A u : GetPermissionsForUser(u, NULL)' = GetPermissionsForUser(u, NULL)
    BY <1>2 DEF GetPermissionsForUser, Present, InScope, tables
  <2>2. \A u \in active' : Managing \cap GetPermissionsForUser(u, NULL)' = {}
    BY <1>2, <2>1 DEF LockedOut
  <2>3. ASSUME NEW s \in Sessions
        PROVE  pc'[s] = "idle" \/ (pc'[s] = "authorize" /\ \A p \in Managing : ~Allowed(s, p)')
    <3>1. \A p : Allowed(s, p)' <=> is_active'[s] /\ p \in GetPermissionsForUser(actor'[s], NULL)
      BY <1>2 DEF Allowed, GetPermissionsForUser, Present, InScope, tables
    <3>2. CASE pc'[s] = "authorize" /\ (is_active'[s] => actor'[s] \in active)
      BY <3>1, <3>2 DEF LockedOut
    <3>3. CASE pc'[s] = pc[s] /\ actor'[s] = actor[s] /\ is_active'[s] = is_active[s]
      BY <3>1, <3>3 DEF LockedOut, Allowed
    <3> QED BY <1>2, <3>2, <3>3
  <2> QED BY <1>2, <2>2, <2>3 DEF LockedOut
<1>3. ASSUME NEW q \in Sessions, Serve(q) PROVE LockedOut' /\ UNCHANGED tables
  <2>1. \/ \E u \in Users : GetCurrentUser(q, u)
        \/ Forbid(q) \/ Abort(q)
    <3>1. ~ \E request \in Operations : Authorize(q, request)
      BY OperationArgs DEF Authorize, LockedOut
    <3>2. ~(RoleStep(q) \/ PermissionStep(q))
      BY <1>1 DEF RoleStep, PermissionStep, At, CreateRoleGetOrganization, CreateRoleInsert,
         AssignRoleGetRole, AssignRoleGetOrganization, AssignRoleIsMember, AssignRoleInsert,
         AssignRoleRefresh, RevokeRoleFind, RevokeRoleDelete, AssignPermissionGetRole,
         AssignPermissionGetPermission, AssignPermissionInsert, RemovePermissionGetRole,
         RemovePermissionDelete
    <3>3. ~(OrganizationStep(q) \/ RecordAdded(q) \/ RecordRemoved(q) \/ AnswerConflict(q))
      BY <1>1 DEF OrganizationStep, At, CreateOrganizationInsert, AddMemberGetUser,
         AddMemberGetOrganization, AddMemberInsert, AddMemberRefresh, RemoveMemberFind,
         RemoveMemberDelete, RecordAdded, RecordRemoved, AnswerConflict
    <3> QED BY <1>3, <3>1, <3>2, <3>3 DEF Serve
  <2>2. CASE \E u \in Users : GetCurrentUser(q, u)
    <3>1. PICK u \in Users : GetCurrentUser(q, u) BY <2>2
    <3>2. /\ pc' = [pc EXCEPT ![q] = "authorize"] /\ actor' = [actor EXCEPT ![q] = u]
          /\ is_active' = [is_active EXCEPT ![q] = u \in active] /\ UNCHANGED <<active, tables>>
      BY <3>1 DEF GetCurrentUser, Goto
    <3>3. pc'[q] = "authorize" /\ actor'[q] = u /\ (is_active'[q] => u \in active)
      BY <3>2 DEF TypeOK
    <3>4. \A s \in Sessions : s # q =>
            pc'[s] = pc[s] /\ actor'[s] = actor[s] /\ is_active'[s] = is_active[s]
      BY <3>2 DEF TypeOK
    <3> QED BY <1>2, <3>2, <3>3, <3>4
  <2>3. CASE Forbid(q) \/ Abort(q)
    <3>1. Close(q) /\ UNCHANGED <<active, tables>> BY <2>3 DEF Forbid, Abort
    <3>2. pc'[q] = "idle" BY <3>1 DEF Close, Goto, TypeOK
    <3>3. \A s \in Sessions : s # q =>
            pc'[s] = pc[s] /\ actor'[s] = actor[s] /\ is_active'[s] = is_active[s]
      BY <3>1 DEF Close, Goto, TypeOK
    <3> QED BY <1>2, <3>1, <3>2, <3>3
  <2> QED BY <2>1, <2>2, <2>3
<1>4. CASE (\E u \in Users : Deactivate(u)) \/ AllServed \/ UNCHANGED vars
  <2>1. UNCHANGED <<tables, pc, locals>> /\ active' \subseteq active
    BY <1>4 DEF Deactivate, AllServed, vars
  <2> QED BY <1>2, <2>1 DEF locals
<1> QED BY <1>3, <1>4 DEF Next

(* Deny by default, for any number of sessions and users: an installation    *)
(* without an active manager stays as it is.                                 *)
THEOREM DeniedByDefault == Spec => DenyByDefault
<1> DEFINE A == LockedOut => LockedOut' /\ UNCHANGED tables
<1>1. AccessInv /\ [Next]_vars => [A]_vars BY LockedStep DEF AccessInv
<1> HIDE DEF A
<1>2. Spec => [][A]_vars BY AccessInvariance, <1>1, PTL DEF Spec
<1> QED BY <1>2 DEF DenyByDefault, A
=============================================================================
