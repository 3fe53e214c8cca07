-------------------------- MODULE WithdrawalsProofs --------------------------
(***************************************************************************)
(* The invariant of Withdrawals, for every number of sessions, users,      *)
(* roles and organizations, and however requests interleave.  A statement  *)
(* of the request that moves makes its own checks true (MemberStep,        *)
(* RowStep, Proceeds, with the permissions of Authorize); a statement of   *)
(* another request, or of the operator, can only make them stale by taking *)
(* a row or a user away, which Note writes down (HeldStep, SameRowStep,    *)
(* ActiveStep).  Nothing is assumed about how many requests run at once.   *)
(***************************************************************************)
EXTENDS Withdrawals, AccessControlProofs

-----------------------------------------------------------------------------
(* What Note writes down *)

(* A grant that was held still is, or its row has just been withdrawn. *)
LEMMA HeldStep ==
    ASSUME Note, NEW s \in Sessions, pc'[s] # "idle", NEW g \in Grants, Held(s, g)
    PROVE  Held(s, g)'
<1>1. withdrawn'[s] = withdrawn[s] \cup Removed BY DEF Note
<1>2. CASE g \in withdrawn[s] BY <1>1, <1>2 DEF Held
<1>3. CASE Present(g) /\ ~Present(g)'
  <2>1. g \in Removed BY <1>3 DEF Removed, Present
  <2> QED BY <1>1, <2>1 DEF Held
<1> QED BY <1>2, <1>3 DEF Held

(* The row a request knows is still the row, or has just been withdrawn. *)
LEMMA SameRowStep ==
    ASSUME Note, NEW s \in Sessions, pc'[s] # "idle", NEW g \in Grants, SameRow(s, g),
           found'[s] = found[s]
    PROVE  SameRow(s, g)'
<1>1. withdrawn'[s] = withdrawn[s] \cup Removed BY DEF Note
<1>2. CASE g \in withdrawn[s] BY <1>1, <1>2 DEF SameRow
<1>3. CASE Present(g) /\ row'[g] # row[g]
  <2>1. g \in Removed BY <1>3 DEF Removed
  <2> QED BY <1>1, <2>1 DEF SameRow
<1>4. CASE Present(g) /\ found[s] = row[g] /\ row'[g] = row[g]
  BY <1>4 DEF SameRow, Present
<1> QED BY <1>2, <1>3, <1>4 DEF SameRow

(* An active user still is, or has just been deactivated. *)
LEMMA ActiveStep ==
    ASSUME Note, NEW s \in Sessions, pc'[s] # "idle", NEW u \in active \cup withdrawn[s]
    PROVE  u \in active' \cup withdrawn'[s]
BY DEF Note, Removed

-----------------------------------------------------------------------------
(* What the request that moves has just checked *)

(* A step of one session leaves what the others have loaded alone. *)
LEMMA LocalsKept ==
    ASSUME TypeOK, NEW q \in Sessions, NEW r \in Sessions, q # r, Serve(q)
    PROVE  found'[r] = found[r] /\ actor'[r] = actor[r] /\ is_active'[r] = is_active[r]
<1> USE DEF TypeOK, Goto, Close, Continue, Reads, locals
<1>1. CASE (\E u \in Users : GetCurrentUser(q, u)) \/ Forbid(q) \/ AnswerConflict(q) \/ Abort(q)
  BY <1>1 DEF GetCurrentUser, Forbid, AnswerConflict, Abort
<1>2. CASE \E request \in Operations : Authorize(q, request) BY <1>2 DEF Authorize
<1>3. CASE RoleStep(q)
  BY <1>3 DEF RoleStep, CreateRoleGetOrganization, CreateRoleInsert, AssignRoleGetRole,
     AssignRoleGetOrganization, AssignRoleIsMember, AssignRoleInsert, AssignRoleRefresh,
     RevokeRoleFind, RevokeRoleDelete, InsertRow, RefreshRow, FindRow, DeleteRow
<1>4. CASE PermissionStep(q)
  BY <1>4 DEF PermissionStep, AssignPermissionGetRole, AssignPermissionGetPermission,
     AssignPermissionInsert, RemovePermissionGetRole, RemovePermissionDelete, InsertRow
<1>5. CASE OrganizationStep(q)
  BY <1>5 DEF OrganizationStep, CreateOrganizationInsert, AddMemberGetUser,
     AddMemberGetOrganization, AddMemberInsert, AddMemberRefresh, RemoveMemberFind,
     RemoveMemberDelete, InsertRow, RefreshRow, FindRow, DeleteRow
<1>6. CASE RecordAdded(q) \/ RecordRemoved(q) BY <1>6 DEF RecordAdded, RecordRemoved
<1> QED BY <1>1, <1>2, <1>3, <1>4, <1>5, <1>6 DEF Serve

(* A request past require_permission has just passed it, or goes on with the *)
(* same operation.                                                           *)
LEMMA Proceeds ==
    ASSUME TypeOK, NEW q \in Sessions, Serve(q), pc'[q] \notin {"idle", "authorize"}
    PROVE  \/ \E request \in Operations : Authorize(q, request)
           \/ pc[q] \notin {"idle", "authorize"} /\ op'[q] = op[q]
<1> USE DEF TypeOK, Goto, Close, Continue, Reads, locals, At
<1>1. CASE (\E u \in Users : GetCurrentUser(q, u)) \/ Forbid(q) \/ AnswerConflict(q) \/ Abort(q)
  BY <1>1 DEF GetCurrentUser, Forbid, AnswerConflict, Abort
<1>2. CASE RoleStep(q)
  BY <1>2 DEF RoleStep, CreateRoleGetOrganization, CreateRoleInsert, AssignRoleGetRole,
     AssignRoleGetOrganization, AssignRoleIsMember, AssignRoleInsert, AssignRoleRefresh,
     RevokeRoleFind, RevokeRoleDelete, InsertRow, RefreshRow, FindRow, DeleteRow
<1>3. CASE PermissionStep(q)
  BY <1>3 DEF PermissionStep, AssignPermissionGetRole, AssignPermissionGetPermission,
     AssignPermissionInsert, RemovePermissionGetRole, RemovePermissionDelete, InsertRow
<1>4. CASE OrganizationStep(q)
  BY <1>4 DEF OrganizationStep, CreateOrganizationInsert, AddMemberGetUser,
     AddMemberGetOrganization, AddMemberInsert, AddMemberRefresh, RemoveMemberFind,
     RemoveMemberDelete, InsertRow, RefreshRow, FindRow, DeleteRow
<1>5. CASE RecordAdded(q) \/ RecordRemoved(q) BY <1>5 DEF RecordAdded, RecordRemoved
<1> QED BY <1>1, <1>2, <1>3, <1>4, <1>5 DEF Serve

(* A request about to give a role within an organization. *)
ToInsert(s) == At(s, "assign_role", "insert") /\ op[s].arg.organization # NULL

Membership(s) == [user |-> op[s].arg.user, organization |-> op[s].arg.organization]

(* It has just asked is_member. *)
LEMMA MemberStep ==
    ASSUME TypeOK, NEW q \in Sessions, Serve(q), ToInsert(q)'
    PROVE  Present(Membership(q))'
<1> USE DEF TypeOK, Goto, Close, Continue, Reads, locals, tables, At, ToInsert
<1>1. CASE (\E u \in Users : GetCurrentUser(q, u)) \/ Forbid(q) \/ AnswerConflict(q) \/ Abort(q)
  BY <1>1 DEF GetCurrentUser, Forbid, AnswerConflict, Abort
<1>2. CASE \E request \in Operations : Authorize(q, request)
  BY <1>2 DEF Authorize, FirstStatement, Operations
<1>3. CASE AssignRoleIsMember(q)
  BY <1>3 DEF AssignRoleIsMember, IsMember, Present, Membership
<1>4. CASE AssignRoleGetRole(q)
  BY <1>4 DEF AssignRoleGetRole
<1>5. CASE \/ CreateRoleGetOrganization(q) \/ CreateRoleInsert(q)
           \/ AssignRoleGetOrganization(q) \/ AssignRoleInsert(q) \/ AssignRoleRefresh(q)
           \/ RevokeRoleFind(q) \/ RevokeRoleDelete(q)
  <2>1. pc'[q] = "insert" => op'[q] = op[q] /\ op[q].kind = "create_role"
    BY <1>5 DEF CreateRoleGetOrganization, CreateRoleInsert, AssignRoleGetOrganization,
       AssignRoleInsert, AssignRoleRefresh, RevokeRoleFind, RevokeRoleDelete, InsertRow,
       RefreshRow, FindRow, DeleteRow
  <2> QED BY <2>1
<1>6. CASE PermissionStep(q)
  <2>1. pc'[q] = "insert" => op'[q] = op[q] /\ op[q].kind = "assign_permission"
    BY <1>6 DEF PermissionStep, AssignPermissionGetRole, AssignPermissionGetPermission,
       AssignPermissionInsert, RemovePermissionGetRole, RemovePermissionDelete, InsertRow
  <2> QED BY <2>1
<1>7. CASE OrganizationStep(q) \/ RecordAdded(q) \/ RecordRemoved(q)
  <2>1. pc'[q] = "insert" => op'[q] = op[q] /\ op[q].kind = "add_member"
    BY <1>7 DEF OrganizationStep, CreateOrganizationInsert, AddMemberGetUser,
       AddMemberGetOrganization, AddMemberInsert, AddMemberRefresh, RemoveMemberFind,
       RemoveMemberDelete, RecordAdded, RecordRemoved, InsertRow, RefreshRow, FindRow, DeleteRow
  <2> QED BY <2>1
<1> QED BY <1>1, <1>2, <1>3, <1>4, <1>5, <1>6, <1>7 DEF Serve, RoleStep

(* A request that knows the row of its grant. *)
KnowsRow(s) ==
    \/ At(s, "revoke_role", "delete") \/ At(s, "remove_member", "delete")
    \/ At(s, "assign_role", "refresh") \/ At(s, "add_member", "refresh")

(* It has just found or inserted it. *)
LEMMA RowStep ==
    ASSUME TypeOK, NEW q \in Sessions, Serve(q), KnowsRow(q)'
    PROVE  Present(op[q].arg)' /\ found'[q] = row'[op'[q].arg]
<1> USE DEF TypeOK, Goto, Close, Continue, Reads, locals, tables, At, KnowsRow
<1>1. CASE (\E u \in Users : GetCurrentUser(q, u)) \/ Forbid(q) \/ AnswerConflict(q) \/ Abort(q)
  BY <1>1 DEF GetCurrentUser, Forbid, AnswerConflict, Abort
<1>2. CASE \E request \in Operations : Authorize(q, request)
  BY <1>2 DEF Authorize, FirstStatement, Operations
<1>3. CASE RevokeRoleFind(q) \/ RemoveMemberFind(q)
  <2>1. FindRow(q, op[q].arg) BY <1>3 DEF RevokeRoleFind, RemoveMemberFind
  <2>2. CASE Present(op[q].arg)
    <3>1. op' = op /\ row' = row /\ found'[q] = row[op[q].arg] BY <2>1, <2>2 DEF FindRow
    <3> QED BY <2>2, <3>1 DEF Present
  <2>3. CASE ~Present(op[q].arg)
    <3>1. pc'[q] = "idle" BY <2>1, <2>3 DEF FindRow
    <3> QED BY <3>1
  <2> QED BY <2>2, <2>3
<1>4. CASE AssignRoleInsert(q) \/ AddMemberInsert(q)
  <2> DEFINE g == op[q].arg
  <2>1. InsertRow(q, g, "refresh") /\ op[q] \in Operations
    BY <1>4 DEF AssignRoleInsert, AddMemberInsert
  <2>2. g \in Grants
    BY <1>4, <2>1, OperationArgs DEF AssignRoleInsert, AddMemberInsert, Grants
  <2>3. pc'[q] = "refresh" /\ op' = op BY <1>4, <2>1 DEF AssignRoleInsert, AddMemberInsert, InsertRow
  <2>4. row' = [row EXCEPT ![g] = ids[g] + 1] /\ found'[q] = ids[g] + 1
    BY <2>1, <2>3 DEF InsertRow
  <2>5. ids[g] \in Nat /\ row'[g] = ids[g] + 1 BY <2>2, <2>4
  <2> QED BY <2>3, <2>4, <2>5 DEF Present
<1>5. CASE \/ CreateRoleGetOrganization(q) \/ CreateRoleInsert(q) \/ AssignRoleGetRole(q)
           \/ AssignRoleGetOrganization(q) \/ AssignRoleIsMember(q)
           \/ AssignRoleRefresh(q) \/ RevokeRoleDelete(q)
  <2>1. pc'[q] \notin {"delete", "refresh"}
    BY <1>5 DEF CreateRoleGetOrganization, CreateRoleInsert, AssignRoleGetRole,
       AssignRoleGetOrganization, AssignRoleIsMember, AssignRoleRefresh,
       RevokeRoleDelete, RefreshRow, DeleteRow
  <2> QED BY <2>1
<1>6. CASE PermissionStep(q)
  <2>1. /\ pc'[q] # "refresh"
        /\ pc'[q] = "delete" => op'[q] = op[q] /\ op[q].kind = "remove_permission"
    BY <1>6 DEF PermissionStep, AssignPermissionGetRole, AssignPermissionGetPermission,
       AssignPermissionInsert, RemovePermissionGetRole, RemovePermissionDelete, InsertRow
  <2> QED BY <2>1
<1>7. CASE \/ CreateOrganizationInsert(q) \/ AddMemberGetUser(q) \/ AddMemberGetOrganization(q)
           \/ AddMemberRefresh(q) \/ RemoveMemberDelete(q) \/ RecordAdded(q) \/ RecordRemoved(q)
  <2>1. pc'[q] \notin {"delete", "refresh"}
    BY <1>7 DEF CreateOrganizationInsert, AddMemberGetUser, AddMemberGetOrganization,
       AddMemberRefresh, RemoveMemberDelete, RecordAdded, RecordRemoved, RefreshRow, DeleteRow
  <2> QED BY <2>1
<1> QED BY <1>1, <1>2, <1>3, <1>4, <1>5, <1>6, <1>7 DEF Serve, RoleStep, OrganizationStep

(* A request that reads its caller has just loaded the user of its token. *)
LEMMA CallerStep ==
    ASSUME TypeOK, Note, NEW q \in Sessions, Serve(q), pc'[q] = "authorize"
    PROVE  /\ caller'[q] = actor'[q] /\ caller'[q] \in UserIds
           /\ is_active'[q] => caller'[q] \in active'
<1> USE AccessAssumption DEF TypeOK, Goto, Close, Continue, Reads, locals, At
<1>1. CASE \E u \in Users : GetCurrentUser(q, u)
  BY <1>1 DEF GetCurrentUser, Note
<1>2. CASE Forbid(q) \/ AnswerConflict(q) \/ Abort(q)
  BY <1>2 DEF Forbid, AnswerConflict, Abort
<1>3. CASE \E request \in Operations : Authorize(q, request)
  BY <1>3, OperationArgs DEF Authorize
<1>4. CASE RoleStep(q)
  BY <1>4 DEF RoleStep, CreateRoleGetOrganization, CreateRoleInsert, AssignRoleGetRole,
     AssignRoleGetOrganization, AssignRoleIsMember, AssignRoleInsert, AssignRoleRefresh,
     RevokeRoleFind, RevokeRoleDelete, InsertRow, RefreshRow, FindRow, DeleteRow
<1>5. CASE PermissionStep(q)
  BY <1>5 DEF PermissionStep, AssignPermissionGetRole, AssignPermissionGetPermission,
     AssignPermissionInsert, RemovePermissionGetRole, RemovePermissionDelete, InsertRow
<1>6. CASE OrganizationStep(q)
  BY <1>6 DEF OrganizationStep, CreateOrganizationInsert, AddMemberGetUser,
     AddMemberGetOrganization, AddMemberInsert, AddMemberRefresh, RemoveMemberFind,
     RemoveMemberDelete, InsertRow, RefreshRow, FindRow, DeleteRow
<1>7. CASE RecordAdded(q) \/ RecordRemoved(q) BY <1>7 DEF RecordAdded, RecordRemoved
<1> QED BY <1>1, <1>2, <1>3, <1>4, <1>5, <1>6, <1>7 DEF Serve

-----------------------------------------------------------------------------
(* The invariant, one session at a time *)

MemberOK(s) == ToInsert(s) => Held(s, Membership(s))
RowOK(s) == KnowsRow(s) => SameRow(s, op[s].arg)

(* The caller of a request holds permission p, or has lost it meanwhile. *)
HoldsPermission(s, p) ==
    \E q \in Roles :
        /\ Held(s, [user |-> caller[s], role |-> q, organization |-> NULL])
        /\ Held(s, [role |-> q, permission |-> p])

AuthorityOK(s) ==
    pc[s] \notin {"idle", "authorize"} =>
        caller[s] \in active \cup withdrawn[s] /\ HoldsPermission(s, Required(op[s].kind))

CallerOK(s) ==
    /\ pc[s] # "idle" => caller[s] \in UserIds
    /\ pc[s] = "authorize" =>
          /\ caller[s] = actor[s]
          /\ is_active[s] => caller[s] \in active \cup withdrawn[s]

SessionOK(s) == MemberOK(s) /\ RowOK(s) /\ AuthorityOK(s) /\ CallerOK(s)

(* The parts of the invariant. *)
LEMMA SessionParts == WithdrawalInv <=> \A s \in Sessions : SessionOK(s)
BY DEF WithdrawalInv, MemberOrRemoved, RowOrRemoved, AuthorizedOrWithdrawn, SessionOK, MemberOK,
   RowOK, AuthorityOK, HoldsPermission, CallerOK, ToInsert, Membership, KnowsRow

(* A permission held stays held, or has just been withdrawn. *)
LEMMA PermissionHeldStep ==
    ASSUME Note, NEW s \in Sessions, pc'[s] # "idle", caller'[s] = caller[s],
           caller[s] \in UserIds, NEW p \in PermissionIds, HoldsPermission(s, p)
    PROVE  HoldsPermission(s, p)'
<1>1. PICK q \in Roles :
         /\ Held(s, [user |-> caller[s], role |-> q, organization |-> NULL])
         /\ Held(s, [role |-> q, permission |-> p])
  BY DEF HoldsPermission
<1>2. [user |-> caller[s], role |-> q, organization |-> NULL] \in Grants
  BY DEF Grants, Assignments, OrNull
<1>3. [role |-> q, permission |-> p] \in Grants BY DEF Grants, RolePermissions
<1>4. Held(s, [user |-> caller[s], role |-> q, organization |-> NULL])'
  BY <1>1, <1>2, HeldStep
<1>5. Held(s, [role |-> q, permission |-> p])' BY <1>1, <1>3, HeldStep
<1> QED BY <1>4, <1>5 DEF HoldsPermission

(* A session that stands still keeps its part, whoever else moves. *)
LEMMA StandStill ==
    ASSUME TypeOK, Note, NEW s \in Sessions, SessionOK(s),
           pc'[s] = pc[s], op'[s] = op[s], found'[s] = found[s], actor'[s] = actor[s],
           is_active'[s] = is_active[s]
    PROVE  SessionOK(s)'
<1>1. CASE pc[s] = "idle"
  BY <1>1 DEF SessionOK, MemberOK, RowOK, AuthorityOK, CallerOK, ToInsert, KnowsRow, At
<1>2. CASE pc[s] # "idle"
  <2>1. caller'[s] = caller[s] /\ caller[s] \in UserIds
    BY <1>2 DEF Note, SessionOK, CallerOK
  <2>2. MemberOK(s)'
    <3> SUFFICES ASSUME ToInsert(s)' PROVE Held(s, Membership(s))' BY DEF MemberOK
    <3>1. ToInsert(s) /\ Membership(s)' = Membership(s) BY DEF ToInsert, At, Membership
    <3>2. op[s] \in Operations /\ op[s].kind = "assign_role"
      BY <3>1 DEF TypeOK, ToInsert, At
    <3>3. Membership(s) \in Grants
      BY <3>1, <3>2, OperationArgs
         DEF ToInsert, Assignments, OrNull, Membership, Grants, Memberships
    <3>4. Held(s, Membership(s)) BY <3>1 DEF SessionOK, MemberOK
    <3>5. PICK m \in Grants : m = Membership(s) BY <3>3
    <3>6. Held(s, m)' BY <1>2, <3>4, <3>5, HeldStep
    <3> QED BY <3>1, <3>5, <3>6 DEF Held
  <2>3. RowOK(s)'
    <3> SUFFICES ASSUME KnowsRow(s)' PROVE SameRow(s, op[s].arg)' BY DEF RowOK
    <3>1. KnowsRow(s) BY DEF KnowsRow, At
    <3>2. op[s] \in Operations /\ op[s].arg \in Grants
      BY <3>1, OperationArgs DEF TypeOK, KnowsRow, At, Grants
    <3>3. SameRow(s, op[s].arg) BY <3>1 DEF SessionOK, RowOK
    <3> QED BY <1>2, <3>2, <3>3, SameRowStep DEF SameRow, Present
  <2>4. AuthorityOK(s)'
    <3> SUFFICES ASSUME pc[s] # "authorize"
                 PROVE  /\ caller[s] \in active' \cup withdrawn'[s]
                        /\ HoldsPermission(s, Required(op[s].kind))'
      BY <1>2, <2>1 DEF AuthorityOK
    <3>1. caller[s] \in active \cup withdrawn[s] /\ HoldsPermission(s, Required(op[s].kind))
      BY <1>2 DEF SessionOK, AuthorityOK
    <3>2. Required(op[s].kind) \in PermissionIds
      BY <1>2, OperationArgs, AccessAssumption DEF TypeOK, Managing
    <3>3. caller[s] \in active' \cup withdrawn'[s] BY <1>2, <3>1, ActiveStep
    <3>4. HoldsPermission(s, Required(op[s].kind))'
      BY <1>2, <2>1, <3>1, <3>2, PermissionHeldStep DEF HoldsPermission
    <3> QED BY <3>3, <3>4
  <2>5. CallerOK(s)'
    <3>1. CASE pc[s] = "authorize" /\ is_active[s]
      <4>1. caller[s] \in active' \cup withdrawn'[s]
        BY <1>2, <3>1, ActiveStep DEF SessionOK, CallerOK
      <4> QED BY <2>1, <3>1, <4>1 DEF SessionOK, CallerOK
    <3>2. CASE ~(pc[s] = "authorize" /\ is_active[s])
      BY <2>1, <3>2 DEF SessionOK, CallerOK
    <3> QED BY <3>1, <3>2
  <2> QED BY <2>2, <2>3, <2>4, <2>5 DEF SessionOK
<1> QED BY <1>1, <1>2

(* The session that moves has just read or checked what its part says, or    *)
(* goes on with what it had.                                                 *)
LEMMA MoverStep ==
    ASSUME TypeOK, TypeOK', Note, NEW q \in Sessions, SessionOK(q), Serve(q)
    PROVE  SessionOK(q)'
<1>1. MemberOK(q)'
  <2> SUFFICES ASSUME ToInsert(q)' PROVE Held(q, Membership(q))' BY DEF MemberOK
  <2> QED BY MemberStep DEF Held, Present, Membership
<1>2. RowOK(q)'
  <2> SUFFICES ASSUME KnowsRow(q)' PROVE SameRow(q, op[q].arg)' BY DEF RowOK
  <2> QED BY RowStep DEF SameRow, Present
<1>3. AuthorityOK(q)' /\ CallerOK(q)'
  <2>1. CASE pc'[q] = "idle" BY <2>1 DEF AuthorityOK, CallerOK
  <2>2. CASE pc'[q] = "authorize"
    <3>1. /\ caller'[q] = actor'[q] /\ caller'[q] \in UserIds
          /\ is_active'[q] => caller'[q] \in active'
      BY <2>2, CallerStep
    <3> QED BY <2>2, <3>1 DEF AuthorityOK, CallerOK
  <2>3. CASE pc'[q] \notin {"idle", "authorize"}
    <3>1. caller'[q] = caller[q] BY <2>3 DEF Note
    <3>2. ASSUME NEW request \in Operations, Authorize(q, request)
          PROVE  AuthorityOK(q)' /\ CallerOK(q)'
      <4> DEFINE p == Required(request.kind)
      <4>1. /\ is_active[q] /\ p \in GetPermissionsForUser(actor[q], NULL)
            /\ caller[q] = actor[q] /\ caller[q] \in UserIds
            /\ caller[q] \in active \cup withdrawn[q]
        BY <3>2 DEF Authorize, Allowed, SessionOK, CallerOK
      <4>2. p \in PermissionIds BY OperationArgs, AccessAssumption DEF Managing
      <4>3. op'[q] = request BY <3>2 DEF Authorize, TypeOK
      <4>4. HoldsPermission(q, p)
        <5>1. PICK r \in Roles, o \in OrNull(Organizations) :
                 /\ o \in {NULL, NULL}
                 /\ Present([user |-> caller[q], role |-> r, organization |-> o])
                 /\ Present([role |-> r, permission |-> p])
          BY <4>1 DEF GetPermissionsForUser, InScope
        <5>2. o = NULL BY <5>1
        <5> QED BY <5>1, <5>2 DEF HoldsPermission, Held
      <4>5. caller'[q] \in active' \cup withdrawn'[q] BY <2>3, <3>1, <4>1, ActiveStep
      <4> HIDE DEF p
      <4>6. HoldsPermission(q, p)' BY <2>3, <3>1, <4>1, <4>2, <4>4, PermissionHeldStep DEF p
      <4>7. HoldsPermission(q, Required(op[q].kind))'
        BY <4>3, <4>6 DEF p, HoldsPermission
      <4> QED BY <2>3, <3>1, <4>1, <4>5, <4>7 DEF AuthorityOK, CallerOK
    <3>3. CASE pc[q] \notin {"idle", "authorize"} /\ op'[q] = op[q]
      <4>1. /\ caller[q] \in active \cup withdrawn[q] /\ caller[q] \in UserIds
            /\ HoldsPermission(q, Required(op[q].kind))
        BY <3>3 DEF SessionOK, AuthorityOK, CallerOK
      <4>2. Required(op[q].kind) \in PermissionIds
        BY <3>3, OperationArgs, AccessAssumption DEF TypeOK, Managing
      <4>3. caller'[q] \in active' \cup withdrawn'[q] BY <2>3, <3>1, <4>1, ActiveStep
      <4>4. PICK p \in PermissionIds : p = Required(op[q].kind) BY <4>2
      <4>5. HoldsPermission(q, p)' BY <2>3, <3>1, <4>1, <4>4, PermissionHeldStep
      <4>6. HoldsPermission(q, Required(op[q].kind))'
        BY <3>3, <4>4, <4>5 DEF HoldsPermission
      <4> QED BY <2>3, <3>1, <4>1, <4>3, <4>6 DEF AuthorityOK, CallerOK
    <3> QED BY <2>3, <3>2, <3>3, Proceeds
  <2> QED BY <2>1, <2>2, <2>3
<1> QED BY <1>1, <1>2, <1>3 DEF SessionOK

-----------------------------------------------------------------------------
(* The theorems *)

(* The specification with the history variables has the behaviours of the    *)
(* one without them, so its invariants carry over.                           *)
LEMMA WithdrawalRefines == WithdrawalSpec => Spec
<1>1. WithdrawalInit => Init BY DEF WithdrawalInit
<1>2. [WithdrawalNext]_withdrawalVars => [Next]_vars BY DEF WithdrawalNext, withdrawalVars
<1> QED BY <1>1, <1>2, PTL DEF WithdrawalSpec, Spec

(* What a request has checked still holds, or is on its list of withdrawals, *)
(* however many requests run at once.                                        *)
THEOREM ChecksStaleOnlyByWithdrawal == WithdrawalSpec => []WithdrawalInv
<1>1. WithdrawalInit => WithdrawalInv
  <2> SUFFICES ASSUME WithdrawalInit, NEW s \in Sessions PROVE SessionOK(s)
    BY SessionParts
  <2>1. pc[s] = "idle" BY DEF WithdrawalInit, Init
  <2> QED BY <2>1
      DEF SessionOK, MemberOK, RowOK, AuthorityOK, CallerOK, ToInsert, KnowsRow, At
<1>2. AccessInv /\ AccessInv' /\ WithdrawalInv /\ [WithdrawalNext]_withdrawalVars
        => WithdrawalInv'
  <2> SUFFICES ASSUME AccessInv, AccessInv', WithdrawalInv, [WithdrawalNext]_withdrawalVars,
                      NEW s \in Sessions
               PROVE  SessionOK(s)'
    <3>1. (WithdrawalInv <=> \A s \in Sessions : SessionOK(s))' BY SessionParts, PTL
    <3> QED BY <3>1
  <2>1. TypeOK /\ TypeOK' /\ SessionOK(s) BY SessionParts DEF AccessInv
  <2>2. CASE UNCHANGED withdrawalVars
    BY <2>1, <2>2 DEF withdrawalVars, vars, tables, log, locals, counts, SessionOK, MemberOK,
       RowOK, AuthorityOK, HoldsPermission, CallerOK, ToInsert, Membership, KnowsRow, At, Held,
       SameRow, Present
  <2>3. ASSUME Note, NEW q \in Sessions, Serve(q) PROVE SessionOK(s)'
    <3>1. CASE q = s BY <2>1, <2>3, <3>1, MoverStep
    <3>2. CASE q # s BY <2>1, <2>3, <3>2, OthersKept, LocalsKept, StandStill
    <3> QED BY <3>1, <3>2
  <2>4. CASE Note /\ ((\E u \in Users : Deactivate(u)) \/ AllServed)
    <3>1. UNCHANGED <<pc, op, found, actor, is_active>>
      BY <2>4 DEF Deactivate, AllServed, vars, locals
    <3> QED BY <2>1, <2>4, <3>1, StandStill
  <2> QED BY <2>2, <2>3, <2>4 DEF WithdrawalNext, Next
<1> QED BY <1>1, <1>2, WithdrawalRefines, AccessInvariance, PTL DEF WithdrawalSpec

(* A role within an organization goes to a member of it, or to one whose     *)
(* membership was removed between is_member and the INSERT.                  *)
THEOREM MembersUnlessRemoved == WithdrawalSpec => []MemberOrRemoved
BY ChecksStaleOnlyByWithdrawal, PTL DEF WithdrawalInv

(* A DELETE takes the row that was found, and a refresh reads the row that   *)
(* was inserted, unless another request has removed it in between.           *)
THEOREM RowsUnlessRemoved == WithdrawalSpec => []RowOrRemoved
BY ChecksStaleOnlyByWithdrawal, PTL DEF WithdrawalInv

(* A management request runs for an active user who holds the permission its *)
(* route requires, unless that was withdrawn while the request ran.          *)
THEOREM AuthorizedUnlessWithdrawn == WithdrawalSpec => []AuthorizedOrWithdrawn
BY ChecksStaleOnlyByWithdrawal, PTL DEF WithdrawalInv
=============================================================================
