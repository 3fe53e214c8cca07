---------------------------- MODULE AccessControl ----------------------------
(***************************************************************************)
(* Roles, permissions, organizations and memberships: AuthorizationService *)
(* and OrganizationService (app/domain/services/) over their repositories, *)
(* behind require_permission (app/core/dependencies.py), one action per    *)
(* database statement.                                                     *)
(*                                                                         *)
(* A session serves one request at a time; several sessions run at once at *)
(* READ COMMITTED.  INSERT and DELETE are followed by their COMMIT with    *)
(* nothing in between, and a second writer of the same row waits for it, so *)
(* each is one step.  Role and organization names are unique and no row of *)
(* users, roles, permissions or organizations is ever deleted, so a role   *)
(* and an organization are known by their names.                           *)
(***************************************************************************)
EXTENDS Naturals, FiniteSets

CONSTANTS
    UserIds, Users,              \* ids a caller may send, rows of users
    PermissionIds, Permissions,  \* ids a caller may send, rows of permissions
    Roles,                       \* names of roles that exist or may be created
    Organizations,               \* names of organizations, likewise
    AdminRole, AdminUser,        \* the seeded role and its first holder
    RoleManage, UserManage, OrganizationManage,  \* permissions routes require
    Sessions,                    \* requests served at the same time
    NULL,                        \* None
    MaxRequests,                 \* bound: requests served
    MaxAborts                    \* bound: requests cut off

ASSUME AccessNullAssumption ==
    NULL \notin UserIds \cup PermissionIds \cup Roles \cup Organizations
ASSUME AccessAssumption ==
    /\ Users \subseteq UserIds /\ Permissions \subseteq PermissionIds
    /\ AdminRole \in Roles /\ AdminUser \in Users
    /\ {RoleManage, UserManage, OrganizationManage} \subseteq Permissions
    /\ MaxRequests \in Nat /\ MaxAborts \in Nat

VARIABLES
    active,             \* users.is_active
    organizations,      \* rows of organizations
    roles,              \* rows of roles
    role_organization,  \* roles.organization_id
    row,                \* user_roles, organization_memberships, role_permissions:
                        \*   the id of the row that holds a grant, 0: no row
    ids,                \* rows ever inserted for a grant; the last one's id
    added,              \* audit_log rows ..._CREATED, _ASSIGNED, _ADDED by subject
    removed,            \* audit_log rows ..._REVOKED, _REMOVED by subject
    pc,                 \* the statement a session executes next
    op,                 \* the operation requested and its arguments
    actor, is_active,   \* the caller and its is_active, as get_current_user read it
    found,              \* the id of the row this request has inserted or loaded
    served, aborts      \* requests so far, requests cut off so far

tables == <<organizations, roles, role_organization, row, ids>>
log == <<added, removed>>
locals == <<op, actor, is_active, found>>
counts == <<served, aborts>>
vars == <<active, tables, log, pc, locals, counts>>

OrNull(S) == S \cup {NULL}

-----------------------------------------------------------------------------
(* Types *)

Assignments == [user : UserIds, role : Roles, organization : OrNull(Organizations)]
Memberships == [user : UserIds, organization : Organizations]
RolePermissions == [role : Roles, permission : PermissionIds]
Grants == Assignments \cup Memberships \cup RolePermissions

NewRoles == [role : Roles, organization : OrNull(Organizations)]
NewOrganizations == [organization : Organizations]
Subjects == Grants \cup NewRoles \cup NewOrganizations

(* The routes of authorize.py and organizations.py that change a row. *)
Operations ==
    [kind : {"create_role"}, arg : NewRoles]
    \cup [kind : {"assign_role", "revoke_role"}, arg : Assignments]
    \cup [kind : {"assign_permission", "remove_permission"}, arg : RolePermissions]
    \cup [kind : {"create_organization"}, arg : NewOrganizations]
    \cup [kind : {"add_member", "remove_member"}, arg : Memberships]

Managing == {RoleManage, UserManage, OrganizationManage}

(* Depends(require_permission(...)) of each route. *)
Required(kind) ==
    CASE kind \in {"create_role", "assign_permission", "remove_permission"} -> RoleManage
      [] kind \in {"assign_role", "revoke_role"} -> UserManage
      [] kind \in {"create_organization", "add_member", "remove_member"} -> OrganizationManage

(* A request at "already_exists" answers 409; every other answer is the end. *)
Statements == {"authorize", "get_role", "get_permission", "get_user", "get_organization",
               "is_member", "insert", "refresh", "find", "delete", "record_added",
               "record_removed", "already_exists"}

Present(g) == row[g] # 0

(* The rows a grant refers to exist: the foreign keys of its table. *)
Referenced(g) ==
    /\ g \in Assignments \cup Memberships => g.user \in Users
    /\ g \in Assignments \cup RolePermissions => g.role \in roles
    /\ g \in Assignments \cup Memberships => g.organization \in OrNull(organizations)
    /\ g \in RolePermissions => g.permission \in Permissions

(* Every column and every local variable holds a value of its kind, and the  *)
(* foreign keys of every row hold.                                           *)
TypeOK ==
    /\ active \subseteq Users
    /\ organizations \subseteq Organizations /\ roles \subseteq Roles
    /\ role_organization \in [Roles -> OrNull(Organizations)]
    /\ \A g \in Grants : Present(g) => Referenced(g)
    /\ row \in [Grants -> Nat] /\ ids \in [Grants -> Nat]
    /\ added \in [Subjects -> Nat] /\ removed \in [Grants -> Nat]
    /\ pc \in [Sessions -> {"idle"} \cup Statements]
    /\ op \in [Sessions -> OrNull(Operations)]
    /\ \A s \in Sessions : pc[s] \notin {"idle", "authorize"} => op[s] \in Operations
    /\ actor \in [Sessions -> OrNull(UserIds)]
    /\ is_active \in [Sessions -> BOOLEAN]
    /\ found \in [Sessions -> Nat]
    /\ served \in Nat /\ aborts \in Nat

-----------------------------------------------------------------------------
(* Rows and resolution *)

(* _organization_scope_filter: global rows always match, the rows of an      *)
(* organization when one is given.                                           *)
InScope(a, organization) == a.organization \in {NULL, organization}

(* get_permissions_for_user: user_roles joined with role_permissions. *)
GetPermissionsForUser(u, organization) ==
    {p \in Permissions : \E q \in Roles, o \in OrNull(Organizations) :
        LET a == [user |-> u, role |-> q, organization |-> o]
        IN  /\ InScope(a, organization)
            /\ Present(a) /\ Present([role |-> q, permission |-> p])}

IsMember(u, organization) == Present([user |-> u, organization |-> organization])

-----------------------------------------------------------------------------
(* The database after the migrations and some earlier requests: an           *)
(* administrator, some organizations, their members as recorded, maybe more  *)
(* roles (the seeded ones, or of a request cut off before its audit row).    *)
Seeded(members) ==
    {[user |-> AdminUser, role |-> AdminRole, organization |-> NULL]}
    \cup [role : {AdminRole}, permission : Managing]
    \cup members

Init ==
    /\ active = Users
    /\ organizations \in SUBSET Organizations
    /\ roles \in {R \in SUBSET Roles : AdminRole \in R}
    /\ role_organization \in [Roles -> OrNull(organizations)]
    /\ role_organization[AdminRole] = NULL
    /\ \A p \in Roles \ roles : role_organization[p] = NULL
    /\ \E members \in SUBSET [user : Users, organization : organizations] :
          ids = [g \in Grants |-> IF g \in Seeded(members) THEN 1 ELSE 0]
    /\ row = ids
    /\ added = [x \in Subjects |-> IF x \in Grants THEN ids[x] ELSE 0]
    /\ removed = [g \in Grants |-> 0]
    /\ pc = [s \in Sessions |-> "idle"]
    /\ op = [s \in Sessions |-> NULL]
    /\ actor = [s \in Sessions |-> NULL]
    /\ is_active = [s \in Sessions |-> FALSE]
    /\ found = [s \in Sessions |-> 0]
    /\ served = 0 /\ aborts = 0
-----------------------------------------------------------------------------
(* Helpers *)

Goto(s, step) == pc' = [pc EXCEPT ![s] = step]

(* Session s is at a statement of an operation of this kind. *)
At(s, kind, statement) == pc[s] = statement /\ op[s].kind = kind

(* The request is answered, or cut off: its session is closed and what it    *)
(* had loaded is forgotten.                                                  *)
Close(s) ==
    /\ Goto(s, "idle")
    /\ op' = [op EXCEPT ![s] = NULL]
    /\ actor' = [actor EXCEPT ![s] = NULL]
    /\ is_active' = [is_active EXCEPT ![s] = FALSE]
    /\ found' = [found EXCEPT ![s] = 0]

(* Another statement follows. *)
Continue(s, step) == Goto(s, step) /\ UNCHANGED locals

(* A statement that only reads: the request goes on, or ends with an error. *)
Reads(s, passed, step) ==
    /\ IF passed THEN Continue(s, step) ELSE Close(s)
    /\ UNCHANGED <<active, tables, log, counts>>

(* Mutant: the foreign keys are not declared. *)
InsertUnreferenced(s, g, step) ==
    /\ \/ /\ Present(g)
          /\ Goto(s, "already_exists")
          /\ UNCHANGED <<row, ids, found>>
       \/ /\ ~Present(g)
          /\ ids' = [ids EXCEPT ![g] = @ + 1]
          /\ row' = [row EXCEPT ![g] = ids[g] + 1]
          /\ found' = [found EXCEPT ![s] = ids[g] + 1]
          /\ Goto(s, step)
    /\ UNCHANGED <<active, organizations, roles, role_organization, log, op, actor,
                   is_active, counts>>

(* INSERT and COMMIT; any IntegrityError, of a unique index or of a foreign  *)
(* key, is reported as a duplicate.                                          *)
InsertRow(s, g, step) ==
    /\ \/ /\ Present(g) \/ ~Referenced(g)
          /\ Goto(s, "already_exists")
          /\ UNCHANGED <<row, ids, found>>
       \/ /\ ~Present(g) /\ Referenced(g)
          /\ ids' = [ids EXCEPT ![g] = @ + 1]
          /\ row' = [row EXCEPT ![g] = ids[g] + 1]
          /\ found' = [found EXCEPT ![s] = ids[g] + 1]
          /\ Goto(s, step)
    /\ UNCHANGED <<active, organizations, roles, role_organization, log, op, actor,
                   is_active, counts>>

(* session.refresh of the row just inserted: it raises if the row is gone.   *)
RefreshRow(s, g) == Reads(s, row[g] = found[s], "record_added")

(* Mutant: the operation goes on without a row. *)
FindNothing(s, g) ==
    /\ found' = [found EXCEPT ![s] = row[g]]
    /\ Goto(s, "delete")
    /\ UNCHANGED <<active, tables, log, op, actor, is_active, counts>>

(* SELECT the row; without one the operation returns False. *)
FindRow(s, g) ==
    /\ IF Present(g)
       THEN found' = [found EXCEPT ![s] = row[g]] /\ Goto(s, "delete")
            /\ UNCHANGED <<op, actor, is_active>>
       ELSE Close(s)
    /\ UNCHANGED <<active, tables, log, counts>>

(* Mutant: revoke reports whether a row is left, not whether one was found. *)
DeleteSilently(s, g) ==
    /\ row' = [row EXCEPT ![g] = IF @ = found[s] THEN 0 ELSE @]
    /\ Close(s)
    /\ UNCHANGED <<active, organizations, roles, role_organization, ids, log, counts>>

(* DELETE ... WHERE id = the id loaded, and COMMIT.  A row that is already   *)
(* gone is only a warning: the operation returns True all the same.          *)
DeleteRow(s, g) ==
    /\ row' = [row EXCEPT ![g] = IF @ = found[s] THEN 0 ELSE @]
    /\ Continue(s, "record_removed")
    /\ UNCHANGED <<active, organizations, roles, role_organization, ids, log, counts>>

-----------------------------------------------------------------------------
(* get_current_user and require_permission *)

(* The access token names user u; is_active is loaded but not looked at.     *)
(* (A token that names no user is answered with 401: nothing happens.)       *)
GetCurrentUser(s, u) ==
    /\ pc[s] = "idle"
    /\ served < MaxRequests
    /\ served' = served + 1
    /\ actor' = [actor EXCEPT ![s] = u]
    /\ is_active' = [is_active EXCEPT ![s] = u \in active]
    /\ Goto(s, "authorize")
    /\ UNCHANGED <<active, tables, log, op, found, aborts>>

(* AuthorizationService.authorize: the user object is the one that           *)
(* get_current_user loaded (same session), the permissions are queried       *)
(* afresh, the global ones only.                                             *)
AllowedInactive(s, p) ==  \* mutant: is_active is not looked at here either
    p \in GetPermissionsForUser(actor[s], NULL)
Allowed(s, p) == is_active[s] /\ p \in GetPermissionsForUser(actor[s], NULL)

(* The first statement of each operation. *)
FirstStatement(request) ==
    CASE request.kind \in {"assign_role", "assign_permission", "remove_permission"} -> "get_role"
      [] request.kind = "create_role" ->
            IF request.arg.organization = NULL THEN "insert" ELSE "get_organization"
      [] request.kind = "create_organization" -> "insert"
      [] request.kind = "add_member" -> "get_user"
      [] request.kind \in {"revoke_role", "remove_member"} -> "find"

(* require_permission lets the request through; who asked for what matters   *)
(* from here on, the caller only as the actor of the audit row, left out.    *)
Authorize(s, request) ==
    /\ pc[s] = "authorize"
    /\ Allowed(s, Required(request.kind))
    /\ op' = [op EXCEPT ![s] = request]
    /\ actor' = [actor EXCEPT ![s] = NULL]
    /\ is_active' = [is_active EXCEPT ![s] = FALSE]
    /\ Goto(s, FirstStatement(request))
    /\ UNCHANGED <<active, tables, log, found, counts>>

(* 403, whatever the reason. *)
Forbid(s) ==
    /\ pc[s] = "authorize"
    /\ \E p \in Managing : ~Allowed(s, p)
    /\ Close(s)
    /\ UNCHANGED <<active, tables, log, counts>>

-----------------------------------------------------------------------------
(* AuthorizationService: create_role, assign_role, revoke_role *)

CreateRoleGetOrganization(s) ==
    /\ At(s, "create_role", "get_organization")
    /\ Reads(s, op[s].arg.organization \in organizations, "insert")

(* Mutant: a role of that name is taken over. *)
CreateRoleOverwrite(s) ==
    LET new == op[s].arg
    IN  /\ At(s, "create_role", "insert")
        /\ roles' = roles \cup {new.role}
        /\ role_organization' = [role_organization EXCEPT ![new.role] = new.organization]
        /\ Goto(s, "record_added")
        /\ UNCHANGED <<active, organizations, row, ids, log, locals, counts>>

(* RoleRepository.create_role: the unique index on the name decides. *)
CreateRoleInsert(s) ==
    LET new == op[s].arg
    IN  /\ At(s, "create_role", "insert")
        /\ \/ /\ new.role \in roles
              /\ Goto(s, "already_exists")
              /\ UNCHANGED <<roles, role_organization>>
           \/ /\ new.role \notin roles
              /\ roles' = roles \cup {new.role}
              /\ role_organization' = [role_organization EXCEPT ![new.role] = new.organization]
              /\ Goto(s, "record_added")
        /\ UNCHANGED <<active, organizations, row, ids, log, locals, counts>>

(* An organization's role is assigned within that organization only. *)
AnyOrganization(a) == TRUE  \* mutant: no RoleOrganizationMismatchError
ScopeMatches(a) == role_organization[a.role] \in {NULL, a.organization}

AssignRoleGetRole(s) ==
    LET a == op[s].arg
    IN  /\ At(s, "assign_role", "get_role")
        /\ Reads(s, a.role \in roles /\ ScopeMatches(a),
                 IF a.organization = NULL THEN "insert" ELSE "get_organization")

AssignRoleGetOrganization(s) ==
    /\ At(s, "assign_role", "get_organization")
    /\ Reads(s, op[s].arg.organization \in organizations, "is_member")

(* Mutant: the answer of is_member is not looked at. *)
AssignRoleAnyone(s) == At(s, "assign_role", "is_member") /\ Reads(s, TRUE, "insert")

AssignRoleIsMember(s) ==
    /\ At(s, "assign_role", "is_member")
    /\ Reads(s, IsMember(op[s].arg.user, op[s].arg.organization), "insert")

AssignRoleInsert(s) ==
    At(s, "assign_role", "insert") /\ InsertRow(s, op[s].arg, "refresh")

AssignRoleRefresh(s) == At(s, "assign_role", "refresh") /\ RefreshRow(s, op[s].arg)

RevokeRoleFind(s) == At(s, "revoke_role", "find") /\ FindRow(s, op[s].arg)
RevokeRoleDelete(s) == At(s, "revoke_role", "delete") /\ DeleteRow(s, op[s].arg)

-----------------------------------------------------------------------------
(* AuthorizationService: assign_permission_to_role, remove_permission_from_role *)

AssignPermissionGetRole(s) ==
    /\ At(s, "assign_permission", "get_role")
    /\ Reads(s, op[s].arg.role \in roles, "get_permission")

(* Mutant: the permission is not looked up before the INSERT. *)
AssignPermissionUnchecked(s) ==
    At(s, "assign_permission", "get_permission") /\ Reads(s, TRUE, "insert")

AssignPermissionGetPermission(s) ==
    /\ At(s, "assign_permission", "get_permission")
    /\ Reads(s, op[s].arg.permission \in Permissions, "insert")

AssignPermissionInsert(s) ==
    At(s, "assign_permission", "insert") /\ InsertRow(s, op[s].arg, "record_added")

RemovePermissionGetRole(s) ==
    /\ At(s, "remove_permission", "get_role")
    /\ Reads(s, op[s].arg.role \in roles, "delete")

(* Mutant: a DELETE that matched nothing counts as a removal. *)
RemovePermissionUncounted(s) ==
    /\ At(s, "remove_permission", "delete")
    /\ row' = [row EXCEPT ![op[s].arg] = 0]
    /\ Continue(s, "record_removed")
    /\ UNCHANGED <<active, organizations, roles, role_organization, ids, log, counts>>

(* DELETE ... WHERE role_id AND permission_id: rowcount tells what happened. *)
RemovePermissionDelete(s) ==
    /\ At(s, "remove_permission", "delete")
    /\ row' = [row EXCEPT ![op[s].arg] = 0]
    /\ IF Present(op[s].arg) THEN Continue(s, "record_removed") ELSE Close(s)
    /\ UNCHANGED <<active, organizations, roles, role_organization, ids, log, counts>>

-----------------------------------------------------------------------------
(* OrganizationService *)

CreateOrganizationInsert(s) ==
    LET name == op[s].arg.organization
    IN  /\ At(s, "create_organization", "insert")
        /\ organizations' = organizations \cup {name}
        /\ Goto(s, IF name \in organizations THEN "already_exists" ELSE "record_added")
        /\ UNCHANGED <<active, roles, role_organization, row, ids, log, locals, counts>>

AddMemberGetUser(s) ==
    /\ At(s, "add_member", "get_user")
    /\ Reads(s, op[s].arg.user \in Users, "get_organization")

AddMemberGetOrganization(s) ==
    /\ At(s, "add_member", "get_organization")
    /\ Reads(s, op[s].arg.organization \in organizations, "insert")

AddMemberInsert(s) ==
    At(s, "add_member", "insert") /\ InsertRow(s, op[s].arg, "refresh")

AddMemberRefresh(s) == At(s, "add_member", "refresh") /\ RefreshRow(s, op[s].arg)

RemoveMemberFind(s) == At(s, "remove_member", "find") /\ FindRow(s, op[s].arg)
RemoveMemberDelete(s) == At(s, "remove_member", "delete") /\ DeleteRow(s, op[s].arg)

-----------------------------------------------------------------------------
(* The audit row, the answer and the environment *)

RecordAdded(s) ==
    /\ pc[s] = "record_added"
    /\ added' = [added EXCEPT ![op[s].arg] = @ + 1]
    /\ Close(s)
    /\ UNCHANGED <<active, tables, removed, counts>>

RecordRemoved(s) ==
    /\ pc[s] = "record_removed"
    /\ removed' = [removed EXCEPT ![op[s].arg] = @ + 1]
    /\ Close(s)
    /\ UNCHANGED <<active, tables, added, counts>>

(* The 409 of a failed INSERT. *)
AnswerConflict(s) ==
    /\ pc[s] = "already_exists"
    /\ Close(s)
    /\ UNCHANGED <<active, tables, log, counts>>

(* The request is cut off between two statements; nothing is open then. *)
Abort(s) ==
    /\ pc[s] \in Statements
    /\ aborts < MaxAborts
    /\ aborts' = aborts + 1
    /\ Close(s)
    /\ UNCHANGED <<active, tables, log, served>>

(* An operator clears is_active; no code path of the application does. *)
Deactivate(u) ==
    /\ u \in active
    /\ active' = active \ {u}
    /\ UNCHANGED <<tables, log, pc, locals, counts>>

(* Every request has been answered: nothing is left to do. *)
AllServed ==
    /\ served = MaxRequests
    /\ \A s \in Sessions : pc[s] = "idle"
    /\ UNCHANGED vars

-----------------------------------------------------------------------------
RoleStep(s) ==
    \/ CreateRoleGetOrganization(s) \/ CreateRoleInsert(s)
    \/ AssignRoleGetRole(s) \/ AssignRoleGetOrganization(s) \/ AssignRoleIsMember(s)
    \/ AssignRoleInsert(s) \/ AssignRoleRefresh(s)
    \/ RevokeRoleFind(s) \/ RevokeRoleDelete(s)

PermissionStep(s) ==
    \/ AssignPermissionGetRole(s) \/ AssignPermissionGetPermission(s)
    \/ AssignPermissionInsert(s)
    \/ RemovePermissionGetRole(s) \/ RemovePermissionDelete(s)

OrganizationStep(s) ==
    \/ CreateOrganizationInsert(s)
    \/ AddMemberGetUser(s) \/ AddMemberGetOrganization(s) \/ AddMemberInsert(s)
    \/ AddMemberRefresh(s) \/ RemoveMemberFind(s) \/ RemoveMemberDelete(s)

Serve(s) ==
    \/ \E u \in Users : GetCurrentUser(s, u)
    \/ \E request \in Operations : Authorize(s, request)
    \/ Forbid(s)
    \/ RoleStep(s) \/ PermissionStep(s) \/ OrganizationStep(s)
    \/ RecordAdded(s) \/ RecordRemoved(s) \/ AnswerConflict(s) \/ Abort(s)

Next ==
    \/ \E s \in Sessions : Serve(s)
    \/ \E u \in Users : Deactivate(u)
    \/ AllServed

Spec == Init /\ [][Next]_vars

-----------------------------------------------------------------------------
(* Properties, whatever the requests and however they interleave *)

(* A role of one organization counts in that organization only: the check of *)
(* assign_role when it was given and the filter of get_permissions_for_user  *)
(* when it is used keep tenants apart.                                       *)
TenantIsolation ==
    \A a \in Assignments, o \in OrNull(Organizations) :
        Present(a) /\ InScope(a, o) => role_organization[a.role] \in {NULL, o}

(* A role held within an organization was given to a user who was a member   *)
(* of it at some time: is_member is asked before the INSERT.                 *)
ScopedRoleHadMember ==
    \A a \in Assignments : Present(a) /\ a.organization # NULL =>
        ids[[user |-> a.user, organization |-> a.organization]] > 0

(* Sessions that have changed a row for subject x and will record it next.   *)
Pending(x, statements) ==
    Cardinality({s \in Sessions : pc[s] \in statements /\ op[s].arg = x})

Gone(g) == ids[g] - (IF Present(g) THEN 1 ELSE 0)

(* The log of role permissions balances: every grant and every removal that  *)
(* happened is recorded once, or about to be, or its request was cut off.    *)
PermissionLedger ==
    \A g \in RolePermissions :
        LET granted == added[g] + Pending(g, {"record_added"})
            revoked == removed[g] + Pending(g, {"record_removed"})
        IN  /\ granted <= ids[g] /\ revoked <= Gone(g)
            /\ aborts = 0 => granted = ids[g] /\ revoked = Gone(g)

(* For role assignments and memberships, whose rows can vanish between two    *)
(* statements of a request, the log never claims a grant that was not made    *)
(* and misses no removal.                                                     *)
GrantLedger ==
    \A g \in Assignments \cup Memberships :
        /\ added[g] + Pending(g, {"refresh", "record_added"}) <= ids[g]
        /\ aborts = 0 => removed[g] + Pending(g, {"record_removed"}) >= Gone(g)

(* Of several requests that create a role of the same name one succeeds, and *)
(* the log says in which organization.                                       *)
RoleCreatedOnce ==
    \A n \in NewRoles : added[n] > 0 =>
        /\ n.role \in roles /\ role_organization[n.role] = n.organization
        /\ added[n] = 1

(* add_member and assign_permission_to_role report a duplicate only for a     *)
(* grant that was made: every id is looked up before the INSERT, so an        *)
(* IntegrityError is never a foreign key's.                                   *)
ConflictIsDuplicate ==
    \A s \in Sessions :
        pc[s] = "already_exists" /\ op[s].kind \in {"add_member", "assign_permission"} =>
            ids[op[s].arg] > 0

(* No active user may manage anything and no request that may is under way.  *)
LockedOut ==
    /\ \A u \in active : Managing \cap GetPermissionsForUser(u, NULL) = {}
    /\ \A s \in Sessions :
          \/ pc[s] = "idle"
          \/ pc[s] = "authorize" /\ \A p \in Managing : ~Allowed(s, p)

(* Deny by default: privileges do not come from nothing.  Once the last      *)
(* administrator is revoked or deactivated, no sequence of requests changes  *)
(* a table or gives anyone a managing permission.                            *)
DenyByDefault == [][LockedOut => LockedOut' /\ UNCHANGED tables]_vars

-----------------------------------------------------------------------------
(* The inductive invariant behind the safety properties *)

(* A role of an organization is held within that organization, and a grant   *)
(* that has a row was inserted.                                              *)
RowsOK ==
    /\ \A a \in Assignments : Present(a) => ScopeMatches(a)
    /\ \A g \in Grants : Present(g) => ids[g] > 0

(* What a session has checked still holds when it inserts: roles and         *)
(* organizations stay, and so does the fact that a user was a member.        *)
ChecksOK(s) ==
    LET x == op[s].arg
    IN  /\ pc[s] \in {"get_organization", "is_member", "insert"} /\ op[s].kind = "assign_role" =>
              x.role \in roles /\ ScopeMatches(x)
        /\ At(s, "assign_role", "insert") /\ x.organization # NULL =>
              ids[[user |-> x.user, organization |-> x.organization]] > 0
        /\ pc[s] \in {"get_permission", "insert"} /\ op[s].kind = "assign_permission" =>
              x.role \in roles
        /\ At(s, "assign_permission", "insert") => x.permission \in Permissions
        /\ pc[s] \in {"get_organization", "insert"} /\ op[s].kind = "add_member" =>
              x.user \in Users
        /\ At(s, "add_member", "insert") => x.organization \in organizations

(* A session about to record a new role is the only one that created it.     *)
NewRoleOK(s) ==
    LET x == op[s].arg
    IN  At(s, "create_role", "record_added") =>
          /\ x.role \in roles /\ role_organization[x.role] = x.organization
          /\ \A n \in NewRoles : n.role = x.role => added[n] = 0
          /\ \A r \in Sessions :
                At(r, "create_role", "record_added") /\ op[r].arg.role = x.role => r = s

AccessInv ==
    /\ TypeOK /\ RowsOK /\ ScopedRoleHadMember /\ ConflictIsDuplicate /\ RoleCreatedOnce
    /\ \A s \in Sessions : ChecksOK(s) /\ NewRoleOK(s)

-----------------------------------------------------------------------------
(* Promises of the code's comments that some schedules break *)

(* assign_role reports RoleAlreadyAssignedError "if the user already has     *)
(* this exact (role, organization) combination".                             *)
AlreadyAssignedIsTrue ==
    \A s \in Sessions : At(s, "assign_role", "already_exists") => ids[op[s].arg] > 0

(* revoke_role and remove_member record a removal "only when an assignment   *)
(* was actually found and removed".                                          *)
RemovalRecordedOnce ==
    \A g \in Assignments \cup Memberships : removed[g] <= Gone(g)
=============================================================================
