SPECIFICATION Spec
CONSTANTS
    UserIds = {adm, nobody}
    Users = {adm}
    PermissionIds = {rm, um, om, none}
    Permissions = {rm, um, om}
    Roles = {Admin, Support}
    Organizations = {o1}
    AdminRole = Admin
    AdminUser = adm
    RoleManage = rm
    UserManage = um
    OrganizationManage = om
    Sessions = {s1, s2}
    NULL = NULL
    MaxRequests = 2
    MaxAborts = 0
INVARIANT RemovalRecordedOnce
