SPECIFICATION Spec
CONSTANTS
    UserIds = {adm, usr}
    Users = {adm, usr}
    PermissionIds = {rm, um, om}
    Permissions = {rm, um, om}
    Roles = {Admin, Support}
    Organizations = {o1, o2}
    AdminRole = Admin
    AdminUser = adm
    RoleManage = rm
    UserManage = um
    OrganizationManage = om
    Sessions = {s1}
    NULL = NULL
    MaxRequests = 2
    MaxAborts = 1
SYMMETRY Symmetry
INVARIANT TenantIsolation
PROPERTY DenyByDefault
