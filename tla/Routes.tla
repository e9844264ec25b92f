------------------------------- MODULE Routes -------------------------------
(***************************************************************************)
(* The three tables that decide what happens to a call before its handler  *)
(* runs.  They are kept in three places: the generated wrappers know an    *)
(* operation's path, the role its caller needs and whether it has          *)
(* parameters to bind; main() lists the path prefixes that get a tenant    *)
(* pool; the composite handler names the service that answers, and so      *)
(* whether a tenant pool is needed.                                        *)
(***************************************************************************)
EXTENDS Naturals

(* scope "open" is an operation without security, "any" a secured one whose *)
(* list of scopes is empty.  A path keeps only its first segments.          *)
Scope == {"open", "any", "employee", "manager", "admin"}

(* The operations "plain" and "bound" under one path: those in "bound" have *)
(* path or query parameters, which the wrapper parses first.                *)
Group(path, scope, plain, bound) ==
  {[op |-> o, path |-> path, scope |-> scope, bound |-> o \in bound] : o \in plain \cup bound}

AttendanceRoutes ==
  Group("/attendance", "manager", {}, {"ListAttendance"})
    \cup Group("/attendance", "any", {"SetBreak", "CheckIn", "CheckOut"}, {})

AuthRoutes == Group("/auth", "open", {"Login", "Signup"}, {})
                \cup Group("/auth", "any", {"GetCurrentUser"}, {})

DemoRoutes == Group("/demo", "manager", {"SeedLiveViewDemoData"}, {})

DepartmentRoutes ==
  Group("/departments", "manager", {"ListDepartments"}, {"GetDepartment"})
    \cup Group("/departments", "admin", {"CreateDepartment"},
               {"DeleteDepartment", "UpdateDepartment"})

EmployeeRoutes ==
  Group("/employees", "manager", {"CreateEmployee"},
        {"ListEmployees", "GetEmployee", "UpdateEmployee"})
    \cup Group("/employees", "admin", {}, {"DeleteEmployee"})

EmployeeLoginRoutes == Group("/employees", "admin", {}, {"CreateEmployeeLogin"})

LeaveRoutes == Group("/leave", "manager", {}, {"ListLeave", "ApproveLeave", "RejectLeave"})

LiveRoutes == Group("/live", "manager", {}, {"GetLiveView"})

LocationRoutes ==
  Group("/locations", "manager", {"ListLocations", "CreateLocation"},
        {"DeleteLocation", "GetLocation", "UpdateLocation"})

MyRoutes == Group("/me/leave", "any", {"ListMyLeave", "CreateMyLeave", "GetMyLeaveBalance"}, {})
              \cup Group("/me/shifts", "any", {}, {"ListMyShifts"})
              \cup Group("/me/stats", "any", {"GetMyStats"}, {})

MediaRoutes == Group("/media", "any", {"UploadMedia"}, {})

StaffRoutes == Group("/platform", "open", {"PlatformLogin"}, {})
                 \cup Group("/platform", "any", {"GetCurrentPlatformUser"},
                            {"PlatformListAuditEvents"})

SubscriptionRoutes ==
  Group("/platform", "any", {}, {"PlatformListSubscriptions", "PlatformUpdateSubscription"})

TenantAdminRoutes ==
  Group("/platform", "any", {"PlatformGetSystemHealth", "PlatformListTenants"},
        {"PlatformGetTenant", "PlatformUpdateTenant"})

UserAdminRoutes == Group("/platform", "any", {}, {"PlatformListUsers", "PlatformUpdateUser"})

RoleRoutes == Group("/roles", "manager", {"ListRoles"}, {"GetRole"})
                \cup Group("/roles", "admin", {"CreateRole"}, {"DeleteRole", "UpdateRole"})

ShiftRoutes ==
  Group("/shifts", "manager", {"CreateShift"},
        {"ListShifts", "DeleteShift", "GetShift", "UpdateShift", "PublishShift"})

TourRoutes ==
  Group("/tours", "manager", {"CreateTour"}, {"ListTours", "DeleteTour", "GetTour", "UpdateTour"})

(* /health is registered by the server itself, outside the generated table. *)
HealthRoutes == Group("/health", "open", {"Health"}, {})

Operation ==
  UNION {AttendanceRoutes, AuthRoutes, DemoRoutes, DepartmentRoutes, EmployeeRoutes,
         EmployeeLoginRoutes, LeaveRoutes, LiveRoutes, LocationRoutes, MyRoutes,
         MediaRoutes, StaffRoutes, SubscriptionRoutes, TenantAdminRoutes,
         UserAdminRoutes, RoleRoutes, ShiftRoutes, TourRoutes, HealthRoutes}

-----------------------------------------------------------------------------
(* The operations the control-plane handler answers, which has a pool of    *)
(* its own.                                                                 *)
ControlPlaneOps ==
  {"Signup", "Login", "GetCurrentUser", "PlatformLogin", "GetCurrentPlatformUser",
   "PlatformListTenants", "PlatformGetTenant", "PlatformUpdateTenant", "PlatformListUsers",
   "PlatformUpdateUser", "PlatformListSubscriptions", "PlatformUpdateSubscription",
   "PlatformGetSystemHealth", "PlatformListAuditEvents"}

(* Every other handler but those of /media and /health belongs to a service *)
(* that takes the tenant's pool from the request.                           *)
NeedsPool(o) == o.op \notin ControlPlaneOps \cup {"UploadMedia", "Health"}

TenantRoutePrefixes ==
  {"/departments", "/employees", "/roles", "/shifts", "/locations", "/attendance",
   "/live", "/leave", "/tours", "/demo", "/me/shifts", "/me/leave", "/me/stats"}

IsTenantRoute(o) == o.path \in TenantRoutePrefixes

IsPlatformRoute(o) == o.path = "/platform"

Secured(o) == o.scope # "open"
=============================================================================
