-------------------------- MODULE IdentityHandlers --------------------------
(***************************************************************************)
(* The handlers of the identity package.                                   *)
(***************************************************************************)
EXTENDS HttpRoute

S == INSTANCE IdentityService

NotFound == "device_not_found" :> 404

\* Created, for a device that is new.
Register == Handle(<<422>>, S!RegisterDevice, "inactive" :> 403 @@ "cooldown" :> 429)
Heartbeat == Handle(<<422>>, S!Heartbeat, Unnamed)

Login ==
    Handle(<<422>>, S!CountedLogin,
           "unavailable" :> 503 @@ "locked" :> 429 @@ "invalid_credentials" :> 401)

List == Show(S!ListDevices)
GetById == Handle(<<400>>, S!GetDevice, NotFound)
Update == Handle(<<400, 422>>, S!UpdateDevice, NotFound)
GetDeviceTimeline == Handle(<<400>>, S!GetDeviceTimeline, Unnamed)
ComprehensiveStats == Show(S!GetComprehensiveStats)
BrandComparison == Show(S!GetBrandComparison)
DashboardTrends == Show(S!GetDashboardTrends)
DashboardActivity == Show(S!GetRecentActivity)
DashboardTopCustomers == Show(S!GetTopCustomers)
\* A database that does not answer is reported with 200.
SystemHealth == Show(BestEffortReport)

ListAdmins == Show(S!ListAdmins)
CreateAdmin == Create(<<422>>, S!CreateAdmin, "email_exists" :> 409)
\* An administrator that is not there is updated, too.
UpdateAdmin == Handle(<<400, 422, 400, 400>>, S!UpdateAdmin, Unnamed)
DeleteAdmin == Handle(<<400, 403>>, S!DeleteAdmin, "last_admin" :> 403)
ListApiKeys == Handle(<<400>>, S!ListApiKeys, Unnamed)
RevokeApiKey == Handle(<<400>>, S!RevokeApiKey, "not_found" :> 404)
ListAuditLogs == Handle(<<400, 400, 400>>, S!ListAuditLogs, Unnamed)
=============================================================================
