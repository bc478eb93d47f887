--------------------------- MODULE IdentityService ---------------------------
(***************************************************************************)
(* The operations of the identity services: devices and their keys,        *)
(* administrators, the audit log and the dashboards.                       *)
(***************************************************************************)
EXTENDS HttpRoute

\* Whatever fails in the lookup, the device is not found.
FindDevice == FindElse("device_not_found")

\* The cooldown starts before anything is looked up, if Redis answers; the
\* legacy device of a hardware not found is looked for, too; the keys of a
\* known device are revoked, whether that works or not, before the new one is
\* made.
RegisterDevice ==
    <<Peek({"cooldown"}), Attempt, Query, Maybe(Peek({})), Check({"inactive"}), Write,
      Maybe(Attempt), Write>>
Heartbeat == <<FindDevice, Write>>
GetDevice == <<FindDevice>>
ListDevices == Report
\* The cached keys of a device no longer active are dropped, if that works.
UpdateDevice == <<FindDevice, Write, Maybe(Attempt)>>
GetDeviceTimeline == Report

\* An unreachable database and a wrong password are the same to the caller.
Login == <<FindElse("invalid_credentials"), Attempt>>
\* Of the counters of attempts only the reading can fail the request.
CountedLogin ==
    <<Call({}, "unavailable", FALSE, FALSE), Check({"locked"})>> \o Login

\* Every failure of the insert is answered as an address that exists.
CreateAdmin == <<SaveElse({"email_exists"}, "email_exists")>>
UpdateAdmin == <<Write>>
\* The failure of the count is not looked at: it reads as no administrators.
DeleteAdmin == <<Peek({"last_admin"}), Write>>
ListAdmins == Report
ListApiKeys == Report
RevokeApiKey == <<Save({"not_found"})>>

\* The total is counted on the side.
ListAuditLogs == <<Peek({}), Query>>
GetRecentActivity == Report
GetTopCustomers == Report
GetComprehensiveStats == BestEffortReport
GetBrandComparison == BestEffortReport
GetDashboardTrends == BestEffortReport
=============================================================================
