--------------------------- MODULE ProductService ---------------------------
(***************************************************************************)
(* The operations of the product service: feature flags, remote            *)
(* configuration, releases and announcements.                              *)
(***************************************************************************)
EXTENDS HttpRoute

\* Every row is found by its id; Save writes the row as it was read.
FindRow == Find({"not_found"})
Insert == <<Save({"duplicate_key"})>>
Lookup == <<FindRow>>
Change == <<FindRow, Write>>

CreateFeatureFlag == Insert
GetFeatureFlag == Lookup
ListFeatureFlags == Report
UpdateFeatureFlag == Change
DeleteFeatureFlag == Change
GetDeviceFlags == Report

CreateRemoteConfig == Insert
GetRemoteConfig == Lookup
ListRemoteConfigs == Report
UpdateRemoteConfig == Change
DeleteRemoteConfig == Change
GetDeviceConfig == Report

CreateAppRelease == <<Write>>
GetAppRelease == Lookup
ListAppReleases == Report
UpdateAppRelease == Change
CheckForUpdate == Report
\* One row for each of up to three platforms, in no order: that of the version,
\* or a new one if it is not there or cannot be looked up.
Release == <<Peek({}), Write>>
AnotherRelease == <<Maybe(Peek({})), Maybe(Write)>>
RegisterCIRelease == Release \o AnotherRelease \o AnotherRelease

CreateAnnouncement == <<Write>>
GetAnnouncement == Lookup
ListAnnouncements == Report
UpdateAnnouncement == Change
DeleteAnnouncement == Change
GetDeviceAnnouncements == Report
GetProductStats == BestEffortReport
=============================================================================
