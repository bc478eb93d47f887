-------------------------- MODULE ProductHandlers --------------------------
(***************************************************************************)
(* The handlers of the product package, for devices, for administrators    *)
(* and for the build server.                                               *)
(***************************************************************************)
EXTENDS HttpRoute

S == INSTANCE ProductService

NotFound == "not_found" :> 404
DuplicateKey == "duplicate_key" :> 409

GetFlags == Show(S!GetDeviceFlags)
GetConfig == Show(S!GetDeviceConfig)
CheckUpdate == Handle(<<400>>, S!CheckForUpdate, Unnamed)
GetAnnouncements == Show(S!GetDeviceAnnouncements)
RegisterRelease == Handle(<<401, 400, 400, 400>>, S!RegisterCIRelease, Unnamed)

ListFlags == Show(S!ListFeatureFlags)
CreateFlag == Create(<<422>>, S!CreateFeatureFlag, DuplicateKey)
GetFlag == Handle(<<400>>, S!GetFeatureFlag, NotFound)
UpdateFlag == Handle(<<400, 422>>, S!UpdateFeatureFlag, NotFound)
DeleteFlag == Handle(<<400>>, S!DeleteFeatureFlag, NotFound)

ListConfigs == Show(S!ListRemoteConfigs)
CreateConfig == Create(<<422>>, S!CreateRemoteConfig, DuplicateKey)
AdminGetConfig == Handle(<<400>>, S!GetRemoteConfig, NotFound)
UpdateConfig == Handle(<<400, 422>>, S!UpdateRemoteConfig, NotFound)
DeleteConfig == Handle(<<400>>, S!DeleteRemoteConfig, NotFound)

ListReleases == Show(S!ListAppReleases)
CreateRelease == Create(<<422>>, S!CreateAppRelease, Unnamed)
GetRelease == Handle(<<400>>, S!GetAppRelease, NotFound)
UpdateRelease == Handle(<<400, 422>>, S!UpdateAppRelease, NotFound)

ListAnnouncements == Show(S!ListAnnouncements)
CreateAnnouncement == Create(<<422>>, S!CreateAnnouncement, Unnamed)
GetAnnouncement == Handle(<<400>>, S!GetAnnouncement, NotFound)
UpdateAnnouncement == Handle(<<400, 422>>, S!UpdateAnnouncement, NotFound)
DeleteAnnouncement == Handle(<<400>>, S!DeleteAnnouncement, NotFound)
ProductStats == Show(S!GetProductStats)
=============================================================================
