-------------------------- MODULE InsightHandlers --------------------------
(***************************************************************************)
(* The handlers of the analytics and the alerts packages.                  *)
(***************************************************************************)
EXTENDS HttpRoute

S == INSTANCE InsightService

NotFound == "not_found" :> 404

TrackEvent == Handle(<<422>>, S!TrackEvents, Unnamed)
TrackBootstrapEvent == Handle(<<422>>, S!TrackBootstrapEvent, Unnamed)
TrackDownloadError == Handle(<<422>>, S!TrackDownloadError, Unnamed)

ListEvents == Show(S!ListEvents)
ListBootstrapEvents == Show(S!ListBootstrapEvents)
Overview == Show(S!GetOverview)
TopEvents == Show(S!GetTopEvents)
DailyStats == Handle(<<400, 400, 400, 400>>, S!GetDailyStats, Unnamed)
ListDownloadErrors == Show(S!ListDownloadErrors)
DownloadErrorStats == Show(S!GetDownloadErrorStats)
DownloadStats == Show(S!GetDownloadStats)

ListConfigs == Show(S!ListConfigs)
CreateConfig == Create(<<422>>, S!CreateConfig, Unnamed)
GetConfig == Handle(<<400>>, S!GetConfig, NotFound)
UpdateConfig == Handle(<<400, 422>>, S!UpdateConfig, NotFound)
DeleteConfig == Handle(<<400>>, S!DeleteConfig, NotFound)
TestAlert == Handle(<<400>>, S!TestAlert, NotFound)
ListLogs == Handle(<<400>>, S!ListLogs, Unnamed)
=============================================================================
