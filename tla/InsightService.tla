--------------------------- MODULE InsightService ---------------------------
(***************************************************************************)
(* The operations of the analytics and the alert services.  The cache of   *)
(* the aggregations in Redis is no change of the program's data, and a     *)
(* cache that does not answer is one without the entry.                    *)
(***************************************************************************)
EXTENDS HttpRoute

\* The event is stored; the download error derived from it is an attempt.
TrackEvents == <<Write, Maybe(Attempt)>>
TrackBootstrapEvent == <<Write>>
\* A failure reported before within the window is not stored again.
TrackDownloadError == <<Query, Maybe(Write)>>

ListEvents == Report
ListBootstrapEvents == Report
GetOverview == BestEffortReport
GetTopEvents == Report
GetDailyStats == Report
ListDownloadErrors == Report
GetDownloadErrorStats == BestEffortReport
GetDownloadStats == BestEffortReport

FindConfig == Find({"not_found"})
CreateConfig == <<Write>>
GetConfig == <<FindConfig>>
ListConfigs == Report
UpdateConfig == <<FindConfig, Write>>
DeleteConfig == <<FindConfig, Write>>
\* The message is sent, by Telegram or by mail.
TestAlert == <<FindConfig, Query>>
ListLogs == Report
=============================================================================
