---------------------------- MODULE BugHandlers ----------------------------
(***************************************************************************)
(* The handlers of the bugs package, for devices and for administrators.   *)
(***************************************************************************)
EXTENDS HttpRoute

S == INSTANCE BugService

NotFound == "not_found" :> 404

SubmitCrash == Create(<<422>>, S!SubmitCrash, Unnamed)
SubmitBug == Create(<<422>>, S!SubmitBug, Unnamed)
GetMyBugs == Show(S!ListDeviceBugs)
GetBugStatus == Handle(<<400>>, S!GetDeviceBug, NotFound @@ "access_denied" :> 403)

ListBugs == Show(S!ListBugs)
GetBug == Handle(<<400>>, S!GetBug, NotFound)
UpdateBug == Handle(<<400, 422>>, S!UpdateBug, NotFound)
ListCrashes == Show(S!ListCrashes)
GetCrash == Handle(<<400>>, S!GetCrash, NotFound)
UpdateCrash == Handle(<<400, 422>>, S!UpdateCrash, NotFound)
BugStats == Show(S!GetBugStats)
GetBugLog == Handle(<<400>>, S!GetDiagnosticLog, NotFound)
GetCrashLog == GetBugLog

ListCrashGroups == Show(S!ListCrashGroups)
ListCrashGroupMergeCandidates == Show(S!ListCrashGroupMergeCandidates)
BackfillCrashGroupMerges == Handle(<<422>>, S!BackfillCrashGroupMerges, Unnamed)
GetCrashGroup == Handle(<<400>>, S!GetCrashGroup, NotFound)
UpdateCrashGroup == Handle(<<400, 422>>, S!UpdateCrashGroup, NotFound)
MergeCrashGroups == Handle(<<422, 400, 400>>, S!MergeCrashGroups, NotFound)
ListGroupCrashes == Handle(<<400>>, S!ListGroupCrashes, Unnamed)
CrashGroupStats == Show(S!GetCrashGroupStats)
=============================================================================
