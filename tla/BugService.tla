----------------------------- MODULE BugService -----------------------------
(***************************************************************************)
(* The operations of the bug service: bug and crash reports, diagnostic    *)
(* logs and crash groups.  CrashGroups models what the groups hold.        *)
(***************************************************************************)
EXTENDS HttpRoute

FindRow == Find({"not_found"})

\* Grouping is an attempt: it may find, create or promote a group, and it counts
\* the crash once the crash is stored.
SubmitCrash == <<Maybe(Attempt), Write, Maybe(Attempt)>>
SubmitBug == <<Write, Maybe(Attempt)>>
ListDeviceBugs == Report
\* Whether there is a diagnostic log is asked on the side.
HasDiagnosticLog == Peek({})
GetDeviceBug == <<FindRow, Check({"access_denied"}), HasDiagnosticLog>>

GetBug == <<FindRow, HasDiagnosticLog>>
ListBugs == Report
UpdateBug == <<FindRow, Write>>
GetCrash == <<FindRow, HasDiagnosticLog>>
ListCrashes == Report
\* The row is read again after it was changed.
UpdateCrash == <<FindRow, Maybe(Write), Maybe(Query), HasDiagnosticLog>>
GetDiagnosticLog == <<FindRow>>
GetBugStats == Report

ListCrashGroups == Report
GetCrashGroup == <<FindRow>>
UpdateCrashGroup == <<FindRow, Maybe(Write), Maybe(Query)>>
MergeCrashGroups == <<FindRow, Maybe(FindRow), Maybe(Write)>>
ListGroupCrashes == Report
GetCrashGroupStats == Report
ListCrashGroupMergeCandidates == <<Query, Query>>
\* A merge that fails is counted, and the next candidate is tried.
BackfillCrashGroupMerges == ListCrashGroupMergeCandidates \o <<Maybe(Attempt), Maybe(Attempt)>>
=============================================================================
