--------------------------- MODULE SupportService ---------------------------
(***************************************************************************)
(* The operations of the feedback and the assistant services: tickets,     *)
(* feature requests, ratings, chat sessions and the knowledge base.        *)
(* Events and notifications are sent after the last call and never fail.   *)
(***************************************************************************)
EXTENDS HttpRoute

FindRow == Find({"not_found"})
Owner == Check({"access_denied"})
Lookup == <<FindRow>>
OwnLookup == <<FindRow, Owner>>
Change == <<FindRow, Write>>

-----------------------------------------------------------------------------
(* Tickets, feature requests, ratings.                                     *)

\* The row, its first message, the diagnostic log, which may get lost, and the
\* row read again.
CreateTicket == <<Write, Write, Maybe(Attempt), Query>>
GetTicket == Lookup
GetDeviceTicket == OwnLookup
ListDeviceTickets == Report
ListTickets == Report
UpdateTicket == Change
SendDeviceMessage == <<FindRow, Owner, Write>>
SendAdminMessage == Change
\* Subscribe: ErrTooManySubscribers.
Subscribe == Check({"too_many"})

CreateFeatureRequest == <<Write>>
GetFeatureRequest == Lookup
ListFeatureRequests == Report
UpdateFeatureRequest == Change
\* An earlier vote that cannot be read is left to the unique index; the vote
\* and the counter are two statements.
VoteFeatureRequest == <<FindRow, Peek({"already_voted"}), Save({"already_voted"}), Write>>

SubmitRating == <<Write, Query>>
ListRatings == Report
GetRatingStats == BestEffortReport
GetFeedbackStats == BestEffortReport

-----------------------------------------------------------------------------
(* Chat sessions, the knowledge base.                                      *)

\* The model, or else the knowledge base, or else a set phrase.
generateResponse == Peek({})
\* The session, the question and the answer.
CreateSession == <<Write, Write, generateResponse, Write, Query>>
GetSession == Lookup
GetDeviceSession == OwnLookup
ListDeviceSessions == Report
ListSessions == Report
SendMessage ==
    <<FindRow, Owner, Check({"session_closed"}), Write, generateResponse, Write>>

\* The status, the notice and the ticket; a ticket that fails is logged, one
\* that cannot be read again panics.
EscalateSession == <<FindRow, Owner, Write, Write, Maybe(Attempt), Query>>
CreateTicketFromEscalation == <<Write, Write, Query>>

CreateKnowledge == <<Write>>
GetKnowledge == Lookup
ListKnowledge == Report
UpdateKnowledge == Change
DeleteKnowledge == Change
GetAssistantStats == BestEffortReport
=============================================================================
