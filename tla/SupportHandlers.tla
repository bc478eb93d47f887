-------------------------- MODULE SupportHandlers --------------------------
(***************************************************************************)
(* The handlers of the feedback and the assistant packages, for devices    *)
(* and for administrators.                                                 *)
(***************************************************************************)
EXTENDS HttpRoute

S == INSTANCE SupportService

NotFound == "not_found" :> 404
NotFoundOrForeign == NotFound @@ "access_denied" :> 403
TooMany == "too_many" :> 429

CreateTicket == Create(<<422>>, S!CreateTicket, Unnamed)
ListMyTickets == Show(S!ListDeviceTickets)
GetMyTicket == Handle(<<400>>, S!GetDeviceTicket, NotFoundOrForeign)
ReplyToTicket == Create(<<400, 422>>, S!SendDeviceMessage, NotFoundOrForeign)
StreamTicket ==
    Handle(<<400>>, Append(S!GetDeviceTicket, S!Subscribe), NotFoundOrForeign @@ TooMany)
CreateFeatureRequest == Create(<<422>>, S!CreateFeatureRequest, Unnamed)
ListFeatureRequests == Show(S!ListFeatureRequests)
VoteFeatureRequest ==
    Handle(<<400>>, S!VoteFeatureRequest, NotFound @@ "already_voted" :> 409)
SubmitRating == Handle(<<422>>, S!SubmitRating, Unnamed)

CreateSession == Create(<<422>>, S!CreateSession, Unnamed)
ListSessions == Show(S!ListDeviceSessions)
GetSession == Handle(<<400>>, S!GetDeviceSession, NotFoundOrForeign)
SendMessage ==
    Handle(<<400, 422>>, S!SendMessage, NotFoundOrForeign @@ "session_closed" :> 400)
Escalate == Handle(<<400, 422>>, S!EscalateSession, NotFoundOrForeign)

-----------------------------------------------------------------------------

ListTickets == Show(S!ListTickets)
GetTicket == Handle(<<400>>, S!GetTicket, NotFound)
UpdateTicket == Handle(<<400, 422>>, S!UpdateTicket, NotFound)
AdminReply == Create(<<400, 422>>, S!SendAdminMessage, NotFound)
AdminStreamTicket == Handle(<<400>>, Append(S!GetTicket, S!Subscribe), NotFound @@ TooMany)
StreamNotifications == Handle(<<>>, <<S!Subscribe>>, TooMany)
AdminListFeatureRequests == Show(S!ListFeatureRequests)
GetFeatureRequest == Handle(<<400>>, S!GetFeatureRequest, NotFound)
UpdateFeatureRequest == Handle(<<400, 422>>, S!UpdateFeatureRequest, NotFound)
ListRatings == Show(S!ListRatings)
RatingStats == Show(S!GetRatingStats)
FeedbackStats == Show(S!GetFeedbackStats)

AdminListSessions == Show(S!ListSessions)
AdminGetSession == Handle(<<400>>, S!GetSession, NotFound)
ListKnowledge == Show(S!ListKnowledge)
CreateKnowledge == Create(<<422>>, S!CreateKnowledge, Unnamed)
GetKnowledge == Handle(<<400>>, S!GetKnowledge, NotFound)
UpdateKnowledge == Handle(<<400, 422>>, S!UpdateKnowledge, NotFound)
DeleteKnowledge == Handle(<<400>>, S!DeleteKnowledge, NotFound)
AssistantStats == Show(S!GetAssistantStats)
=============================================================================
