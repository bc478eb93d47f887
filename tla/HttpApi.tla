------------------------------ MODULE HttpApi ------------------------------
(***************************************************************************)
(* One request on its way through the backend: the global middleware in    *)
(* the order of the engine, that of the group of the route, the checks of  *)
(* the handler, the calls of the service one after the other, the answer,  *)
(* and the row of the audit log.  A call may refuse or fail, and the       *)
(* process may end at any point.                                           *)
(***************************************************************************)
EXTENDS HttpRoute

CONSTANT Routes

VARIABLES
    route,
    stage,    \* what is next: "body" ... "calls", "answer", "audit", "sent", "lost"
    pos,      \* how many guards, checks or calls of the stage are behind
    error,    \* what the operation returned
    failed,   \* something the request needed did not answer
    ignored,  \* something did not answer, and the operation went on
    changed,  \* the request has changed something
    audited,  \* the request is to leave a row in the audit log
    status,   \* what was answered, 0 before
    row       \* of the audit log: "none", "written", "failed"

vars == <<route, stage, pos, error, failed, ignored, changed, audited, status, row>>

handler == route.handler
calls == handler.operation
call == calls[pos + 1]

(***************************************************************************)
(* What is asked of the table of routes.                                   *)
(***************************************************************************)
CallTypes == [errors : SUBSET STRING, failure : STRING, writes : BOOLEAN, optional : BOOLEAN]

RouteTypes(r) ==
    /\ r.guards \in Seq({"strict", "device", "admin", "audit"})
    /\ r.handler.checks \in Seq(400..503)
    /\ r.handler.operation \in Seq(CallTypes)
    /\ r.handler.answers \in [DOMAIN r.handler.answers -> 200..503]
    /\ r.handler.otherwise \in 200..503 /\ r.handler.ok \in 200..204

TypeOK ==
    /\ route \in Routes
    /\ stage \in {"body", "limit", "guards", "checks", "calls", "answer", "audit",
                  "sent", "lost"}
    /\ pos \in 0..(Len(route.guards) + Len(handler.checks) + Len(calls))
    /\ error \in {NoError} \union STRING
    /\ failed \in BOOLEAN /\ ignored \in BOOLEAN
    /\ changed \in BOOLEAN /\ audited \in BOOLEAN
    /\ status \in {0} \cup 200..503
    /\ row \in {"none", "written", "failed"}

Init ==
    /\ route \in Routes
    /\ stage = "body" /\ pos = 0
    /\ error = NoError /\ status = 0 /\ row = "none"
    /\ failed = FALSE /\ ignored = FALSE /\ changed = FALSE /\ audited = FALSE

\* The answer of a middleware or of a handler: the audit, if any, is next.
Reply(code) == status' = code /\ stage' = IF audited THEN "audit" ELSE "sent"
Enter(next) == stage' = next /\ pos' = 0

MaxBodySize ==
    /\ stage = "body"
    /\ \/ Enter("limit") /\ UNCHANGED status
       \/ Reply(413) /\ UNCHANGED pos
    /\ UNCHANGED <<route, error, failed, ignored, changed, audited, row>>

\* The probes, and what an administrator does once logged in.
SkipsLimit(r) ==
    \/ r.path \in {"/health", "/health/live", "/health/ready"}
    \/ r.guards # <<>> /\ Head(r.guards) = "admin"

\* It fails open.
GlobalLimit ==
    /\ stage = "limit"
    /\ \/ Enter("guards") /\ UNCHANGED status
       \/ ~SkipsLimit(route) /\ Reply(429) /\ UNCHANGED pos
    /\ UNCHANGED <<route, error, failed, ignored, changed, audited, row>>

-----------------------------------------------------------------------------
(* The middleware of the group.                                            *)

Guard(name) ==
    stage = "guards" /\ pos < Len(route.guards) /\ route.guards[pos + 1] = name

Pass == pos' = pos + 1 /\ UNCHANGED <<stage, status, failed>>
Deny(code) == Reply(code) /\ UNCHANGED <<pos, failed>>
\* The middleware could not decide.
DenyUndecided(code) == Reply(code) /\ failed' = TRUE /\ UNCHANGED pos

\* A mutant: a limiter that cannot count takes it for too many requests.
StrictLimitClosed ==
    /\ Guard("strict")
    /\ Pass \/ Deny(429) \/ DenyUndecided(429)
    /\ UNCHANGED <<route, error, ignored, changed, audited, row>>
StrictLimit ==
    /\ Guard("strict")
    /\ Pass \/ Deny(429) \/ DenyUndecided(503)
    /\ UNCHANGED <<route, error, ignored, changed, audited, row>>

\* A key that cannot be looked up is an invalid key.
RequireAPIKey ==
    /\ Guard("device")
    /\ Pass \/ Deny(401) \/ Deny(403) \/ DenyUndecided(401)
    /\ UNCHANGED <<route, error, ignored, changed, audited, row>>

RequireJWT ==
    /\ Guard("admin")
    /\ Pass \/ Deny(401) \/ DenyUndecided(401)
    /\ UNCHANGED <<route, error, ignored, changed, audited, row>>

\* A mutant: an allow-list without PATCH and DELETE.
AuditsPosts(method) == method \in {"POST", "PUT"}
Audits(method) == method \notin {"GET", "HEAD", "OPTIONS"}

AuditLog ==
    /\ Guard("audit")
    /\ Pass
    /\ audited' = Audits(route.method)
    /\ UNCHANGED <<route, error, ignored, changed, row>>

EnterHandler ==
    /\ stage = "guards" /\ pos = Len(route.guards)
    /\ Enter("checks")
    /\ UNCHANGED <<route, error, failed, ignored, changed, audited, status, row>>

-----------------------------------------------------------------------------
(* The handler and the operation it calls.                                 *)

CheckRequest ==
    /\ stage = "checks"
    /\ \/ /\ pos < Len(handler.checks)
          /\ \/ pos' = pos + 1 /\ UNCHANGED <<stage, status>>
             \/ Reply(handler.checks[pos + 1]) /\ UNCHANGED pos
       \/ pos = Len(handler.checks) /\ Enter("calls") /\ UNCHANGED status
    /\ UNCHANGED <<route, error, failed, ignored, changed, audited, row>>

Calling == stage = "calls" /\ pos < Len(calls)

Succeed ==
    /\ Calling
    /\ pos' = pos + 1
    /\ changed' = (changed \/ call.writes)
    /\ UNCHANGED <<route, stage, error, failed, ignored, audited, status, row>>

Skip ==
    /\ Calling
    /\ call.optional
    /\ pos' = pos + 1
    /\ UNCHANGED <<route, stage, error, failed, ignored, changed, audited, status, row>>

\* The call fails, which is logged at most.
PassOver ==
    /\ Calling
    /\ call.failure = Ignored
    /\ pos' = pos + 1
    /\ ignored' = TRUE
    /\ UNCHANGED <<route, stage, error, failed, changed, audited, status, row>>

Refuse ==
    /\ Calling
    /\ error' \in call.errors
    /\ stage' = "answer"
    /\ UNCHANGED <<route, pos, failed, ignored, changed, audited, status, row>>

Fail ==
    /\ Calling
    /\ call.failure \notin {NoError, Ignored}
    /\ error' = call.failure
    /\ failed' = TRUE
    /\ stage' = "answer"
    /\ UNCHANGED <<route, pos, ignored, changed, audited, status, row>>

Respond ==
    /\ \/ stage = "calls" /\ pos = Len(calls) /\ Reply(handler.ok)
       \/ stage = "answer" /\ Reply(Answer(handler, error))
    /\ UNCHANGED <<route, pos, error, failed, ignored, changed, audited, row>>

\* A mutant: a row that cannot be written fails the request.
WriteAuditRowOrFail ==
    /\ stage = "audit"
    /\ row' \in {"written", "failed"}
    /\ status' = IF row' = "failed" THEN 500 ELSE status
    /\ stage' = "sent"
    /\ UNCHANGED <<route, pos, error, failed, ignored, changed, audited>>
\* After the handler has answered; a row that cannot be written is logged.
WriteAuditRow ==
    /\ stage = "audit"
    /\ row' \in {"written", "failed"}
    /\ stage' = "sent"
    /\ UNCHANGED <<route, pos, error, failed, ignored, changed, audited, status>>

\* The process ends: no answer that is not out, no row that is not written.
Crash ==
    /\ stage \notin {"sent", "lost"}
    /\ stage' = "lost"
    /\ UNCHANGED <<route, pos, error, failed, ignored, changed, audited, status, row>>

Next ==
    \/ MaxBodySize \/ GlobalLimit
    \/ StrictLimit \/ RequireAPIKey \/ RequireJWT \/ AuditLog \/ EnterHandler
    \/ CheckRequest \/ Succeed \/ Skip \/ PassOver \/ Refuse \/ Fail \/ Respond
    \/ WriteAuditRow \/ Crash

Spec == Init /\ [][Next]_vars

-----------------------------------------------------------------------------
(* What the answers tell the caller.  Each exception is a place where the  *)
(* code answers otherwise than everywhere else.                            *)

\* Paths on which a failure is answered as a mistake of the caller.
Masked == {
    "/api/v1/premium/stripe/verify", "/api/v1/premium/stripe/web-verify",
    "/api/v1/premium/crypto/status", "/api/v1/premium/licenses/verify",
    "/api/v1/premium/stripe/cancel", "/api/v1/premium/restore",
    "/api/v1/premium/redeem", "/admin/v1/auth/login", "/admin/v1/admins",
    "/admin/v1/customers/:email", "/admin/v1/devices/:id"}

\* Paths on which what a failed query would have shown is zero or left out.
ShownAsZero == {
    "/health", "/api/v1/bugs/:id", "/api/v1/premium/license", "/api/v1/premium/devices",
    "/api/v1/premium/stripe/web-verify", "/admin/v1/bugs/:id", "/admin/v1/crashes/:id",
    "/admin/v1/product/stats", "/admin/v1/ratings/stats", "/admin/v1/assistant/stats",
    "/admin/v1/feedback/stats", "/admin/v1/analytics/stats", "/admin/v1/analytics/downloads",
    "/admin/v1/analytics/download-errors/stats", "/admin/v1/transactions/stats",
    "/admin/v1/transactions/:id", "/admin/v1/subscriptions/stats", "/admin/v1/subscriptions",
    "/admin/v1/customers", "/admin/v1/customers/:email", "/admin/v1/finance/revenue",
    "/admin/v1/search", "/admin/v1/premium/stats", "/admin/v1/dashboard/comprehensive",
    "/admin/v1/dashboard/brand-comparison", "/admin/v1/dashboard/trends",
    "/admin/v1/audit-logs", "/admin/v1/webhook-events", "/admin/v1/system/health"}

\* Paths on which a part of a change may fail, or a lookup before it, and the
\* rest of it is made all the same.
DoneWithout == {
    "/internal/ci/releases", "/api/v1/devices/register", "/api/v1/premium/web-restore",
    "/api/v1/premium/web-portal", "/api/v1/premium/web-restore-email",
    "/api/v1/premium/web-portal-email", "/admin/v1/auth/login", "/api/v1/crashes",
    "/api/v1/bugs", "/api/v1/tickets", "/api/v1/features/:id/vote",
    "/api/v1/analytics/events", "/api/v1/premium/stripe/checkout",
    "/api/v1/premium/stripe/verify", "/api/v1/premium/crypto/invoice",
    "/api/v1/premium/crypto/status", "/api/v1/premium/licenses/verify",
    "/api/v1/premium/restore", "/api/v1/assistant/sessions",
    "/api/v1/assistant/sessions/:id/messages", "/api/v1/assistant/sessions/:id/escalate",
    "/admin/v1/devices/:id", "/admin/v1/crash-groups/backfill-merge",
    "/admin/v1/transactions/:id/refund", "/admin/v1/admins/:id"}

Unnoticed == ShownAsZero \cup DoneWithout

EndsInServerError ==
    failed /\ status # 0 =>
        \/ status >= 500
        \/ status = 401 /\ error = NoError
        \/ route.path \in Masked
GoesOnWhereListed == ignored => route.path \in Unnoticed

\* A database, a Redis or a payment service that is down either ends the
\* operation, and the client is told to try again (5xx), or the operation goes
\* on without, on the paths just listed and on no other.  The exceptions to
\* the first are the paths above and the two middleware that take a lookup
\* that fails for a key or a token that is not there; the global limiter and
\* the caches, which do without Redis, are outside both.
OutageIsServerError == EndsInServerError /\ GoesOnWhereListed

\* Paths whose operation is several changes that are not one transaction.
Partial == {
    "/api/v1/devices/register", "/api/v1/crashes", "/api/v1/ratings",
    "/api/v1/premium/redeem", "/api/v1/premium/stripe/cancel",
    "/api/v1/premium/stripe/checkout", "/api/v1/premium/stripe/web-checkout",
    "/api/v1/premium/crypto/invoice", "/admin/v1/transactions/:id/refund",
    "/api/v1/tickets", "/api/v1/features/:id/vote", "/api/v1/assistant/sessions",
    "/api/v1/assistant/sessions/:id/messages",
    "/api/v1/assistant/sessions/:id/escalate", "/admin/v1/crashes/:id",
    "/admin/v1/crash-groups/:id", "/internal/ci/releases"}

\* A request that was answered with an error has changed nothing and can be
\* sent again, with the exceptions above.
ErrorsChangeNothing == status >= 400 /\ changed => route.path \in Partial

\* Of what an administrator has changed there is a row in the audit log, once
\* the request is answered and if the insert worked: AuditLog looks at the
\* method, and no route that changes something is a GET.
AdminChangesAudited ==
    stage = "sent" /\ changed /\ SkipsLimit(route) => row # "none"

-----------------------------------------------------------------------------
(* What the handlers and the operations of the table have to keep to, each *)
(* for itself, so that every request is answered as above.                 *)

\* A call that did not answer is answered with a server error.
NamesOutages(r) ==
    \A i \in DOMAIN r.handler.operation :
        LET failure == r.handler.operation[i].failure IN
        failure \notin {NoError, Ignored} => Answer(r.handler, failure) >= 500

\* No call that did not answer is passed over.
HeedsOutages(r) ==
    \A i \in DOMAIN r.handler.operation : r.handler.operation[i].failure # Ignored

\* What may refuse or fail comes before the first change.
ChangesLast(r) ==
    \A i, j \in DOMAIN r.handler.operation :
        LET earlier == r.handler.operation[i]
            later == r.handler.operation[j]
        IN  i < j /\ earlier.writes =>
                later.errors = {} /\ later.failure \in {NoError, Ignored}

Changes(r) == \E i \in DOMAIN r.handler.operation : r.handler.operation[i].writes
Audited(r) == \E i \in DOMAIN r.guards : r.guards[i] = "audit"

HttpApiAssumption ==
    \A r \in Routes :
        /\ RouteTypes(r)
        /\ r.path \in Masked \/ NamesOutages(r)
        /\ r.path \in Unnoticed \/ HeedsOutages(r)
        /\ r.path \in Partial \/ ChangesLast(r)
        /\ SkipsLimit(r) /\ Changes(r) => Audited(r) /\ r.method \in {"POST", "PATCH", "DELETE"}
=============================================================================
