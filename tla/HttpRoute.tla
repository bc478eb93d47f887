----------------------------- MODULE HttpRoute -----------------------------
(***************************************************************************)
(* The vocabulary of the HTTP interface.  An operation of a service is the *)
(* sequence of its calls; a handler is what it refuses before it calls the *)
(* operation and how it answers the errors the operation returns; a route  *)
(* is a method, a path, the middleware of its group and a handler.         *)
(***************************************************************************)
EXTENDS Naturals, Sequences, TLC

(***************************************************************************)
(* A call has an effect or none; it may find a reason to refuse, which it  *)
(* returns as one of "errors" before its effect; it may fail, which the    *)
(* operation returns as "failure".  "ignored": a failure is logged or not  *)
(* looked at, and the operation goes on.  "none": a comparison of what is  *)
(* at hand, which cannot fail.                                             *)
(***************************************************************************)
Internal == "internal"
NoError == "none"
Ignored == "ignored"

Call(errors, failure, writes, optional) ==
    [errors |-> errors, failure |-> failure, writes |-> writes, optional |-> optional]

Check(errors) == Call(errors, NoError, FALSE, FALSE)
Find(errors) == Call(errors, Internal, FALSE, FALSE)
Query == Find({})
\* A failed query is taken for a refusal.
FindElse(error) == Call({error}, error, FALSE, FALSE)
Save(errors) == Call(errors, Internal, TRUE, FALSE)
Write == Save({})
SaveElse(errors, error) == Call(errors, error, TRUE, FALSE)
\* A change whose failure is logged at most, and a query whose failure is
\* taken for an empty result.
Attempt == Call({}, Ignored, TRUE, FALSE)
Peek(errors) == Call(errors, Ignored, FALSE, FALSE)
\* Made only in some cases.
Maybe(call) == [call EXCEPT !.optional = TRUE]

\* Lists, counters and reports: queries whose failure is returned, or shown
\* as zeros.
Report == <<Query>>
BestEffortReport == <<Peek({})>>

(***************************************************************************)
(* A handler.  "checks" are the statuses of its refusals, in order; an     *)
(* error that "answers" does not name is answered "otherwise".             *)
(***************************************************************************)
Handler(checks, operation, answers, otherwise, ok) ==
    [checks |-> checks, operation |-> operation, answers |-> answers,
     otherwise |-> otherwise, ok |-> ok]

Unnamed == [e \in {} |-> 500]
Handle(checks, operation, answers) == Handler(checks, operation, answers, 500, 200)
Create(checks, operation, answers) == Handler(checks, operation, answers, 500, 201)
Show(operation) == Handle(<<>>, operation, Unnamed)

Answer(h, e) == IF e \in DOMAIN h.answers THEN h.answers[e] ELSE h.otherwise

Route(guards, method, path, handler) ==
    [guards |-> guards, method |-> method, path |-> path, handler |-> handler]

Get(guards, path, handler) == Route(guards, "GET", path, handler)
Post(guards, path, handler) == Route(guards, "POST", path, handler)
Patch(guards, path, handler) == Route(guards, "PATCH", path, handler)
Delete(guards, path, handler) == Route(guards, "DELETE", path, handler)
=============================================================================
