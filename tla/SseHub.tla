------------------------------- MODULE SseHub -------------------------------
(***************************************************************************)
(* The hub that hands events to the streams of one topic.  A publication   *)
(* walks through the subscribers with the lock held for reading and never  *)
(* waits: an event is dropped for a stream whose buffer is full.  A stream *)
(* that its client has left is taken out, and its channel closed, with the *)
(* lock held for writing.                                                  *)
(***************************************************************************)
EXTENDS Naturals, FiniteSets, Sequences

CONSTANTS
    Stream, Event,   \* each event is published once
    Buffer,          \* of a channel
    MaxSubscribers   \* MaxSubscribersPerTopic

SseHubAssumption == IsFiniteSet(Stream) /\ Buffer \in Nat /\ MaxSubscribers \in Nat

VARIABLES
    stream,     \* "none" | "open" | "closed" | "refused"
    buffer,     \* the channel of each stream
    written,    \* the events a stream has written to its client
    event,      \* "new" | "publishing" | "published"
    todo,       \* streams that a publication still has to offer its event
    dropped,    \* <<stream, event>> dropped at a full buffer
    missed,     \* <<stream, event>>: not subscribed when it was published
    panicked    \* an event was sent on a closed channel

vars == <<stream, buffer, written, event, todo, dropped, missed, panicked>>

Init ==
    /\ stream = [s \in Stream |-> "none"] /\ buffer = [s \in Stream |-> <<>>]
    /\ written = [s \in Stream |-> <<>>]
    /\ event = [e \in Event |-> "new"] /\ todo = [e \in Event |-> {}]
    /\ dropped = {} /\ missed = {} /\ panicked = FALSE

Subscribers == {s \in Stream : stream[s] = "open"}
Reading == \E e \in Event : event[e] = "publishing"   \* the lock is held

\* At the limit StreamHandler answers nothing and its caller 429.
Subscribe(s) ==
    /\ stream[s] = "none" /\ ~Reading
    /\ stream' = [stream EXCEPT ![s] =
          IF Cardinality(Subscribers) >= MaxSubscribers THEN "refused" ELSE "open"]
    /\ UNCHANGED <<buffer, written, event, todo, dropped, missed, panicked>>

\* The same without the lock.
UnsubscribeUnlocked(s) ==
    /\ stream[s] = "open"
    /\ stream' = [stream EXCEPT ![s] = "closed"]
    /\ UNCHANGED <<buffer, written, event, todo, dropped, missed, panicked>>

\* The client has gone: delete and close.
Unsubscribe(s) ==
    /\ stream[s] = "open" /\ ~Reading
    /\ stream' = [stream EXCEPT ![s] = "closed"]
    /\ UNCHANGED <<buffer, written, event, todo, dropped, missed, panicked>>

Publish(e) ==
    /\ event[e] = "new"
    /\ event' = [event EXCEPT ![e] = "publishing"]
    /\ todo' = [todo EXCEPT ![e] = Subscribers]
    /\ missed' = missed \union ((Stream \ Subscribers) \X {e})
    /\ UNCHANGED <<stream, buffer, written, dropped, panicked>>

\* The map is walked in any order.
Offer(e, s) ==
    /\ s \in todo[e] /\ todo' = [todo EXCEPT ![e] = @ \ {s}]
    /\ \/ stream[s] = "closed" /\ panicked' = TRUE /\ UNCHANGED <<buffer, dropped>>
       \/ /\ stream[s] = "open" /\ Len(buffer[s]) < Buffer
          /\ buffer' = [buffer EXCEPT ![s] = Append(@, e)] /\ UNCHANGED <<dropped, panicked>>
       \/ /\ stream[s] = "open" /\ Len(buffer[s]) = Buffer
          /\ dropped' = dropped \union {<<s, e>>} /\ UNCHANGED <<buffer, panicked>>
    /\ UNCHANGED <<stream, written, event, missed>>

EndPublish(e) ==
    /\ event[e] = "publishing" /\ todo[e] = {}
    /\ event' = [event EXCEPT ![e] = "published"]
    /\ UNCHANGED <<stream, buffer, written, todo, dropped, missed, panicked>>

\* The loop of StreamHandler.
WriteEvent(s) ==
    /\ stream[s] = "open" /\ buffer[s] # <<>>
    /\ written' = [written EXCEPT ![s] = Append(@, Head(buffer[s]))]
    /\ buffer' = [buffer EXCEPT ![s] = Tail(@)]
    /\ UNCHANGED <<stream, event, todo, dropped, missed, panicked>>

Next ==
    \/ \E s \in Stream : Subscribe(s) \/ Unsubscribe(s) \/ WriteEvent(s)
    \/ \E e \in Event : Publish(e) \/ EndPublish(e) \/ \E s \in Stream : Offer(e, s)

Spec == Init /\ [][Next]_vars

-----------------------------------------------------------------------------

\* Every variable has its type.
TypeOK ==
    /\ stream \in [Stream -> {"none", "open", "closed", "refused"}]
    /\ \A s \in Stream : Len(buffer[s]) <= Buffer
    /\ event \in [Event -> {"new", "publishing", "published"}]
    /\ todo \in [Event -> SUBSET Stream]
    /\ dropped \subseteq Stream \X Event /\ missed \subseteq Stream \X Event
    /\ panicked \in BOOLEAN

\* "Thread-safe for concurrent access": no publication sends on a channel that is
\* closed, the streams of a topic stay within their limit, and an open stream has
\* once, written or still in its buffer, every event of which the publication
\* found it subscribed and with room.
Delivery ==
    /\ ~panicked
    /\ Cardinality(Subscribers) <= MaxSubscribers
    /\ \A s \in Subscribers, e \in Event :
          event[e] = "published" /\ <<s, e>> \notin dropped \union missed =>
             Cardinality({i \in DOMAIN (written[s] \o buffer[s]) : (written[s] \o buffer[s])[i] = e}) = 1
=============================================================================
