----------------------------- MODULE MagicLink -----------------------------
(***************************************************************************)
(* Links that restore a licence or open its billing portal, mailed to the  *)
(* address of one licence: the limit on the mails of an address and the    *)
(* single use of a link, both counted in Redis, whose keys expire.         *)
(***************************************************************************)
EXTENDS Naturals

CONSTANTS
    Token,        \* one for each request for a link
    Redemption,
    Ttl,          \* TTLMinutes, of a token and of its key
    Window,       \* emailRateLimitWindow
    RateMax,      \* emailRateLimitMax
    MaxTime,      \* bound: the clock
    Never         \* no time

MagicLinkAssumption ==
    /\ Ttl \in Nat \ {0} /\ Window \in Nat \ {0} /\ RateMax \in Nat \ {0} /\ MaxTime \in Nat
    /\ Never \notin Nat

VARIABLES
    now,
    active,     \* the licence is premium, not cancelled, not expired
    hits,       \* the counter of the address: its value, the end of its window
    issuer,     \* the background task of each request for a link
    issuedAt,   \* when the link was mailed
    spentUntil, \* the end of the key that marks a token as used
    pc, token,  \* redemptions
    granted,    \* how often a token was answered with a key or a portal
    crashed     \* a crash left the counter without an end

vars == <<now, active, hits, issuer, issuedAt, spentUntil, pc, token, granted, crashed>>
mails == <<hits, issuer, issuedAt, crashed>>
redemptions == <<spentUntil, pc, token, granted>>

Init ==
    /\ now = 0 /\ active = TRUE
    /\ hits = [n |-> 0, until |-> Never]
    /\ issuer = [t \in Token |-> "idle"] /\ issuedAt = [t \in Token |-> Never]
    /\ spentUntil = [t \in Token |-> Never]
    /\ pc = [r \in Redemption |-> "idle"] /\ token \in [Redemption -> Token]
    /\ granted = [t \in Token |-> 0] /\ crashed = FALSE

-----------------------------------------------------------------------------
(* A link is asked for: every request is answered "sent" and goes on in    *)
(* the background.                                                         *)

Issuer(t, from, to) == issuer[t] = from /\ issuer' = [issuer EXCEPT ![t] = to]

IssueMagicLink(t) ==
    /\ Issuer(t, "idle", "count")
    /\ UNCHANGED <<now, active, hits, issuedAt, crashed, redemptions>>

\* Incr, then Expire at the first hit of a window.
CountHit(t) ==
    /\ hits' = [hits EXCEPT !.n = @ + 1]
    /\ Issuer(t, "count", IF hits'.n = 1 THEN "expire"
                          ELSE IF hits'.n > RateMax THEN "refused" ELSE "send")
    /\ UNCHANGED <<now, active, issuedAt, crashed, redemptions>>

SetWindow(t) ==
    /\ Issuer(t, "expire", "send")
    /\ hits' = [hits EXCEPT !.until = now + Window]
    /\ UNCHANGED <<now, active, issuedAt, crashed, redemptions>>

\* A link that restores is for a licence that is active.  The lookup for a link
\* to the portal asks for tier and customer only, so that one is mailed for a
\* licence that is cancelled or expired too.  The lookup or the mail may fail.
SignAndSend(t) ==
    /\ \/ /\ Issuer(t, "send", "sent")
          /\ issuedAt' = [issuedAt EXCEPT ![t] = now]
       \/ Issuer(t, "send", "refused") /\ UNCHANGED issuedAt
    /\ UNCHANGED <<now, active, hits, crashed, redemptions>>

\* A background task dies with the server, or Redis refuses.
IssuerDies(t) ==
    /\ issuer[t] \in {"count", "expire", "send"}
    /\ issuer' = [issuer EXCEPT ![t] = "refused"]
    /\ crashed' = (crashed \/ issuer[t] = "expire")
    /\ UNCHANGED <<now, active, hits, issuedAt, redemptions>>

-----------------------------------------------------------------------------
(* A link is redeemed.                                                     *)

Valid(t) == issuedAt[t] # Never /\ now < issuedAt[t] + Ttl

VerifyToken(r, t) ==
    /\ pc[r] = "idle" /\ Valid(t)
    /\ pc' = [pc EXCEPT ![r] = "verified"] /\ token' = [token EXCEPT ![r] = t]
    /\ UNCHANGED <<now, active, mails, spentUntil, granted>>

Unspent(t) == spentUntil[t] = Never

\* GET and SET in two steps would let two redemptions pass.
MarkSpentUnasked(r) ==
    /\ pc[r] = "verified"
    /\ spentUntil' = [spentUntil EXCEPT ![token[r]] = now + Ttl]
    /\ pc' = [pc EXCEPT ![r] = "spent"]
    /\ UNCHANGED <<now, active, mails, token, granted>>

\* SETNX; a token that is marked is answered 410.
MarkSpent(r) ==
    /\ pc[r] = "verified"
    /\ \/ /\ Unspent(token[r])
          /\ spentUntil' = [spentUntil EXCEPT ![token[r]] = now + Ttl]
          /\ pc' = [pc EXCEPT ![r] = "spent"]
       \/ /\ ~Unspent(token[r])
          /\ pc' = [pc EXCEPT ![r] = "idle"] /\ UNCHANGED spentUntil
    /\ UNCHANGED <<now, active, mails, token, granted>>

\* The licence is read again; the portal of Stripe may fail.
Redeem(r) ==
    /\ pc[r] = "spent"
    /\ pc' = [pc EXCEPT ![r] = "idle"]
    /\ \/ active /\ granted' = [granted EXCEPT ![token[r]] = @ + 1]
       \/ UNCHANGED granted
    /\ UNCHANGED <<now, active, mails, spentUntil, token>>

LicenseChanges ==
    /\ active' = ~active
    /\ UNCHANGED <<now, mails, redemptions>>

\* Redis drops the keys whose end has come.  A redemption marks its token
\* in the tick in which it verified it.
Tick ==
    /\ now < MaxTime /\ \A r \in Redemption : pc[r] # "verified"
    /\ now' = now + 1
    /\ hits' = IF hits.until = now' THEN [n |-> 0, until |-> Never] ELSE hits
    /\ spentUntil' = [t \in Token |-> IF spentUntil[t] = now' THEN Never ELSE spentUntil[t]]
    /\ UNCHANGED <<active, issuer, issuedAt, crashed, pc, token, granted>>

Next ==
    \/ \E t \in Token :
          \/ IssueMagicLink(t) \/ CountHit(t) \/ SetWindow(t) \/ SignAndSend(t)
          \/ IssuerDies(t)
          \/ \E r \in Redemption : VerifyToken(r, t)
    \/ \E r \in Redemption : MarkSpent(r) \/ Redeem(r)
    \/ LicenseChanges \/ Tick

Spec == Init /\ [][Next]_vars

-----------------------------------------------------------------------------

Time == 0 .. MaxTime
\* Every variable has its type.
TypeOK ==
    /\ now \in Time /\ active \in BOOLEAN /\ crashed \in BOOLEAN
    /\ hits \in [n : Nat, until : Nat \union {Never}]
    /\ issuer \in [Token -> {"idle", "count", "expire", "send", "sent", "refused"}]
    /\ issuedAt \in [Token -> Time \union {Never}]
    /\ spentUntil \in [Token -> Nat \union {Never}]
    /\ pc \in [Redemption -> {"idle", "verified", "spent"}]
    /\ token \in [Redemption -> Token] /\ granted \in [Token -> Nat]

\* "Concurrent redemptions of the same token result in exactly one success", and
\* none succeeds after the key that marks the token has gone.
SingleUse == \A t \in Token : granted[t] <= 1

\* Only a crash between Incr and Expire leaves an address counted for ever.
CounterEnds ==
    hits.n > 0 /\ hits.until = Never => crashed \/ \E t \in Token : issuer[t] = "expire"
=============================================================================
