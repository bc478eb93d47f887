------------------------------ MODULE AuthKeys ------------------------------
(***************************************************************************)
(* The API keys of one device: rows in the database, copies of them in     *)
(* Redis for five minutes, and the flag that deactivates the device, part  *)
(* of both.  A registration rotates the key, a heartbeat and the console   *)
(* write the device, the console and a job revoke keys.                    *)
(***************************************************************************)
EXTENDS Naturals

CONSTANTS
    Key, Worker,   \* keys that may be generated; requests in flight
    Ttl,           \* of a cached key
    Cooldown,      \* between two registrations
    MaxTime,       \* bound: the clock
    Never, NoKey

AuthKeysAssumption ==
    /\ Ttl \in Nat \ {0} /\ Cooldown \in Nat /\ MaxTime \in Nat
    /\ Never \notin Nat

VARIABLES
    now,
    active,        \* is_active of the device
    key,           \* the life of each key
    cached,        \* the end of the copy of a key in Redis
    cooldown,      \* the end of register_cooldown
    pc, uses,      \* what a request does next; the key it has read
    copy,          \* is_active as the request has read it
    lastValid,     \* when a key was last read, and good, in the database
    stale          \* keys accepted when no copy of them could be left

vars == <<now, active, key, cached, cooldown, pc, uses, copy, lastValid, stale>>

Init ==
    /\ now = 0 /\ active = TRUE
    /\ key = [k \in Key |-> "none"] /\ cached = [k \in Key |-> Never]
    /\ cooldown = 0
    /\ pc = [w \in Worker |-> "idle"] /\ uses = [w \in Worker |-> NoKey]
    /\ copy = [w \in Worker |-> TRUE]
    /\ lastValid = [k \in Key |-> Never] /\ stale = {}

Good(k) == key[k] = "valid" /\ active
Step(w, from, to) == pc[w] = from /\ pc' = [pc EXCEPT ![w] = to]

-----------------------------------------------------------------------------
(* RequireAPIKey.                                                          *)

\* A request is let in with key k.
Accept(k) ==
    stale' = IF now >= lastValid[k] + Ttl THEN stale \union {k} ELSE stale

\* A hit that puts the copy back for another five minutes.
FromCacheRenewing(w, k) ==
    /\ pc[w] = "idle" /\ cached[k] # Never /\ key[k] # "expired"
    /\ cached' = [cached EXCEPT ![k] = now + Ttl]
    /\ Accept(k)
    /\ UNCHANGED <<now, active, key, cooldown, pc, uses, copy, lastValid>>

\* A copy is in the cache: its expiry is checked, its TTL is left.
FromCache(w, k) ==
    /\ pc[w] = "idle" /\ cached[k] # Never /\ key[k] # "expired"
    /\ Accept(k)
    /\ UNCHANGED <<now, active, key, cached, cooldown, pc, uses, copy, lastValid>>

FindByHash(w, k) ==
    /\ cached[k] = Never /\ Good(k) /\ Step(w, "idle", "fill")
    /\ uses' = [uses EXCEPT ![w] = k] /\ lastValid' = [lastValid EXCEPT ![k] = now]
    /\ UNCHANGED <<now, active, key, cached, cooldown, copy, stale>>

\* What was read before a revocation may be cached after it.  Redis may fail.
SetCache(w) ==
    /\ Step(w, "fill", "idle")
    /\ \/ cached' = [cached EXCEPT ![uses[w]] = now + Ttl]
       \/ UNCHANGED cached
    /\ Accept(uses[w])
    /\ uses' = [uses EXCEPT ![w] = NoKey]
    /\ UNCHANGED <<now, active, key, cooldown, copy, lastValid>>

-----------------------------------------------------------------------------
(* RegisterDevice of a device that is known.                               *)

\* The cooldown is looked for, then set.
RegisterDevice(w) ==
    /\ now >= cooldown /\ Step(w, "idle", "cooldown")
    /\ UNCHANGED <<now, active, key, cached, cooldown, uses, copy, lastValid, stale>>

\* "Deactivated devices cannot re-register".
FindDevice(w) ==
    /\ Step(w, "cooldown", IF active THEN "update" ELSE "idle")
    /\ cooldown' = now + Cooldown
    /\ copy' = [copy EXCEPT ![w] = active]
    /\ UNCHANGED <<now, active, key, cached, uses, lastValid, stale>>

\* Save writes all fields, is_active as it was read.  With a key that is still
\* good the cache is emptied first, without one the keys are revoked first.
UpdateDeviceInfo(w) ==
    /\ \/ (\E k \in Key : key[k] = "valid") /\ Step(w, "update", "invalidate, revoke")
       \/ (\A k \in Key : key[k] # "valid") /\ Step(w, "update", "revoke, invalidate")
    /\ active' = copy[w] /\ copy' = [copy EXCEPT ![w] = TRUE]
    /\ UNCHANGED <<now, key, cached, cooldown, uses, lastValid, stale>>

\* Only keys that are not revoked are looked up and dropped from the cache.
Invalidated == [k \in Key |-> IF key[k] = "valid" THEN Never ELSE cached[k]]
\* The failure is logged.
Revoke == key' \in {key, [k \in Key |-> IF key[k] = "valid" THEN "revoked" ELSE key[k]]}

InvalidateCacheForDevice(w) ==
    /\ \/ Step(w, "invalidate, revoke", "revoke") \/ Step(w, "invalidate", "generate")
    /\ cached' = Invalidated
    /\ UNCHANGED <<now, active, key, cooldown, uses, copy, lastValid, stale>>

RevokeAllForDevice(w) ==
    /\ \/ Step(w, "revoke, invalidate", "invalidate") \/ Step(w, "revoke", "generate")
    /\ Revoke
    /\ UNCHANGED <<now, active, cached, cooldown, uses, copy, lastValid, stale>>

GenerateAPIKey(w) ==
    /\ Step(w, "generate", "idle")
    /\ \/ \E k \in Key : key[k] = "none" /\ key' = [key EXCEPT ![k] = "valid"]
       \/ UNCHANGED key
    /\ UNCHANGED <<now, active, cached, cooldown, uses, copy, lastValid, stale>>

-----------------------------------------------------------------------------

\* Heartbeat and UpdateDevice read the row, then Save it.
ReadDevice(w) ==
    /\ \/ Step(w, "idle", "heartbeat") \/ Step(w, "idle", "console")
    /\ copy' = [copy EXCEPT ![w] = active]
    /\ UNCHANGED <<now, active, key, cached, cooldown, uses, lastValid, stale>>

Heartbeat(w) ==
    /\ Step(w, "heartbeat", "idle")
    /\ active' = copy[w] /\ copy' = [copy EXCEPT ![w] = TRUE]
    /\ UNCHANGED <<now, key, cached, cooldown, uses, lastValid, stale>>

UpdateDevice(w) ==
    /\ Step(w, "console", "drop")
    /\ active' \in BOOLEAN   \* copy[w] when the request edits the tier
    /\ copy' = [copy EXCEPT ![w] = TRUE]
    /\ UNCHANGED <<now, key, cached, cooldown, uses, lastValid, stale>>

DropCache(w) ==
    /\ Step(w, "drop", "idle")
    /\ cached' = Invalidated
    /\ UNCHANGED <<now, active, key, cooldown, uses, copy, lastValid, stale>>

\* RevokeApiKey and revokeIdleAPIKeys leave the cache alone.
RevokeApiKey(k) ==
    /\ key[k] = "valid" /\ key' = [key EXCEPT ![k] = "revoked"]
    /\ UNCHANGED <<now, active, cached, cooldown, pc, uses, copy, lastValid, stale>>

KeyExpires(k) ==
    /\ key[k] = "valid" /\ key' = [key EXCEPT ![k] = "expired"]
    /\ UNCHANGED <<now, active, cached, cooldown, pc, uses, copy, lastValid, stale>>

\* A request takes less than a tick.
Tick ==
    /\ now < MaxTime /\ \A w \in Worker : pc[w] = "idle"
    /\ now' = now + 1
    /\ cached' = [k \in Key |-> IF cached[k] = now' THEN Never ELSE cached[k]]
    /\ UNCHANGED <<active, key, cooldown, pc, uses, copy, lastValid, stale>>

Next ==
    \/ \E w \in Worker :
          \/ \E k \in Key : FromCache(w, k) \/ FindByHash(w, k)
          \/ SetCache(w) \/ RegisterDevice(w) \/ FindDevice(w) \/ UpdateDeviceInfo(w)
          \/ InvalidateCacheForDevice(w) \/ RevokeAllForDevice(w) \/ GenerateAPIKey(w)
          \/ ReadDevice(w) \/ Heartbeat(w) \/ UpdateDevice(w) \/ DropCache(w)
    \/ \E k \in Key : RevokeApiKey(k) \/ KeyExpires(k)
    \/ Tick

Spec == Init /\ [][Next]_vars

-----------------------------------------------------------------------------

Time == Nat \union {Never}
Steps == {"idle", "fill", "cooldown", "update", "invalidate, revoke", "revoke, invalidate",
          "invalidate", "revoke", "generate", "heartbeat", "console", "drop"}

\* Every variable has its type.
TypeOK ==
    /\ now \in 0 .. MaxTime /\ active \in BOOLEAN
    /\ key \in [Key -> {"none", "valid", "revoked", "expired"}]
    /\ cached \in [Key -> Time] /\ cooldown \in Nat
    /\ pc \in [Worker -> Steps] /\ uses \in [Worker -> Key \union {NoKey}]
    /\ copy \in [Worker -> BOOLEAN] /\ lastValid \in [Key -> Time] /\ stale \subseteq Key

\* "Cache for 5 minutes": a key is let in for at most that long after it was last
\* good in the database, whoever revoked it, and whatever was cached late.
StaleBounded == stale = {}
=============================================================================
