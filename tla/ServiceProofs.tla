---------------------------- MODULE ServiceProofs ----------------------------
(***************************************************************************)
(* Proofs about the other parts that MCParts puts side by side, for any    *)
(* number of rows, requests and streams, any times and any limits.         *)
(***************************************************************************)
EXTENDS LicenseProofs, SequenceTheorems

-----------------------------------------------------------------------------
(* API keys and the copies of them in Redis.  A copy is written in the     *)
(* tick in which its key was last read in the database, and Redis drops it *)
(* when its time is over; whatever revokes the key meanwhile, or drops     *)
(* copies of it, can only end it earlier.                                  *)

\* A copy of a key is dropped before its time since the key was last read, and
\* good, in the database is over.
CopyBounded ==
    \A kk \in Thing : cached[kk] # Never =>
        /\ lastValid[kk] # Never
        /\ now < cached[kk] /\ cached[kk] <= lastValid[kk] + KeyTtl

\* What a request is about to cache it has read in this tick.
FillIsFresh ==
    \A wor \in Actor : pc[wor] = "fill" => uses[wor] \in Thing /\ lastValid[uses[wor]] = now

AuthInv == Auth!TypeOK /\ CopyBounded /\ FillIsFresh /\ Auth!StaleBounded

LEMMA AuthInit == ASSUME Auth!AuthKeysAssumption PROVE Auth!Init => AuthInv
  <1> SUFFICES ASSUME Auth!Init PROVE AuthInv
    OBVIOUS
  <1>1. Auth!TypeOK
    BY DEF Auth!Init, Auth!TypeOK, Auth!AuthKeysAssumption, Auth!Time, Auth!Steps
  <1>2. CopyBounded /\ FillIsFresh /\ Auth!StaleBounded
    BY DEF Auth!Init, CopyBounded, FillIsFresh, Auth!StaleBounded
  <1> QED
    BY <1>1, <1>2 DEF AuthInv

\* A step that caches nothing and lets no request in: at most copies go.
LEMMA AuthQuiet ==
    ASSUME AuthInv, NEW wor \in Actor, NEW step \in Auth!Steps \ {"fill"},
           pc' = [pc EXCEPT ![wor] = step],
           cached' \in {cached, Auth!Invalidated},
           UNCHANGED <<now, uses, lastValid, stale>>,
           active' \in BOOLEAN, cooldown' \in Nat, copy' \in [Actor -> BOOLEAN],
           key' \in [Thing -> {"none", "valid", "revoked", "expired"}]
    PROVE  AuthInv'
  <1> USE DEF AuthInv
  <1>1. /\ cached' \in [Thing -> Auth!Time]
        /\ \A kk \in Thing : cached'[kk] \in {cached[kk], Never}
    BY DEF Auth!Invalidated, Auth!TypeOK, Auth!Time
  <1>2. Auth!TypeOK'
    BY <1>1 DEF Auth!TypeOK
  <1>3. CopyBounded'
    BY <1>1 DEF CopyBounded
  <1>4. FillIsFresh' /\ Auth!StaleBounded'
    BY DEF FillIsFresh, Auth!StaleBounded, Auth!TypeOK
  <1> QED
    BY <1>2, <1>3, <1>4

\* A request is let in by a copy of its key, or reads it in the database.
LEMMA RequestStep ==
    ASSUME Auth!AuthKeysAssumption, AuthInv, NEW wor \in Actor, NEW kk \in Thing,
           Auth!FromCache(wor, kk) \/ Auth!FindByHash(wor, kk)
    PROVE  AuthInv'
  <1> USE DEF AuthInv
  <1>0. now \in Nat /\ KeyTtl \in Nat /\ KeyTtl > 0 /\ Never \notin Nat
    BY DEF Auth!TypeOK, Auth!AuthKeysAssumption
  <1>1. CASE Auth!FromCache(wor, kk)
    <2>1. /\ cached[kk] \in Nat /\ lastValid[kk] \in Nat
          /\ now < cached[kk] /\ cached[kk] <= lastValid[kk] + KeyTtl
      BY <1>1 DEF Auth!FromCache, CopyBounded, Auth!TypeOK, Auth!Time
    <2>2. ~(now >= lastValid[kk] + KeyTtl)
      BY <1>0, <2>1
    <2>3. UNCHANGED Auth!vars
      BY <1>1, <2>2 DEF Auth!FromCache, Auth!Accept, Auth!vars
    <2> QED
      BY <2>3 DEF Auth!vars, Auth!TypeOK, CopyBounded, FillIsFresh, Auth!StaleBounded
  <1>2. CASE Auth!FindByHash(wor, kk)
    <2>1. /\ pc' = [pc EXCEPT ![wor] = "fill"] /\ uses' = [uses EXCEPT ![wor] = kk]
          /\ lastValid' = [lastValid EXCEPT ![kk] = now] /\ cached[kk] = Never
          /\ UNCHANGED <<now, active, key, cached, cooldown, copy, stale>>
      BY <1>2 DEF Auth!FindByHash, Auth!Step
    <2>2. Auth!TypeOK'
      BY <1>0, <2>1 DEF Auth!TypeOK, Auth!Time, Auth!Steps
    <2>3. CopyBounded' /\ FillIsFresh' /\ Auth!StaleBounded'
      BY <2>1 DEF Auth!TypeOK, CopyBounded, FillIsFresh, Auth!StaleBounded
    <2> QED
      BY <2>2, <2>3
  <1> QED
    BY <1>1, <1>2

\* What was read in the database is cached for as long as a copy may live.
LEMMA FillStep ==
    ASSUME Auth!AuthKeysAssumption, AuthInv, NEW wor \in Actor, Auth!SetCache(wor)
    PROVE  AuthInv'
  <1> USE DEF AuthInv
  <1> DEFINE kk == uses[wor]
  <1>0. now \in Nat /\ KeyTtl \in Nat /\ KeyTtl > 0 /\ Never \notin Nat
    BY DEF Auth!TypeOK, Auth!AuthKeysAssumption
  <1>1. kk \in Thing /\ lastValid[kk] = now
    BY DEF Auth!SetCache, Auth!Step, FillIsFresh
  <1>2. ~(now >= lastValid[kk] + KeyTtl)
    BY <1>0, <1>1
  <1>3. /\ pc' = [pc EXCEPT ![wor] = "idle"] /\ uses' = [uses EXCEPT ![wor] = Nothing]
        /\ cached' \in {cached, [cached EXCEPT ![kk] = now + KeyTtl]}
        /\ UNCHANGED <<now, active, key, cooldown, copy, lastValid, stale>>
    BY <1>2 DEF Auth!SetCache, Auth!Step, Auth!Accept
  <1>4. now + KeyTtl \in Auth!Time
    BY <1>0 DEF Auth!Time
  <1>5. Auth!TypeOK'
    BY <1>1, <1>3, <1>4 DEF Auth!TypeOK, Auth!Steps
  <1>6. CopyBounded'
    <2> SUFFICES ASSUME NEW oth \in Thing, cached'[oth] # Never
                 PROVE  /\ lastValid[oth] # Never
                        /\ now < cached'[oth] /\ cached'[oth] <= lastValid[oth] + KeyTtl
      BY <1>3 DEF CopyBounded
    <2>1. CASE cached'[oth] = cached[oth]
      BY <2>1 DEF CopyBounded
    <2>2. CASE oth = kk /\ cached'[oth] = now + KeyTtl
      BY <1>0, <1>1, <2>2
    <2> QED
      BY <1>3, <2>1, <2>2 DEF Auth!TypeOK
  <1>7. FillIsFresh' /\ Auth!StaleBounded'
    BY <1>3 DEF FillIsFresh, Auth!StaleBounded, Auth!TypeOK
  <1> QED
    BY <1>5, <1>6, <1>7

\* Redis drops the copies whose time has come; no request is at work.
LEMMA AuthTick == ASSUME Auth!AuthKeysAssumption, AuthInv, Auth!Tick PROVE AuthInv'
  <1> USE DEF AuthInv
  <1>0. now \in Nat /\ KeyMaxTime \in Nat /\ now < KeyMaxTime /\ Never \notin Nat
    BY DEF Auth!Tick, Auth!TypeOK, Auth!AuthKeysAssumption
  <1>1. /\ now' = now + 1 /\ UNCHANGED <<active, key, cooldown, pc, uses, copy, lastValid, stale>>
        /\ cached' = [kk \in Thing |-> IF cached[kk] = now + 1 THEN Never ELSE cached[kk]]
        /\ \A wor \in Actor : pc[wor] = "idle"
    BY DEF Auth!Tick
  <1>2. Auth!TypeOK'
    BY <1>0, <1>1 DEF Auth!TypeOK, Auth!Time
  <1>3. CopyBounded'
    <2> SUFFICES ASSUME NEW kk \in Thing, cached'[kk] # Never
                 PROVE  /\ lastValid[kk] # Never
                        /\ now' < cached'[kk] /\ cached'[kk] <= lastValid[kk] + KeyTtl
      BY <1>1 DEF CopyBounded
    <2>1. cached'[kk] = cached[kk] /\ cached[kk] # now + 1 /\ cached[kk] \in Nat
      BY <1>1 DEF Auth!TypeOK, Auth!Time
    <2> QED
      BY <1>0, <1>1, <2>1 DEF CopyBounded
  <1>4. FillIsFresh' /\ Auth!StaleBounded'
    BY <1>1 DEF FillIsFresh, Auth!StaleBounded
  <1> QED
    BY <1>2, <1>3, <1>4

LEMMA AuthStep ==
    ASSUME Auth!AuthKeysAssumption, AuthInv, [Auth!Next]_Auth!vars
    PROVE  AuthInv'
  <1> USE DEF Auth!Step
  <1>0. /\ now \in Nat /\ KeyCooldown \in Nat /\ active \in BOOLEAN /\ cooldown \in Nat
        /\ copy \in [Actor -> BOOLEAN]
        /\ key \in [Thing -> {"none", "valid", "revoked", "expired"}]
    BY DEF AuthInv, Auth!TypeOK, Auth!AuthKeysAssumption
  <1>1. ASSUME NEW wor \in Actor,
               \/ Auth!RegisterDevice(wor) \/ Auth!FindDevice(wor) \/ Auth!UpdateDeviceInfo(wor)
               \/ Auth!InvalidateCacheForDevice(wor)
        PROVE  AuthInv'
    <2>1. PICK step \in Auth!Steps \ {"fill"} : pc' = [pc EXCEPT ![wor] = step]
      <3>1. CASE Auth!RegisterDevice(wor)
        BY <3>1 DEF Auth!Steps, Auth!RegisterDevice
      <3>2. CASE Auth!FindDevice(wor)
        BY <3>2 DEF Auth!Steps, Auth!FindDevice
      <3>3. CASE Auth!UpdateDeviceInfo(wor)
        BY <3>3 DEF Auth!Steps, Auth!UpdateDeviceInfo
      <3>4. CASE Auth!InvalidateCacheForDevice(wor)
        BY <3>4 DEF Auth!Steps, Auth!InvalidateCacheForDevice
      <3> QED
        BY <1>1, <3>1, <3>2, <3>3, <3>4
    <2>2. /\ cached' \in {cached, Auth!Invalidated} /\ UNCHANGED <<now, uses, lastValid, stale>>
          /\ active' \in BOOLEAN /\ cooldown' \in Nat /\ copy' \in [Actor -> BOOLEAN]
          /\ key' \in [Thing -> {"none", "valid", "revoked", "expired"}]
      <3>1. CASE Auth!RegisterDevice(wor)
        BY <1>0, <3>1 DEF Auth!RegisterDevice
      <3>2. CASE Auth!FindDevice(wor)
        BY <1>0, <3>2 DEF Auth!FindDevice
      <3>3. CASE Auth!UpdateDeviceInfo(wor)
        BY <1>0, <3>3 DEF Auth!UpdateDeviceInfo
      <3>4. CASE Auth!InvalidateCacheForDevice(wor)
        BY <1>0, <3>4 DEF Auth!InvalidateCacheForDevice
      <3> QED
        BY <1>1, <3>1, <3>2, <3>3, <3>4
    <2> QED
      BY <2>1, <2>2, AuthQuiet
  <1>2. ASSUME NEW wor \in Actor, Auth!RevokeAllForDevice(wor) \/ Auth!GenerateAPIKey(wor)
        PROVE  AuthInv'
    <2>1. PICK step \in Auth!Steps \ {"fill"} : pc' = [pc EXCEPT ![wor] = step]
      BY <1>2 DEF Auth!Steps, Auth!RevokeAllForDevice, Auth!GenerateAPIKey
    <2>2. key' \in [Thing -> {"none", "valid", "revoked", "expired"}]
      BY <1>0, <1>2 DEF Auth!RevokeAllForDevice, Auth!Revoke, Auth!GenerateAPIKey
    <2>3. UNCHANGED <<now, active, cached, cooldown, uses, copy, lastValid, stale>>
      BY <1>2 DEF Auth!RevokeAllForDevice, Auth!GenerateAPIKey
    <2> QED
      BY <1>0, <2>1, <2>2, <2>3, AuthQuiet
  <1>3. ASSUME NEW wor \in Actor,
               \/ Auth!ReadDevice(wor) \/ Auth!Heartbeat(wor) \/ Auth!UpdateDevice(wor)
               \/ Auth!DropCache(wor)
        PROVE  AuthInv'
    <2>1. PICK step \in Auth!Steps \ {"fill"} : pc' = [pc EXCEPT ![wor] = step]
      BY <1>3 DEF Auth!Steps, Auth!ReadDevice, Auth!Heartbeat, Auth!UpdateDevice, Auth!DropCache
    <2>2. /\ cached' \in {cached, Auth!Invalidated} /\ UNCHANGED <<now, uses, lastValid, stale>>
          /\ active' \in BOOLEAN /\ cooldown' \in Nat /\ copy' \in [Actor -> BOOLEAN]
          /\ key' \in [Thing -> {"none", "valid", "revoked", "expired"}]
      BY <1>0, <1>3 DEF Auth!ReadDevice, Auth!Heartbeat, Auth!UpdateDevice, Auth!DropCache
    <2> QED
      BY <2>1, <2>2, AuthQuiet
  <1>4. ASSUME NEW kk \in Thing, Auth!RevokeApiKey(kk) \/ Auth!KeyExpires(kk)
        PROVE  AuthInv'
    <2>1. /\ key' \in [Thing -> {"none", "valid", "revoked", "expired"}]
          /\ UNCHANGED <<now, active, cached, cooldown, pc, uses, copy, lastValid, stale>>
      BY <1>0, <1>4 DEF Auth!RevokeApiKey, Auth!KeyExpires
    <2> QED
      BY <2>1 DEF AuthInv, Auth!TypeOK, CopyBounded, FillIsFresh, Auth!StaleBounded
  <1>5. CASE UNCHANGED Auth!vars
    BY <1>5 DEF Auth!vars, AuthInv, Auth!TypeOK, CopyBounded, FillIsFresh, Auth!StaleBounded
  <1> QED
    BY <1>1, <1>2, <1>3, <1>4, <1>5, RequestStep, FillStep, AuthTick DEF Auth!Next

LEMMA AuthAlways == PartsSpec => [](subject = "auth" => AuthInv)
  <1>1. PartsInit => (subject = "auth" => AuthInv)
    BY AuthInit, PartsAssumption DEF PartsInit
  <1>2. (subject = "auth" => AuthInv) /\ [PartsNext]_partsVars => (subject = "auth" => AuthInv)'
    <2> SUFFICES ASSUME subject = "auth" => AuthInv, [PartsNext]_partsVars, subject' = "auth"
                 PROVE  AuthInv'
      OBVIOUS
    <2>1. subject = "auth"
      BY DEF PartsNext, partsVars
    <2>2. [Auth!Next]_Auth!vars
      BY <2>1 DEF PartsNext, partsVars, ofAuth, Auth!vars
    <2> QED
      BY <2>1, <2>2, AuthStep, PartsAssumption
  <1> QED
    BY <1>1, <1>2, PTL DEF PartsSpec
\* RequireAPIKey, for any number of keys and requests: however the revocations,
\* registrations and edits of a device interleave with the fills of the cache,
\* a key is let in no longer than a copy may live after it was last good.
THEOREM CopiesEnd == PartsSpec => []StaleBounded
  <1>1. (subject = "auth" => AuthInv) => StaleBounded
    BY DEF AuthInv, StaleBounded
  <1> QED
    BY <1>1, AuthAlways, PTL
-----------------------------------------------------------------------------
(* Alerts.  Unless a check and an edit have crossed, or a write failed, the *)
(* row, what the job has read of it and what the console has read of it    *)
(* have the time of the last alert, but for the alert that is being sent.  *)

\* The shape of a run of the job: what it sends is not among what is to go.
CheckShape ==
    /\ check = [read |-> check.read, todo |-> check.todo, sending |-> check.sending]
    /\ check.todo \cap check.sending = {}

FiredIsSent ==
    \A con \in Thing \ crossed :
        /\ con \notin check.sending => row[con].firedAt = sentAt[con]
        /\ con \in check.todo => check.read[con].firedAt = sentAt[con]
        /\ con \in edit.open /\ con \notin check.sending => edit.firedAt = sentAt[con]
        /\ con \in check.sending => sentAt[con] = now

AlertInv == Alert!TypeOK /\ CheckShape /\ FiredIsSent /\ Alert!CooldownKept

LEMMA AlertInit == ASSUME Alert!AlertsAssumption PROVE Alert!Init => AlertInv
  <1> SUFFICES ASSUME Alert!Init PROVE AlertInv
    OBVIOUS
  <1>1. Alert!TypeOK
    BY DEF Alert!Init, Alert!TypeOK, Alert!AlertsAssumption, Alert!Row, Alert!NoCheck, Alert!NoEdit
  <1>2. CheckShape /\ FiredIsSent /\ Alert!CooldownKept
    BY DEF Alert!Init, CheckShape, FiredIsSent, Alert!CooldownKept, Alert!NoCheck, Alert!NoEdit
  <1> QED
    BY <1>1, <1>2 DEF AlertInv

\* The job reads the rows, passes over one, sends an alert.
LEMMA CheckStep ==
    ASSUME Alert!AlertsAssumption, AlertInv,
           Alert!CheckAlerts \/ \E con \in Thing : Alert!Pass(con) \/ Alert!SendAlert(con)
    PROVE  AlertInv'
  <1> USE DEF AlertInv
  <1>1. CASE Alert!CheckAlerts
    <2>1. /\ check' = [read |-> [con \in Alert!Enabled |-> row[con]], todo |-> Alert!Enabled,
                       sending |-> {}]
          /\ check.sending = {} /\ Alert!Enabled \subseteq Thing
          /\ UNCHANGED <<now, row, edit, sentAt, early, crossed>>
      BY <1>1 DEF Alert!CheckAlerts, Alert!Enabled, Alert!NoCheck
    <2>2. /\ check'.todo = Alert!Enabled /\ check'.sending = {}
          /\ \A con \in Alert!Enabled : check'.read[con] = row[con]
      BY <2>1
    <2>3. Alert!TypeOK'
      BY <2>1, <2>2 DEF Alert!TypeOK
    <2>4. CheckShape'
      BY <2>1, <2>2 DEF CheckShape
    <2>5. FiredIsSent' /\ Alert!CooldownKept'
      BY <2>1, <2>2 DEF FiredIsSent, Alert!CooldownKept
    <2> QED
      BY <2>3, <2>4, <2>5
  <1>2. ASSUME NEW con \in Thing, Alert!Pass(con) PROVE AlertInv'
    <2>1. /\ check.sending = {} /\ UNCHANGED <<now, row, edit, sentAt, early, crossed>>
          /\ check' = Alert!NoCheck \/ check' = [check EXCEPT !.todo = @ \ {con}]
      BY <1>2 DEF Alert!Pass
    <2>2. /\ check'.sending = {} /\ check'.todo \subseteq check.todo
          /\ \A oth \in check'.todo : check'.read[oth] = check.read[oth]
          /\ CheckShape'
      BY <2>1 DEF Alert!NoCheck, CheckShape
    <2>3. Alert!TypeOK'
      BY <2>1, <2>2 DEF Alert!TypeOK
    <2>4. FiredIsSent' /\ Alert!CooldownKept'
      BY <2>1, <2>2 DEF FiredIsSent, Alert!CooldownKept
    <2> QED
      BY <2>2, <2>3, <2>4
  <1>3. ASSUME NEW con \in Thing, Alert!SendAlert(con) PROVE AlertInv'
    <2>1. /\ check.sending = {} /\ con \in check.todo /\ ~Alert!CoolingDown(con)
          /\ check' = [check EXCEPT !.todo = @ \ {con}, !.sending = {con}]
          /\ early' = IF sentAt[con] # Never /\ now < sentAt[con] + AlertCooldown
                      THEN early \union {con} ELSE early
          /\ sentAt' = [sentAt EXCEPT ![con] = now]
          /\ UNCHANGED <<now, row, edit, crossed>>
      BY <1>3 DEF Alert!SendAlert
    <2>2. /\ check'.sending = {con} /\ check'.todo = check.todo \ {con}
          /\ check'.read = check.read /\ CheckShape'
      BY <2>1 DEF CheckShape
    <2>3. Alert!TypeOK'
      BY <2>1, <2>2 DEF Alert!TypeOK
    <2>4. FiredIsSent'
      BY <2>1, <2>2 DEF FiredIsSent, Alert!TypeOK
    <2>5. Alert!CooldownKept'
      <3>1. CASE con \in crossed
        BY <2>1, <3>1 DEF Alert!CooldownKept
      <3>2. CASE con \notin crossed
        <4>1. check.read[con].firedAt = sentAt[con]
          BY <2>1, <3>2 DEF FiredIsSent
        <4>2. early' = early
          BY <2>1, <4>1 DEF Alert!CoolingDown
        <4> QED
          BY <2>1, <4>2 DEF Alert!CooldownKept
      <3> QED
        BY <3>1, <3>2
    <2> QED
      BY <2>2, <2>3, <2>4, <2>5
  <1> QED
    BY <1>1, <1>2, <1>3

\* The job writes when it fired.
LEMMA FiredStep ==
    ASSUME Alert!AlertsAssumption, AlertInv, NEW con \in Thing, Alert!SaveFired(con)
    PROVE  AlertInv'
  <1> USE DEF AlertInv
  <1>1. /\ check.sending = {con} /\ UNCHANGED <<now, edit, sentAt, early>>
        /\ check' = Alert!NoCheck \/ check' = [check EXCEPT !.sending = {}]
        /\ \/ /\ row' = [row EXCEPT ![con] = [check.read[con] EXCEPT !.firedAt = now]]
              /\ crossed' = IF con \in edit.open THEN crossed \union {con} ELSE crossed
           \/ row' = row /\ crossed' = crossed \union {con}
    BY DEF Alert!SaveFired, Alert!Fired
  <1>2. /\ check'.sending = {} /\ check'.todo \subseteq check.todo
        /\ \A oth \in check'.todo : check'.read[oth] = check.read[oth]
        /\ CheckShape'
    BY <1>1 DEF Alert!NoCheck, CheckShape
  <1>3. now \in Nat
    BY DEF Alert!TypeOK, Alert!AlertsAssumption
  <1>4. check.read[con] \in Alert!Row /\ con \notin check'.todo
    BY <1>1, <1>2 DEF Alert!TypeOK, CheckShape
  <1>5. [check.read[con] EXCEPT !.firedAt = now] \in Alert!Row
    BY <1>3, <1>4 DEF Alert!Row
  <1>6. [check.read[con] EXCEPT !.firedAt = now].firedAt = now
    BY <1>4 DEF Alert!Row
  <1>7. /\ row' \in [Thing -> Alert!Row] /\ crossed' \subseteq Thing /\ crossed \subseteq crossed'
        /\ \A oth \in Thing \ {con} : row'[oth] = row[oth]
        /\ con \notin crossed' => row'[con].firedAt = now /\ con \notin edit.open
    BY <1>1, <1>5, <1>6 DEF Alert!TypeOK
  <1>8. Alert!TypeOK'
    BY <1>1, <1>2, <1>7 DEF Alert!TypeOK
  <1>9. FiredIsSent'
    <2> SUFFICES ASSUME NEW oth \in Thing, oth \notin crossed'
                 PROVE  /\ row'[oth].firedAt = sentAt[oth]
                        /\ oth \in check'.todo => check'.read[oth].firedAt = sentAt[oth]
                        /\ oth \in edit.open => edit.firedAt = sentAt[oth]
      BY <1>1, <1>2 DEF FiredIsSent
    <2>1. oth \notin crossed
      BY <1>7
    <2>2. CASE oth = con
      BY <1>1, <1>4, <1>7, <2>1, <2>2 DEF FiredIsSent
    <2>3. CASE oth # con
      BY <1>1, <1>2, <1>7, <2>1, <2>3 DEF FiredIsSent
    <2> QED
      BY <2>2, <2>3
  <1>10. Alert!CooldownKept'
    BY <1>1, <1>7 DEF Alert!CooldownKept
  <1> QED
    BY <1>2, <1>8, <1>9, <1>10

\* The console, which keeps when a row fired, and the clock.
LEMMA ConsoleStep ==
    ASSUME Alert!AlertsAssumption, AlertInv,
           Alert!Tick \/ \E con \in Thing : \/ Alert!CreateConfig(con) \/ Alert!FindConfig(con)
                                            \/ Alert!UpdateConfig(con) \/ Alert!DeleteConfig(con)
    PROVE  AlertInv'
  <1> USE DEF AlertInv
  <1>1. CASE Alert!Tick
    <2>1. /\ now \in Nat /\ AlertMaxTime \in Nat /\ now < AlertMaxTime /\ now' = now + 1
          /\ check.todo = {} /\ check.sending = {}
          /\ UNCHANGED <<row, check, edit, sentAt, early, crossed>>
      BY <1>1 DEF Alert!Tick, Alert!TypeOK, Alert!AlertsAssumption, Alert!NoCheck
    <2>2. Alert!TypeOK'
      BY <2>1 DEF Alert!TypeOK
    <2>3. CheckShape' /\ FiredIsSent' /\ Alert!CooldownKept'
      BY <2>1 DEF CheckShape, FiredIsSent, Alert!CooldownKept
    <2> QED
      BY <2>2, <2>3
  <1>2. ASSUME NEW con \in Thing, Alert!CreateConfig(con) \/ Alert!DeleteConfig(con)
        PROVE  AlertInv'
    <2>1. PICK exi \in BOOLEAN : row' = [row EXCEPT ![con].exists = exi]
      BY <1>2 DEF Alert!CreateConfig, Alert!DeleteConfig
    <2>2. UNCHANGED <<now, check, edit, sentAt, early, crossed>>
      BY <1>2 DEF Alert!CreateConfig, Alert!DeleteConfig
    <2>3. row' \in [Thing -> Alert!Row] /\ \A oth \in Thing : row'[oth].firedAt = row[oth].firedAt
      BY <2>1 DEF Alert!TypeOK, Alert!Row
    <2>4. Alert!TypeOK'
      BY <2>2, <2>3 DEF Alert!TypeOK
    <2>5. CheckShape' /\ FiredIsSent' /\ Alert!CooldownKept'
      BY <2>2, <2>3 DEF CheckShape, FiredIsSent, Alert!CooldownKept
    <2> QED
      BY <2>4, <2>5
  <1>3. ASSUME NEW con \in Thing, Alert!FindConfig(con) PROVE AlertInv'
    <2>1. /\ edit' = [open |-> {con}, enabled |-> row[con].enabled, firedAt |-> row[con].firedAt]
          /\ UNCHANGED <<now, row, check, sentAt, early, crossed>>
      BY <1>3 DEF Alert!FindConfig
    <2>2. row[con].enabled \in BOOLEAN /\ row[con].firedAt \in Nat \union {Never}
      BY DEF Alert!TypeOK, Alert!Row
    <2>3. edit' \in [open : SUBSET Thing, enabled : BOOLEAN, firedAt : Nat \union {Never}]
      BY <2>1, <2>2
    <2>4. Alert!TypeOK'
      BY <2>1, <2>3 DEF Alert!TypeOK
    <2>5. edit'.open = {con} /\ edit'.firedAt = row[con].firedAt
      BY <2>1
    <2>6. CheckShape' /\ FiredIsSent' /\ Alert!CooldownKept'
      BY <2>1, <2>5 DEF CheckShape, FiredIsSent, Alert!CooldownKept
    <2> QED
      BY <2>4, <2>6
  <1>4. ASSUME NEW con \in Thing, Alert!UpdateConfig(con) PROVE AlertInv'
    <2>1. PICK ena \in BOOLEAN :
             row' = [row EXCEPT ![con] = [exists |-> TRUE, enabled |-> ena, firedAt |-> edit.firedAt]]
      BY <1>4 DEF Alert!UpdateConfig
    <2>2. edit.open = {con} /\ edit' = Alert!NoEdit /\ UNCHANGED <<now, check, sentAt, early, crossed>>
      BY <1>4 DEF Alert!UpdateConfig
    <2>3. edit.firedAt \in Nat \union {Never}
      BY DEF Alert!TypeOK
    <2>4. [exists |-> TRUE, enabled |-> ena, firedAt |-> edit.firedAt] \in Alert!Row
      BY <2>3 DEF Alert!Row
    <2>5. /\ row' \in [Thing -> Alert!Row] /\ row'[con].firedAt = edit.firedAt
          /\ \A oth \in Thing \ {con} : row'[oth] = row[oth]
      BY <2>1, <2>4 DEF Alert!TypeOK
    <2>6. Alert!NoEdit \in [open : SUBSET Thing, enabled : BOOLEAN, firedAt : Nat \union {Never}]
      BY DEF Alert!NoEdit
    <2>7. Alert!TypeOK'
      BY <2>2, <2>5, <2>6 DEF Alert!TypeOK
    <2>8. edit'.open = {}
      BY <2>2 DEF Alert!NoEdit
    <2>9. CheckShape' /\ FiredIsSent' /\ Alert!CooldownKept'
      BY <2>2, <2>5, <2>8 DEF CheckShape, FiredIsSent, Alert!CooldownKept
    <2> QED
      BY <2>7, <2>9
  <1> QED
    BY <1>1, <1>2, <1>3, <1>4

LEMMA AlertStep ==
    ASSUME Alert!AlertsAssumption, AlertInv, [Alert!Next]_Alert!vars
    PROVE  AlertInv'
  <1>1. CASE UNCHANGED Alert!vars
    BY <1>1
    DEF Alert!vars, AlertInv, Alert!TypeOK, CheckShape, FiredIsSent, Alert!CooldownKept
  <1> QED
    BY <1>1, CheckStep, FiredStep, ConsoleStep DEF Alert!Next

LEMMA AlertAlways == PartsSpec => [](subject = "alert" => AlertInv)
  <1>1. PartsInit => (subject = "alert" => AlertInv)
    BY AlertInit, PartsAssumption DEF PartsInit
  <1>2. (subject = "alert" => AlertInv) /\ [PartsNext]_partsVars => (subject = "alert" => AlertInv)'
    <2> SUFFICES ASSUME subject = "alert" => AlertInv, [PartsNext]_partsVars, subject' = "alert"
                 PROVE  AlertInv'
      OBVIOUS
    <2>1. subject = "alert"
      BY DEF PartsNext, partsVars
    <2>2. [Alert!Next]_Alert!vars
      BY <2>1 DEF PartsNext, partsVars, ofAlert, Alert!vars
    <2> QED
      BY <2>1, <2>2, AlertStep, PartsAssumption
  <1> QED
    BY <1>1, <1>2, PTL DEF PartsSpec

\* An alert is not repeated within its cooldown, whatever the job and the console
\* write over each other's rows, unless an edit was open while the job wrote when
\* it fired, or that write failed.
THEOREM AlertsCool == PartsSpec => []CooldownKept
  <1>1. (subject = "alert" => AlertInv) => CooldownKept
    BY DEF AlertInv, CooldownKept
  <1> QED
    BY <1>1, AlertAlways, PTL

-----------------------------------------------------------------------------
(* The hub of events.  A publication that still walks through the          *)
(* subscribers holds the lock, so its streams are open; what a stream has  *)
(* been given, written or still in its buffer, grows only where an event   *)
(* is offered, and the walk offers it once.                                *)

WalkIsLocked ==
    \A eve \in Actor : todo[eve] # {} => event[eve] = "publishing" /\ todo[eve] \subseteq Hub!Subscribers

\* What a stream has been given, and where an event stands in it.
Given(str) == written[str] \o buffer[str]
PlacesIn(given, eve) == {idx \in DOMAIN given : given[idx] = eve}
NotGiven(str, eve) == PlacesIn(Given(str), eve) = {}
GivenOnce(str, eve) == \E idx \in DOMAIN Given(str) : PlacesIn(Given(str), eve) = {idx}

EventsGiven ==
    \A str \in Stream, eve \in Actor :
        /\ event[eve] = "new" \/ str \in todo[eve] => NotGiven(str, eve)
        /\ stream[str] = "none" /\ event[eve] # "new" => <<str, eve>> \in missed
        /\ stream[str] = "open" /\ event[eve] # "new" /\ str \notin todo[eve]
              /\ <<str, eve>> \notin dropped \union missed => GivenOnce(str, eve)

WithinLimit == Cardinality(Hub!Subscribers) <= MaxSubscribers

HubTypes == Hub!TypeOK /\ buffer \in [Stream -> Seq(Actor)] /\ written \in [Stream -> Seq(Actor)]
HubInv == HubTypes /\ WalkIsLocked /\ EventsGiven /\ ~panicked /\ WithinLimit

LEMMA HubCounts ==
    \A S : Hub!Cardinality(S) = Cardinality(S) /\ Hub!IsFiniteSet(S) = IsFiniteSet(S)
  BY DEF Cardinality, Hub!Cardinality, IsFiniteSet, Hub!IsFiniteSet

\* What is put at the end of the buffer is at the end of what is given.
LEMMA GiveLast ==
    ASSUME NEW S, NEW wri \in Seq(S), NEW buf \in Seq(S), NEW eve \in S
    PROVE  wri \o Append(buf, eve) = Append(wri \o buf, eve)
  <1>1. Append(buf, eve) = buf \o <<eve>> /\ <<eve>> \in Seq(S) /\ wri \o buf \in Seq(S)
    BY AppendIsConcat, ConcatProperties
  <1>2. Append(wri \o buf, eve) = (wri \o buf) \o <<eve>>
    BY <1>1, AppendIsConcat
  <1> QED
    BY <1>1, <1>2, ConcatAssociative

\* Writing the first of the buffer leaves what is given.
LEMMA WriteFirst ==
    ASSUME NEW S, NEW wri \in Seq(S), NEW buf \in Seq(S), buf # <<>>
    PROVE  Append(wri, Head(buf)) \o Tail(buf) = wri \o buf
  <1>1. Head(buf) \in S /\ Tail(buf) \in Seq(S) /\ <<Head(buf)>> \in Seq(S)
    BY HeadTailProperties
  <1>2. Append(wri, Head(buf)) = wri \o <<Head(buf)>>
    BY <1>1, AppendIsConcat
  <1>3. (wri \o <<Head(buf)>>) \o Tail(buf) = wri \o (<<Head(buf)>> \o Tail(buf))
    BY <1>1, ConcatAssociative
  <1>4. <<Head(buf)>> \o Tail(buf) = buf
    BY <1>1
  <1> QED
    BY <1>2, <1>3, <1>4

\* Where events stand once one is put at the end.
LEMMA PlacesAfter ==
    ASSUME NEW S, NEW given \in Seq(S), NEW eve \in S, NEW oth \in S
    PROVE  /\ oth # eve => PlacesIn(Append(given, eve), oth) = PlacesIn(given, oth)
           /\ PlacesIn(given, eve) = {} => PlacesIn(Append(given, eve), eve) = {Len(given) + 1}
           /\ DOMAIN given \subseteq DOMAIN Append(given, eve)
           /\ Len(given) + 1 \in DOMAIN Append(given, eve)
  <1>1. /\ Len(given) \in Nat /\ DOMAIN given = 1 .. Len(given)
        /\ DOMAIN Append(given, eve) = 1 .. Len(given) + 1
        /\ \A idx \in 1 .. Len(given) : Append(given, eve)[idx] = given[idx]
        /\ Append(given, eve)[Len(given) + 1] = eve
    BY AppendProperties, LenProperties
  <1> QED
    BY <1>1 DEF PlacesIn

LEMMA HubInit == ASSUME Hub!SseHubAssumption PROVE Hub!Init => HubInv
  <1> SUFFICES ASSUME Hub!Init PROVE HubInv
    OBVIOUS
  <1>1. HubTypes
    <2>1. <<>> \in Seq(Actor) /\ Len(<<>>) = 0
      BY EmptySeq
    <2>2. /\ buffer = [str \in Stream |-> <<>>] /\ written = [str \in Stream |-> <<>>]
          /\ \A str \in Stream : Len(buffer[str]) = 0
      BY <2>1 DEF Hub!Init
    <2>3. \A str \in Stream : Len(buffer[str]) <= Buffer
      BY <2>2 DEF Hub!SseHubAssumption
    <2> QED
      BY <2>1, <2>2, <2>3 DEF Hub!Init, HubTypes, Hub!TypeOK
  <1>2. \A str \in Stream : Given(str) = <<>>
    BY DEF Hub!Init, Given
  <1>3. WalkIsLocked /\ EventsGiven /\ ~panicked
    BY <1>2 DEF Hub!Init, WalkIsLocked, EventsGiven, NotGiven, PlacesIn
  <1>4. Hub!Subscribers = {}
    BY DEF Hub!Init, Hub!Subscribers
  <1>5. WithinLimit
    BY <1>4, FS_EmptySet DEF WithinLimit, Hub!SseHubAssumption
  <1> QED
    BY <1>1, <1>3, <1>5 DEF HubInv

\* A stream comes or goes while no publication walks.
LEMMA StreamStep ==
    ASSUME Hub!SseHubAssumption, HubInv, NEW str \in Stream,
           Hub!Subscribe(str) \/ Hub!Unsubscribe(str)
    PROVE  HubInv'
  <1> USE DEF HubInv
  <1>0. IsFiniteSet(Hub!Subscribers) /\ Cardinality(Hub!Subscribers) \in Nat
    <2>1. IsFiniteSet(Stream) /\ Hub!Subscribers \in SUBSET Stream
      BY HubCounts DEF Hub!SseHubAssumption, Hub!Subscribers
    <2>2. IsFiniteSet(Hub!Subscribers)
      BY <2>1, FS_Subset
    <2> QED
      BY <2>2, FS_CardinalityType
  <1>1. PICK new \in {"open", "closed", "refused"} :
          /\ stream' = [stream EXCEPT ![str] = new]
          /\ new = "open" => stream[str] = "none" /\ Cardinality(Hub!Subscribers) < MaxSubscribers
    <2>1. CASE Hub!Subscribe(str)
      <3>1. Hub!Cardinality(Hub!Subscribers) = Cardinality(Hub!Subscribers)
        BY HubCounts
      <3>2. CASE Cardinality(Hub!Subscribers) >= MaxSubscribers
        BY <2>1, <3>1, <3>2 DEF Hub!Subscribe
      <3>3. CASE ~(Cardinality(Hub!Subscribers) >= MaxSubscribers)
        <4>1. Cardinality(Hub!Subscribers) < MaxSubscribers
          BY <1>0, <3>3 DEF Hub!SseHubAssumption
        <4> QED
          BY <2>1, <3>1, <3>3, <4>1 DEF Hub!Subscribe
      <3> QED
        BY <3>2, <3>3
    <2>2. CASE Hub!Unsubscribe(str)
      BY <2>2 DEF Hub!Unsubscribe
    <2> QED
      BY <2>1, <2>2
  <1>2. UNCHANGED <<buffer, written, event, todo, dropped, missed, panicked>> /\ ~Hub!Reading
    BY DEF Hub!Subscribe, Hub!Unsubscribe
  <1>3. \A eve \in Actor : todo[eve] = {}
    BY <1>2 DEF WalkIsLocked, Hub!Reading
  <1>4. HubTypes'
    BY <1>1, <1>2 DEF HubTypes, Hub!TypeOK
  <1>5. WalkIsLocked'
    BY <1>2, <1>3 DEF WalkIsLocked
  <1>6. EventsGiven'
    <2>1. \A oth \in Stream : /\ Given(oth)' = Given(oth)
                              /\ stream'[oth] = "none" => stream[oth] = "none"
                              /\ stream'[oth] = "open" => stream[oth] \in {"none", "open"}
      BY <1>1, <1>2 DEF Given, HubTypes, Hub!TypeOK
    <2> QED
      BY <1>2, <1>3, <2>1 DEF EventsGiven, NotGiven, GivenOnce
  <1>7. WithinLimit'
    <2>1. CASE new = "open"
      <3>1. Hub!Subscribers' = Hub!Subscribers \union {str} /\ str \notin Hub!Subscribers
        BY <1>1, <2>1 DEF Hub!Subscribers, HubTypes, Hub!TypeOK
      <3>2. Cardinality(Hub!Subscribers') = Cardinality(Hub!Subscribers) + 1
        BY <1>0, <3>1, FS_AddElement
      <3> QED
        BY <1>0, <1>1, <2>1, <3>2 DEF WithinLimit, Hub!SseHubAssumption
    <2>2. CASE new # "open"
      <3>1. Hub!Subscribers' \in SUBSET Hub!Subscribers
        BY <1>1, <2>2 DEF Hub!Subscribers, HubTypes, Hub!TypeOK
      <3>2. IsFiniteSet(Hub!Subscribers') /\ Cardinality(Hub!Subscribers') <= Cardinality(Hub!Subscribers)
        BY <1>0, <3>1, FS_Subset
      <3>3. Cardinality(Hub!Subscribers') \in Nat
        BY <3>2, FS_CardinalityType
      <3> QED
        BY <1>0, <3>2, <3>3 DEF WithinLimit, Hub!SseHubAssumption
    <2> QED
      BY <2>1, <2>2
  <1> QED
    BY <1>2, <1>4, <1>5, <1>6, <1>7

\* A publication starts and ends.
LEMMA PublishStep ==
    ASSUME HubInv, NEW eve \in Actor, Hub!Publish(eve) \/ Hub!EndPublish(eve)
    PROVE  HubInv'
  <1> USE DEF HubInv
  <1>1. UNCHANGED <<stream, buffer, written, dropped, panicked>>
    BY DEF Hub!Publish, Hub!EndPublish
  <1>2. Hub!Subscribers' = Hub!Subscribers /\ \A str \in Stream : Given(str)' = Given(str)
    BY <1>1 DEF Hub!Subscribers, Given
  <1>3. WithinLimit' /\ ~panicked'
    BY <1>1, <1>2 DEF WithinLimit
  <1>4. CASE Hub!Publish(eve)
    <2>1. /\ event[eve] = "new" /\ event' = [event EXCEPT ![eve] = "publishing"]
          /\ todo' = [todo EXCEPT ![eve] = Hub!Subscribers] /\ Hub!Subscribers \subseteq Stream
          /\ missed' = missed \union ((Stream \ Hub!Subscribers) \X {eve})
      BY <1>4 DEF Hub!Publish, Hub!Subscribers
    <2>2. HubTypes'
      BY <1>1, <2>1 DEF HubTypes, Hub!TypeOK
    <2>3. WalkIsLocked'
      BY <1>2, <2>1 DEF WalkIsLocked, HubTypes, Hub!TypeOK
    <2>4. EventsGiven'
      <3>1. \A str \in Stream :
               /\ NotGiven(str, eve)'
               /\ stream[str] = "none" => <<str, eve>> \in missed'
               /\ stream[str] = "open" => str \in todo'[eve]
        BY <1>2, <2>1 DEF EventsGiven, NotGiven, Hub!Subscribers, HubTypes, Hub!TypeOK
      <3>2. \A oth \in Actor \ {eve} : event'[oth] = event[oth] /\ todo'[oth] = todo[oth]
        BY <2>1 DEF HubTypes, Hub!TypeOK
      <3>3. missed \subseteq missed'
        BY <2>1
      <3> QED
        BY <1>1, <1>2, <3>1, <3>2, <3>3 DEF EventsGiven, NotGiven, GivenOnce
    <2> QED
      BY <1>3, <2>2, <2>3, <2>4
  <1>5. CASE Hub!EndPublish(eve)
    <2>1. /\ event[eve] = "publishing" /\ event' = [event EXCEPT ![eve] = "published"]
          /\ todo[eve] = {} /\ UNCHANGED <<todo, missed>>
      BY <1>5 DEF Hub!EndPublish
    <2>2. HubTypes'
      BY <1>1, <2>1 DEF HubTypes, Hub!TypeOK
    <2>3. WalkIsLocked'
      BY <1>2, <2>1 DEF WalkIsLocked, HubTypes, Hub!TypeOK
    <2>4. EventsGiven'
      BY <1>1, <1>2, <2>1 DEF EventsGiven, NotGiven, GivenOnce, HubTypes, Hub!TypeOK
    <2> QED
      BY <1>3, <2>2, <2>3, <2>4
  <1> QED
    BY <1>4, <1>5

\* A publication offers its event to a stream.
LEMMA OfferStep ==
    ASSUME Hub!SseHubAssumption, HubInv, NEW eve \in Actor, NEW str \in Stream, Hub!Offer(eve, str)
    PROVE  HubInv'
  <1> USE DEF HubInv
  <1>1. /\ str \in todo[eve] /\ todo' = [todo EXCEPT ![eve] = @ \ {str}]
        /\ UNCHANGED <<stream, written, event, missed>>
    BY DEF Hub!Offer
  <1>2. stream[str] = "open" /\ event[eve] = "publishing"
    BY <1>1 DEF WalkIsLocked, Hub!Subscribers
  <1>3. /\ UNCHANGED panicked
        /\ \/ /\ buffer' = [buffer EXCEPT ![str] = Append(@, eve)] /\ UNCHANGED dropped
              /\ Len(buffer[str]) < Buffer
           \/ UNCHANGED buffer /\ dropped' = dropped \union {<<str, eve>>}
    BY <1>2 DEF Hub!Offer
  <1>4. /\ buffer[str] \in Seq(Actor) /\ written[str] \in Seq(Actor)
        /\ Append(buffer[str], eve) \in Seq(Actor)
        /\ Len(Append(buffer[str], eve)) = Len(buffer[str]) + 1 /\ Len(buffer[str]) \in Nat
    BY AppendProperties, LenProperties DEF HubTypes
  <1>5. HubTypes'
    <2>1. buffer' \in [Stream -> Seq(Actor)] /\ \A oth \in Stream : Len(buffer'[oth]) <= Buffer
      <3>1. CASE UNCHANGED buffer
        BY <3>1 DEF HubTypes, Hub!TypeOK
      <3>2. CASE buffer' = [buffer EXCEPT ![str] = Append(@, eve)] /\ Len(buffer[str]) < Buffer
        <4>1. Len(Append(buffer[str], eve)) <= Buffer
          BY <1>4, <3>2 DEF Hub!SseHubAssumption
        <4>2. \A oth \in Stream : buffer'[oth] \in {buffer[oth], Append(buffer[str], eve)}
          BY <3>2 DEF HubTypes
        <4> QED
          BY <1>4, <3>2, <4>1, <4>2 DEF HubTypes, Hub!TypeOK
      <3> QED
        BY <1>3, <3>1, <3>2
    <2>2. todo' \in [Actor -> SUBSET Stream] /\ dropped' \subseteq Stream \X Actor
      BY <1>1, <1>3 DEF HubTypes, Hub!TypeOK
    <2> QED
      BY <1>1, <1>3, <2>1, <2>2 DEF HubTypes, Hub!TypeOK
  <1>6. Hub!Subscribers' = Hub!Subscribers
    BY <1>1 DEF Hub!Subscribers
  <1>7. WalkIsLocked' /\ WithinLimit' /\ ~panicked'
    BY <1>1, <1>3, <1>6 DEF WalkIsLocked, WithinLimit, HubTypes, Hub!TypeOK
  <1>8. /\ \A oth \in Stream \ {str} : Given(oth)' = Given(oth)
        /\ Given(str) \in Seq(Actor) /\ PlacesIn(Given(str), eve) = {}
        /\ \/ Given(str)' = Given(str) /\ <<str, eve>> \in dropped'
           \/ Given(str)' = Append(Given(str), eve)
    <2>1. Given(str) \in Seq(Actor) /\ PlacesIn(Given(str), eve) = {}
      BY <1>1, <1>4, ConcatProperties DEF Given, EventsGiven, NotGiven
    <2>2. CASE UNCHANGED buffer /\ dropped' = dropped \union {<<str, eve>>}
      BY <1>1, <2>1, <2>2 DEF Given
    <2>3. CASE buffer' = [buffer EXCEPT ![str] = Append(@, eve)]
      <3>1. \A oth \in Stream \ {str} : Given(oth)' = Given(oth)
        BY <1>1, <2>3 DEF Given, HubTypes
      <3>2. Given(str)' = Append(Given(str), eve)
        BY <1>1, <1>4, <2>3, GiveLast DEF Given, HubTypes
      <3> QED
        BY <2>1, <3>1, <3>2
    <2> QED
      BY <1>3, <2>2, <2>3
  <1>9. EventsGiven'
    <2> SUFFICES ASSUME NEW oth \in Stream, NEW ove \in Actor
                 PROVE  /\ event[ove] = "new" \/ oth \in todo'[ove] => NotGiven(oth, ove)'
                        /\ stream[oth] = "none" /\ event[ove] # "new" => <<oth, ove>> \in missed
                        /\ stream[oth] = "open" /\ event[ove] # "new" /\ oth \notin todo'[ove]
                              /\ <<oth, ove>> \notin dropped' \union missed => GivenOnce(oth, ove)'
      BY <1>1 DEF EventsGiven
    <2>1. CASE oth = str /\ ove = eve
      <3>1. oth \notin todo'[ove] /\ event[ove] # "new" /\ stream[oth] # "none"
        BY <1>1, <1>2, <2>1 DEF HubTypes, Hub!TypeOK
      <3>2. <<str, eve>> \notin dropped' => GivenOnce(str, eve)'
        <4>1. CASE <<str, eve>> \in dropped'
          BY <4>1
        <4>2. CASE Given(str)' = Append(Given(str), eve)
          <5>1. /\ PlacesIn(Append(Given(str), eve), eve) = {Len(Given(str)) + 1}
                /\ Len(Given(str)) + 1 \in DOMAIN Append(Given(str), eve)
            BY <1>8, PlacesAfter
          <5> QED
            BY <4>2, <5>1 DEF GivenOnce
        <4> QED
          BY <1>8, <4>1, <4>2
      <3> QED
        BY <2>1, <3>1, <3>2
    <2>2. CASE oth # str \/ ove # eve
      <3>1. oth \in todo'[ove] <=> oth \in todo[ove]
        BY <1>1, <2>2 DEF HubTypes, Hub!TypeOK
      <3>2. dropped \subseteq dropped'
        BY <1>3
      <3>3. /\ NotGiven(oth, ove) => NotGiven(oth, ove)'
            /\ GivenOnce(oth, ove) => GivenOnce(oth, ove)'
        <4>1. CASE Given(oth)' = Given(oth)
          BY <4>1 DEF NotGiven, GivenOnce
        <4>2. CASE oth = str /\ ove # eve /\ Given(str)' = Append(Given(str), eve)
          BY <1>8, <4>2, PlacesAfter DEF NotGiven, GivenOnce
        <4> QED
          BY <1>8, <2>2, <4>1, <4>2
      <3>4. /\ event[ove] = "new" \/ oth \in todo[ove] => NotGiven(oth, ove)
            /\ stream[oth] = "none" /\ event[ove] # "new" => <<oth, ove>> \in missed
            /\ stream[oth] = "open" /\ event[ove] # "new" /\ oth \notin todo[ove]
                  /\ <<oth, ove>> \notin dropped \union missed => GivenOnce(oth, ove)
        BY DEF EventsGiven
      <3> QED
        BY <3>1, <3>2, <3>3, <3>4
    <2> QED
      BY <2>1, <2>2
  <1> QED
    BY <1>5, <1>7, <1>9

\* A stream writes an event to its client.
LEMMA WriteStep ==
    ASSUME Hub!SseHubAssumption, HubInv, NEW str \in Stream, Hub!WriteEvent(str)
    PROVE  HubInv'
  <1> USE DEF HubInv
  <1>1. /\ buffer[str] # <<>> /\ UNCHANGED <<stream, event, todo, dropped, missed, panicked>>
        /\ written' = [written EXCEPT ![str] = Append(@, Head(buffer[str]))]
        /\ buffer' = [buffer EXCEPT ![str] = Tail(@)]
    BY DEF Hub!WriteEvent
  <1>2. buffer[str] \in Seq(Actor) /\ written[str] \in Seq(Actor)
    BY DEF HubTypes
  <1>3. /\ Head(buffer[str]) \in Actor /\ Tail(buffer[str]) \in Seq(Actor)
        /\ Len(Tail(buffer[str])) = Len(buffer[str]) - 1 /\ Len(buffer[str]) \in Nat
    BY <1>1, <1>2, HeadTailProperties, LenProperties
  <1>4. Append(written[str], Head(buffer[str])) \in Seq(Actor)
    BY <1>2, <1>3, AppendProperties
  <1>5. HubTypes'
    <2>1. buffer' \in [Stream -> Seq(Actor)] /\ \A oth \in Stream : Len(buffer'[oth]) <= Buffer
      BY <1>1, <1>3 DEF HubTypes, Hub!TypeOK, Hub!SseHubAssumption
    <2>2. written' \in [Stream -> Seq(Actor)]
      BY <1>1, <1>4 DEF HubTypes
    <2> QED
      BY <1>1, <2>1, <2>2 DEF HubTypes, Hub!TypeOK
  <1>6. \A oth \in Stream : Given(oth)' = Given(oth)
    BY <1>1, <1>2, WriteFirst DEF Given, HubTypes
  <1>7. WalkIsLocked' /\ WithinLimit' /\ ~panicked'
    BY <1>1 DEF WalkIsLocked, WithinLimit, Hub!Subscribers
  <1>8. EventsGiven'
    BY <1>1, <1>6 DEF EventsGiven, NotGiven, GivenOnce
  <1> QED
    BY <1>5, <1>7, <1>8

LEMMA HubStep ==
    ASSUME Hub!SseHubAssumption, HubInv, [Hub!Next]_Hub!vars
    PROVE  HubInv'
  <1>1. CASE UNCHANGED Hub!vars
    BY <1>1
    DEF Hub!vars, HubInv, HubTypes, Hub!TypeOK, WalkIsLocked, EventsGiven, NotGiven, GivenOnce, Given,
        WithinLimit, Hub!Subscribers
  <1> QED
    BY <1>1, StreamStep, PublishStep, OfferStep, WriteStep DEF Hub!Next

LEMMA HubAlways == PartsSpec => [](subject = "hub" => HubInv)
  <1>1. PartsInit => (subject = "hub" => HubInv)
    BY HubInit, PartsAssumption DEF PartsInit
  <1>2. (subject = "hub" => HubInv) /\ [PartsNext]_partsVars => (subject = "hub" => HubInv)'
    <2> SUFFICES ASSUME subject = "hub" => HubInv, [PartsNext]_partsVars, subject' = "hub"
                 PROVE  HubInv'
      OBVIOUS
    <2>1. subject = "hub"
      BY DEF PartsNext, partsVars
    <2>2. [Hub!Next]_Hub!vars
      BY <2>1 DEF PartsNext, partsVars, ofHub, Hub!vars
    <2> QED
      BY <2>1, <2>2, HubStep, PartsAssumption
  <1> QED
    BY <1>1, <1>2, PTL DEF PartsSpec

\* A publication that finds a stream subscribed and with room gives it the event
\* exactly once, none sends on a closed channel, and the streams stay within
\* their limit, however publications, subscriptions and departures interleave.
THEOREM HubDelivers == PartsSpec => []Delivery
  <1>1. HubInv => Hub!Delivery
    <2> SUFFICES ASSUME HubInv, NEW str \in Hub!Subscribers, NEW eve \in Actor,
                        event[eve] = "published", <<str, eve>> \notin dropped \union missed
                 PROVE  Hub!Cardinality(PlacesIn(Given(str), eve)) = 1
      BY HubCounts DEF HubInv, WithinLimit, Hub!Delivery, PlacesIn, Given
    <2>1. str \in Stream /\ stream[str] = "open" /\ todo[eve] = {}
      BY DEF HubInv, Hub!Subscribers, WalkIsLocked
    <2>2. GivenOnce(str, eve)
      BY <2>1 DEF HubInv, EventsGiven
    <2>3. Cardinality(PlacesIn(Given(str), eve)) = 1
      BY <2>2, FS_Singleton DEF GivenOnce
    <2> QED
      BY <2>3, HubCounts
  <1>2. (subject = "hub" => HubInv) => Delivery
    BY <1>1 DEF Delivery
  <1> QED
    BY <1>2, HubAlways, PTL

-----------------------------------------------------------------------------
(* Crash groups.  A report is counted right when no other of its device is *)
(* between its insert and its increment, and a merge counts right when     *)
(* nothing it holds has been touched since it loaded its groups: what the  *)
(* marks "drifted" and "dirty" record, wherever operations overlap.        *)

Doing == {"count", "increment"}
Senders(reports) == {device[rep] : rep \in reports}

MergeStates ==
    [pc : {"idle", "reassign", "commit"}, target : Thing \union {Nothing}, sources : SUBSET Thing,
     active : BOOLEAN, moved : SUBSET Actor, crashes : Nat, devices : Nat]

CrashTypes ==
    /\ Crash!TypeOK /\ merge \in [Administrator -> MergeStates]
    /\ \A mer \in Administrator : merge[mer].pc # "idle" =>
          merge[mer].target \in Thing /\ merge[mer].target \notin merge[mer].sources

AtIsKnown ==
    \A rep \in Actor : /\ pc[rep] \in {"idle", "match", "create"} => at[rep] = Nothing
                       /\ pc[rep] \in Doing => at[rep] # Nothing

AbsentIsUnused ==
    \A grp \in Thing : group[grp].life = "absent" =>
        /\ group[grp].crashes = 0 /\ group[grp].devices = 0
        /\ \A rep \in Actor : at[rep] # grp
        /\ \A mer \in Administrator : merge[mer].pc # "idle" => grp \notin Crash!Held(mer)

\* Of each device one report at a time is counted in a group.
OneCounts ==
    \A rep, oth \in Actor :
        rep # oth /\ pc[rep] \in Doing /\ pc[oth] \in Doing /\ at[rep] = at[oth]
            /\ device[rep] = device[oth] => at[rep] \in drifted

\* A report counts its device when it is the first of it.
FirstOfDevice(rep) ==
    \A oth \in Actor : pc[oth] = "done" /\ at[oth] = at[rep] => device[oth] # device[rep]
AddsIsNew ==
    \A rep \in Actor : pc[rep] = "increment" /\ at[rep] \notin drifted =>
        adds[rep] = IF FirstOfDevice(rep) THEN 1 ELSE 0

NoneLeft ==
    \A rep \in Actor : at[rep] # Nothing /\ pc[rep] # "failed" => at[rep] \in Crash!Live \union drifted

\* The rows a merge has locked are still where it found them.
MovedIsHeld ==
    \A mer \in Administrator :
        /\ \A rep \in merge[mer].moved : Crash!Inserted(rep) /\ at[rep] \in merge[mer].sources
        /\ \A oth \in Administrator \ {mer} : merge[mer].moved \cap merge[oth].moved = {}

Undisturbed(mer) ==
    /\ Crash!Held(mer) \subseteq Crash!Live
    /\ \A rep \in Actor : at[rep] \in Crash!Held(mer) => ~Crash!Open(rep)
    /\ merge[mer].pc = "commit" =>
          /\ merge[mer].moved = Crash!ReportsOf(merge[mer].sources)
          /\ merge[mer].crashes = Cardinality(Crash!ReportsOf(Crash!Held(mer)))
          /\ merge[mer].devices = Cardinality(Senders(Crash!ReportsOf(Crash!Held(mer))))
UndisturbedMerge ==
    \A mer \in Administrator : merge[mer].pc # "idle" /\ mer \notin dirty => Undisturbed(mer)

CountsAt(grp) ==
    /\ group[grp].crashes = Cardinality(Crash!Counted(grp))
    /\ group[grp].devices = Cardinality(Senders(Crash!Counted(grp)))
CountsHold == \A grp \in Crash!Live \ drifted : CountsAt(grp)

CrashInv ==
    /\ CrashTypes /\ AtIsKnown /\ AbsentIsUnused /\ OneCounts /\ AddsIsNew /\ NoneLeft
    /\ MovedIsHeld /\ UndisturbedMerge /\ CountsHold

LEMMA CrashCounts ==
    \A S : Crash!Cardinality(S) = Cardinality(S) /\ Crash!IsFiniteSet(S) = IsFiniteSet(S)
  BY DEF Cardinality, Crash!Cardinality, IsFiniteSet, Crash!IsFiniteSet

\* How many reports, and of how many devices, there are in a set with one more.
LEMMA ReportCards ==
    ASSUME Crash!CrashGroupsAssumption, device \in [Actor -> Sender],
           NEW reports \in SUBSET Actor, NEW rep \in Actor
    PROVE  /\ IsFiniteSet(reports) /\ Cardinality(reports) \in Nat
           /\ Cardinality(Senders(reports)) \in Nat
           /\ rep \notin reports => Cardinality(reports \union {rep}) = Cardinality(reports) + 1
           /\ device[rep] \in Senders(reports) =>
                 Cardinality(Senders(reports \union {rep})) = Cardinality(Senders(reports))
           /\ device[rep] \notin Senders(reports) =>
                 Cardinality(Senders(reports \union {rep})) = Cardinality(Senders(reports)) + 1
  <1>1. IsFiniteSet(Actor)
    BY CrashCounts DEF Crash!CrashGroupsAssumption
  <1>2. IsFiniteSet(reports)
    BY <1>1, FS_Subset
  <1>3. device \in Surjection(Actor, Senders(Actor))
    BY DEF Surjection, Senders
  <1>4. IsFiniteSet(Senders(Actor))
    BY <1>1, <1>3, FS_Surjection
  <1>5. Senders(reports) \in SUBSET Senders(Actor)
    BY DEF Senders
  <1>6. IsFiniteSet(Senders(reports))
    BY <1>4, <1>5, FS_Subset
  <1>7. Senders(reports \union {rep}) = Senders(reports) \union {device[rep]}
    BY DEF Senders
  <1> QED
    BY <1>2, <1>6, <1>7, FS_AddElement, FS_CardinalityType

LEMMA CrashInit == ASSUME Crash!CrashGroupsAssumption PROVE Crash!Init => CrashInv
  <1> SUFFICES ASSUME Crash!Init PROVE CrashInv
    OBVIOUS
  <1>1. CrashTypes
    <2>1. (CHOOSE fin \in Fingerprint : TRUE) \in Fingerprint
      BY DEF Crash!CrashGroupsAssumption
    <2>2. Crash!NoMerge \in MergeStates /\ Crash!NoMerge.pc = "idle"
      BY DEF Crash!NoMerge, MergeStates
    <2> QED
      BY <2>1, <2>2 DEF Crash!Init, CrashTypes, Crash!TypeOK
  <1>2. Crash!Live = {} /\ \A mer \in Administrator : merge[mer].pc = "idle" /\ merge[mer].moved = {}
    BY DEF Crash!Init, Crash!Live, Crash!NoMerge
  <1>3. AtIsKnown /\ AbsentIsUnused
    BY <1>2 DEF Crash!Init, AtIsKnown, AbsentIsUnused, Doing, Crash!CrashGroupsAssumption
  <1>4. OneCounts /\ AddsIsNew /\ NoneLeft
    BY DEF Crash!Init, OneCounts, AddsIsNew, NoneLeft, Doing
  <1>5. MovedIsHeld /\ UndisturbedMerge /\ CountsHold
    BY <1>2 DEF MovedIsHeld, UndisturbedMerge, CountsHold
  <1> QED
    BY <1>1, <1>3, <1>4, <1>5 DEF CrashInv

\* No undisturbed merge holds the group of a report that is being submitted.
LEMMA OpenIsElsewhere ==
    ASSUME Crash!CrashGroupsAssumption, CrashInv, NEW rep \in Actor, pc[rep] = "idle" \/ Crash!Open(rep),
           NEW mer \in Administrator, merge[mer].pc # "idle", mer \notin dirty
    PROVE  at[rep] \notin Crash!Held(mer)
  <1>1. CASE pc[rep] = "idle"
    <2>1. at[rep] = Nothing /\ Crash!Held(mer) \subseteq Thing
      BY <1>1 DEF CrashInv, AtIsKnown, CrashTypes, MergeStates, Crash!Held
    <2> QED
      BY <2>1 DEF Crash!CrashGroupsAssumption
  <1>2. CASE Crash!Open(rep)
    BY <1>2 DEF CrashInv, UndisturbedMerge, Undisturbed
  <1> QED
    BY <1>1, <1>2

\* A step of a submission leaves the merges that it does not disturb.
LEMMA SubmissionOfMerges ==
    ASSUME Crash!CrashGroupsAssumption, CrashInv, NEW rep \in Actor, NEW step, NEW spot,
           pc' = [pc EXCEPT ![rep] = step], at' = [at EXCEPT ![rep] = spot],
           UNCHANGED <<merge, device>>, dirty \subseteq dirty', Crash!Live \subseteq Crash!Live',
           pc[rep] = "idle" \/ Crash!Open(rep),
           Crash!Inserted(rep) => step \in {"count", "increment", "done"} /\ spot = at[rep],
           \A mer \in Administrator \ dirty' : merge[mer].pc # "idle" => spot \notin Crash!Held(mer)
    PROVE  MovedIsHeld' /\ UndisturbedMerge'
  <1>1. /\ pc \in [Actor -> {"idle", "match", "promote", "create", "insert", "count", "increment",
                             "done", "failed"}]
        /\ at \in [Actor -> Thing \union {Nothing}]
        /\ merge \in [Administrator -> MergeStates]
    BY DEF CrashInv, CrashTypes, Crash!TypeOK
  <1>2. MovedIsHeld'
    BY <1>1 DEF CrashInv, MovedIsHeld, Crash!Inserted
  <1>3. UndisturbedMerge'
    <2> SUFFICES ASSUME NEW mer \in Administrator, merge[mer].pc # "idle", mer \notin dirty'
                 PROVE  Undisturbed(mer)'
      BY DEF UndisturbedMerge
    <2>1. Undisturbed(mer) /\ at[rep] \notin Crash!Held(mer) /\ spot \notin Crash!Held(mer)
      BY OpenIsElsewhere DEF CrashInv, UndisturbedMerge
    <2>2. Crash!Held(mer)' = Crash!Held(mer) /\ merge[mer].sources \subseteq Crash!Held(mer)
      BY DEF Crash!Held
    <2>3. \A oth \in Actor : /\ at'[oth] \in Crash!Held(mer) <=> at[oth] \in Crash!Held(mer)
                             /\ at[oth] \in Crash!Held(mer) => pc'[oth] = pc[oth] /\ at'[oth] = at[oth]
      BY <1>1, <2>1
    <2>4. /\ Crash!ReportsOf(Crash!Held(mer))' = Crash!ReportsOf(Crash!Held(mer))
          /\ Crash!ReportsOf(merge[mer].sources)' = Crash!ReportsOf(merge[mer].sources)
      BY <2>2, <2>3 DEF Crash!ReportsOf, Crash!Inserted
    <2>5. Senders(Crash!ReportsOf(Crash!Held(mer)))' = Senders(Crash!ReportsOf(Crash!Held(mer)))
      BY <2>4 DEF Senders
    <2> QED
      BY <2>1, <2>2, <2>3, <2>4, <2>5 DEF Undisturbed, Crash!Open
  <1> QED
    BY <1>2, <1>3

\* A step of a report that has no place in the counters, before and after.
LEMMA Uncounted ==
    ASSUME Crash!CrashGroupsAssumption, CrashInv, NEW rep \in Actor, NEW step, NEW spot,
           pc' = [pc EXCEPT ![rep] = step], at' = [at EXCEPT ![rep] = spot], CrashTypes',
           UNCHANGED <<merge, device, adds, drifted>>, dirty \subseteq dirty',
           pc[rep] = "idle" \/ Crash!Open(rep), pc[rep] \notin Doing, step \notin Doing,
           step = "done" => spot = Nothing,
           step \in {"idle", "match", "create"} => spot = Nothing,
           spot # Nothing => group'[spot].life # "absent",
           spot # Nothing /\ step # "failed" => spot \in Crash!Live' \union drifted,
           \A mer \in Administrator \ dirty' : merge[mer].pc # "idle" => spot \notin Crash!Held(mer),
           \A grp \in Thing : /\ group'[grp].crashes = group[grp].crashes
                              /\ group'[grp].devices = group[grp].devices
                              /\ \/ group'[grp].life = group[grp].life
                                 \/ group[grp].life = "absent" /\ group'[grp].life = "live"
    PROVE  CrashInv'
  <1>1. /\ pc \in [Actor -> {"idle", "match", "promote", "create", "insert", "count", "increment",
                             "done", "failed"}]
        /\ at \in [Actor -> Thing \union {Nothing}] /\ Nothing \notin Thing
    BY DEF CrashInv, CrashTypes, Crash!TypeOK, Crash!CrashGroupsAssumption
  <1>2. ~Crash!Inserted(rep) /\ pc[rep] # "done"
    BY DEF Crash!Inserted, Crash!Open, Doing
  <1>3. Crash!Live \subseteq Crash!Live'
    BY DEF Crash!Live
  <1>4. MovedIsHeld' /\ UndisturbedMerge'
    BY <1>2, <1>3, SubmissionOfMerges
  <1>5. AtIsKnown'
    BY <1>1 DEF CrashInv, AtIsKnown
  <1>6. AbsentIsUnused'
    BY <1>1 DEF CrashInv, AbsentIsUnused, Crash!Held
  <1>7. OneCounts'
    BY <1>1 DEF CrashInv, OneCounts
  <1>8. AddsIsNew'
    <2> SUFFICES ASSUME NEW oth \in Actor, pc'[oth] = "increment", at'[oth] \notin drifted
                 PROVE  adds[oth] = IF FirstOfDevice(oth)' THEN 1 ELSE 0
      BY DEF AddsIsNew
    <2>1. oth # rep /\ pc[oth] = "increment" /\ at'[oth] = at[oth] /\ at[oth] # Nothing
      BY <1>1 DEF CrashInv, AtIsKnown, Doing
    <2>2. \A ano \in Actor : pc'[ano] = "done" /\ at'[ano] = at[oth] <=> pc[ano] = "done" /\ at[ano] = at[oth]
      BY <1>1, <1>2, <2>1
    <2>3. FirstOfDevice(oth)' = FirstOfDevice(oth)
      BY <2>1, <2>2 DEF FirstOfDevice
    <2> QED
      BY <2>1, <2>3 DEF CrashInv, AddsIsNew
  <1>9. NoneLeft'
    BY <1>1, <1>3 DEF CrashInv, NoneLeft
  <1>10. CountsHold'
    <2> SUFFICES ASSUME NEW grp \in Crash!Live', grp \notin drifted
                 PROVE  CountsAt(grp)'
      BY DEF CountsHold
    <2>1. grp \in Thing
      BY DEF Crash!Live
    <2>2. Crash!Counted(grp)' = Crash!Counted(grp)
      BY <1>1, <1>2, <2>1 DEF Crash!Counted
    <2>3. Senders(Crash!Counted(grp))' = Senders(Crash!Counted(grp))
      BY <2>2 DEF Senders
    <2>4. CountsAt(grp)
      <3>1. CASE group[grp].life = "absent"
        <4>1. Crash!Counted(grp) = {} /\ Senders(Crash!Counted(grp)) = {}
          BY <2>1, <3>1 DEF CrashInv, AbsentIsUnused, Crash!Counted, Senders
        <4> QED
          BY <2>1, <3>1, <4>1, FS_EmptySet DEF CrashInv, AbsentIsUnused, CountsAt
      <3>2. CASE group[grp].life # "absent"
        <4>1. grp \in Crash!Live
          BY <2>1, <3>2 DEF Crash!Live
        <4> QED
          BY <4>1 DEF CrashInv, CountsHold
      <3> QED
        BY <3>1, <3>2
    <2> QED
      BY <2>1, <2>2, <2>3, <2>4 DEF CountsAt
  <1> QED
    BY <1>4, <1>5, <1>6, <1>7, <1>8, <1>9, <1>10 DEF CrashInv

\* A report looks for its group, or makes one, and may get no further.
LEMMA LookupStep ==
    ASSUME Crash!CrashGroupsAssumption, CrashInv, NEW rep \in Actor,
           Crash!SubmitCrash(rep) \/ Crash!FindMatchingCrashGroup(rep) \/ Crash!Promote(rep)
    PROVE  CrashInv'
  <1>0. /\ pc \in [Actor -> {"idle", "match", "promote", "create", "insert", "count", "increment",
                             "done", "failed"}]
        /\ at \in [Actor -> Thing \union {Nothing}] /\ Nothing \notin Thing
        /\ at[rep] # Nothing /\ pc[rep] # "failed" => at[rep] \in Crash!Live \union drifted
        /\ at[rep] # Nothing => at[rep] \in Thing /\ group[at[rep]].life # "absent"
        /\ pc[rep] \in {"idle", "match"} => at[rep] = Nothing
    BY DEF CrashInv, CrashTypes, AtIsKnown, AbsentIsUnused, NoneLeft, Crash!TypeOK,
           Crash!CrashGroupsAssumption
  <1>1. at' = at => at' = [at EXCEPT ![rep] = at[rep]]
    BY <1>0
  <1>2. pc[rep] = "idle" \/ Crash!Open(rep) =>
           \A mer \in Administrator \ dirty : merge[mer].pc # "idle" => at[rep] \notin Crash!Held(mer)
    BY OpenIsElsewhere
  <1>3. CASE Crash!SubmitCrash(rep)
    <2>1. /\ pc[rep] = "idle" /\ pc' = [pc EXCEPT ![rep] = "match"]
          /\ UNCHANGED <<group, device, fingerprint, at, adds, merge, dirty, drifted>>
      BY <1>3 DEF Crash!SubmitCrash, Crash!Goto
    <2>2. CrashTypes'
      BY <2>1 DEF CrashInv, CrashTypes, Crash!TypeOK
    <2>3. /\ pc[rep] \notin Doing /\ "match" \notin Doing /\ at[rep] = Nothing
          /\ \A mer \in Administrator \ dirty' : merge[mer].pc # "idle" => at[rep] \notin Crash!Held(mer)
      BY <1>0, <1>2, <2>1 DEF Doing
    <2> QED
      BY <1>1, <2>1, <2>2, <2>3, Uncounted
  <1>4. CASE Crash!Promote(rep)
    <2>1. /\ pc[rep] = "promote" /\ pc' = [pc EXCEPT ![rep] = "insert"]
          /\ UNCHANGED <<device, fingerprint, at, adds, merge, dirty, drifted>>
      BY <1>4 DEF Crash!Promote, Crash!Goto
    <2>6. \/ group' = group
          \/ at[rep] \in Crash!Live /\ group' = [group EXCEPT ![at[rep]].fingerprint = fingerprint[rep]]
      <3> DEFINE free == at[rep] \in Crash!Live /\ Crash!Printed(fingerprint[rep]) = {}
      <3>1. group' = IF free THEN [group EXCEPT ![at[rep]].fingerprint = fingerprint[rep]] ELSE group
        BY <1>4 DEF Crash!Promote
      <3>2. free => at[rep] \in Crash!Live
        OBVIOUS
      <3> HIDE DEF free
      <3> QED
        BY <3>1, <3>2
    <2>2. /\ \A grp \in Thing : /\ group'[grp].crashes = group[grp].crashes
                                /\ group'[grp].devices = group[grp].devices
                                /\ group'[grp].life = group[grp].life
          /\ group' \in [Thing -> [life : {"absent", "live", "gone"}, active : BOOLEAN,
                                   fingerprint : Fingerprint, crashes : Nat, devices : Nat]]
      <3>1. /\ group \in [Thing -> [life : {"absent", "live", "gone"}, active : BOOLEAN,
                                    fingerprint : Fingerprint, crashes : Nat, devices : Nat]]
            /\ fingerprint[rep] \in Fingerprint
        BY DEF CrashInv, CrashTypes, Crash!TypeOK
      <3>2. CASE group' = group
        BY <3>1, <3>2
      <3>3. CASE at[rep] \in Thing /\ group' = [group EXCEPT ![at[rep]].fingerprint = fingerprint[rep]]
        BY <3>1, <3>3
      <3> QED
        BY <2>6, <3>2, <3>3 DEF Crash!Live
    <2>3. CrashTypes'
      BY <2>1, <2>2 DEF CrashInv, CrashTypes, Crash!TypeOK
    <2>4. /\ pc[rep] \notin Doing /\ "insert" \notin Doing /\ Crash!Open(rep)
          /\ at[rep] # Nothing => group'[at[rep]].life # "absent" /\ at[rep] \in Crash!Live' \union drifted
      BY <1>0, <2>1, <2>2 DEF Doing, Crash!Open, Crash!Live
    <2>5. \A mer \in Administrator \ dirty' : merge[mer].pc # "idle" => at[rep] \notin Crash!Held(mer)
      BY <1>2, <2>1, <2>4
    <2>7. /\ pc' = [pc EXCEPT ![rep] = "insert"] /\ at' = [at EXCEPT ![rep] = at[rep]]
          /\ UNCHANGED <<merge, device, adds, drifted>> /\ dirty \subseteq dirty'
      BY <1>1, <2>1
    <2>8. /\ at[rep] # Nothing => group'[at[rep]].life # "absent"
          /\ at[rep] # Nothing /\ "insert" # "failed" => at[rep] \in Crash!Live' \union drifted
      BY <2>4
    <2>9. \A grp \in Thing : /\ group'[grp].crashes = group[grp].crashes
                             /\ group'[grp].devices = group[grp].devices
                             /\ \/ group'[grp].life = group[grp].life
                                \/ group[grp].life = "absent" /\ group'[grp].life = "live"
      BY <2>2
    <2> QED
      BY <2>3, <2>4, <2>5, <2>7, <2>8, <2>9, Uncounted
  <1>5. CASE Crash!FindMatchingCrashGroup(rep)
    <2>1. /\ pc[rep] = "match" /\ UNCHANGED <<group, device, fingerprint, adds, merge, drifted>>
      BY <1>5 DEF Crash!FindMatchingCrashGroup
    <2>2. PICK step \in {"insert", "promote", "create"}, spot \in Crash!Live \union {Nothing} :
             /\ pc' = [pc EXCEPT ![rep] = step] /\ at' = [at EXCEPT ![rep] = spot]
             /\ step = "create" => spot = Nothing
             /\ spot # Nothing => Crash!Touches(spot)
             /\ spot = Nothing => UNCHANGED dirty
      <3>1. CASE \E grp \in Crash!Live : at' = [at EXCEPT ![rep] = grp]
        <4>1. PICK grp \in Crash!Live : at' = [at EXCEPT ![rep] = grp]
          BY <3>1
        <4>2. at'[rep] = grp /\ grp \in Thing
          BY <1>0, <4>1 DEF Crash!Live
        <4>3. CASE Crash!Touches(at'[rep]) /\ \E step \in {"insert", "promote"} : pc' = [pc EXCEPT ![rep] = step]
          BY <1>0, <4>1, <4>2, <4>3
        <4>4. CASE UNCHANGED <<at, dirty>>
          BY <1>0, <2>1, <4>1, <4>2, <4>4
        <4> QED
          BY <1>5, <4>3, <4>4 DEF Crash!FindMatchingCrashGroup, Crash!Goto
      <3>2. CASE UNCHANGED <<at, dirty>> /\ \E step \in {"insert", "create"} : pc' = [pc EXCEPT ![rep] = step]
        BY <1>0, <1>1, <2>1, <3>2
      <3> QED
        BY <1>5, <3>1, <3>2 DEF Crash!FindMatchingCrashGroup, Crash!Goto
    <2>3. /\ dirty \subseteq dirty' /\ dirty' \subseteq Administrator
          /\ \A mer \in Administrator \ dirty' : merge[mer].pc # "idle" => spot \notin Crash!Held(mer)
      <3>1. CASE spot = Nothing
        BY <1>0, <1>2, <2>1, <2>2, <3>1 DEF Crash!Open, CrashInv, CrashTypes, Crash!TypeOK
      <3>2. CASE spot # Nothing
        BY <2>2, <3>2 DEF Crash!Touches, CrashInv, CrashTypes, Crash!TypeOK
      <3> QED
        BY <3>1, <3>2
    <2>4. spot # Nothing => spot \in Thing /\ group[spot].life = "live"
      BY <2>2 DEF Crash!Live
    <2>5. CrashTypes'
      BY <1>0, <2>1, <2>2, <2>3, <2>4 DEF CrashInv, CrashTypes, Crash!TypeOK
    <2>6. /\ pc[rep] \notin Doing /\ step \notin Doing /\ Crash!Open(rep) /\ step \notin {"done", "failed"}
          /\ step \in {"idle", "match", "create"} => spot = Nothing
          /\ spot # Nothing => group'[spot].life # "absent" /\ spot \in Crash!Live' \union drifted
      BY <2>1, <2>2, <2>4 DEF Doing, Crash!Open, Crash!Live
    <2> QED
      BY <2>1, <2>2, <2>3, <2>5, <2>6, Uncounted
  <1> QED
    BY <1>3, <1>4, <1>5

LEMMA CreateStep ==
    ASSUME Crash!CrashGroupsAssumption, CrashInv, NEW rep \in Actor, Crash!CreateGroup(rep)
    PROVE  CrashInv'
  <1>0. /\ pc \in [Actor -> {"idle", "match", "promote", "create", "insert", "count", "increment",
                             "done", "failed"}]
        /\ at \in [Actor -> Thing \union {Nothing}] /\ Nothing \notin Thing
        /\ fingerprint[rep] \in Fingerprint
        /\ group \in [Thing -> [life : {"absent", "live", "gone"}, active : BOOLEAN,
                                fingerprint : Fingerprint, crashes : Nat, devices : Nat]]
    BY DEF CrashInv, CrashTypes, Crash!TypeOK, Crash!CrashGroupsAssumption
  <1>1. /\ pc[rep] = "create" /\ pc' = [pc EXCEPT ![rep] = "insert"]
        /\ UNCHANGED <<device, fingerprint, adds, merge, dirty, drifted>>
    BY DEF Crash!CreateGroup, Crash!Goto
  <1>2. pc[rep] \notin Doing /\ "insert" \notin Doing /\ Crash!Open(rep) /\ at[rep] = Nothing
    BY <1>1 DEF Doing, Crash!Open, CrashInv, AtIsKnown
  <1>3. \A mer \in Administrator \ dirty' : merge[mer].pc # "idle" => at[rep] \notin Crash!Held(mer)
    BY <1>1, <1>2, OpenIsElsewhere
  <1>4. ASSUME NEW grp \in Thing, group[grp].life = "absent",
               group' = [group EXCEPT ![grp] = [@ EXCEPT !.life = "live", !.fingerprint = fingerprint[rep]]],
               at' = [at EXCEPT ![rep] = grp]
        PROVE  CrashInv'
    <2>1. /\ group' \in [Thing -> [life : {"absent", "live", "gone"}, active : BOOLEAN,
                                   fingerprint : Fingerprint, crashes : Nat, devices : Nat]]
          /\ group'[grp].life = "live"
          /\ \A oth \in Thing : /\ group'[oth].crashes = group[oth].crashes
                                /\ group'[oth].devices = group[oth].devices
                                /\ \/ group'[oth].life = group[oth].life
                                   \/ group[oth].life = "absent" /\ group'[oth].life = "live"
      BY <1>0, <1>4
    <2>2. CrashTypes'
      BY <1>0, <1>1, <1>4, <2>1 DEF CrashInv, CrashTypes, Crash!TypeOK
    <2>3. \A mer \in Administrator \ dirty' : merge[mer].pc # "idle" => grp \notin Crash!Held(mer)
      BY <1>4 DEF CrashInv, AbsentIsUnused
    <2>4. group'[grp].life # "absent" /\ grp \in Crash!Live' \union drifted
      BY <2>1 DEF Crash!Live
    <2> QED
      BY <1>0, <1>1, <1>2, <1>4, <2>1, <2>2, <2>3, <2>4, Uncounted
  <1>5. CASE UNCHANGED <<group, at>>
    <2>1. at' = [at EXCEPT ![rep] = at[rep]]
      BY <1>0, <1>5
    <2>2. CrashTypes'
      BY <1>1, <1>5 DEF CrashInv, CrashTypes, Crash!TypeOK
    <2> QED
      BY <1>1, <1>2, <1>3, <1>5, <2>1, <2>2, Uncounted
  <1> QED
    BY <1>4, <1>5 DEF Crash!CreateGroup

\* A step of a report that is counted: what it leaves alone.
LEMMA CountingKeeps ==
    ASSUME Crash!CrashGroupsAssumption, CrashInv, NEW rep \in Actor,
           NEW step \in {"count", "increment", "done"},
           pc' = [pc EXCEPT ![rep] = step], UNCHANGED <<at, device, fingerprint, merge>>, CrashTypes',
           pc[rep] \in {"insert", "count", "increment"}, at[rep] # Nothing,
           dirty \subseteq dirty', drifted \subseteq drifted',
           \A grp \in Thing : /\ group'[grp].life = group[grp].life
                              /\ grp # at[rep] => group'[grp] = group[grp]
    PROVE  /\ AtIsKnown' /\ AbsentIsUnused' /\ NoneLeft' /\ MovedIsHeld' /\ UndisturbedMerge'
           /\ \A grp \in Crash!Live' \ drifted' : grp # at[rep] => CountsAt(grp)'
  <1>1. /\ pc \in [Actor -> {"idle", "match", "promote", "create", "insert", "count", "increment",
                             "done", "failed"}]
        /\ at \in [Actor -> Thing \union {Nothing}] /\ Crash!Open(rep)
        /\ at' = [at EXCEPT ![rep] = at[rep]]
    BY DEF CrashInv, CrashTypes, Crash!TypeOK, Crash!Open
  <1>2. Crash!Live' = Crash!Live
    BY DEF Crash!Live
  <1>3. \A mer \in Administrator \ dirty' : merge[mer].pc # "idle" => at[rep] \notin Crash!Held(mer)
    BY <1>1, OpenIsElsewhere
  <1>4. MovedIsHeld' /\ UndisturbedMerge'
    BY <1>1, <1>2, <1>3, SubmissionOfMerges
  <1>5. AtIsKnown' /\ AbsentIsUnused'
    BY <1>1 DEF CrashInv, AtIsKnown, AbsentIsUnused, Crash!Held
  <1>6. NoneLeft'
    BY <1>1, <1>2 DEF CrashInv, NoneLeft
  <1>7. ASSUME NEW grp \in Crash!Live', grp \notin drifted', grp # at[rep]
        PROVE  CountsAt(grp)'
    <2>1. grp \in Thing /\ CountsAt(grp)
      BY <1>2, <1>7 DEF Crash!Live, CrashInv, CountsHold
    <2>2. Crash!Counted(grp)' = Crash!Counted(grp)
      BY <1>1, <1>7 DEF Crash!Counted
    <2>3. Senders(Crash!Counted(grp))' = Senders(Crash!Counted(grp))
      BY <2>2 DEF Senders
    <2> QED
      BY <1>7, <2>1, <2>2, <2>3 DEF CountsAt
  <1> QED
    BY <1>4, <1>5, <1>6, <1>7

LEMMA InsertStep ==
    ASSUME Crash!CrashGroupsAssumption, CrashInv, NEW rep \in Actor, Crash!InsertReport(rep)
    PROVE  CrashInv'
  <1>0. /\ pc \in [Actor -> {"idle", "match", "promote", "create", "insert", "count", "increment",
                             "done", "failed"}]
        /\ at \in [Actor -> Thing \union {Nothing}] /\ Nothing \notin Thing
        /\ dirty \subseteq Administrator /\ drifted \subseteq Thing
    BY DEF CrashInv, CrashTypes, Crash!TypeOK, Crash!CrashGroupsAssumption
  <1>1. /\ pc[rep] = "insert" /\ UNCHANGED <<group, device, fingerprint, at, adds, merge>>
        /\ at' = [at EXCEPT ![rep] = at[rep]]
    BY <1>0 DEF Crash!InsertReport
  <1>2. CASE /\ UNCHANGED <<dirty, drifted>>
             /\ \/ at[rep] = Nothing /\ pc' = [pc EXCEPT ![rep] = "done"]
                \/ pc' = [pc EXCEPT ![rep] = "failed"]
    <2>1. PICK step \in {"done", "failed"} : pc' = [pc EXCEPT ![rep] = step] /\ (step = "done" => at[rep] = Nothing)
      BY <1>2
    <2>2. CrashTypes'
      BY <1>1, <1>2, <2>1 DEF CrashInv, CrashTypes, Crash!TypeOK
    <2>3. /\ Crash!Open(rep) /\ pc[rep] \notin Doing /\ step \notin Doing
          /\ step \notin {"idle", "match", "create"}
      BY <1>1 DEF Crash!Open, Doing
    <2>4. \A mer \in Administrator \ dirty' : merge[mer].pc # "idle" => at[rep] \notin Crash!Held(mer)
      BY <1>2, <2>3, OpenIsElsewhere
    <2>5. at[rep] # Nothing => group'[at[rep]].life # "absent"
      BY <1>0, <1>1 DEF CrashInv, AbsentIsUnused
    <2>6. at[rep] # Nothing /\ step # "failed" => at[rep] \in Crash!Live' \union drifted
      BY <2>1
    <2> QED
      BY <1>1, <1>2, <2>1, <2>2, <2>3, <2>4, <2>5, <2>6, Uncounted
  <1>3. CASE /\ at[rep] # Nothing /\ pc' = [pc EXCEPT ![rep] = "count"] /\ Crash!Touches(at[rep])
             /\ drifted' = IF Crash!Rival(rep) THEN drifted \union {at[rep]} ELSE drifted
    <2>1. /\ dirty \subseteq dirty' /\ dirty' \subseteq Administrator
          /\ drifted \subseteq drifted' /\ drifted' \subseteq Thing
      BY <1>0, <1>3 DEF Crash!Touches
    <2>2. CrashTypes'
      BY <1>1, <1>3, <2>1 DEF CrashInv, CrashTypes, Crash!TypeOK
    <2>3. /\ AtIsKnown' /\ AbsentIsUnused' /\ NoneLeft' /\ MovedIsHeld' /\ UndisturbedMerge'
          /\ \A grp \in Crash!Live' \ drifted' : grp # at[rep] => CountsAt(grp)'
      BY <1>1, <1>3, <2>1, <2>2, CountingKeeps
    <2>4. OneCounts'
      <3> SUFFICES ASSUME NEW one \in Actor, NEW oth \in Actor, one # oth,
                          pc'[one] \in Doing, pc'[oth] \in Doing, at[one] = at[oth],
                          device[one] = device[oth]
                   PROVE  at[one] \in drifted'
        BY <1>1 DEF OneCounts
      <3>1. CASE one = rep
        <4>1. pc[oth] \in Doing
          BY <1>0, <1>3, <3>1
        <4>2. Crash!Rival(rep)
          BY <3>1, <4>1 DEF Crash!Rival, Doing
        <4> QED
          BY <1>3, <3>1, <4>2
      <3>2. CASE oth = rep
        <4>1. pc[one] \in Doing
          BY <1>0, <1>3, <3>2
        <4>2. Crash!Rival(rep)
          BY <3>2, <4>1 DEF Crash!Rival, Doing
        <4> QED
          BY <1>3, <3>2, <4>2
      <3>3. CASE one # rep /\ oth # rep
        BY <1>0, <1>3, <2>1, <3>3 DEF CrashInv, OneCounts
      <3> QED
        BY <3>1, <3>2, <3>3
    <2>5. AddsIsNew'
      BY <1>0, <1>1, <1>3, <2>1 DEF CrashInv, AddsIsNew, FirstOfDevice
    <2>6. CountsHold'
      <3> SUFFICES ASSUME NEW grp \in Crash!Live', grp \notin drifted', grp = at[rep]
                   PROVE  CountsAt(grp)'
        BY <2>3 DEF CountsHold
      <3>1. CountsAt(grp)
        BY <1>1, <2>1 DEF CrashInv, CountsHold, Crash!Live
      <3>2. Crash!Counted(grp)' = Crash!Counted(grp)
        BY <1>0, <1>1, <1>3 DEF Crash!Counted
      <3>3. Senders(Crash!Counted(grp))' = Senders(Crash!Counted(grp))
        BY <1>1, <3>2 DEF Senders
      <3> QED
        BY <1>1, <3>1, <3>2, <3>3 DEF CountsAt
    <2> QED
      BY <2>2, <2>3, <2>4, <2>5, <2>6 DEF CrashInv
  <1> QED
    BY <1>2, <1>3 DEF Crash!InsertReport, Crash!Goto

\* IncrementCounts: how many reports of its device the group has with this one.
LEMMA CountStep ==
    ASSUME Crash!CrashGroupsAssumption, CrashInv, NEW rep \in Actor, Crash!CountDevice(rep)
    PROVE  CrashInv'
  <1> DEFINE same == {oth \in Actor : /\ Crash!Inserted(oth) /\ at[oth] = at[rep]
                                      /\ device[oth] = device[rep]}
  <1>0. /\ pc \in [Actor -> {"idle", "match", "promote", "create", "insert", "count", "increment",
                             "done", "failed"}]
        /\ at \in [Actor -> Thing \union {Nothing}] /\ adds \in [Actor -> 0 .. 1]
        /\ device \in [Actor -> Sender]
    BY DEF CrashInv, CrashTypes, Crash!TypeOK
  <1>1. /\ pc[rep] = "count" /\ pc' = [pc EXCEPT ![rep] = "increment"] /\ at[rep] # Nothing
        /\ UNCHANGED <<group, device, fingerprint, at, merge, dirty, drifted>>
    BY DEF Crash!CountDevice, Crash!Goto, CrashInv, AtIsKnown, Doing
  <1>2. adds' = [adds EXCEPT ![rep] = IF Cardinality(same) <= 1 THEN 1 ELSE 0]
    <2>1. adds' = [adds EXCEPT ![rep] = IF Crash!Cardinality(same) <= 1 THEN 1 ELSE 0]
      BY DEF Crash!CountDevice
    <2>2. Crash!Cardinality(same) = Cardinality(same)
      BY CrashCounts
    <2> QED
      BY <2>1, <2>2
  <1>3. at[rep] \notin drifted => (Cardinality(same) <= 1 <=> FirstOfDevice(rep))
    <2> SUFFICES ASSUME at[rep] \notin drifted
                 PROVE  Cardinality(same) <= 1 <=> FirstOfDevice(rep)
      OBVIOUS
    <2>1. rep \in same /\ same \in SUBSET Actor
      BY <1>1 DEF Crash!Inserted
    <2>2. \A oth \in same \ {rep} : pc[oth] = "done"
      BY <1>1 DEF CrashInv, OneCounts, Doing, Crash!Inserted
    <2>3. CASE FirstOfDevice(rep)
      <3>1. same = {rep}
        BY <2>1, <2>2, <2>3 DEF FirstOfDevice
      <3>2. Cardinality(same) = 1
        BY <3>1, FS_Singleton
      <3> QED
        BY <2>3, <3>2
    <2>4. CASE ~FirstOfDevice(rep)
      <3>1. PICK oth \in Actor : pc[oth] = "done" /\ at[oth] = at[rep] /\ device[oth] = device[rep]
        BY <2>4 DEF FirstOfDevice
      <3>2. oth \in same /\ oth # rep
        BY <1>1, <3>1 DEF Crash!Inserted
      <3>3. IsFiniteSet(same) /\ Cardinality(same) \in Nat
        BY <1>0, <2>1, ReportCards
      <3>4. Cardinality(same) # 1
        BY <2>1, <3>2, <3>3, FS_Singleton
      <3>5. Cardinality(same) # 0
        BY <2>1, <3>3, FS_EmptySet
      <3> QED
        BY <2>4, <3>3, <3>4, <3>5
    <2> QED
      BY <2>3, <2>4
  <1> HIDE DEF same
  <1>4. CrashTypes'
    BY <1>0, <1>1, <1>2 DEF CrashInv, CrashTypes, Crash!TypeOK
  <1>5. /\ AtIsKnown' /\ AbsentIsUnused' /\ NoneLeft' /\ MovedIsHeld' /\ UndisturbedMerge'
        /\ \A grp \in Crash!Live' \ drifted' : grp # at[rep] => CountsAt(grp)'
    BY <1>1, <1>4, CountingKeeps
  <1>6. OneCounts'
    BY <1>0, <1>1 DEF CrashInv, OneCounts, Doing
  <1>7. AddsIsNew'
    <2> SUFFICES ASSUME NEW oth \in Actor, pc'[oth] = "increment", at[oth] \notin drifted
                 PROVE  adds'[oth] = IF FirstOfDevice(oth)' THEN 1 ELSE 0
      BY <1>1 DEF AddsIsNew
    <2>1. FirstOfDevice(oth)' <=> FirstOfDevice(oth)
      BY <1>0, <1>1 DEF FirstOfDevice
    <2>2. CASE oth = rep
      BY <1>0, <1>2, <1>3, <2>1, <2>2
    <2>3. CASE oth # rep
      BY <1>0, <1>1, <1>2, <2>1, <2>3 DEF CrashInv, AddsIsNew
    <2> QED
      BY <2>2, <2>3
  <1>8. CountsHold'
    <2> SUFFICES ASSUME NEW grp \in Crash!Live', grp \notin drifted', grp = at[rep]
                 PROVE  CountsAt(grp)'
      BY <1>5 DEF CountsHold
    <2>1. CountsAt(grp)
      BY <1>1 DEF CrashInv, CountsHold, Crash!Live
    <2>2. Crash!Counted(grp)' = Crash!Counted(grp)
      BY <1>0, <1>1 DEF Crash!Counted
    <2>3. Senders(Crash!Counted(grp))' = Senders(Crash!Counted(grp))
      BY <1>1, <2>2 DEF Senders
    <2> QED
      BY <1>1, <2>1, <2>2, <2>3 DEF CountsAt
  <1> QED
    BY <1>4, <1>5, <1>6, <1>7, <1>8 DEF CrashInv

LEMMA UnreadStep ==
    ASSUME Crash!CrashGroupsAssumption, CrashInv, NEW rep \in Actor, Crash!CountUnread(rep)
    PROVE  CrashInv'
  <1>0. /\ pc \in [Actor -> {"idle", "match", "promote", "create", "insert", "count", "increment",
                             "done", "failed"}]
        /\ at \in [Actor -> Thing \union {Nothing}] /\ adds \in [Actor -> 0 .. 1]
        /\ drifted \subseteq Thing
    BY DEF CrashInv, CrashTypes, Crash!TypeOK
  <1>1. /\ pc[rep] = "count" /\ pc' = [pc EXCEPT ![rep] = "increment"] /\ at[rep] # Nothing
        /\ UNCHANGED <<group, device, fingerprint, at, merge, dirty>>
        /\ adds' = [adds EXCEPT ![rep] = 1] /\ drifted' = drifted \union {at[rep]}
    BY DEF Crash!CountUnread, Crash!Goto, CrashInv, AtIsKnown, Doing
  <1>2. CrashTypes'
    <2>1. at[rep] \in Thing
      BY <1>0, <1>1
    <2> QED
      BY <1>0, <1>1, <2>1 DEF CrashInv, CrashTypes, Crash!TypeOK
  <1>3. /\ AtIsKnown' /\ AbsentIsUnused' /\ NoneLeft' /\ MovedIsHeld' /\ UndisturbedMerge'
        /\ \A grp \in Crash!Live' \ drifted' : grp # at[rep] => CountsAt(grp)'
    BY <1>1, <1>2, CountingKeeps
  <1>4. OneCounts'
    BY <1>0, <1>1 DEF CrashInv, OneCounts, Doing
  <1>5. AddsIsNew'
    <2> SUFFICES ASSUME NEW oth \in Actor, pc'[oth] = "increment", at[oth] \notin drifted'
                 PROVE  adds'[oth] = IF FirstOfDevice(oth)' THEN 1 ELSE 0
      BY <1>1 DEF AddsIsNew
    <2>1. oth # rep /\ at[oth] \notin drifted
      BY <1>1
    <2>2. FirstOfDevice(oth)' <=> FirstOfDevice(oth)
      BY <1>0, <1>1 DEF FirstOfDevice
    <2> QED
      BY <1>0, <1>1, <2>1, <2>2 DEF CrashInv, AddsIsNew
  <1>6. CountsHold'
    BY <1>1, <1>3 DEF CountsHold
  <1> QED
    BY <1>2, <1>3, <1>4, <1>5, <1>6 DEF CrashInv

\* The counters are incremented, or the increment is lost.
LEMMA IncrementStep ==
    ASSUME Crash!CrashGroupsAssumption, CrashInv, NEW rep \in Actor,
           NEW grp, grp = at[rep], Crash!IncrementCounts(rep) \/ Crash!IncrementLost(rep)
    PROVE  CrashInv'
  <1>0. /\ pc \in [Actor -> {"idle", "match", "promote", "create", "insert", "count", "increment",
                             "done", "failed"}]
        /\ at \in [Actor -> Thing \union {Nothing}] /\ adds \in [Actor -> 0 .. 1]
        /\ device \in [Actor -> Sender] /\ dirty \subseteq Administrator /\ drifted \subseteq Thing
        /\ group \in [Thing -> [life : {"absent", "live", "gone"}, active : BOOLEAN,
                                fingerprint : Fingerprint, crashes : Nat, devices : Nat]]
    BY DEF CrashInv, CrashTypes, Crash!TypeOK
  <1>1. /\ pc[rep] \in Doing /\ pc' = [pc EXCEPT ![rep] = "done"]
        /\ UNCHANGED <<device, fingerprint, at, adds, merge>> /\ Crash!Touches(grp)
        /\ grp \in Thing
    BY <1>0 DEF Crash!IncrementCounts, Crash!IncrementLost, Crash!Goto, CrashInv, AtIsKnown, Doing
  <1>2. \/ /\ pc[rep] = "increment" /\ drifted' = drifted
           /\ group' = IF grp \in Crash!Live
                       THEN [group EXCEPT ![grp].crashes = @ + 1, ![grp].devices = @ + adds[rep]]
                       ELSE group
        \/ drifted' = drifted \union {grp} /\ group' = group
    BY DEF Crash!IncrementCounts, Crash!IncrementLost
  <1>3. /\ group' \in [Thing -> [life : {"absent", "live", "gone"}, active : BOOLEAN,
                                 fingerprint : Fingerprint, crashes : Nat, devices : Nat]]
        /\ \A oth \in Thing : /\ group'[oth].life = group[oth].life
                              /\ oth # grp => group'[oth] = group[oth]
    <2>1. adds[rep] \in Nat
      BY <1>0
    <2>2. CASE group' = group
      BY <1>0, <2>2
    <2>3. CASE group' = [group EXCEPT ![grp].crashes = @ + 1, ![grp].devices = @ + adds[rep]]
      <3>1. group[grp].crashes + 1 \in Nat /\ group[grp].devices + adds[rep] \in Nat
        BY <1>0, <1>1, <2>1
      <3> DEFINE first == [group EXCEPT ![grp].crashes = @ + 1]
                 typed == [Thing -> [life : {"absent", "live", "gone"}, active : BOOLEAN,
                                     fingerprint : Fingerprint, crashes : Nat, devices : Nat]]
      <3>2. group' = [first EXCEPT ![grp].devices = @ + adds[rep]]
        BY <2>3
      <3>3. /\ first \in typed /\ first[grp].devices = group[grp].devices
            /\ \A oth \in Thing : /\ first[oth].life = group[oth].life
                                  /\ oth # grp => first[oth] = group[oth]
        BY <1>0, <1>1, <3>1
      <3> HIDE DEF first
      <3>4. /\ group' \in typed
            /\ \A oth \in Thing : /\ group'[oth].life = first[oth].life
                                  /\ oth # grp => group'[oth] = first[oth]
        BY <1>1, <3>1, <3>2, <3>3
      <3> QED
        BY <3>3, <3>4
    <2> QED
      BY <1>2, <2>2, <2>3
  <1>4. /\ dirty \subseteq dirty' /\ dirty' \subseteq Administrator
        /\ drifted \subseteq drifted' /\ drifted' \subseteq Thing
    BY <1>0, <1>1, <1>2 DEF Crash!Touches
  <1>5. CrashTypes'
    BY <1>0, <1>1, <1>3, <1>4 DEF CrashInv, CrashTypes, Crash!TypeOK
  <1>6. /\ AtIsKnown' /\ AbsentIsUnused' /\ NoneLeft' /\ MovedIsHeld' /\ UndisturbedMerge'
        /\ \A oth \in Crash!Live' \ drifted' : oth # at[rep] => CountsAt(oth)'
    <2>1. pc[rep] \in {"insert", "count", "increment"} /\ at[rep] # Nothing
      BY <1>1 DEF Doing, Crash!CrashGroupsAssumption
    <2> QED
      BY <1>1, <1>3, <1>4, <1>5, <2>1, CountingKeeps
  <1>7. OneCounts'
    BY <1>0, <1>1, <1>4 DEF CrashInv, OneCounts, Doing
  <1>8. AddsIsNew'
    <2> SUFFICES ASSUME NEW oth \in Actor, pc'[oth] = "increment", at[oth] \notin drifted'
                 PROVE  adds[oth] = IF FirstOfDevice(oth)' THEN 1 ELSE 0
      BY <1>1 DEF AddsIsNew
    <2>1. oth # rep /\ pc[oth] = "increment" /\ at[oth] \notin drifted
      BY <1>0, <1>1, <1>4
    <2>2. ~(at[oth] = at[rep] /\ device[oth] = device[rep])
      BY <1>1, <2>1 DEF CrashInv, OneCounts, Doing
    <2>3. FirstOfDevice(oth)' <=> FirstOfDevice(oth)
      BY <1>0, <1>1, <2>2 DEF FirstOfDevice, Doing
    <2> QED
      BY <2>1, <2>3 DEF CrashInv, AddsIsNew
  <1>9. CountsHold'
    <2> SUFFICES ASSUME grp \in Crash!Live', grp \notin drifted'
                 PROVE  CountsAt(grp)'
      <3>1. \A oth \in Crash!Live' \ drifted' : CountsAt(oth)'
        <4> TAKE oth \in Crash!Live' \ drifted'
        <4>1. CASE oth = grp
          BY <4>1
        <4>2. CASE oth # grp
          BY <1>6, <4>2
        <4> QED
          BY <4>1, <4>2
      <3> QED
        BY <3>1 DEF CountsHold
    <2>1. /\ grp \in Crash!Live /\ grp \notin drifted /\ CountsAt(grp) /\ pc[rep] = "increment"
          /\ group' = [group EXCEPT ![grp].crashes = @ + 1, ![grp].devices = @ + adds[rep]]
      BY <1>1, <1>2, <1>3, <1>4 DEF CrashInv, CountsHold, Crash!Live
    <2>2. /\ Crash!Counted(grp) \in SUBSET Actor /\ rep \notin Crash!Counted(grp)
          /\ Crash!Counted(grp)' = Crash!Counted(grp) \union {rep}
      BY <1>0, <1>1, <2>1 DEF Crash!Counted
    <2>3. Senders(Crash!Counted(grp))' = Senders(Crash!Counted(grp) \union {rep})
      BY <1>1, <2>2 DEF Senders
    <2>4. FirstOfDevice(rep) <=> device[rep] \notin Senders(Crash!Counted(grp))
      BY DEF FirstOfDevice, Senders, Crash!Counted
    <2>5. adds[rep] = IF FirstOfDevice(rep) THEN 1 ELSE 0
      BY <2>1 DEF CrashInv, AddsIsNew
    <2>6. /\ group'[grp].crashes = group[grp].crashes + 1
          /\ group'[grp].devices = group[grp].devices + adds[rep]
      BY <1>0, <1>1, <2>1
    <2>7. /\ Cardinality(Crash!Counted(grp) \union {rep}) = Cardinality(Crash!Counted(grp)) + 1
          /\ Cardinality(Senders(Crash!Counted(grp))) \in Nat
          /\ device[rep] \in Senders(Crash!Counted(grp)) =>
                Cardinality(Senders(Crash!Counted(grp) \union {rep})) = Cardinality(Senders(Crash!Counted(grp)))
          /\ device[rep] \notin Senders(Crash!Counted(grp)) =>
                Cardinality(Senders(Crash!Counted(grp) \union {rep})) = Cardinality(Senders(Crash!Counted(grp))) + 1
      BY <1>0, <2>2, ReportCards
    <2>8. /\ Cardinality(Crash!Counted(grp))' = Cardinality(Crash!Counted(grp)) + 1
          /\ Cardinality(Senders(Crash!Counted(grp)))' = Cardinality(Senders(Crash!Counted(grp))) + adds[rep]
      BY <2>2, <2>3, <2>4, <2>5, <2>7
    <2> QED
      BY <1>1, <2>1, <2>6, <2>8 DEF CountsAt
  <1> QED
    BY <1>5, <1>6, <1>7, <1>8, <1>9 DEF CrashInv

\* What a merge does before it commits changes nothing that submissions look at.
LEMMA MergeOnly ==
    ASSUME CrashInv, UNCHANGED <<group, device, fingerprint, at, pc, adds, drifted>>,
           CrashTypes', MovedIsHeld', UndisturbedMerge',
           \A grp \in Thing, mer \in Administrator :
              group[grp].life = "absent" /\ merge'[mer].pc # "idle" => grp \notin Crash!Held(mer)'
    PROVE  CrashInv'
  <1>1. Crash!Live' = Crash!Live
    BY DEF Crash!Live
  <1>2. AtIsKnown' /\ AbsentIsUnused' /\ OneCounts' /\ NoneLeft'
    BY <1>1 DEF CrashInv, AtIsKnown, AbsentIsUnused, OneCounts, NoneLeft
  <1>3. AddsIsNew'
    BY DEF CrashInv, AddsIsNew, FirstOfDevice
  <1>4. ASSUME NEW grp \in Crash!Live \ drifted
        PROVE  CountsAt(grp)'
    <2>1. CountsAt(grp)
      BY DEF CrashInv, CountsHold
    <2>2. Crash!Counted(grp)' = Crash!Counted(grp)
      BY DEF Crash!Counted
    <2>3. Senders(Crash!Counted(grp))' = Senders(Crash!Counted(grp))
      BY <2>2 DEF Senders
    <2> QED
      BY <2>1, <2>2, <2>3 DEF CountsAt
  <1>5. CountsHold'
    BY <1>1, <1>4 DEF CountsHold
  <1> QED
    BY <1>2, <1>3, <1>5 DEF CrashInv

LEMMA LoadStep ==
    ASSUME Crash!CrashGroupsAssumption, CrashInv, NEW mer \in Administrator, NEW grp \in Thing,
           NEW sou \in SUBSET Thing, Crash!LoadForMerge(mer, grp, sou)
    PROVE  CrashInv'
  <1>1. /\ merge[mer].pc = "idle" /\ grp \notin sou /\ {grp} \union sou \subseteq Crash!Live
        /\ UNCHANGED <<group, device, fingerprint, at, pc, adds, drifted>>
        /\ merge \in [Administrator -> MergeStates]
    BY DEF Crash!LoadForMerge, CrashInv, CrashTypes
  <1>2. PICK new \in MergeStates :
          /\ new.pc = "reassign" /\ new.target = grp /\ new.sources = sou /\ new.moved = {}
          /\ merge' = [merge EXCEPT ![mer] = new]
    <2> DEFINE some == \E oth \in {grp} \union sou : group[oth].active
               new == [Crash!NoMerge EXCEPT !.pc = "reassign", !.target = grp, !.sources = sou,
                                            !.active = some]
    <2>1. merge' = [merge EXCEPT ![mer] = new]
      BY DEF Crash!LoadForMerge
    <2>2. some \in BOOLEAN
      OBVIOUS
    <2>3. /\ new \in MergeStates /\ new.pc = "reassign" /\ new.target = grp /\ new.sources = sou
          /\ new.moved = {}
      <3> HIDE DEF some
      <3> QED
        BY <2>2 DEF Crash!NoMerge, MergeStates
    <2> HIDE DEF new
    <2> QED
      BY <2>1, <2>3
  <1>3. /\ merge'[mer].pc = "reassign" /\ merge'[mer].target = grp /\ merge'[mer].sources = sou
        /\ merge'[mer].moved = {} /\ merge' \in [Administrator -> MergeStates]
        /\ \A oth \in Administrator \ {mer} : merge'[oth] = merge[oth]
    BY <1>1, <1>2
  <1>4. Crash!Held(mer)' = {grp} \union sou
        /\ \A oth \in Administrator \ {mer} : Crash!Held(oth)' = Crash!Held(oth)
    BY <1>3 DEF Crash!Held
  <1>5. /\ dirty' \subseteq Administrator
        /\ \A oth \in Administrator \ {mer} : oth \in dirty' <=> oth \in dirty
        /\ mer \notin dirty' => \A rep \in Actor : Crash!Open(rep) => at[rep] \notin {grp} \union sou
    BY DEF Crash!LoadForMerge, CrashInv, CrashTypes, Crash!TypeOK
  <1>6. CrashTypes'
    BY <1>1, <1>3, <1>5 DEF CrashInv, CrashTypes, Crash!TypeOK
  <1>7. MovedIsHeld'
    BY <1>1, <1>3 DEF CrashInv, MovedIsHeld, Crash!Inserted
  <1>8. UndisturbedMerge'
    <2> SUFFICES ASSUME NEW oth \in Administrator, merge'[oth].pc # "idle", oth \notin dirty'
                 PROVE  Undisturbed(oth)'
      BY DEF UndisturbedMerge
    <2>1. CASE oth = mer
      BY <1>1, <1>3, <1>4, <1>5, <2>1 DEF Undisturbed, Crash!Live, Crash!Open
    <2>2. CASE oth # mer
      <3>1. Undisturbed(oth) /\ merge'[oth] = merge[oth] /\ Crash!Held(oth)' = Crash!Held(oth)
        BY <1>3, <1>4, <1>5, <2>2 DEF CrashInv, UndisturbedMerge
      <3>2. /\ Crash!ReportsOf(Crash!Held(oth))' = Crash!ReportsOf(Crash!Held(oth))
            /\ Crash!ReportsOf(merge[oth].sources)' = Crash!ReportsOf(merge[oth].sources)
        BY <1>1, <3>1 DEF Crash!ReportsOf, Crash!Inserted
      <3>3. Senders(Crash!ReportsOf(Crash!Held(oth)))' = Senders(Crash!ReportsOf(Crash!Held(oth)))
        BY <1>1, <3>2 DEF Senders
      <3> QED
        BY <1>1, <3>1, <3>2, <3>3 DEF Undisturbed, Crash!Live, Crash!Open
    <2> QED
      BY <2>1, <2>2
  <1>9. \A abs \in Thing, oth \in Administrator :
           group[abs].life = "absent" /\ merge'[oth].pc # "idle" => abs \notin Crash!Held(oth)'
    <2> SUFFICES ASSUME NEW abs \in Thing, NEW oth \in Administrator, group[abs].life = "absent",
                        merge'[oth].pc # "idle"
                 PROVE  abs \notin Crash!Held(oth)'
      OBVIOUS
    <2>1. CASE oth = mer
      BY <1>1, <1>4, <2>1 DEF Crash!Live
    <2>2. CASE oth # mer
      BY <1>3, <1>4, <2>2 DEF CrashInv, AbsentIsUnused
    <2> QED
      BY <2>1, <2>2
  <1> QED
    BY <1>1, <1>6, <1>7, <1>8, <1>9, MergeOnly

\* The rows are moved, and counted; or the merge is ended.
LEMMA ReassignStep ==
    ASSUME Crash!CrashGroupsAssumption, CrashInv, NEW mer \in Administrator,
           Crash!Reassign(mer) \/ Crash!AbortMerge(mer)
    PROVE  CrashInv'
  <1> DEFINE held == Crash!ReportsOf(Crash!Held(mer))
             mine == Crash!ReportsOf(merge[mer].sources)
  <1>0. /\ merge \in [Administrator -> MergeStates] /\ merge[mer].pc # "idle"
        /\ UNCHANGED <<group, device, fingerprint, at, pc, adds, dirty, drifted>>
        /\ merge[mer].target \in Thing /\ merge[mer].target \notin merge[mer].sources
    BY DEF Crash!Reassign, Crash!AbortMerge, CrashInv, CrashTypes
  <1>1. /\ held \in SUBSET Actor /\ mine \in SUBSET Actor
        /\ Cardinality(held) \in Nat /\ Cardinality(Senders(held)) \in Nat
    <2>1. held \in SUBSET Actor /\ mine \in SUBSET Actor
      BY DEF Crash!ReportsOf
    <2>2. CASE Actor = {}
      <3>1. held = {} /\ Senders(held) = {}
        BY <2>1, <2>2 DEF Senders
      <3> QED
        BY <2>1, <3>1, FS_EmptySet
    <2>3. ASSUME NEW rep \in Actor PROVE Cardinality(held) \in Nat /\ Cardinality(Senders(held)) \in Nat
      BY <2>1, ReportCards DEF CrashInv, CrashTypes, Crash!TypeOK
    <2> QED
      BY <2>1, <2>2, <2>3
  <1>2. ASSUME Crash!Reassign(mer)
        PROVE  /\ merge[mer].pc = "reassign"
               /\ \A oth \in Administrator \ {mer} : merge[oth].moved \cap mine = {}
               /\ merge' = [merge EXCEPT ![mer] =
                     [merge[mer] EXCEPT !.pc = "commit", !.moved = mine, !.crashes = Cardinality(held),
                                        !.devices = Cardinality(Senders(held))]]
    <2>1. /\ Crash!MergedCounts(mer).crashes = Cardinality(held)
          /\ Crash!MergedCounts(mer).devices = Cardinality(Senders(held))
      BY CrashCounts DEF Crash!MergedCounts, Senders
    <2> QED
      BY <1>2, <2>1 DEF Crash!Reassign
  <1>3. /\ merge' \in [Administrator -> MergeStates]
        /\ \A oth \in Administrator \ {mer} : merge'[oth] = merge[oth]
        /\ \/ merge'[mer].pc = "idle" /\ merge'[mer].moved = {}
           \/ /\ merge'[mer].pc = "commit" /\ merge'[mer].target = merge[mer].target
              /\ merge'[mer].sources = merge[mer].sources /\ merge'[mer].moved = mine
              /\ merge'[mer].crashes = Cardinality(held)
              /\ merge'[mer].devices = Cardinality(Senders(held))
              /\ \A oth \in Administrator \ {mer} : merge[oth].moved \cap mine = {}
    <2>1. CASE Crash!AbortMerge(mer)
      BY <1>0, <2>1 DEF Crash!AbortMerge, Crash!NoMerge, MergeStates
    <2>2. CASE Crash!Reassign(mer)
      <3> DEFINE new == [merge[mer] EXCEPT !.pc = "commit", !.moved = mine,
                                           !.crashes = Cardinality(held),
                                           !.devices = Cardinality(Senders(held))]
      <3>1. merge[mer] \in MergeStates
        BY <1>0
      <3>2. /\ new \in MergeStates /\ new.pc = "commit" /\ new.target = merge[mer].target
            /\ new.sources = merge[mer].sources /\ new.moved = mine
            /\ new.crashes = Cardinality(held) /\ new.devices = Cardinality(Senders(held))
        <4> HIDE DEF held, mine
        <4> QED
          BY <1>1, <3>1 DEF MergeStates
      <3>3. merge' = [merge EXCEPT ![mer] = new]
        BY <1>2, <2>2
      <3>4. \A oth \in Administrator \ {mer} : merge[oth].moved \cap mine = {}
        BY <1>2, <2>2
      <3> HIDE DEF new, held, mine
      <3> QED
        BY <1>0, <3>2, <3>3, <3>4
    <2> QED
      BY <2>1, <2>2
  <1>4. CrashTypes'
    BY <1>0, <1>3 DEF CrashInv, CrashTypes, Crash!TypeOK
  <1>5. MovedIsHeld'
    <2>1. \A rep \in mine : Crash!Inserted(rep) /\ at[rep] \in merge[mer].sources
      BY DEF Crash!ReportsOf
    <2> HIDE DEF held, mine
    <2> QED
      BY <1>0, <1>3, <2>1 DEF CrashInv, MovedIsHeld, Crash!Inserted
  <1>6. UndisturbedMerge'
    <2> SUFFICES ASSUME NEW oth \in Administrator, merge'[oth].pc # "idle", oth \notin dirty
                 PROVE  Undisturbed(oth)'
      BY <1>0 DEF UndisturbedMerge
    <2>1. /\ Undisturbed(oth) /\ merge'[oth].sources = merge[oth].sources
          /\ merge'[oth].target = merge[oth].target
      BY <1>0, <1>3 DEF CrashInv, UndisturbedMerge
    <2>2. Crash!Held(oth)' = Crash!Held(oth)
      BY <2>1 DEF Crash!Held
    <2>3. /\ Crash!ReportsOf(Crash!Held(oth))' = Crash!ReportsOf(Crash!Held(oth))
          /\ Crash!ReportsOf(merge[oth].sources)' = Crash!ReportsOf(merge[oth].sources)
      BY <1>0, <2>1, <2>2 DEF Crash!ReportsOf, Crash!Inserted
    <2>4. Senders(Crash!ReportsOf(Crash!Held(oth)))' = Senders(Crash!ReportsOf(Crash!Held(oth)))
      BY <1>0, <2>3 DEF Senders
    <2>5. merge'[oth].pc = "commit" =>
             /\ merge'[oth].moved = Crash!ReportsOf(merge[oth].sources)
             /\ merge'[oth].crashes = Cardinality(Crash!ReportsOf(Crash!Held(oth)))
             /\ merge'[oth].devices = Cardinality(Senders(Crash!ReportsOf(Crash!Held(oth))))
      BY <1>3, <2>1 DEF Undisturbed
    <2> QED
      BY <1>0, <2>1, <2>2, <2>3, <2>4, <2>5 DEF Undisturbed, Crash!Live, Crash!Open
  <1>7. \A abs \in Thing, oth \in Administrator :
           group[abs].life = "absent" /\ merge'[oth].pc # "idle" => abs \notin Crash!Held(oth)'
    <2> SUFFICES ASSUME NEW abs \in Thing, NEW oth \in Administrator, group[abs].life = "absent",
                        merge'[oth].pc # "idle"
                 PROVE  abs \notin Crash!Held(oth)'
      OBVIOUS
    <2>1. /\ merge[oth].pc # "idle" /\ merge'[oth].sources = merge[oth].sources
          /\ merge'[oth].target = merge[oth].target
      BY <1>0, <1>3
    <2> QED
      BY <2>1 DEF CrashInv, AbsentIsUnused, Crash!Held
  <1> QED
    BY <1>0, <1>4, <1>5, <1>6, <1>7, MergeOnly

\* The merge commits.  When nothing has touched what it holds, its target has
\* the counters of the reports that are now there.
LEMMA CommitStep ==
    ASSUME Crash!CrashGroupsAssumption, CrashInv, NEW mer \in Administrator, Crash!CommitMerge(mer)
    PROVE  CrashInv'
  <1> DEFINE held == Crash!Held(mer)
             moved == merge[mer].moved
             target == merge[mer].target
             sources == merge[mer].sources
             overlaps == mer \in dirty \/ \E rep \in Actor : Crash!Open(rep) /\ at[rep] \in held
  <1>0. /\ pc \in [Actor -> {"idle", "match", "promote", "create", "insert", "count", "increment",
                             "done", "failed"}]
        /\ at \in [Actor -> Thing \union {Nothing}] /\ Nothing \notin Thing
        /\ dirty \subseteq Administrator /\ drifted \subseteq Thing
        /\ merge \in [Administrator -> MergeStates]
        /\ group \in [Thing -> [life : {"absent", "live", "gone"}, active : BOOLEAN,
                                fingerprint : Fingerprint, crashes : Nat, devices : Nat]]
    BY DEF CrashInv, CrashTypes, Crash!TypeOK, Crash!CrashGroupsAssumption
  <1>1. /\ merge[mer].pc = "commit" /\ UNCHANGED <<device, fingerprint, pc, adds>>
        /\ at' = [rep \in Actor |-> IF rep \in moved THEN target ELSE at[rep]]
        /\ merge' = [merge EXCEPT ![mer] = Crash!NoMerge]
        /\ drifted' = IF overlaps THEN drifted \union held ELSE drifted \ {target}
        /\ dirty' = dirty \union {oth \in Administrator : merge[oth].pc # "idle" /\ Crash!Held(oth) \cap held # {}}
    BY DEF Crash!CommitMerge
  <1>2. /\ target \in Thing /\ target \notin sources /\ sources \subseteq Thing
        /\ held = {target} \union sources /\ moved \subseteq Actor
        /\ merge[mer].active \in BOOLEAN /\ merge[mer].crashes \in Nat /\ merge[mer].devices \in Nat
    BY <1>0, <1>1 DEF CrashInv, CrashTypes, Crash!Held, MergeStates
  <1>3. /\ group' \in [Thing -> [life : {"absent", "live", "gone"}, active : BOOLEAN,
                                 fingerprint : Fingerprint, crashes : Nat, devices : Nat]]
        /\ \A grp \in Thing \ held : group'[grp] = group[grp]
        /\ \A grp \in sources : group'[grp].life = "gone"
        /\ group'[target].life = group[target].life
        /\ group'[target].crashes = merge[mer].crashes /\ group'[target].devices = merge[mer].devices
    <2> DEFINE typed == [life : {"absent", "live", "gone"}, active : BOOLEAN,
                         fingerprint : Fingerprint, crashes : Nat, devices : Nat]
               left(grp) == [group[grp] EXCEPT !.life = "gone"]
               kept == [group[target] EXCEPT !.active = merge[mer].active, !.crashes = merge[mer].crashes,
                                             !.devices = merge[mer].devices]
    <2>1. \A grp \in Thing : left(grp) \in typed /\ left(grp).life = "gone"
      BY <1>0
    <2>2. /\ kept \in typed /\ kept.life = group[target].life
          /\ kept.crashes = merge[mer].crashes /\ kept.devices = merge[mer].devices
      <3>1. group[target] \in typed
        BY <1>0, <1>2
      <3>2. /\ merge[mer].active \in BOOLEAN /\ merge[mer].crashes \in Nat
            /\ merge[mer].devices \in Nat
        BY <1>2
      <3> HIDE DEF target
      <3> QED
        BY <3>1, <3>2
    <2>3. group' = [grp \in Thing |-> IF grp \in sources THEN left(grp)
                                      ELSE IF grp = target THEN kept ELSE group[grp]]
      <3>1. group' = [grp \in Thing |->
               IF grp \in sources THEN [group[grp] EXCEPT !.life = "gone"]
               ELSE IF grp = target
                    THEN [group[grp] EXCEPT !.active = merge[mer].active, !.crashes = merge[mer].crashes,
                                            !.devices = merge[mer].devices]
                    ELSE group[grp]]
        BY DEF Crash!CommitMerge
      <3> QED
        BY <3>1
    <2>4. \A grp \in Thing : group[grp] \in typed
      BY <1>0
    <2> HIDE DEF typed, left, kept
    <2>5. group' \in [Thing -> typed]
      BY <2>1, <2>2, <2>3, <2>4
    <2>6. /\ \A grp \in Thing \ held : group'[grp] = group[grp]
          /\ \A grp \in sources : group'[grp].life = "gone"
          /\ group'[target] = kept
      BY <1>2, <2>1, <2>3
    <2> QED
      BY <2>2, <2>5, <2>6 DEF typed
  <1>4. \A rep \in moved : Crash!Inserted(rep) /\ at[rep] \in sources
    BY DEF CrashInv, MovedIsHeld
  <1>5. /\ \A rep \in Actor : at[rep] \notin held => at'[rep] = at[rep] /\ rep \notin moved
        /\ \A rep \in Actor : at'[rep] \notin held => at'[rep] = at[rep]
    BY <1>1, <1>2, <1>4
  <1>6. /\ merge'[mer].pc = "idle" /\ merge'[mer].moved = {} /\ merge' \in [Administrator -> MergeStates]
        /\ \A oth \in Administrator \ {mer} : merge'[oth] = merge[oth]
    BY <1>0, <1>1 DEF Crash!NoMerge, MergeStates
  \* A merge that is not disturbed: all that is counted with its groups is counted,
  \* and its groups are there.
  <1>7. ~overlaps => /\ held \subseteq Crash!Live /\ moved = Crash!ReportsOf(sources)
                     /\ \A rep \in Actor : at[rep] \in held => ~Crash!Open(rep)
                     /\ merge[mer].crashes = Cardinality(Crash!ReportsOf(held))
                     /\ merge[mer].devices = Cardinality(Senders(Crash!ReportsOf(held)))
    BY <1>1 DEF CrashInv, UndisturbedMerge, Undisturbed
  <1> HIDE DEF held, moved, target, sources, overlaps
  <1>8. CrashTypes'
    <2>1. at' \in [Actor -> Thing \union {Nothing}]
      BY <1>0, <1>1, <1>2
    <2>2. dirty' \subseteq Administrator /\ drifted' \subseteq Thing
      BY <1>0, <1>1, <1>2
    <2> QED
      BY <1>1, <1>3, <1>6, <2>1, <2>2 DEF CrashInv, CrashTypes, Crash!TypeOK
  <1>9. AtIsKnown'
    <2>1. \A rep \in moved : pc[rep] \in {"count", "increment", "done"}
      BY <1>4 DEF Crash!Inserted
    <2> QED
      BY <1>0, <1>1, <1>2, <2>1 DEF CrashInv, AtIsKnown
  <1>10. AbsentIsUnused'
    <2> SUFFICES ASSUME NEW grp \in Thing, group'[grp].life = "absent"
                 PROVE  /\ group'[grp].crashes = 0 /\ group'[grp].devices = 0
                        /\ \A rep \in Actor : at'[rep] # grp
                        /\ \A oth \in Administrator : merge'[oth].pc # "idle" => grp \notin Crash!Held(oth)'
      BY DEF AbsentIsUnused
    <2>1. \A abs \in Thing : group[abs].life = "absent" => abs \notin held
      BY <1>1 DEF CrashInv, AbsentIsUnused, held
    <2>2. grp \notin held
      BY <1>2, <1>3, <2>1
    <2>3. group'[grp] = group[grp]
      BY <1>3, <2>2
    <2>4. /\ group[grp].crashes = 0 /\ group[grp].devices = 0
          /\ \A rep \in Actor : at[rep] # grp
          /\ \A oth \in Administrator : merge[oth].pc # "idle" => grp \notin Crash!Held(oth)
      BY <2>3 DEF CrashInv, AbsentIsUnused
    <2>5. \A rep \in Actor : at'[rep] # grp
      BY <1>5, <2>2, <2>4
    <2>6. ASSUME NEW oth \in Administrator, merge'[oth].pc # "idle" PROVE grp \notin Crash!Held(oth)'
      BY <1>6, <2>4, <2>6 DEF Crash!Held
    <2> QED
      BY <2>3, <2>4, <2>5, <2>6
  \* Where a report is being counted nothing has moved.
  <1>11. \A rep \in Actor : pc[rep] \in Doing /\ at'[rep] \notin drifted' =>
            at'[rep] = at[rep] /\ at[rep] \notin drifted /\ at[rep] \notin held
    <2> SUFFICES ASSUME NEW rep \in Actor, pc[rep] \in Doing, at'[rep] \notin drifted'
                 PROVE  at'[rep] = at[rep] /\ at[rep] \notin drifted /\ at[rep] \notin held
      OBVIOUS
    <2>1. CASE overlaps
      BY <1>1, <1>2, <1>4, <1>5, <2>1
    <2>2. CASE ~overlaps
      <3>1. at[rep] \notin held
        BY <1>7, <2>2 DEF Doing, Crash!Open
      <3> QED
        BY <1>1, <1>2, <1>5, <2>2, <3>1
    <2> QED
      BY <2>1, <2>2
  <1>12. OneCounts'
    <2> SUFFICES ASSUME NEW rep \in Actor, NEW oth \in Actor, rep # oth, pc[rep] \in Doing,
                        pc[oth] \in Doing, at'[rep] = at'[oth], device[rep] = device[oth],
                        at'[rep] \notin drifted'
                 PROVE  FALSE
      BY <1>1 DEF OneCounts
    <2>1. at[rep] = at[oth] /\ at[rep] \notin drifted
      BY <1>11
    <2> QED
      BY <2>1 DEF CrashInv, OneCounts
  <1>13. AddsIsNew'
    <2> SUFFICES ASSUME NEW rep \in Actor, pc[rep] = "increment", at'[rep] \notin drifted'
                 PROVE  adds[rep] = IF FirstOfDevice(rep)' THEN 1 ELSE 0
      BY <1>1 DEF AddsIsNew
    <2>1. at'[rep] = at[rep] /\ at[rep] \notin drifted /\ at[rep] \notin held
      BY <1>11 DEF Doing
    <2>2. \A oth \in Actor : at'[oth] = at[rep] <=> at[oth] = at[rep]
      BY <1>5, <2>1
    <2>3. FirstOfDevice(rep)' <=> FirstOfDevice(rep)
      BY <1>1, <2>1, <2>2 DEF FirstOfDevice
    <2> QED
      BY <2>1, <2>3 DEF CrashInv, AddsIsNew
  <1>14. NoneLeft'
    <2> SUFFICES ASSUME NEW rep \in Actor, at'[rep] # Nothing, pc[rep] # "failed"
                 PROVE  at'[rep] \in Crash!Live' \union drifted'
      BY <1>1 DEF NoneLeft
    <2>1. CASE at'[rep] \notin held
      <3>1. at'[rep] = at[rep] /\ at[rep] \in Crash!Live \union drifted /\ at[rep] # target
        BY <1>2, <1>5, <2>1 DEF CrashInv, NoneLeft
      <3>2. at[rep] \in Crash!Live => at[rep] \in Crash!Live'
        BY <1>3, <2>1, <3>1 DEF Crash!Live
      <3>3. at[rep] \in drifted => at[rep] \in drifted'
        BY <1>1, <3>1
      <3> QED
        BY <3>1, <3>2, <3>3
    <2>2. CASE at'[rep] \in held /\ overlaps
      BY <1>1, <2>2
    <2>3. CASE at'[rep] \in held /\ ~overlaps
      <3>1. at'[rep] = target
        <4>1. CASE rep \in moved
          BY <1>1, <4>1
        <4>2. CASE rep \notin moved
          <5>1. at'[rep] = at[rep] /\ at[rep] \in held /\ ~Crash!Open(rep)
            BY <1>1, <1>7, <2>3, <4>2
          <5>2. pc[rep] # "idle"
            BY <1>0, <1>2, <2>3, <5>1 DEF CrashInv, AtIsKnown
          <5>3. Crash!Inserted(rep)
            BY <1>0, <5>1, <5>2 DEF Crash!Open, Crash!Inserted
          <5>4. at[rep] \notin sources
            BY <1>7, <2>3, <4>2, <5>3 DEF Crash!ReportsOf
          <5> QED
            BY <1>2, <5>1, <5>4
        <4> QED
          BY <4>1, <4>2
      <3>2. target \in Crash!Live'
        BY <1>2, <1>3, <1>7, <2>3 DEF Crash!Live
      <3> QED
        BY <3>1, <3>2
    <2> QED
      BY <2>1, <2>2, <2>3
  <1>15. MovedIsHeld'
    <2> SUFFICES ASSUME NEW oth \in Administrator
                 PROVE  /\ \A rep \in merge'[oth].moved : /\ Crash!Inserted(rep)'
                                                          /\ at'[rep] \in merge'[oth].sources
                        /\ \A ano \in Administrator \ {oth} : merge'[oth].moved \cap merge'[ano].moved = {}
      BY DEF MovedIsHeld
    <2>1. CASE oth = mer
      BY <1>6, <2>1
    <2>2. CASE oth # mer
      <3>1. /\ merge'[oth] = merge[oth] /\ merge[oth].moved \cap moved = {}
            /\ \A rep \in merge[oth].moved : Crash!Inserted(rep) /\ at[rep] \in merge[oth].sources
            /\ \A ano \in Administrator \ {oth} : merge[oth].moved \cap merge[ano].moved = {}
            /\ merge[oth].moved \subseteq Actor
        BY <1>0, <1>6, <2>2 DEF CrashInv, MovedIsHeld, moved, MergeStates
      <3>2. \A rep \in merge[oth].moved : at'[rep] = at[rep] /\ Crash!Inserted(rep)'
        BY <1>1, <3>1 DEF Crash!Inserted
      <3>3. \A ano \in Administrator \ {oth} : merge'[ano].moved \subseteq merge[ano].moved
        BY <1>6
      <3> QED
        BY <3>1, <3>2, <3>3
    <2> QED
      BY <2>1, <2>2
  <1>16. UndisturbedMerge'
    <2> SUFFICES ASSUME NEW oth \in Administrator, merge'[oth].pc # "idle", oth \notin dirty'
                 PROVE  Undisturbed(oth)'
      BY DEF UndisturbedMerge
    <2>1. oth # mer /\ merge'[oth] = merge[oth] /\ oth \notin dirty /\ Crash!Held(oth) \cap held = {}
      BY <1>1, <1>6
    <2>2. /\ Undisturbed(oth) /\ Crash!Held(oth)' = Crash!Held(oth)
          /\ merge[oth].sources \subseteq Crash!Held(oth)
      BY <2>1 DEF CrashInv, UndisturbedMerge, Crash!Held
    <2>3. \A rep \in Actor : /\ at'[rep] \in Crash!Held(oth) <=> at[rep] \in Crash!Held(oth)
                             /\ at[rep] \in Crash!Held(oth) => at'[rep] = at[rep]
      BY <1>5, <2>1
    <2>4. /\ Crash!ReportsOf(Crash!Held(oth))' = Crash!ReportsOf(Crash!Held(oth))
          /\ Crash!ReportsOf(merge[oth].sources)' = Crash!ReportsOf(merge[oth].sources)
      BY <1>1, <2>1, <2>2, <2>3 DEF Crash!ReportsOf, Crash!Inserted
    <2>5. Senders(Crash!ReportsOf(Crash!Held(oth)))' = Senders(Crash!ReportsOf(Crash!Held(oth)))
      BY <1>1, <2>4 DEF Senders
    <2>6. Crash!Held(oth) \subseteq Crash!Live'
      BY <1>3, <2>1, <2>2 DEF Undisturbed, Crash!Live
    <2>7. \A rep \in Actor : at'[rep] \in Crash!Held(oth) => ~Crash!Open(rep)'
      BY <1>1, <2>2, <2>3 DEF Undisturbed, Crash!Open
    <2> QED
      BY <2>1, <2>2, <2>4, <2>5, <2>6, <2>7 DEF Undisturbed
  <1>17. CountsHold'
    <2> SUFFICES ASSUME NEW grp \in Crash!Live', grp \notin drifted'
                 PROVE  CountsAt(grp)'
      BY DEF CountsHold
    <2>1. grp \in Thing /\ group'[grp].life = "live"
      BY DEF Crash!Live
    <2>2. CASE grp \notin held
      <3>1. group'[grp] = group[grp] /\ grp \in Crash!Live /\ grp \notin drifted
        BY <1>1, <1>2, <1>3, <2>1, <2>2 DEF Crash!Live
      <3>2. CountsAt(grp)
        BY <3>1 DEF CrashInv, CountsHold
      <3>3. Crash!Counted(grp)' = Crash!Counted(grp)
        BY <1>1, <1>5, <2>2 DEF Crash!Counted
      <3>4. Senders(Crash!Counted(grp))' = Senders(Crash!Counted(grp))
        BY <1>1, <3>3 DEF Senders
      <3> QED
        BY <3>1, <3>2, <3>3, <3>4 DEF CountsAt
    <2>3. CASE grp \in held
      <3>1. ~overlaps
        BY <1>1, <2>3
      <3>2. grp = target
        BY <1>2, <1>3, <2>1, <2>3
      <3>3. \A rep \in Actor : at'[rep] = target /\ pc[rep] = "done" <=> rep \in Crash!ReportsOf(held)
        <4> TAKE rep \in Actor
        <4>1. CASE rep \in moved
          <5>1. at'[rep] = target /\ Crash!Inserted(rep) /\ at[rep] \in held
            BY <1>1, <1>2, <1>4, <4>1
          <5>2. pc[rep] = "done"
            BY <1>7, <3>1, <5>1 DEF Crash!Inserted, Crash!Open
          <5> QED
            BY <5>1, <5>2 DEF Crash!ReportsOf
        <4>2. CASE rep \notin moved
          <5>1. at'[rep] = at[rep] /\ ~(Crash!Inserted(rep) /\ at[rep] \in sources)
            BY <1>1, <1>7, <3>1, <4>2 DEF Crash!ReportsOf
          <5>2. at[rep] = target => ~Crash!Open(rep)
            BY <1>2, <1>7, <3>1
          <5> QED
            BY <1>2, <5>1, <5>2 DEF Crash!ReportsOf, Crash!Inserted, Crash!Open
        <4> QED
          BY <4>1, <4>2
      <3>4. Crash!Counted(grp)' = Crash!ReportsOf(held)
        BY <1>1, <3>2, <3>3 DEF Crash!Counted, Crash!ReportsOf
      <3>5. Senders(Crash!Counted(grp))' = Senders(Crash!ReportsOf(held))
        BY <1>1, <3>4 DEF Senders
      <3> QED
        BY <1>3, <1>7, <3>1, <3>2, <3>4, <3>5 DEF CountsAt
    <2> QED
      BY <2>2, <2>3
  <1> QED
    BY <1>8, <1>9, <1>10, <1>12, <1>13, <1>14, <1>15, <1>16, <1>17 DEF CrashInv

LEMMA MergesStand ==
    ASSUME CrashInv, UNCHANGED <<device, at, pc, merge, dirty>>, Crash!Live' = Crash!Live
    PROVE  UndisturbedMerge'
  <1> SUFFICES ASSUME NEW mer \in Administrator, merge[mer].pc # "idle", mer \notin dirty
               PROVE  Undisturbed(mer)'
    BY DEF UndisturbedMerge
  <1>1. Undisturbed(mer) /\ Crash!Held(mer)' = Crash!Held(mer)
    BY DEF CrashInv, UndisturbedMerge, Crash!Held
  <1>2. /\ Crash!ReportsOf(Crash!Held(mer))' = Crash!ReportsOf(Crash!Held(mer))
        /\ Crash!ReportsOf(merge[mer].sources)' = Crash!ReportsOf(merge[mer].sources)
    BY <1>1 DEF Crash!ReportsOf, Crash!Inserted
  <1>3. Senders(Crash!ReportsOf(Crash!Held(mer)))' = Senders(Crash!ReportsOf(Crash!Held(mer)))
    BY <1>2 DEF Senders
  <1> QED
    BY <1>1, <1>2, <1>3 DEF Undisturbed, Crash!Open

\* An administrator closes a group or opens it again.
LEMMA StatusStep ==
    ASSUME CrashInv, NEW grp \in Thing, Crash!UpdateCrashGroup(grp)
    PROVE  CrashInv'
  <1>1. /\ group' = [group EXCEPT ![grp].active = ~@]
        /\ UNCHANGED <<device, fingerprint, at, pc, adds, merge, dirty, drifted>>
    BY DEF Crash!UpdateCrashGroup
  <1>2. /\ group' \in [Thing -> [life : {"absent", "live", "gone"}, active : BOOLEAN,
                                 fingerprint : Fingerprint, crashes : Nat, devices : Nat]]
        /\ \A oth \in Thing : /\ group'[oth].life = group[oth].life
                              /\ group'[oth].crashes = group[oth].crashes
                              /\ group'[oth].devices = group[oth].devices
    BY <1>1 DEF CrashInv, CrashTypes, Crash!TypeOK
  <1>3. Crash!Live' = Crash!Live
    BY <1>2 DEF Crash!Live
  <1>4. CrashTypes'
    BY <1>1, <1>2 DEF CrashInv, CrashTypes, Crash!TypeOK
  <1>5. AtIsKnown' /\ OneCounts' /\ AddsIsNew' /\ NoneLeft' /\ MovedIsHeld'
    BY <1>1, <1>3
    DEF CrashInv, AtIsKnown, OneCounts, AddsIsNew, FirstOfDevice, NoneLeft, MovedIsHeld, Crash!Inserted
  <1>6. AbsentIsUnused'
    BY <1>1, <1>2 DEF CrashInv, AbsentIsUnused, Crash!Held
  <1>7. UndisturbedMerge'
    BY <1>1, <1>3, MergesStand
  <1>8. CountsHold'
    <2> SUFFICES ASSUME NEW oth \in Crash!Live, oth \notin drifted PROVE CountsAt(oth)'
      BY <1>1, <1>3 DEF CountsHold
    <2>1. oth \in Thing /\ CountsAt(oth)
      BY DEF CrashInv, CountsHold, Crash!Live
    <2> QED
      BY <1>1, <1>2, <2>1 DEF CountsAt, Crash!Counted, Senders
  <1> QED
    BY <1>4, <1>5, <1>6, <1>7, <1>8 DEF CrashInv

LEMMA CrashStep ==
    ASSUME Crash!CrashGroupsAssumption, CrashInv, [Crash!Next]_Crash!vars
    PROVE  CrashInv'
  <1>1. CASE UNCHANGED Crash!vars
    <2>1. UNCHANGED <<group, device, fingerprint, at, pc, adds, merge, dirty, drifted>>
      BY <1>1 DEF Crash!vars
    <2>2. CrashTypes' /\ MovedIsHeld'
      BY <2>1 DEF CrashInv, CrashTypes, Crash!TypeOK, MovedIsHeld, Crash!Inserted
    <2>3. UndisturbedMerge'
      BY <2>1, MergesStand DEF Crash!Live
    <2>4. \A grp \in Thing, mer \in Administrator :
             group[grp].life = "absent" /\ merge'[mer].pc # "idle" => grp \notin Crash!Held(mer)'
      BY <2>1 DEF CrashInv, AbsentIsUnused, Crash!Held
    <2> QED
      BY <2>1, <2>2, <2>3, <2>4, MergeOnly
  <1>2. ASSUME NEW rep \in Actor,
               \/ Crash!SubmitCrash(rep) \/ Crash!FindMatchingCrashGroup(rep) \/ Crash!Promote(rep)
               \/ Crash!CreateGroup(rep) \/ Crash!InsertReport(rep) \/ Crash!CountDevice(rep)
               \/ Crash!CountUnread(rep)
               \/ Crash!IncrementCounts(rep) \/ Crash!IncrementLost(rep)
        PROVE  CrashInv'
    BY <1>2, LookupStep, CreateStep, InsertStep, CountStep, UnreadStep, IncrementStep
  <1>3. ASSUME NEW mer \in Administrator,
               \/ \E grp \in Thing, sou \in SUBSET Thing : Crash!LoadForMerge(mer, grp, sou)
               \/ Crash!Reassign(mer) \/ Crash!CommitMerge(mer) \/ Crash!AbortMerge(mer)
        PROVE  CrashInv'
    BY <1>3, LoadStep, ReassignStep, CommitStep
  <1>4. ASSUME NEW grp \in Thing, Crash!UpdateCrashGroup(grp)
        PROVE  CrashInv'
    BY <1>4, StatusStep
  <1> QED
    BY <1>1, <1>2, <1>3, <1>4 DEF Crash!Next

LEMMA CrashAlways == PartsSpec => [](subject = "crash" => CrashInv)
  <1>1. PartsInit => (subject = "crash" => CrashInv)
    BY CrashInit, PartsAssumption DEF PartsInit
  <1>2. (subject = "crash" => CrashInv) /\ [PartsNext]_partsVars => (subject = "crash" => CrashInv)'
    <2> SUFFICES ASSUME subject = "crash" => CrashInv, [PartsNext]_partsVars, subject' = "crash"
                 PROVE  CrashInv'
      OBVIOUS
    <2>1. subject = "crash"
      BY DEF PartsNext, partsVars
    <2>2. [Crash!Next]_Crash!vars
      BY <2>1 DEF PartsNext, partsVars, ofCrash, Crash!vars
    <2> QED
      BY <2>1, <2>2, CrashStep, PartsAssumption
  <1> QED
    BY <1>1, <1>2, PTL DEF PartsSpec

\* Where no operations have overlapped or failed the counters of a crash group
\* are those of its reports, whatever submissions, failures and merges there have
\* been, and no report is left with a group that has gone.
THEOREM GroupsCount == PartsSpec => []CountsExact
  <1>1. CrashInv => Crash!CountsExact
    <2> SUFFICES ASSUME CrashInv PROVE Crash!CountsExact
      OBVIOUS
    <2>1. \A grp \in Crash!Live \ drifted :
             /\ group[grp].crashes = Crash!Cardinality(Crash!Counted(grp))
             /\ group[grp].devices = Crash!Cardinality({device[rep] : rep \in Crash!Counted(grp)})
      BY CrashCounts DEF CrashInv, CountsHold, CountsAt, Senders
    <2>2. \A rep \in Actor : Crash!Inserted(rep) /\ at[rep] # Nothing => at[rep] \in Crash!Live \union drifted
      BY DEF CrashInv, NoneLeft, Crash!Inserted
    <2> QED
      BY <2>1, <2>2 DEF Crash!CountsExact
  <1>2. (subject = "crash" => CrashInv) => CountsExact
    BY <1>1 DEF CountsExact
  <1> QED
    BY <1>2, CrashAlways, PTL


-----------------------------------------------------------------------------
(* Requests.  Until the operation is called nothing has changed, and until *)
(* a call fails nothing has failed; so it is for the table of routes to    *)
(* name what fails, to change last and to put the audit before what an     *)
(* administrator changes, and for the pipeline to keep what it has noted.  *)

\* Nothing is answered before it is time, and what comes before the operation
\* has changed nothing and met nothing that did not answer.
Unanswered ==
    /\ stage \in {"body", "limit", "guards", "checks", "calls", "answer"} => status = 0
    /\ stage \in {"body", "limit", "guards", "checks", "calls"} => ~failed /\ error = Http!NoError
    /\ stage \in {"body", "limit", "guards", "checks"} => ~changed

\* An operation that met what did not answer has returned the failure of a call.
FailureReturned ==
    stage = "answer" /\ failed =>
        \E i \in DOMAIN route.handler.operation :
            /\ route.handler.operation[i].failure \notin {Http!NoError, Http!Ignored}
            /\ error = route.handler.operation[i].failure

\* What has changed, a call before the present one has.
ChangedBefore ==
    /\ changed => Http!Changes(route)
    /\ stage = "calls" /\ changed =>
        \E i \in DOMAIN route.handler.operation : i <= pos /\ route.handler.operation[i].writes

\* An operation that returns an error has changed nothing.
ReturnedUnchanged == stage = "answer" => ~changed \/ route.path \in Http!Partial

\* The audit is noted once its guard is passed, and its row comes with the answer.
AuditNoted ==
    /\ stage = "guards" =>
        \A i \in DOMAIN route.guards :
            i <= pos /\ route.guards[i] = "audit" => audited = Http!Audits(route.method)
    /\ stage \in {"checks", "calls", "answer"} \/ changed =>
        (Http!Audited(route) => audited = Http!Audits(route.method))
    /\ stage = "sent" /\ audited => row # "none"

HttpInv ==
    /\ Http!TypeOK /\ Unanswered /\ FailureReturned /\ ChangedBefore /\ ReturnedUnchanged
    /\ AuditNoted
    /\ Http!EndsInServerError /\ Http!GoesOnWhereListed
    /\ Http!ErrorsChangeNothing /\ Http!AdminChangesAudited

LEMMA UpToSum ==
    ASSUME NEW a \in Nat, NEW b \in Nat, NEW c \in Nat
    PROVE  \A x : /\ x \in 0..(a + b + c) <=> x \in Nat /\ x <= a + b + c
                  /\ x \in Nat /\ (x <= a \/ x <= b \/ x <= c) => x \in 0..(a + b + c)
  OBVIOUS

\* The parts of a route, and what is in the variables.
LEMMA RouteParts ==
    ASSUME Http!HttpApiAssumption, Http!TypeOK
    PROVE  /\ Http!RouteTypes(route) /\ route \in R!Routes
           /\ Len(route.guards) \in Nat /\ DOMAIN route.guards = 1..Len(route.guards)
           /\ Len(route.handler.checks) \in Nat
           /\ Len(route.handler.operation) \in Nat
           /\ DOMAIN route.handler.operation = 1..Len(route.handler.operation)
           /\ pos \in Nat
           /\ pos <= Len(route.guards) + Len(route.handler.checks) + Len(route.handler.operation)
           /\ failed \in BOOLEAN /\ ignored \in BOOLEAN /\ changed \in BOOLEAN /\ audited \in BOOLEAN
           /\ error \in {Http!NoError} \union STRING /\ status \in {0} \union 200..503
           /\ row \in {"none", "written", "failed"}
  <1>1. Http!RouteTypes(route) /\ route \in R!Routes
    BY DEF Http!TypeOK, Http!HttpApiAssumption
  <1>2. /\ Len(route.guards) \in Nat /\ DOMAIN route.guards = 1..Len(route.guards)
        /\ Len(route.handler.checks) \in Nat
        /\ Len(route.handler.operation) \in Nat
        /\ DOMAIN route.handler.operation = 1..Len(route.handler.operation)
    BY <1>1 DEF Http!RouteTypes
  <1> DEFINE a == Len(route.guards) b == Len(route.handler.checks)
             c == Len(route.handler.operation)
  <1>3. a \in Nat /\ b \in Nat /\ c \in Nat /\ pos \in 0..(a + b + c)
    BY <1>2 DEF Http!TypeOK, Http!handler, Http!calls
  <1> HIDE DEF a, b, c
  <1>4. pos \in Nat /\ pos <= a + b + c
    BY <1>3, UpToSum
  <1>5. /\ failed \in BOOLEAN /\ ignored \in BOOLEAN /\ changed \in BOOLEAN /\ audited \in BOOLEAN
        /\ error \in {Http!NoError} \union STRING /\ status \in {0} \union 200..503
        /\ row \in {"none", "written", "failed"}
    BY DEF Http!TypeOK
  <1> QED
    BY <1>1, <1>2, <1>4, <1>5 DEF a, b, c

\* The position stays within one of the lists of the route.
LEMMA TypeStep ==
    ASSUME Http!HttpApiAssumption, Http!TypeOK, route' = route,
           stage' \in {"body", "limit", "guards", "checks", "calls", "answer", "audit",
                       "sent", "lost"},
           pos' \in Nat,
           \/ pos' <= Len(route.guards) \/ pos' <= Len(route.handler.checks)
           \/ pos' <= Len(route.handler.operation) \/ pos' = pos,
           error' \in {Http!NoError} \union STRING, status' \in {0} \union 200..503,
           failed' \in BOOLEAN, ignored' \in BOOLEAN, changed' \in BOOLEAN, audited' \in BOOLEAN,
           row' \in {"none", "written", "failed"}
    PROVE  Http!TypeOK'
  <1> DEFINE a == Len(route.guards) b == Len(route.handler.checks)
             c == Len(route.handler.operation)
  <1>1. a \in Nat /\ b \in Nat /\ c \in Nat /\ pos \in Nat /\ pos <= a + b + c
    BY RouteParts
  <1>2. pos' <= a \/ pos' <= b \/ pos' <= c \/ pos' = pos
    OBVIOUS
  <1>3. a' = a /\ b' = b /\ c' = c
    OBVIOUS
  <1> HIDE DEF a, b, c
  <1>4. pos' \in 0..(a + b + c)
    BY <1>1, <1>2, UpToSum
  <1>5. pos' \in 0..(a' + b' + c')
    BY <1>3, <1>4
  <1> QED
    BY <1>5, RouteParts DEF Http!TypeOK, Http!handler, Http!calls, a, b, c

LEMMA HttpInit == ASSUME Http!HttpApiAssumption PROVE Http!Init => HttpInv
  <1> SUFFICES ASSUME Http!Init PROVE HttpInv
    OBVIOUS
  <1>1. Http!RouteTypes(route)
    BY DEF Http!HttpApiAssumption, Http!Init
  <1>2. /\ Len(route.guards) \in Nat /\ Len(route.handler.checks) \in Nat
        /\ Len(route.handler.operation) \in Nat
    BY <1>1 DEF Http!RouteTypes
  <1>3. pos \in 0..(Len(route.guards) + Len(route.handler.checks) + Len(route.handler.operation))
    <2> DEFINE a == Len(route.guards) b == Len(route.handler.checks)
               c == Len(route.handler.operation)
    <2>1. a \in Nat /\ b \in Nat /\ c \in Nat /\ pos = 0
      BY <1>2 DEF Http!Init
    <2> HIDE DEF a, b, c
    <2>2. pos \in 0..(a + b + c)
      BY <2>1, UpToSum
    <2> QED
      BY <2>2 DEF a, b, c
  <1>4. Http!TypeOK
    <2>1. /\ route \in R!Routes /\ stage = "body" /\ error = Http!NoError /\ status = 0
          /\ row = "none" /\ failed \in BOOLEAN /\ ignored \in BOOLEAN /\ changed \in BOOLEAN /\ audited \in BOOLEAN
      BY DEF Http!Init
    <2>2. pos \in 0..(Len(route.guards) + Len(Http!handler.checks) + Len(Http!calls))
      BY <1>3 DEF Http!handler, Http!calls
    <2>3. /\ status \in {0} \union 200..503 /\ error \in {Http!NoError} \union STRING
          /\ stage \in {"body", "limit", "guards", "checks", "calls", "answer", "audit",
                       "sent", "lost"}
          /\ row \in {"none", "written", "failed"}
      BY <2>1
    <2> QED
      BY <2>1, <2>2, <2>3, Zenon DEF Http!TypeOK
  <1>5. Unanswered /\ FailureReturned /\ ChangedBefore /\ ReturnedUnchanged /\ AuditNoted
    BY DEF Http!Init, Unanswered, FailureReturned, ChangedBefore, ReturnedUnchanged, AuditNoted
  <1>6. /\ Http!EndsInServerError /\ Http!GoesOnWhereListed
        /\ Http!ErrorsChangeNothing /\ Http!AdminChangesAudited
    BY DEF Http!Init, Http!EndsInServerError, Http!GoesOnWhereListed,
           Http!ErrorsChangeNothing, Http!AdminChangesAudited
  <1> QED
    BY <1>4, <1>5, <1>6 DEF HttpInv

\* Of what does not answer, only what the route lists is passed over.
LEMMA ListedStep ==
    ASSUME HttpInv, route' = route,
           ignored' = ignored \/ route.path \in Http!Unnoticed
    PROVE  Http!GoesOnWhereListed'
  <1>1. Http!Unnoticed' = Http!Unnoticed
    BY DEF Http!Unnoticed, Http!ShownAsZero, Http!DoneWithout
  <1> QED
    BY <1>1 DEF HttpInv, Http!GoesOnWhereListed

\* An answer, by whichever part of the pipeline: it may be an error only while
\* nothing has changed, and owns up to what did not answer.
LEMMA ReplyStep ==
    ASSUME Http!HttpApiAssumption, HttpInv, NEW code \in 200..503, Http!Reply(code),
           stage \in {"body", "limit", "guards", "checks", "calls", "answer"},
           UNCHANGED <<route, pos, error, ignored, changed, audited, row>>, failed' \in BOOLEAN,
           failed' => \/ code >= 500
                      \/ code = 401 /\ error = Http!NoError
                      \/ route.path \in Http!Masked,
           code >= 400 /\ changed => route.path \in Http!Partial
    PROVE  HttpInv'
  <1> USE DEF HttpInv
  <1>1. status' = code /\ stage' = IF audited THEN "audit" ELSE "sent"
    BY DEF Http!Reply
  <1>2. Http!TypeOK'
    <2>1. /\ stage' \in {"body", "limit", "guards", "checks", "calls", "answer", "audit",
                         "sent", "lost"}
          /\ status' \in {0} \union 200..503
      BY <1>1
    <2>2. /\ pos' = pos /\ pos' \in Nat /\ error' \in {Http!NoError} \union STRING
          /\ ignored' \in BOOLEAN /\ changed' \in BOOLEAN /\ audited' \in BOOLEAN
          /\ row' \in {"none", "written", "failed"}
      BY RouteParts
    <2> QED
      BY <2>1, <2>2, TypeStep
  <1>3. Unanswered' /\ FailureReturned' /\ ReturnedUnchanged'
    BY <1>1 DEF Http!TypeOK, Unanswered, FailureReturned, ReturnedUnchanged
  <1>4. ChangedBefore'
    BY <1>1 DEF ChangedBefore, Http!Changes
  <1>5. AuditNoted'
    BY <1>1 DEF Http!TypeOK, AuditNoted, Http!Audited, Http!Audits
  <1>6. Http!EndsInServerError' /\ Http!ErrorsChangeNothing'
    BY <1>1 DEF Http!EndsInServerError, Http!ErrorsChangeNothing, Http!Masked, Http!Partial
  <1>7. Http!AdminChangesAudited'
    <2> SUFFICES ASSUME ~audited, changed, Http!SkipsLimit(route) PROVE FALSE
      BY <1>1 DEF Http!AdminChangesAudited, Http!SkipsLimit, Http!TypeOK
    <2>1. Http!Changes(route) /\ route \in R!Routes
      BY DEF ChangedBefore, Http!TypeOK
    <2>2. Http!Audited(route) /\ route.method \in {"POST", "PATCH", "DELETE"}
      BY <2>1 DEF Http!HttpApiAssumption
    <2>3. audited = Http!Audits(route.method)
      BY <2>2 DEF AuditNoted
    <2> QED
      BY <2>2, <2>3 DEF Http!Audits
  <1>L. Http!GoesOnWhereListed'
    BY ListedStep
  <1> QED
    BY <1>2, <1>3, <1>4, <1>5, <1>6, <1>7, <1>L

\* The last step, whatever it is, changes only the stage and the row.
LEMMA EndStep ==
    ASSUME Http!HttpApiAssumption, HttpInv, stage' \in {"sent", "lost"}, row' \in {"none", "written", "failed"},
           UNCHANGED <<route, pos, error, failed, ignored, changed, audited, status>>,
           stage' = "sent" => row' # "none"
    PROVE  HttpInv'
  <1> USE DEF HttpInv
  <1>1. Http!TypeOK'
    <2>1. stage' \in {"body", "limit", "guards", "checks", "calls", "answer", "audit",
                      "sent", "lost"}
      BY DEF Http!TypeOK
    <2> QED
      BY <2>1, RouteParts, TypeStep
  <1>2. Unanswered' /\ FailureReturned' /\ ReturnedUnchanged'
    BY DEF Unanswered, FailureReturned, ReturnedUnchanged
  <1>3. ChangedBefore' /\ AuditNoted'
    BY DEF ChangedBefore, Http!Changes, AuditNoted, Http!Audited, Http!Audits
  <1>4. Http!EndsInServerError' /\ Http!ErrorsChangeNothing' /\ Http!AdminChangesAudited'
    BY DEF Http!EndsInServerError, Http!ErrorsChangeNothing, Http!AdminChangesAudited,
           Http!Masked, Http!Partial, Http!SkipsLimit
  <1>L. Http!GoesOnWhereListed'
    BY ListedStep
  <1> QED
    BY <1>1, <1>2, <1>3, <1>4, <1>L

\* So far nothing has happened.
LEMMA BeforeCalls ==
    ASSUME Http!HttpApiAssumption, HttpInv
    PROVE  /\ Http!TypeOK
           /\ stage \in {"body", "limit", "guards", "checks", "calls"} =>
                failed = FALSE /\ error = Http!NoError
           /\ stage \in {"body", "limit", "guards", "checks"} => changed = FALSE
  <1>1. Http!TypeOK
    BY DEF HttpInv
  <1> QED
    BY <1>1, RouteParts DEF HttpInv, Unanswered

\* What is answered before the operation.
LEMMA DenyStep ==
    ASSUME Http!HttpApiAssumption, HttpInv, stage \in {"body", "limit", "guards", "checks"},
           NEW code \in 200..503, Http!Reply(code),
           UNCHANGED <<route, pos, error, ignored, changed, audited, row>>,
           failed' \in BOOLEAN, failed' => code \in {401, 503}
    PROVE  HttpInv'
  <1>1. failed = FALSE /\ error = Http!NoError /\ changed = FALSE
    BY BeforeCalls
  <1>2. failed' => code >= 500 \/ (code = 401 /\ error = Http!NoError)
    BY <1>1
  <1>3. ~(code >= 400 /\ changed)
    BY <1>1
  <1> QED
    BY <1>2, <1>3, ReplyStep

\* A step before the operation that answers nothing.
LEMMA QuietStep ==
    ASSUME Http!HttpApiAssumption, HttpInv,
           stage \in {"body", "limit", "guards", "checks"},
           stage' \in {"limit", "guards", "checks", "calls"},
           UNCHANGED <<route, error, failed, ignored, changed, status, row>>,
           pos' \in Nat, pos' <= Len(route.guards) \/ pos' <= Len(route.handler.checks),
           audited' \in BOOLEAN, AuditNoted'
    PROVE  HttpInv'
  <1> USE DEF HttpInv
  <1>1. Http!TypeOK'
    BY RouteParts, TypeStep
  <1>2. Unanswered' /\ FailureReturned' /\ ReturnedUnchanged' /\ ChangedBefore'
    BY DEF Unanswered, FailureReturned, ReturnedUnchanged, ChangedBefore
  <1>3. Http!EndsInServerError' /\ Http!ErrorsChangeNothing' /\ Http!AdminChangesAudited'
    BY DEF Unanswered, Http!EndsInServerError, Http!ErrorsChangeNothing,
           Http!AdminChangesAudited
  <1>L. Http!GoesOnWhereListed'
    BY ListedStep
  <1> QED
    BY <1>1, <1>2, <1>3, <1>L

\* The three middleware that let a request pass or answer it themselves.
LEMMA GuardStep ==
    ASSUME Http!HttpApiAssumption, HttpInv, NEW name \in {"strict", "device", "admin"},
           Http!Guard(name),
           \/ Http!Pass
           \/ \E code \in {401, 403, 429} : Http!Deny(code)
           \/ \E code \in {401, 503} : Http!DenyUndecided(code),
           UNCHANGED <<route, error, ignored, changed, audited, row>>
    PROVE  HttpInv'
  <1>1. stage = "guards" /\ pos < Len(route.guards) /\ route.guards[pos + 1] = name
    BY DEF Http!Guard
  <1>2. failed = FALSE /\ error = Http!NoError /\ changed = FALSE /\ Http!TypeOK
    BY <1>1, BeforeCalls
  <1>3. CASE Http!Pass
    <2>1. stage' = stage /\ pos' = pos + 1 /\ UNCHANGED <<status, failed>>
      BY <1>3 DEF Http!Pass
    <2>2. pos' \in Nat /\ pos' <= Len(route.guards)
      BY <1>1, <1>2, <2>1, RouteParts
    <2>3. \A i \in DOMAIN route.guards : i <= pos' /\ route.guards[i] = "audit" => i <= pos
      BY <1>1, <1>2, <2>1, RouteParts
    <2>4. AuditNoted'
      BY <1>1, <1>2, <2>1, <2>3 DEF HttpInv, AuditNoted
    <2> QED
      BY <1>1, <2>1, <2>2, <2>4, QuietStep DEF HttpInv, Http!TypeOK
  <1>4. ASSUME NEW code \in {401, 403, 429}, Http!Deny(code)
        PROVE  HttpInv'
    <2>1. code \in 200..503 /\ Http!Reply(code) /\ UNCHANGED pos
      BY <1>4 DEF Http!Deny
    <2>2. failed' = FALSE
      BY <1>2, <1>4 DEF Http!Deny
    <2>3. failed' \in BOOLEAN /\ (failed' => code \in {401, 503})
      BY <2>2
    <2>4. stage \in {"body", "limit", "guards", "checks"}
      BY <1>1
    <2> QED
      BY <2>1, <2>3, <2>4, DenyStep
  <1>5. ASSUME NEW code \in {401, 503}, Http!DenyUndecided(code)
        PROVE  HttpInv'
    <2>1. code \in 200..503 /\ Http!Reply(code) /\ UNCHANGED pos /\ failed' = TRUE
      BY <1>5 DEF Http!DenyUndecided
    <2> QED
      BY <1>1, <1>5, <2>1, DenyStep
  <1> QED
    BY <1>3, <1>4, <1>5

LEMMA AuditStep ==
    ASSUME Http!HttpApiAssumption, HttpInv, Http!AuditLog PROVE HttpInv'
  <1>1. /\ stage = "guards" /\ pos < Len(route.guards)
        /\ stage' = stage /\ pos' = pos + 1 /\ audited' = Http!Audits(route.method)
        /\ UNCHANGED <<route, error, failed, ignored, changed, status, row>>
    BY DEF Http!AuditLog, Http!Guard, Http!Pass
  <1>2. pos' \in Nat /\ pos' <= Len(route.guards)
    BY <1>1, RouteParts, BeforeCalls
  <1>3. AuditNoted' /\ audited' \in BOOLEAN
    BY <1>1 DEF HttpInv, AuditNoted, Http!Audits
  <1> QED
    BY <1>1, <1>2, <1>3, QuietStep

LEMMA EnterStep ==
    ASSUME Http!HttpApiAssumption, HttpInv,
           \/ Http!MaxBodySize \/ Http!GlobalLimit \/ Http!EnterHandler \/ Http!CheckRequest
    PROVE  HttpInv'
  <1>1. CASE Http!MaxBodySize
    <2>1. /\ stage = "body" /\ UNCHANGED <<route, error, failed, ignored, changed, audited, row>>
          /\ failed = FALSE /\ changed = FALSE /\ Http!TypeOK
      BY <1>1, BeforeCalls DEF Http!MaxBodySize
    <2>2. CASE Http!Enter("limit") /\ UNCHANGED status
      <3>1. stage' = "limit" /\ pos' = 0
        BY <2>2 DEF Http!Enter
      <3>2. AuditNoted'
        BY <2>1, <3>1 DEF HttpInv, AuditNoted, Unanswered
      <3> QED
        BY <2>1, <2>2, <3>1, <3>2, RouteParts, QuietStep
    <2>3. CASE Http!Reply(413) /\ UNCHANGED pos
      <3> DEFINE code == 413
      <3>1. code \in 200..503 /\ Http!Reply(code) /\ failed' = FALSE
        BY <2>1, <2>3
      <3> HIDE DEF code
      <3> QED
        BY <2>1, <2>3, <3>1, DenyStep
    <2> QED
      BY <1>1, <2>2, <2>3 DEF Http!MaxBodySize
  <1>2. CASE Http!GlobalLimit
    <2>1. /\ stage = "limit" /\ UNCHANGED <<route, error, failed, ignored, changed, audited, row>>
          /\ failed = FALSE /\ changed = FALSE /\ Http!TypeOK
      BY <1>2, BeforeCalls DEF Http!GlobalLimit
    <2>2. CASE Http!Enter("guards") /\ UNCHANGED status
      <3>1. stage' = "guards" /\ pos' = 0
        BY <2>2 DEF Http!Enter
      <3>2. \A i \in DOMAIN route.guards : ~(i <= pos')
        BY <2>1, <3>1, RouteParts
      <3>3. AuditNoted'
        BY <2>1, <3>1, <3>2 DEF HttpInv, AuditNoted, Unanswered
      <3> QED
        BY <2>1, <2>2, <3>1, <3>3, RouteParts, QuietStep
    <2>3. CASE Http!Reply(429) /\ UNCHANGED pos
      <3> DEFINE code == 429
      <3>1. code \in 200..503 /\ Http!Reply(code) /\ failed' = FALSE
        BY <2>1, <2>3
      <3> HIDE DEF code
      <3> QED
        BY <2>1, <2>3, <3>1, DenyStep
    <2> QED
      BY <1>2, <2>2, <2>3 DEF Http!GlobalLimit
  <1>3. CASE Http!EnterHandler
    <2>1. /\ stage = "guards" /\ pos = Len(route.guards) /\ stage' = "checks" /\ pos' = 0
          /\ UNCHANGED <<route, error, failed, ignored, changed, audited, status, row>>
          /\ Http!TypeOK
      BY <1>3, BeforeCalls DEF Http!EnterHandler, Http!Enter
    <2>2. Http!Audited(route) => audited = Http!Audits(route.method)
      BY <2>1, RouteParts DEF HttpInv, AuditNoted, Http!Audited
    <2>3. AuditNoted'
      BY <2>1, <2>2 DEF HttpInv, AuditNoted, Unanswered, Http!Audited, Http!Audits
    <2> QED
      BY <2>1, <2>3, RouteParts, QuietStep
  <1>4. CASE Http!CheckRequest
    <2>1. /\ stage = "checks" /\ UNCHANGED <<route, error, failed, ignored, changed, audited, row>>
          /\ changed = FALSE /\ failed = FALSE /\ Http!TypeOK
      BY <1>4, BeforeCalls DEF Http!CheckRequest
    <2>2. ASSUME stage' \in {"checks", "calls"}, UNCHANGED status,
                 pos' \in Nat, pos' <= Len(route.handler.checks)
          PROVE  HttpInv'
      <3>1. AuditNoted'
        BY <2>1, <2>2 DEF HttpInv, AuditNoted, Http!Audited, Http!Audits
      <3> QED
        BY <2>1, <2>2, <3>1, RouteParts, QuietStep
    <2>3. CASE pos < Len(route.handler.checks) /\ pos' = pos + 1 /\ UNCHANGED <<stage, status>>
      <3>1. pos' \in Nat /\ pos' <= Len(route.handler.checks)
        BY <2>1, <2>3, RouteParts
      <3> QED
        BY <2>1, <2>2, <2>3, <3>1
    <2>4. CASE /\ pos < Len(route.handler.checks)
               /\ Http!Reply(route.handler.checks[pos + 1]) /\ UNCHANGED pos
      <3> DEFINE code == route.handler.checks[pos + 1]
      <3>1. pos + 1 \in 1..Len(route.handler.checks) /\ route.handler.checks \in Seq(400..503)
        BY <2>1, <2>4, RouteParts DEF Http!RouteTypes
      <3>2. code \in 200..503
        <4>1. code \in 400..503
          BY <3>1, ElementOfSeq
        <4> QED
          BY <4>1
      <3>3. Http!Reply(code)
        BY <2>4
      <3>4. failed' = FALSE
        BY <2>1
      <3> HIDE DEF code
      <3> QED
        BY <2>1, <2>4, <3>2, <3>3, <3>4, DenyStep
    <2>5. CASE Http!Enter("calls") /\ UNCHANGED status
      <3>1. stage' = "calls" /\ pos' = 0
        BY <2>5 DEF Http!Enter
      <3> QED
        BY <2>1, <2>2, <2>5, <3>1, RouteParts
    <2> QED
      BY <1>4, <2>3, <2>4, <2>5 DEF Http!CheckRequest, Http!handler
  <1> QED
    BY <1>1, <1>2, <1>3, <1>4

\* A call of the operation that succeeds, is left out or is passed over.
LEMMA CallStep ==
    ASSUME Http!HttpApiAssumption, HttpInv, Http!Succeed \/ Http!Skip \/ Http!PassOver
    PROVE  HttpInv'
  <1>1. /\ stage = "calls" /\ stage' = "calls" /\ pos < Len(route.handler.operation)
        /\ pos' = pos + 1
        /\ UNCHANGED <<route, error, failed, audited, status, row>>
        /\ \/ changed' = changed
           \/ changed' = (changed \/ route.handler.operation[pos + 1].writes)
        /\ \/ ignored' = ignored
           \/ ignored' = TRUE /\ route.handler.operation[pos + 1].failure = Http!Ignored
        /\ Http!TypeOK
    BY BeforeCalls DEF Http!Succeed, Http!Skip, Http!PassOver, Http!Calling, Http!calls, Http!call, Http!handler
  <1>2. pos + 1 \in DOMAIN route.handler.operation /\ route.handler.operation[pos + 1] \in Http!CallTypes
    BY <1>1, RouteParts DEF Http!RouteTypes
  <1> DEFINE present == route.handler.operation[pos + 1]
  <1>a. present.writes \in BOOLEAN /\ pos' \in Nat /\ pos' <= Len(route.handler.operation)
    <2>1. present.writes \in BOOLEAN
      BY <1>2 DEF Http!CallTypes
    <2>2. pos' \in Nat /\ pos' <= Len(route.handler.operation)
      BY <1>1, RouteParts
    <2> QED
      BY <2>1, <2>2
  <1>b. changed' \in BOOLEAN /\ ignored' \in BOOLEAN
    <2>1. changed \in BOOLEAN /\ ignored \in BOOLEAN
      BY <1>1 DEF Http!TypeOK
    <2>2. changed' = changed \/ changed' = (changed \/ present.writes)
      BY <1>1
    <2>3. ignored' = ignored \/ ignored' = TRUE
      BY <1>1
    <2>4. (changed \/ present.writes) \in BOOLEAN
      OBVIOUS
    <2> HIDE DEF present
    <2> QED
      BY <2>1, <2>2, <2>3, <2>4, Zenon
  <1>3. Http!TypeOK'
    BY <1>1, <1>a, <1>b, RouteParts, TypeStep
  <1>4. Unanswered' /\ FailureReturned' /\ ReturnedUnchanged'
    BY <1>1 DEF HttpInv, Unanswered, FailureReturned, ReturnedUnchanged
  <1>5. ChangedBefore'
    <2> SUFFICES ASSUME changed'
                 PROVE  \E i \in DOMAIN route.handler.operation :
                            i <= pos' /\ route.handler.operation[i].writes
      BY <1>1 DEF ChangedBefore, Http!Changes
    <2>1. CASE changed
      <3>1. PICK i \in DOMAIN route.handler.operation :
               i <= pos /\ route.handler.operation[i].writes
        BY <1>1, <2>1 DEF HttpInv, ChangedBefore
      <3>2. i <= pos'
        BY <1>1, <3>1, RouteParts
      <3> QED
        BY <3>1, <3>2
    <2>2. CASE ~changed
      <3>1. changed = FALSE /\ changed' = TRUE
        BY <1>1, <1>b, <2>2, RouteParts
      <3>2. present.writes
        BY <1>1, <1>a, <3>1
      <3>3. pos + 1 <= pos'
        BY <1>1, RouteParts
      <3> QED
        BY <1>2, <3>2, <3>3
    <2> QED
      BY <2>1, <2>2
  <1>6. AuditNoted'
    BY <1>1 DEF HttpInv, AuditNoted, Http!Audited, Http!Audits
  <1>7. Http!EndsInServerError' /\ Http!ErrorsChangeNothing' /\ Http!AdminChangesAudited'
    BY <1>1 DEF HttpInv, Unanswered, Http!EndsInServerError, Http!ErrorsChangeNothing,
                Http!AdminChangesAudited
  <1>8. Http!GoesOnWhereListed'
    <2>1. CASE present.failure = Http!Ignored
      <3>1. ~Http!HeedsOutages(route) /\ route \in R!Routes
        BY <1>1, <1>2, <2>1 DEF Http!HeedsOutages, Http!TypeOK
      <3>2. route.path \in Http!Unnoticed
        BY <3>1 DEF Http!HttpApiAssumption
      <3> QED
        BY <1>1, <3>2, ListedStep
    <2>2. CASE ignored' = ignored
      BY <1>1, <2>2, ListedStep
    <2> QED
      BY <1>1, <2>1, <2>2
  <1> QED
    BY <1>3, <1>4, <1>5, <1>6, <1>7, <1>8 DEF HttpInv

\* A call that refuses or fails: nothing has changed before it.
LEMMA ReturnStep ==
    ASSUME Http!HttpApiAssumption, HttpInv, Http!Refuse \/ Http!Fail PROVE HttpInv'
  <1> DEFINE present == route.handler.operation[pos + 1]
  <1>1. /\ stage = "calls" /\ stage' = "answer" /\ pos < Len(route.handler.operation)
        /\ UNCHANGED <<route, pos, ignored, changed, audited, status, row>>
        /\ \/ error' \in present.errors /\ UNCHANGED failed
           \/ /\ present.failure \notin {Http!NoError, Http!Ignored}
              /\ error' = present.failure /\ failed' = TRUE
    BY DEF Http!Refuse, Http!Fail, Http!Calling, Http!calls, Http!call, Http!handler
  <1>2. pos + 1 \in DOMAIN route.handler.operation /\ present \in Http!CallTypes
    BY <1>1, BeforeCalls, RouteParts DEF Http!RouteTypes
  <1> HIDE DEF present
  <1>3. failed = FALSE /\ Http!TypeOK
    BY <1>1, BeforeCalls
  <1>a. error' \in {Http!NoError} \union STRING /\ failed' \in BOOLEAN
    <2>1. present.errors \in SUBSET STRING /\ present.failure \in STRING
      BY <1>2 DEF Http!CallTypes
    <2>2. error' \in present.errors \/ error' = present.failure
      BY <1>1
    <2>3. failed' = failed \/ failed' = TRUE
      BY <1>1
    <2> QED
      BY <1>3, <2>1, <2>2, <2>3
  <1>4. Http!TypeOK'
    BY <1>1, <1>3, <1>a, RouteParts, TypeStep
  <1>5. Unanswered' /\ ChangedBefore'
    BY <1>1 DEF HttpInv, Unanswered, ChangedBefore, Http!Changes
  <1>6. FailureReturned'
    BY <1>1, <1>2, <1>3 DEF FailureReturned, present
  <1>7. ReturnedUnchanged'
    <2> SUFFICES ASSUME changed, route.path \notin Http!Partial PROVE FALSE
      BY <1>1 DEF ReturnedUnchanged, HttpInv, Http!TypeOK, Http!Partial
    <2>1. Http!ChangesLast(route)
      BY DEF HttpInv, Http!TypeOK, Http!HttpApiAssumption
    <2>2. PICK i \in DOMAIN route.handler.operation :
             i <= pos /\ route.handler.operation[i].writes
      BY <1>1 DEF HttpInv, ChangedBefore
    <2>3. i < pos + 1
      BY <1>3, <2>2, RouteParts
    <2>4. present.errors = {} /\ present.failure \in {Http!NoError, Http!Ignored}
      BY <1>2, <2>1, <2>2, <2>3 DEF Http!ChangesLast, present
    <2> QED
      BY <1>1, <2>4
  <1>8. AuditNoted'
    BY <1>1 DEF HttpInv, AuditNoted, Http!Audited, Http!Audits
  <1>9. Http!EndsInServerError' /\ Http!ErrorsChangeNothing' /\ Http!AdminChangesAudited'
    BY <1>1 DEF HttpInv, Unanswered, Http!EndsInServerError, Http!ErrorsChangeNothing,
                Http!AdminChangesAudited
  <1>10. Http!GoesOnWhereListed'
    BY <1>1, ListedStep
  <1> QED
    BY <1>4, <1>5, <1>6, <1>7, <1>8, <1>9, <1>10 DEF HttpInv

LEMMA RespondStep ==
    ASSUME Http!HttpApiAssumption, HttpInv, Http!Respond PROVE HttpInv'
  <1>1. /\ stage \in {"calls", "answer"}
        /\ UNCHANGED <<route, pos, error, failed, ignored, changed, audited, row>>
        /\ Http!TypeOK
    BY BeforeCalls DEF Http!Respond
  <1>2. CASE stage = "calls" /\ Http!Reply(route.handler.ok)
    <2> DEFINE code == route.handler.ok
    <2>1. code \in 200..204
      BY <1>1, RouteParts DEF Http!RouteTypes
    <2>2. failed' = FALSE
      BY <1>1, <1>2, BeforeCalls
    <2> HIDE DEF code
    <2> QED
      <3>1. code \in 200..503 /\ ~(code >= 400)
        BY <2>1
      <3>2. Http!Reply(code)
        BY <1>2 DEF code
      <3> QED
        BY <1>1, <2>2, <3>1, <3>2, ReplyStep
  <1>3. CASE stage = "answer" /\ Http!Reply(Http!Answer(route.handler, error))
    <2> DEFINE code == Http!Answer(route.handler, error)
    <2>1. code \in 200..503
      <3> DEFINE named == route.handler.answers
      <3>1. named \in [DOMAIN named -> 200..503] /\ route.handler.otherwise \in 200..503
        BY <1>1, RouteParts DEF Http!RouteTypes
      <3>2. code = IF error \in DOMAIN named THEN named[error] ELSE route.handler.otherwise
        BY DEF Http!Answer
      <3> HIDE DEF named, code
      <3> QED
        BY <3>1, <3>2
    <2>2. failed => code >= 500 \/ route.path \in Http!Masked
      <3> SUFFICES ASSUME failed, route.path \notin Http!Masked PROVE code >= 500
        OBVIOUS
      <3>1. Http!NamesOutages(route)
        BY DEF HttpInv, Http!TypeOK, Http!HttpApiAssumption
      <3> QED
        BY <1>3, <3>1 DEF HttpInv, FailureReturned, Http!NamesOutages
    <2>3. changed => route.path \in Http!Partial
      BY <1>3 DEF HttpInv, ReturnedUnchanged
    <2>4. failed' \in BOOLEAN
      BY <1>1 DEF HttpInv, Http!TypeOK
    <2> HIDE DEF code
    <2> QED
      BY <1>1, <1>3, <2>1, <2>2, <2>3, <2>4, ReplyStep DEF code
  <1> QED
    BY <1>2, <1>3 DEF Http!Respond, Http!handler

LEMMA StutterStep ==
    ASSUME Http!HttpApiAssumption, HttpInv,
           UNCHANGED <<route, stage, pos, error, failed, ignored, changed, audited, status, row>>
    PROVE  HttpInv'
  <1> USE DEF HttpInv
  <1>1. Http!TypeOK'
    <2>1. stage' \in {"body", "limit", "guards", "checks", "calls", "answer", "audit",
                      "sent", "lost"}
      BY DEF Http!TypeOK
    <2> QED
      BY <2>1, RouteParts, TypeStep
  <1>2. Unanswered' /\ FailureReturned' /\ ReturnedUnchanged'
    BY DEF Unanswered, FailureReturned, ReturnedUnchanged
  <1>3. ChangedBefore' /\ AuditNoted'
    BY DEF ChangedBefore, Http!Changes, AuditNoted, Http!Audited, Http!Audits
  <1>4. Http!EndsInServerError' /\ Http!ErrorsChangeNothing' /\ Http!AdminChangesAudited'
    BY DEF Http!EndsInServerError, Http!ErrorsChangeNothing, Http!AdminChangesAudited,
           Http!Masked, Http!Partial, Http!SkipsLimit
  <1>L. Http!GoesOnWhereListed'
    BY ListedStep
  <1> QED
    BY <1>1, <1>2, <1>3, <1>4, <1>L

LEMMA HttpStep ==
    ASSUME Http!HttpApiAssumption, HttpInv, [Http!Next]_Http!vars PROVE HttpInv'
  <1>1. ASSUME Http!StrictLimit PROVE HttpInv'
    BY <1>1, GuardStep DEF Http!StrictLimit
  <1>2. ASSUME Http!RequireAPIKey PROVE HttpInv'
    BY <1>2, GuardStep DEF Http!RequireAPIKey
  <1>3. ASSUME Http!RequireJWT PROVE HttpInv'
    BY <1>3, GuardStep DEF Http!RequireJWT
  <1>4. ASSUME Http!WriteAuditRow PROVE HttpInv'
    BY <1>4, EndStep DEF Http!WriteAuditRow
  <1>5. ASSUME Http!Crash PROVE HttpInv'
    BY <1>5, EndStep DEF Http!Crash, HttpInv, Http!TypeOK
  <1>6. ASSUME UNCHANGED Http!vars PROVE HttpInv'
    BY <1>6, StutterStep DEF Http!vars
  <1> QED
    BY <1>1, <1>2, <1>3, <1>4, <1>5, <1>6, AuditStep, EnterStep, CallStep, ReturnStep,
       RespondStep DEF Http!Next

LEMMA HttpAlways == PartsSpec => [](subject = "http" => HttpInv)
  <1>1. PartsInit => (subject = "http" => HttpInv)
    BY HttpInit, PartsAssumption DEF PartsInit
  <1>2. (subject = "http" => HttpInv) /\ [PartsNext]_partsVars => (subject = "http" => HttpInv)'
    <2> SUFFICES ASSUME subject = "http" => HttpInv, [PartsNext]_partsVars, subject' = "http"
                 PROVE  HttpInv'
      OBVIOUS
    <2>1. subject = "http"
      BY DEF PartsNext, partsVars
    <2>2. [Http!Next]_Http!vars
      BY <2>1 DEF PartsNext, partsVars, ofHttp, Http!vars
    <2> QED
      BY <2>1, <2>2, HttpStep, PartsAssumption
  <1> QED
    BY <1>1, <1>2, PTL DEF PartsSpec

\* Whatever the routes, their handlers and their operations, as long as each
\* names its outages or is listed: a request that met something that did not
\* answer, and gave up, is answered with a server error, and only the paths
\* listed go on without it.
THEOREM OutagesOwnedUp == PartsSpec => []OutageIsServerError
  <1>1. (subject = "http" => HttpInv) => OutageIsServerError
    BY DEF HttpInv, OutageIsServerError, Http!OutageIsServerError
  <1> QED
    BY <1>1, HttpAlways, PTL

\* As long as every operation refuses and fails before it changes anything, a
\* request that was answered with an error has changed nothing: no middleware,
\* no audit row and no end of the process gets in between.
THEOREM RefusedUnchanged == PartsSpec => []ErrorsChangeNothing
  <1>1. (subject = "http" => HttpInv) => ErrorsChangeNothing
    BY DEF HttpInv, ErrorsChangeNothing
  <1> QED
    BY <1>1, HttpAlways, PTL

\* As long as the audit stands before every change of an administrator, each
\* change that was answered has its row, or the insert of it was tried.
THEOREM ChangesAudited == PartsSpec => []AdminChangesAudited
  <1>1. (subject = "http" => HttpInv) => AdminChangesAudited
    BY DEF HttpInv, AdminChangesAudited
  <1> QED
    BY <1>1, HttpAlways, PTL

-----------------------------------------------------------------------------
(* The types of all parts.                                                 *)

LEMMA TilingAlways == PartsSpec => []IInv
  <1>1. PartsInit => IInv
    <2> SUFFICES ASSUME PartsInit PROVE IInv
      OBVIOUS
    <2>1. CASE subject = "tiling"
      BY <2>1, InitIInv DEF PartsInit
    <2>2. CASE subject # "tiling"
      <3>1. total = 0 /\ n = 0 /\ segments = <<>> /\ offset = 0
        BY <2>2 DEF PartsInit, NoTiling
      <3> QED
        BY <3>1 DEF IInv, TypeOK, ByteRange, OffsetInv, ClosedForm
    <2> QED
      BY <2>1, <2>2
  <1>2. IInv /\ [PartsNext]_partsVars => IInv'
    <2> SUFFICES ASSUME IInv, [PartsNext]_partsVars PROVE IInv'
      OBVIOUS
    <2>1. Push \/ UNCHANGED <<total, n, segments, offset>>
      BY DEF PartsNext, partsVars, tiling, Next
    <2>2. CASE Push
      BY <2>2, PushKeepsIInv
    <2>3. CASE UNCHANGED <<total, n, segments, offset>>
      BY <2>3 DEF IInv, TypeOK, OffsetInv, ClosedForm
    <2> QED
      BY <2>1, <2>2, <2>3
  <1> QED
    BY <1>1, <1>2, PTL DEF PartsSpec

\* Every variable of every part keeps to its type: among others no counter of
\* a group, of a cooldown or of the segment cutter falls below zero, no buffer
\* of a stream overflows, and no request leaves the lists of its route.
THEOREM TypesKept == PartsSpec => []TypesOK
  <1>1. /\ IInv
        /\ subject = "slots" => SlotsInv
        /\ subject = "link" => LinkInv
        /\ subject = "invoices" => InvoicesInv
        /\ subject = "legacy" => LegacyInv
        /\ subject = "crash" => CrashInv
        /\ subject = "auth" => AuthInv
        /\ subject = "alert" => AlertInv
        /\ subject = "hub" => HubInv
        /\ subject = "http" => HttpInv
        => TypesOK
    BY DEF TypesOK, IInv, SlotsInv, LinkInv, InvoicesInv, LegacyInv, CrashInv, CrashTypes,
           AuthInv, AlertInv, HubInv, HubTypes, HttpInv
  <1> QED
    BY <1>1, TilingAlways, SlotsAlways, LinkAlways, InvoicesAlways, LegacyAlways, CrashAlways,
       AuthAlways, AlertAlways, HubAlways, HttpAlways, PTL
=============================================================================
