------------------------------ MODULE MCParts ------------------------------
(***************************************************************************)
(* The components of the backend that share no state with one another, and *)
(* the loop of the segment cutter, in one model: the initial state chooses *)
(* the subject, and only that component takes steps.  Its variables have   *)
(* the names they have in its module; those of the others are Idle.  The   *)
(* sets of two are its rows, its requests, the owners of rows and its      *)
(* administrators.                                                         *)
(***************************************************************************)
EXTENDS SegmentTiling, FiniteSets, TLC

CONSTANTS
    Thing, Actor, Sender, Administrator, Nothing,
    MaxDevices, MaxRemovals,                    \* of DeviceSlots
    LinkTtl, LinkWindow, RateMax, LinkMaxTime,  \* of MagicLink
    Foreign,                                    \* of InvoiceRecords
    Fingerprint,                                \* of CrashGroups
    KeyTtl, KeyCooldown, KeyMaxTime,            \* of AuthKeys
    AlertCooldown, AlertMaxTime,                \* of Alerts
    Stream, Buffer, MaxSubscribers              \* of SseHub

VARIABLES
    subject,
    \* Of several components.
    pc, device, now, active, row, read, event,
    \* DeviceSlots
    tier, phase, slots, deviceTier, lock, activates, removals, revived,
    \* MagicLink
    hits, issuer, issuedAt, spentUntil, token, granted, crashed,
    \* InvoiceRecords
    license, raced, recorded, foreign, found, verdict,
    \* LegacyImport
    locked, answer,
    \* CrashGroups
    group, fingerprint, at, adds, merge, dirty, drifted,
    \* AuthKeys
    key, cached, cooldown, uses, copy, lastValid, stale,
    \* Alerts
    check, edit, sentAt, early, crossed,
    \* SseHub
    stream, buffer, written, todo, dropped, missed, panicked,
    \* HttpApi
    route, stage, pos, error, failed, ignored, changed, audited, status

tiling == <<total, n, segments, offset>>
ofSlots == <<tier, phase, slots, deviceTier, lock, activates, removals, revived>>
ofLink == <<hits, issuer, issuedAt, spentUntil, token, granted, crashed>>
ofInvoices == <<license, raced, recorded, foreign, found, verdict>>
ofLegacy == <<locked, answer>>
ofCrash == <<group, fingerprint, at, adds, merge, dirty, drifted>>
ofAuth == <<key, cached, cooldown, uses, copy, lastValid, stale>>
ofAlert == <<check, edit, sentAt, early, crossed>>
ofHub == <<stream, buffer, written, todo, dropped, missed, panicked>>
ofHttp == <<route, stage, pos, error, failed, ignored, changed, audited, status>>
partsVars == <<subject, pc, device, now, active, row, read, event, tiling, ofSlots, ofLink,
               ofInvoices, ofLegacy, ofCrash, ofAuth, ofAlert, ofHub, ofHttp>>

MCSizes == 0 .. 20
MCRequested == 0 .. 16
Never == Nothing

Slots == INSTANCE DeviceSlots
    WITH Device <- Thing, Request <- Actor, NoDevice <- Nothing, NoRequest <- Nothing
Link == INSTANCE MagicLink
    WITH Token <- Thing, Redemption <- Actor, Ttl <- LinkTtl, Window <- LinkWindow,
         MaxTime <- LinkMaxTime
Invoices == INSTANCE InvoiceRecords WITH Audit <- Actor, NoRow <- Nothing
Legacy == INSTANCE LegacyImport
    WITH Import <- Thing, Revoker <- Actor, NoRow <- Nothing, Nobody <- Nothing
Crash == INSTANCE CrashGroups
    WITH Group <- Thing, Report <- Actor, Device <- Sender, Merger <- Administrator,
         NoGroup <- Nothing
Auth == INSTANCE AuthKeys
    WITH Key <- Thing, Worker <- Actor, Ttl <- KeyTtl, Cooldown <- KeyCooldown,
         MaxTime <- KeyMaxTime, NoKey <- Nothing
Alert == INSTANCE Alerts
    WITH Config <- Thing, Cooldown <- AlertCooldown, MaxTime <- AlertMaxTime
Hub == INSTANCE SseHub WITH Event <- Actor
R == INSTANCE HttpRoutes
Http == INSTANCE HttpApi WITH Routes <- R!Routes

ASSUME PartsAssumption ==
    /\ Slots!DeviceSlotsAssumption /\ Link!MagicLinkAssumption
    /\ Invoices!InvoiceRecordsAssumption /\ Legacy!LegacyImportAssumption
    /\ Crash!CrashGroupsAssumption /\ Auth!AuthKeysAssumption
    /\ Alert!AlertsAssumption /\ Hub!SseHubAssumption /\ Http!HttpApiAssumption

-----------------------------------------------------------------------------

Idle == "idle"
NoTiling == total = 0 /\ n = 0 /\ segments = <<>> /\ offset = 0
NoSlots ==
    /\ tier = Idle /\ phase = Idle /\ slots = Idle /\ deviceTier = Idle /\ lock = Idle
    /\ activates = Idle /\ removals = Idle /\ revived = Idle
NoLink ==
    /\ hits = Idle /\ issuer = Idle /\ issuedAt = Idle /\ spentUntil = Idle /\ token = Idle
    /\ granted = Idle /\ crashed = Idle
NoInvoices ==
    /\ license = Idle /\ raced = Idle /\ recorded = Idle /\ foreign = Idle
    /\ found = Idle /\ verdict = Idle
NoLegacy ==
    /\ locked = Idle /\ answer = Idle
NoCrash ==
    /\ group = Idle /\ fingerprint = Idle /\ at = Idle /\ adds = Idle /\ merge = Idle
    /\ dirty = Idle /\ drifted = Idle
NoAuth ==
    /\ key = Idle /\ cached = Idle /\ cooldown = Idle /\ uses = Idle /\ copy = Idle
    /\ lastValid = Idle /\ stale = Idle
NoAlert ==
    /\ check = Idle /\ edit = Idle /\ sentAt = Idle /\ early = Idle /\ crossed = Idle
NoHub ==
    /\ stream = Idle /\ buffer = Idle /\ written = Idle /\ todo = Idle /\ dropped = Idle
    /\ missed = Idle /\ panicked = Idle
NoHttp ==
    /\ route = Idle /\ stage = Idle /\ pos = Idle /\ error = Idle /\ failed = Idle
    /\ ignored = Idle /\ changed = Idle /\ audited = Idle /\ status = Idle

PartsInit ==
    /\ subject \in {"tiling", "slots", "link", "invoices", "legacy", "crash", "auth", "alert",
                    "hub", "http"}
    /\ IF subject = "tiling" THEN Init ELSE NoTiling
    /\ IF subject = "slots" THEN Slots!Init ELSE NoSlots
    /\ IF subject = "link" THEN Link!Init ELSE NoLink
    /\ IF subject = "invoices" THEN Invoices!Init ELSE NoInvoices
    /\ IF subject = "legacy" THEN Legacy!Init ELSE NoLegacy
    /\ IF subject = "crash" THEN Crash!Init ELSE NoCrash
    /\ IF subject = "auth" THEN Auth!Init ELSE NoAuth
    /\ IF subject = "alert" THEN Alert!Init ELSE NoAlert
    /\ IF subject = "hub" THEN Hub!Init ELSE NoHub
    /\ IF subject = "http" THEN Http!Init ELSE NoHttp
    /\ subject \notin {"slots", "link", "invoices", "legacy", "crash", "auth"} => pc = Idle
    /\ subject \notin {"slots", "crash"} => device = Idle
    /\ subject \notin {"link", "auth", "alert"} => now = Idle
    /\ subject \notin {"link", "auth"} => active = Idle
    /\ subject \notin {"invoices", "legacy", "alert", "http"} => row = Idle
    /\ subject \notin {"invoices", "legacy"} => read = Idle
    /\ subject \notin {"invoices", "hub"} => event = Idle

PartsNext ==
    /\ \/ subject = "tiling" /\ Next
          /\ UNCHANGED <<pc, device, now, active, row, read, event, ofSlots, ofLink, ofInvoices,
                         ofLegacy, ofCrash, ofAuth, ofAlert, ofHub, ofHttp>>
       \/ subject = "slots" /\ Slots!Next
          /\ UNCHANGED <<now, active, row, read, event, tiling, ofLink, ofInvoices, ofLegacy,
                         ofCrash, ofAuth, ofAlert, ofHub, ofHttp>>
       \/ subject = "link" /\ Link!Next
          /\ UNCHANGED <<device, row, read, event, tiling, ofSlots, ofInvoices, ofLegacy,
                         ofCrash, ofAuth, ofAlert, ofHub, ofHttp>>
       \/ subject = "invoices" /\ Invoices!Next
          /\ UNCHANGED <<device, now, active, tiling, ofSlots, ofLink, ofLegacy, ofCrash,
                         ofAuth, ofAlert, ofHub, ofHttp>>
       \/ subject = "legacy" /\ Legacy!Next
          /\ UNCHANGED <<device, now, active, event, tiling, ofSlots, ofLink, ofInvoices,
                         ofCrash, ofAuth, ofAlert, ofHub, ofHttp>>
       \/ subject = "crash" /\ Crash!Next
          /\ UNCHANGED <<now, active, row, read, event, tiling, ofSlots, ofLink, ofInvoices,
                         ofLegacy, ofAuth, ofAlert, ofHub, ofHttp>>
       \/ subject = "auth" /\ Auth!Next
          /\ UNCHANGED <<device, row, read, event, tiling, ofSlots, ofLink, ofInvoices,
                         ofLegacy, ofCrash, ofAlert, ofHub, ofHttp>>
       \/ subject = "alert" /\ Alert!Next
          /\ UNCHANGED <<pc, device, active, read, event, tiling, ofSlots, ofLink, ofInvoices,
                         ofLegacy, ofCrash, ofAuth, ofHub, ofHttp>>
       \/ subject = "hub" /\ Hub!Next
          /\ UNCHANGED <<pc, device, now, active, row, read, tiling, ofSlots, ofLink,
                         ofInvoices, ofLegacy, ofCrash, ofAuth, ofAlert, ofHttp>>
       \/ subject = "http" /\ Http!Next
          /\ UNCHANGED <<pc, device, now, active, read, event, tiling, ofSlots, ofLink,
                         ofInvoices, ofLegacy, ofCrash, ofAuth, ofAlert, ofHub>>
    /\ UNCHANGED subject

PartsSpec == PartsInit /\ [][PartsNext]_partsVars

Symmetry == Permutations(Thing) \union Permutations(Actor) \union Permutations(Sender)
            \union Permutations(Administrator)

-----------------------------------------------------------------------------

\* The variables of every component have their types.
TypesOK ==
    /\ TypeOK
    /\ subject = "slots" => Slots!TypeOK
    /\ subject = "link" => Link!TypeOK
    /\ subject = "invoices" => Invoices!TypeOK
    /\ subject = "legacy" => Legacy!TypeOK
    /\ subject = "crash" => Crash!TypeOK
    /\ subject = "auth" => Auth!TypeOK
    /\ subject = "alert" => Alert!TypeOK
    /\ subject = "hub" => Hub!TypeOK
    /\ subject = "http" => Http!TypeOK

\* Only the Save of a row removed meanwhile gets past the device limit of a licence.
LimitButForRevived == subject = "slots" => Slots!LimitButForRevived
\* A link restores a licence, or opens its portal, at most once.
SingleUse == subject = "link" => Link!SingleUse
\* A refund finds the licence of an invoice whatever the order of its events.
RefundFindsLicense == subject = "invoices" => Invoices!RefundFindsLicense
\* A licence revoked while it is imported again stays revoked.
NeverUndone == [][subject = "legacy" => Legacy!NotUndone]_partsVars
\* The counters of crash groups are those of their reports.
CountsExact == subject = "crash" => Crash!CountsExact
\* A revoked key is accepted no longer than a copy of it may live.
StaleBounded == subject = "auth" => Auth!StaleBounded
\* An alert is not repeated within its cooldown.
CooldownKept == subject = "alert" => Alert!CooldownKept
\* A publication reaches every stream that has room, and none that is closed.
Delivery == subject = "hub" => Hub!Delivery
\* What fails because something did not answer is answered with a server error.
OutageIsServerError == subject = "http" => Http!OutageIsServerError
\* A request answered with an error has changed nothing.
ErrorsChangeNothing == subject = "http" => Http!ErrorsChangeNothing
\* Every change an administrator made and was told of has a row in the audit log.
AdminChangesAudited == subject = "http" => Http!AdminChangesAudited
=============================================================================
