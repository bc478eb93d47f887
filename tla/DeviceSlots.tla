---------------------------- MODULE DeviceSlots ----------------------------
(***************************************************************************)
(* The devices of one licence: rows of license_devices, registered up to a *)
(* limit by the verification and the restoration of the licence, removed   *)
(* by their owner, by an administrator and by the daily expiry job.  The   *)
(* statements of concurrent requests interleave; what a transaction that   *)
(* holds the licence row does between two statements does so too.          *)
(***************************************************************************)
EXTENDS Naturals, FiniteSets

CONSTANTS
    Device, Request,
    MaxDevices,   \* MaxDevicesForPlan
    MaxRemovals,  \* bound: removals and runs of the expiry job
    NoDevice, NoRequest

DeviceSlotsAssumption ==
    /\ MaxDevices \in Nat /\ MaxRemovals \in Nat /\ IsFiniteSet(Device)
    /\ NoDevice \notin Device /\ NoRequest \notin Request

VARIABLES
    tier, phase,   \* the licence: its tier, how its expiry lies to now
    slots,         \* devices with a row
    deviceTier,    \* the copy of the tier in the devices table
    lock,          \* the request whose transaction holds the licence row
    pc, device,    \* what each request does next, and for which device
    activates,     \* requests that read a premium licence to verify it
    removals,
    revived        \* rows that a Save has inserted again

vars == <<tier, phase, slots, deviceTier, lock, pc, device, activates, removals, revived>>

Init ==
    /\ tier = "premium" /\ phase = "current"
    /\ slots = {} /\ deviceTier = [d \in Device |-> "free"]
    /\ lock = NoRequest
    /\ pc = [r \in Request |-> "idle"] /\ device = [r \in Request |-> NoDevice]
    /\ activates = {} /\ removals = 0 /\ revived = 0

Goto(r, step) == pc' = [pc EXCEPT ![r] = step]

Finish(r) ==
    /\ Goto(r, "idle") /\ device' = [device EXCEPT ![r] = NoDevice]
    /\ activates' = activates \ {r}

Remove == removals < MaxRemovals /\ removals' = removals + 1

Start(r, step, d) ==
    /\ pc[r] = "idle" /\ Goto(r, step)
    /\ device' = [device EXCEPT ![r] = d]
    /\ UNCHANGED <<tier, phase, slots, deviceTier, lock, revived>>

\* An expired licence is answered without a change.  The tier is not looked at.
VerifyLicense(r, d) ==
    /\ phase # "over"
    /\ Start(r, IF d \in slots THEN "touch" ELSE "register", d)
    /\ activates' = IF tier = "premium" /\ d \notin slots THEN activates \union {r} ELSE activates
    /\ UNCHANGED removals

\* A device that is registered already changes nothing.
RestoreLicense(r, d) ==
    /\ tier = "premium" /\ phase = "current" /\ d \notin slots
    /\ Start(r, "register", d)
    /\ UNCHANGED <<activates, removals>>

\* The device and the one it removes have a row of the same licence.
RemoveDevice(r, by, d) ==
    /\ by \in slots /\ by # d
    /\ Start(r, "delete", d) /\ Remove /\ UNCHANGED activates

AdminRemoveDevice(r, d) ==
    Start(r, "delete", d) /\ Remove /\ UNCHANGED activates

\* UpdateLicenseDevice: Save inserts the row when it is no longer there.
Touch(r) ==
    /\ pc[r] = "touch" /\ Finish(r)
    /\ slots' = slots \union {device[r]}
    /\ revived' = IF device[r] \in slots THEN revived ELSE revived + 1
    /\ UNCHANGED <<tier, phase, deviceTier, lock, removals>>

\* RegisterDeviceWithLimit.
LockLicense(r) ==
    /\ pc[r] = "register" /\ lock = NoRequest
    /\ lock' = r /\ Goto(r, "count")
    /\ UNCHANGED <<tier, phase, slots, deviceTier, device, activates, removals, revived>>

RegisteredButOne == Cardinality(slots) - 1
Registered == Cardinality(slots)

CountDevices(r) ==
    /\ pc[r] = "count"
    /\ \/ /\ Registered >= MaxDevices /\ lock' = NoRequest /\ Finish(r)
       \/ /\ Registered < MaxDevices /\ UNCHANGED <<lock, device, activates>>
          /\ Goto(r, "create")
    /\ UNCHANGED <<tier, phase, slots, deviceTier, removals, revived>>

\* The unique index fails a second row of a device.
CreateRow(r) ==
    /\ pc[r] = "create"
    /\ lock' = NoRequest
    /\ slots' = slots \union {device[r]}
    /\ IF device[r] \notin slots /\ r \in activates
       THEN Goto(r, "sync") /\ UNCHANGED <<device, activates>> ELSE Finish(r)
    /\ UNCHANGED <<tier, phase, deviceTier, removals, revived>>

SyncTier(r) ==
    /\ pc[r] = "sync" /\ Finish(r)
    /\ deviceTier' = [deviceTier EXCEPT ![device[r]] = "premium"]
    /\ UNCHANGED <<tier, phase, slots, lock, removals, revived>>

DeleteDevice(r) ==
    /\ pc[r] = "delete" /\ Finish(r)
    /\ slots' = slots \ {device[r]}
    /\ UNCHANGED <<tier, phase, deviceTier, lock, removals, revived>>

\* The licence expires and is renewed; its tier follows a revocation.
LicenseChanges ==
    /\ \/ phase = "current" /\ phase' = "grace" /\ UNCHANGED tier
       \/ phase = "grace" /\ phase' = "over" /\ UNCHANGED tier
       \/ phase # "current" /\ phase' = "current" /\ tier' = "premium"
       \/ tier = "premium" /\ lock = NoRequest /\ tier' = "free" /\ UNCHANGED phase
    /\ UNCHANGED <<slots, deviceTier, lock, pc, device, activates, removals, revived>>

\* Phase 3 of checkLicenseExpiry: its UPDATE waits for the licence row.
FreeSlots ==
    /\ tier = "premium" /\ phase = "over" /\ lock = NoRequest
    /\ tier' = "free" /\ slots' = {} /\ Remove
    /\ UNCHANGED <<phase, deviceTier, lock, pc, device, activates, revived>>

Next ==
    \/ \E r \in Request :
          \/ \E d \in Device :
                \/ VerifyLicense(r, d) \/ RestoreLicense(r, d) \/ AdminRemoveDevice(r, d)
                \/ \E by \in Device : RemoveDevice(r, by, d)
          \/ Touch(r) \/ LockLicense(r) \/ CountDevices(r) \/ CreateRow(r)
          \/ SyncTier(r) \/ DeleteDevice(r)
    \/ LicenseChanges \/ FreeSlots

Spec == Init /\ [][Next]_vars

-----------------------------------------------------------------------------

\* Every variable has its type.
TypeOK ==
    /\ tier \in {"premium", "free"} /\ phase \in {"current", "grace", "over"}
    /\ slots \subseteq Device /\ deviceTier \in [Device -> {"premium", "free"}]
    /\ lock \in Request \union {NoRequest}
    /\ pc \in [Request -> {"idle", "touch", "register", "count", "create", "sync", "delete"}]
    /\ device \in [Request -> Device \union {NoDevice}]
    /\ activates \subseteq Request
    /\ removals \in 0 .. MaxRemovals /\ revived \in Nat

\* "Device limit exceeded": never more devices than the plan has.  The code does
\* not keep it: the Save of a device row removed meanwhile inserts it again.
DeviceLimit == Registered <= MaxDevices

\* However the requests interleave, only the Save of a removed row gets past the
\* limit.
LimitButForRevived == Cardinality(slots) <= MaxDevices + revived
=============================================================================
