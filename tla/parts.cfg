SPECIFICATION PartsSpec
CONSTANTS
    Thing = {x1, x2}
    Actor = {r1, r2}
    Sender = {o1, o2}
    Administrator = {m1, m2}
    Nothing = Nothing
    MaxDevices = 1
    MaxRemovals = 2
    LinkTtl = 2
    LinkWindow = 2
    RateMax = 1
    LinkMaxTime = 5
    Foreign = {y1}
    Fingerprint = {"old", "new"}
    KeyTtl = 2
    KeyCooldown = 1
    KeyMaxTime = 3
    AlertCooldown = 2
    AlertMaxTime = 2
    Stream = {x1, x2, x3}
    Buffer = 1
    MaxSubscribers = 2
    Sizes <- MCSizes
    Requested <- MCRequested
SYMMETRY Symmetry
INVARIANTS
    TypesOK Tiles LimitButForRevived SingleUse RefundFindsLicense CountsExact
    StaleBounded CooldownKept Delivery
    OutageIsServerError ErrorsChangeNothing AdminChangesAudited
PROPERTY NeverUndone
CHECK_DEADLOCK FALSE
