SPECIFICATION Spec
CONSTANTS
    NoLicense = NoLicense
    Licenses = {l1, l2, l3}
    Polls = {p1, p2}
    MaxFailures = 0
    MaxRefunds = 0
INVARIANTS
    OneLicensePerInvoice
CHECK_DEADLOCK FALSE
