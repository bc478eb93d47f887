SPECIFICATION CheckoutsSpec
CONSTANTS
    NoLicense = NoLicense
    Licenses = {l1, l2}
    Polls = {p1, p2}
    MaxFailures = 1
    InvoiceLicenses = {l1, l2, l3}
    InvoiceRefunds = 1
INVARIANT IssuedIsPaid
PROPERTIES
    GrantKept
    RefundedIsFinal
    PaidGetsLicense
    RefundRevokes
    SettledGetsLicense
CHECK_DEADLOCK FALSE
