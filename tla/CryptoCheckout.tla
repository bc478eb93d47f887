--------------------------- MODULE CryptoCheckout ---------------------------
(***************************************************************************)
(* One BTCPay invoice, from the pending row of payment_transactions to its *)
(* licence.  There is no webhook: the client polls CheckStatus, which      *)
(* copies the row, asks BTCPay, saves the copy with the new status and     *)
(* then creates the licence in a transaction that locks the row.  The Save *)
(* writes every column, the licence of the copy included.                  *)
(***************************************************************************)
EXTENDS Naturals

CONSTANTS
    Licenses,    \* rows premium_licenses can get
    NoLicense,   \* NULL in license_id
    Polls,       \* concurrent CheckStatus calls
    MaxFailures, \* bound: crashes and database errors
    MaxRefunds   \* bound: RefundTransaction calls

CheckoutAssumption ==
    /\ NoLicense \notin Licenses
    /\ {MaxFailures, MaxRefunds} \subseteq Nat

VARIABLES
    invoice,   \* at BTCPay
    status,    \* status column of the row
    license,   \* license_id column of the row
    tier,      \* tier of each licence, "none" before it is created
    pollPc, pollStatus, pollLicense, \* CheckStatus and its copy of the row
    adminPc, adminLicense,           \* RefundTransaction and its copy
    linkLost,  \* a Save took away the link to a licence (not in the code)
    refunds, failures

row == <<status, license>>
poll == <<pollPc, pollStatus, pollLicense>>
admin == <<adminPc, adminLicense, refunds>>
vars == <<invoice, row, tier, poll, admin, linkLost, failures>>

Invoice == {"New", "Processing", "Settled", "Expired", "Invalid"}
Status == {"pending", "completed", "cancelled", "failed", "refund_pending"}
Tier == {"none", "premium", "free"}
MaybeLicense == Licenses \union {NoLicense}

Issued == {l \in Licenses : tier[l] # "none"}

\* mapBTCPayStatus.
MapBTCPayStatus ==
    [New |-> "pending", Processing |-> "pending", Settled |-> "completed",
     Expired |-> "cancelled", Invalid |-> "failed"]

\* CreateInvoice has stored the pending row.
Init ==
    /\ invoice = "New"
    /\ status = "pending" /\ license = NoLicense
    /\ tier = [l \in Licenses |-> "none"]
    /\ pollPc = [p \in Polls |-> "Idle"]
    /\ pollStatus = [p \in Polls |-> "pending"]
    /\ pollLicense = [p \in Polls |-> NoLicense]
    /\ adminPc = "Idle" /\ adminLicense = NoLicense
    /\ linkLost = FALSE
    /\ refunds = 0 /\ failures = 0

CanFail == failures < MaxFailures /\ failures' = failures + 1

\* repository.Update: every column of a copy that has status s and licence l.
Save(s, l) ==
    /\ status' = s /\ license' = l
    /\ linkLost' = (linkLost \/ license \notin {NoLicense, l})

-----------------------------------------------------------------------------
(* BTCPay and the scheduler.                                               *)

\* A settled, expired or invalid invoice is final.
InvoiceMoves ==
    /\ \/ invoice = "New" /\ invoice' \in {"Processing", "Expired"}
       \/ invoice = "Processing" /\ invoice' \in {"Settled", "Invalid"}
    /\ UNCHANGED <<row, tier, poll, admin, linkLost, failures>>

\* 48 hours after the creation of the row; an unpaid invoice has expired then.
CleanupAbandoned ==
    /\ status = "pending" /\ invoice # "New"
    /\ status' = "cancelled"
    /\ UNCHANGED <<invoice, license, tier, poll, admin, linkLost, failures>>

-----------------------------------------------------------------------------
(* CheckStatus.                                                            *)

Goto(p, to) == pollPc' = [pollPc EXCEPT ![p] = to]

ReadRow(p) ==
    /\ pollPc[p] = "Idle"
    /\ Goto(p, "Query")
    /\ pollStatus' = [pollStatus EXCEPT ![p] = status]
    /\ pollLicense' = [pollLicense EXCEPT ![p] = license]
    /\ UNCHANGED <<invoice, row, tier, admin, linkLost, failures>>

\* Where a poll goes whose copy now has status s.
AfterQuery(s) == IF s = "completed" THEN "Issue" ELSE "Idle"

\* An invoice that is only processing counts as paid.
QueryInvoiceEager(p) ==
    /\ pollPc[p] = "Query"
    /\ LET new == IF invoice = "Processing" THEN "completed" ELSE MapBTCPayStatus[invoice]
       IN /\ pollStatus' = [pollStatus EXCEPT ![p] = new]
          /\ Goto(p, IF new = pollStatus[p] THEN AfterQuery(new) ELSE "Save")
    /\ UNCHANGED <<invoice, row, tier, pollLicense, admin, linkLost, failures>>

\* The invoice is asked for only while the copy of the row is pending.
QueryInvoiceIfPending(p) ==
    /\ pollPc[p] = "Query"
    /\ LET new == IF pollStatus[p] = "pending" THEN MapBTCPayStatus[invoice] ELSE pollStatus[p]
       IN /\ pollStatus' = [pollStatus EXCEPT ![p] = new]
          /\ Goto(p, IF new = pollStatus[p] THEN AfterQuery(new) ELSE "Save")
    /\ UNCHANGED <<invoice, row, tier, pollLicense, admin, linkLost, failures>>

\* When BTCPay does not answer, the status of the copy stands.
QueryInvoice(p) ==
    /\ pollPc[p] = "Query"
    /\ LET new == MapBTCPayStatus[invoice]
       IN \/ /\ pollStatus' = [pollStatus EXCEPT ![p] = new]
             /\ Goto(p, IF new = pollStatus[p] THEN AfterQuery(new) ELSE "Save")
             /\ UNCHANGED failures
          \/ CanFail /\ Goto(p, AfterQuery(pollStatus[p])) /\ UNCHANGED pollStatus
    /\ UNCHANGED <<invoice, row, tier, pollLicense, admin, linkLost>>

\* The status of BTCPay is stored without being mapped.
SaveStatusRaw(p) ==
    /\ pollPc[p] = "Save"
    /\ Goto(p, AfterQuery(pollStatus[p]))
    /\ Save(invoice, pollLicense[p])
    /\ UNCHANGED <<invoice, tier, pollStatus, pollLicense, admin, failures>>

\* The error of the Save is ignored.
SaveStatus(p) ==
    /\ pollPc[p] = "Save"
    /\ Goto(p, AfterQuery(pollStatus[p]))
    /\ \/ Save(pollStatus[p], pollLicense[p]) /\ UNCHANGED failures
       \/ CanFail /\ UNCHANGED <<row, linkLost>>
    /\ UNCHANGED <<invoice, tier, pollStatus, pollLicense, admin>>

\* The licence is created, but the row is not linked to it.
FindOrCreateUnlinked ==
    /\ UNCHANGED license
    /\ IF license # NoLicense \/ status # "completed"
       THEN UNCHANGED tier
       ELSE \E l \in Licenses : tier[l] = "none" /\ tier' = [tier EXCEPT ![l] = "premium"]

\* FindOrCreateLicenseForCryptoInvoice: one transaction that locks the row.
FindOrCreate ==
    \/ /\ license # NoLicense \/ status # "completed"
       /\ UNCHANGED <<license, tier>>
    \/ /\ license = NoLicense /\ status = "completed"
       /\ \E l \in Licenses :
             /\ tier[l] = "none"
             /\ tier' = [tier EXCEPT ![l] = "premium"]
             /\ license' = l

IssueLicense(p) ==
    /\ pollPc[p] = "Issue"
    /\ Goto(p, "Idle")
    /\ \/ FindOrCreate /\ UNCHANGED failures
       \/ CanFail /\ UNCHANGED <<license, tier>>
    /\ UNCHANGED <<invoice, status, pollStatus, pollLicense, admin, linkLost>>

CheckStatus(p) == ReadRow(p) \/ QueryInvoice(p) \/ SaveStatus(p) \/ IssueLicense(p)

-----------------------------------------------------------------------------
(* RefundTransaction: the money is returned by hand.                       *)

FindRefundable ==
    /\ adminPc = "Idle" /\ status = "completed"
    /\ refunds < MaxRefunds /\ refunds' = refunds + 1
    /\ adminPc' = "Save" /\ adminLicense' = license
    /\ UNCHANGED <<invoice, row, tier, poll, linkLost, failures>>

\* The licence of the copy is downgraded only if the administrator wants it
\* and the copy has one.
SaveRefundPending ==
    /\ adminPc = "Save"
    /\ \/ /\ Save("refund_pending", adminLicense)
          /\ adminPc' \in {"Idle"} \union
                 (IF adminLicense = NoLicense THEN {} ELSE {"Downgrade"})
          /\ UNCHANGED failures
       \/ CanFail /\ adminPc' = "Idle" /\ UNCHANGED <<row, linkLost>>
    /\ UNCHANGED <<invoice, tier, poll, adminLicense, refunds>>

DowngradeLicense ==
    /\ adminPc = "Downgrade" /\ adminPc' = "Idle"
    /\ tier' = [tier EXCEPT ![adminLicense] = "free"]
    /\ UNCHANGED <<invoice, row, poll, adminLicense, refunds, linkLost, failures>>

RefundTransaction == FindRefundable \/ SaveRefundPending \/ DowngradeLicense

-----------------------------------------------------------------------------

Next ==
    \/ InvoiceMoves \/ CleanupAbandoned
    \/ \E p \in Polls : CheckStatus(p)
    \/ RefundTransaction

Spec == Init /\ [][Next]_vars

\* The client goes on polling.
FairSpec == Spec /\ \A p \in Polls : WF_vars(CheckStatus(p))

-----------------------------------------------------------------------------

TypeOK ==
    /\ invoice \in Invoice
    /\ status \in Status /\ license \in MaybeLicense
    /\ tier \in [Licenses -> Tier]
    /\ pollPc \in [Polls -> {"Idle", "Query", "Save", "Issue"}]
    /\ pollStatus \in [Polls -> Status]
    /\ pollLicense \in [Polls -> MaybeLicense]
    /\ adminPc \in {"Idle", "Save", "Downgrade"} /\ adminLicense \in MaybeLicense
    /\ linkLost \in BOOLEAN
    /\ refunds \in 0 .. MaxRefunds /\ failures \in 0 .. MaxFailures

\* The row lock keeps concurrent polls from creating two licences as long as no
\* Save of an old copy has taken the link to the first one out of the row.
RowLinksLicense ==
    ~linkLost => Issued = IF license = NoLicense THEN {} ELSE {license}

\* No licence before BTCPay has settled the invoice, whatever copies of the row
\* are saved late.
IssuedIsPaid == Issued # {} => invoice = "Settled"

\* A settled invoice has a licence in the end if the client goes on polling,
\* also after the row was cancelled as abandoned.
SettledGetsLicense == invoice = "Settled" ~> Issued # {}

\* premium_service.go: the lock is there "to prevent duplicate license creation
\* from concurrent polling calls".
OneLicensePerInvoice == \A l, m \in Issued : l = m
=============================================================================
