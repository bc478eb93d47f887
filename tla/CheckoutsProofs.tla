-------------------------- MODULE CheckoutsProofs --------------------------
(***************************************************************************)
(* Proofs for any number of polls and of licence rows.  In the Stripe      *)
(* checkout the row is linked to the only licence of the session although  *)
(* two of its writers save a copy they read earlier: the poll saves only   *)
(* when the session expired, and then no licence was ever created; the     *)
(* refunds save a copy of a row that had its licence already, and the link *)
(* never changes after that.  In the crypto checkout no copy of an unpaid  *)
(* row says that it is completed, and the only way to lose the link, and   *)
(* with it the guard against a second licence, is a Save that took it out  *)
(* of the row.                                                             *)
(***************************************************************************)
EXTENDS MCCheckouts, TLAPS

\* A poll goes on to create a licence only for a paid session, and to cancel
\* only for an expired one; the event comes with the payment.
FollowsStripe ==
    /\ \A p \in Polls : pollPc[p] = "Create" => session = "paid"
    /\ \A p \in Polls : pollPc[p] = "Cancel" => session = "expired"
    /\ completedEvent # "unsent" => session = "paid"

\* Before the payment nothing was ever linked, in the row or in a copy of it.
BareUntilPaid ==
    session # "paid" =>
        /\ license = NoLicense /\ status \in {"pending", "cancelled"}
        /\ \A p \in Polls : pollCopy[p] = NoLicense

\* The copies the refunds save have the link the row has.
CopiesLinked ==
    /\ refundPc # "Find" => refundCopy = license /\ license # NoLicense
    /\ adminPc # "Idle" => adminCopy = license /\ license # NoLicense
    /\ status \in {"completed", "refunded"} => license # NoLicense

\* RowLinksLicense for one licence at a time.
LinkedIfIssued == \A l \in Licenses : (tier[l] # "none") <=> (license = l)

LinkInv == TypeOK /\ FollowsStripe /\ BareUntilPaid /\ CopiesLinked /\ LinkedIfIssued

-----------------------------------------------------------------------------

LEMMA InitTyped == Init => TypeOK
<1>. SUFFICES ASSUME Init PROVE TypeOK
  OBVIOUS
<1>1. tier \in [Licenses -> Tier]
  BY DEF Init, Tier
<1>2. pollPc \in [Polls -> {"Idle", "Query", "Create", "Cancel"}]
  BY DEF Init
<1>3. pollCopy \in [Polls -> MaybeLicense]
  BY DEF Init, MaybeLicense
<1>4. /\ session \in Session /\ refunded \in BOOLEAN
      /\ status \in Status /\ license \in MaybeLicense
      /\ completedEvent \in EventState /\ refundEvent \in EventState
  BY DEF Init, Session, Status, EventState, MaybeLicense
<1>5. /\ refundPc \in {"Find", "Revoke", "Stamp"} /\ refundCopy \in MaybeLicense
      /\ adminPc \in {"Idle", "Refund", "Save", "Downgrade"} /\ adminCopy \in MaybeLicense
      /\ failures \in 0 .. MaxFailures
  BY CheckoutAssumption DEF Init, MaybeLicense
<1>. QED
  BY <1>1, <1>2, <1>3, <1>4, <1>5 DEF TypeOK

\* Every column and every copy keeps its type.
THEOREM TypeCorrect == Spec => []TypeOK
<1>. USE CheckoutAssumption
<1>1. Init => TypeOK
  BY InitTyped
<1>2. TypeOK /\ [Next]_vars => TypeOK'
  <2>. SUFFICES ASSUME TypeOK, [Next]_vars PROVE TypeOK'
    OBVIOUS
  <2>. USE DEF TypeOK, Session, Status, Tier, EventState, MaybeLicense,
               stripe, row, events, refundRun, poll, admin
  <2>1. CASE CustomerPays
    BY <2>1 DEF CustomerPays
  <2>2. CASE SessionExpires
    BY <2>2 DEF SessionExpires
  <2>3. CASE MerchantRefunds
    BY <2>3 DEF MerchantRefunds, ChargeRefunded
  <2>4. CASE HandleCheckoutCompleted
    BY <2>4 DEF HandleCheckoutCompleted, FindOrCreate
  <2>5. CASE HandleChargeRefunded
    BY <2>5 DEF HandleChargeRefunded, FindByPaymentIntent, RevokeLicense, StampRefunded, CanFail
  <2>6. CASE RefundHandlerFails
    BY <2>6 DEF RefundHandlerFails, CanFail
  <2>7. ASSUME NEW p \in Polls, VerifyPayment(p) PROVE TypeOK'
    <3>1. CASE ReadRow(p)
      BY <3>1 DEF ReadRow
    <3>2. CASE QuerySession(p)
      BY <3>2 DEF QuerySession
    <3>3. CASE CreateFromPoll(p)
      BY <3>3 DEF CreateFromPoll, FindOrCreate, CanFail
    <3>4. CASE CancelFromPoll(p)
      BY <3>4 DEF CancelFromPoll, CanFail
    <3>. QED BY <2>7, <3>1, <3>2, <3>3, <3>4 DEF VerifyPayment
  <2>8. CASE CleanupAbandoned
    BY <2>8 DEF CleanupAbandoned
  <2>9. CASE RefundTransaction
    <3>1. CASE FindRefundable
      BY <3>1 DEF FindRefundable
    <3>2. CASE RefundAtStripe
      <4>1. refunded' \in BOOLEAN /\ refundEvent' \in EventState
        BY <3>2 DEF RefundAtStripe, ChargeRefunded
      <4>2. adminPc' \in {"Idle", "Save"} /\ failures' \in 0 .. MaxFailures
        BY <3>2 DEF RefundAtStripe, CanFail
      <4>. QED BY <3>2, <4>1, <4>2 DEF RefundAtStripe
    <3>3. CASE SaveRefunded
      BY <3>3 DEF SaveRefunded, CanFail
    <3>4. CASE DowngradeLicense
      BY <3>4 DEF DowngradeLicense, CanFail
    <3>. QED BY <2>9, <3>1, <3>2, <3>3, <3>4 DEF RefundTransaction
  <2>10. CASE UNCHANGED vars
    BY <2>10 DEF vars
  <2>. QED
    BY <2>1, <2>2, <2>3, <2>4, <2>5, <2>6, <2>7, <2>8, <2>9, <2>10 DEF Next
<1>. QED BY <1>1, <1>2, PTL DEF Spec

-----------------------------------------------------------------------------

\* The transaction that locks the row creates a licence only for a row without
\* one, and links it.
LEMMA FindOrCreateLinks ==
  ASSUME LinkInv, FindOrCreate, session = "paid"
  PROVE  /\ LinkedIfIssued'
         /\ license # NoLicense => UNCHANGED <<license, status>>
         /\ license' # NoLicense
<1>. USE CheckoutAssumption
<1>1. CASE license # NoLicense
  BY <1>1 DEF LinkInv, FindOrCreate, LinkedIfIssued, row
<1>2. CASE license = NoLicense
  <2>1. PICK l \in Licenses : /\ tier[l] = "none"
                              /\ tier' = [tier EXCEPT ![l] = "premium"] /\ license' = l
    BY <1>2 DEF FindOrCreate
  <2>2. \A m \in Licenses : tier[m] = "none"
    BY <1>2 DEF LinkInv, LinkedIfIssued
  <2>. QED BY <1>2, <2>1, <2>2 DEF LinkInv, LinkedIfIssued, TypeOK
<1>. QED BY <1>1, <1>2

\* Each step of the session keeps the link.
LEMMA StepKeepsLink ==
  ASSUME LinkInv, TypeOK', [Next]_vars
  PROVE  LinkInv'
<1>. USE CheckoutAssumption DEF LinkInv
<1>. USE DEF stripe, row, events, refundRun, poll, admin
<1>1. CASE CustomerPays
  BY <1>1 DEF CustomerPays, FollowsStripe, BareUntilPaid, CopiesLinked, LinkedIfIssued
<1>2. CASE SessionExpires
  BY <1>2 DEF SessionExpires, FollowsStripe, BareUntilPaid, CopiesLinked, LinkedIfIssued
<1>3. CASE MerchantRefunds
  BY <1>3 DEF MerchantRefunds, ChargeRefunded, FollowsStripe, BareUntilPaid, CopiesLinked, LinkedIfIssued
<1>4. CASE HandleCheckoutCompleted
  <2>1. session = "paid" /\ FindOrCreate
    BY <1>4 DEF HandleCheckoutCompleted, FollowsStripe
  <2>2. /\ LinkedIfIssued' /\ license' # NoLicense
        /\ license # NoLicense => UNCHANGED <<license, status>>
    BY <2>1, FindOrCreateLinks
  <2>. QED
    BY <1>4, <2>1, <2>2 DEF HandleCheckoutCompleted, FollowsStripe, BareUntilPaid, CopiesLinked
<1>5. CASE FindByPaymentIntent
  BY <1>5 DEF FindByPaymentIntent, FollowsStripe, BareUntilPaid, CopiesLinked, LinkedIfIssued
<1>6. CASE RevokeLicense
  <2>1. LinkedIfIssued'
    BY <1>6 DEF RevokeLicense, CopiesLinked, LinkedIfIssued, TypeOK
  <2>. QED BY <1>6, <2>1 DEF RevokeLicense, FollowsStripe, BareUntilPaid, CopiesLinked
<1>7. CASE StampRefunded
  BY <1>7 DEF StampRefunded, FollowsStripe, BareUntilPaid, CopiesLinked, LinkedIfIssued
<1>8. CASE RefundHandlerFails
  BY <1>8 DEF RefundHandlerFails, FollowsStripe, BareUntilPaid, CopiesLinked, LinkedIfIssued
<1>9. ASSUME NEW p \in Polls, VerifyPayment(p) PROVE LinkInv'
  <2>1. CASE ReadRow(p)
    BY <2>1 DEF ReadRow, TypeOK, FollowsStripe, BareUntilPaid, CopiesLinked, LinkedIfIssued
  <2>2. CASE QuerySession(p)
    BY <2>2 DEF QuerySession, TypeOK, FollowsStripe, BareUntilPaid, CopiesLinked, LinkedIfIssued
  <2>3. CASE CreateFromPoll(p)
    <3>1. session = "paid"
      BY <2>3 DEF CreateFromPoll, FollowsStripe
    <3>2. FollowsStripe'
      BY <2>3, <3>1 DEF CreateFromPoll, TypeOK, FollowsStripe
    <3>3. CASE FindOrCreate
      <4>1. /\ LinkedIfIssued' /\ license' # NoLicense
            /\ license # NoLicense => UNCHANGED <<license, status>>
        BY <3>1, <3>3, FindOrCreateLinks
      <4>. QED BY <2>3, <3>1, <3>2, <4>1 DEF CreateFromPoll, BareUntilPaid, CopiesLinked
    <3>4. CASE UNCHANGED <<row, tier>>
      BY <2>3, <3>2, <3>4 DEF CreateFromPoll, BareUntilPaid, CopiesLinked, LinkedIfIssued
    <3>. QED BY <2>3, <3>3, <3>4 DEF CreateFromPoll
  <2>4. CASE CancelFromPoll(p)
    <3>1. license = NoLicense /\ pollCopy[p] = NoLicense /\ session = "expired"
      BY <2>4 DEF CancelFromPoll, FollowsStripe, BareUntilPaid
    <3>2. license' = license /\ status' \in {"cancelled", status}
      BY <2>4, <3>1 DEF CancelFromPoll
    <3>. QED
      BY <2>4, <3>1, <3>2
      DEF CancelFromPoll, TypeOK, FollowsStripe, BareUntilPaid, CopiesLinked, LinkedIfIssued
  <2>. QED BY <1>9, <2>1, <2>2, <2>3, <2>4 DEF VerifyPayment
<1>10. CASE CleanupAbandoned
  BY <1>10 DEF CleanupAbandoned, FollowsStripe, BareUntilPaid, CopiesLinked, LinkedIfIssued
<1>11. CASE FindRefundable
  BY <1>11 DEF FindRefundable, FollowsStripe, BareUntilPaid, CopiesLinked, LinkedIfIssued
<1>12. CASE RefundAtStripe
  BY <1>12 DEF RefundAtStripe, ChargeRefunded, FollowsStripe, BareUntilPaid, CopiesLinked, LinkedIfIssued
<1>13. CASE SaveRefunded
  BY <1>13 DEF SaveRefunded, FollowsStripe, BareUntilPaid, CopiesLinked, LinkedIfIssued
<1>14. CASE DowngradeLicense
  <2>1. LinkedIfIssued'
    BY <1>14 DEF DowngradeLicense, CopiesLinked, LinkedIfIssued, TypeOK
  <2>. QED BY <1>14, <2>1 DEF DowngradeLicense, FollowsStripe, BareUntilPaid, CopiesLinked
<1>15. CASE UNCHANGED vars
  BY <1>15 DEF vars, FollowsStripe, BareUntilPaid, CopiesLinked, LinkedIfIssued
<1>. QED
  BY <1>1, <1>2, <1>3, <1>4, <1>5, <1>6, <1>7, <1>8, <1>9, <1>10, <1>11, <1>12, <1>13, <1>14, <1>15
  DEF Next, HandleChargeRefunded, RefundTransaction

LEMMA LinkInvariant == Spec => []LinkInv
<1>1. Init => LinkInv
  <2>. QED
    BY InitTyped, CheckoutAssumption
    DEF Init, LinkInv, FollowsStripe, BareUntilPaid, CopiesLinked, LinkedIfIssued
<1>2. LinkInv /\ TypeOK' /\ [Next]_vars => LinkInv'
  BY StepKeepsLink
<1>. QED BY <1>1, <1>2, TypeCorrect, PTL DEF Spec

-----------------------------------------------------------------------------

LEMMA LinkInvLinks == LinkInv => RowLinksLicense
  BY CheckoutAssumption
  DEF LinkInv, TypeOK, LinkedIfIssued, RowLinksLicense, Issued, MaybeLicense

\* The row is linked to the only licence of the payment: no Save of an older
\* copy takes the link away or brings another one back.
THEOREM LinkKept == Spec => []RowLinksLicense
  BY LinkInvLinks, LinkInvariant, PTL

\* No poll, cleanup, webhook or late Save takes a row out of "refunded".
THEOREM RefundFinal == Spec => RefundedIsFinal
<1>1. LinkInv /\ [Next]_vars => (status = "refunded" => status' = "refunded")
  <2>. SUFFICES ASSUME LinkInv, [Next]_vars, status = "refunded"
                PROVE  status' = "refunded"
    OBVIOUS
  <2>. USE DEF row
  <2>1. session = "paid" /\ license # NoLicense
    BY DEF LinkInv, BareUntilPaid, CopiesLinked
  <2>2. FindOrCreate => status' = status
    BY <2>1 DEF FindOrCreate
  <2>3. ASSUME NEW p \in Polls, VerifyPayment(p) PROVE status' = status
    <3>1. ~CancelFromPoll(p)
      BY <2>1 DEF CancelFromPoll, LinkInv, FollowsStripe
    <3>. QED
      BY <2>2, <2>3, <3>1 DEF VerifyPayment, ReadRow, QuerySession, CreateFromPoll
  <2>4. CASE HandleCheckoutCompleted
    BY <2>2, <2>4 DEF HandleCheckoutCompleted
  <2>5. CASE HandleChargeRefunded
    BY <2>5 DEF HandleChargeRefunded, FindByPaymentIntent, RevokeLicense, StampRefunded
  <2>6. CASE RefundTransaction
    BY <2>6 DEF RefundTransaction, FindRefundable, RefundAtStripe, SaveRefunded, DowngradeLicense
  <2>. QED
    BY <2>3, <2>4, <2>5, <2>6
    DEF Next, CustomerPays, SessionExpires, MerchantRefunds, RefundHandlerFails,
        CleanupAbandoned, vars
<1>. QED BY <1>1, LinkInvariant, PTL DEF Spec, RefundedIsFinal

-----------------------------------------------------------------------------

\* A link that was made is never changed.
LEMMA LinkMadeOnce ==
  ASSUME LinkInv, [Next]_vars, license # NoLicense
  PROVE  license' = license
<1>. USE DEF row
<1>1. session = "paid"
  BY DEF LinkInv, BareUntilPaid
<1>2. FindOrCreate => license' = license
  BY DEF FindOrCreate
<1>3. ASSUME NEW p \in Polls, VerifyPayment(p) PROVE license' = license
  <2>1. ~CancelFromPoll(p)
    BY <1>1 DEF CancelFromPoll, LinkInv, FollowsStripe
  <2>. QED
    BY <1>2, <1>3, <2>1 DEF VerifyPayment, ReadRow, QuerySession, CreateFromPoll
<1>4. CASE HandleCheckoutCompleted
  BY <1>2, <1>4 DEF HandleCheckoutCompleted
<1>5. CASE HandleChargeRefunded
  BY <1>5
  DEF HandleChargeRefunded, FindByPaymentIntent, RevokeLicense, StampRefunded, LinkInv, CopiesLinked
<1>6. CASE RefundTransaction
  BY <1>6
  DEF RefundTransaction, FindRefundable, RefundAtStripe, SaveRefunded, DowngradeLicense,
      LinkInv, CopiesLinked
<1>. QED
  BY <1>3, <1>4, <1>5, <1>6
  DEF Next, CustomerPays, SessionExpires, MerchantRefunds, RefundHandlerFails,
      CleanupAbandoned, vars

LEMMA LinkInvLinksNext == LinkInv' => RowLinksLicense'
  BY LinkInvLinks, PTL

\* Money arrives once and is never taken back from the session.
LEMMA SessionMoves ==
  ASSUME [Next]_vars, ~CustomerPays
  PROVE  (session' = "paid") <=> (session = "paid")
<1>. USE DEF stripe
<1>1. ASSUME NEW p \in Polls, VerifyPayment(p) PROVE session' = session
  BY <1>1 DEF VerifyPayment, ReadRow, QuerySession, CreateFromPoll, CancelFromPoll
<1>2. CASE RefundTransaction
  BY <1>2 DEF RefundTransaction, FindRefundable, RefundAtStripe, SaveRefunded, DowngradeLicense
<1>3. CASE HandleChargeRefunded
  BY <1>3 DEF HandleChargeRefunded, FindByPaymentIntent, RevokeLicense, StampRefunded
<1>. QED
  BY <1>1, <1>2, <1>3
  DEF Next, SessionExpires, MerchantRefunds, HandleCheckoutCompleted, RefundHandlerFails,
      CleanupAbandoned, vars

\* Every step of the checkout is a step of LicenseGrant or leaves it alone.
LEMMA StepGrants ==
  ASSUME LinkInv, LinkInv', [Next]_vars
  PROVE  [Grant!Next]_Grant!vars
<1>. USE CheckoutAssumption DEF Grant!Next, Grant!vars
<1>1. /\ Issued = IF license = NoLicense THEN {} ELSE {license}
      /\ Issued' = IF license' = NoLicense THEN {} ELSE {license'}
  BY LinkInvLinks, LinkInvLinksNext DEF RowLinksLicense
<1>2. CASE CustomerPays
  <2>1. session' = "paid" /\ license' = license
    BY <1>2 DEF CustomerPays, row
  <2>. QED BY <1>1, <2>1 DEF Grant!Pay
<1>3. CASE ~CustomerPays
  <2>1. (session' = "paid") <=> (session = "paid")
    BY <1>3, SessionMoves
  <2>2. CASE license' = license
    BY <1>1, <2>1, <2>2
  <2>3. CASE license' # license
    <3>1. license = NoLicense /\ license' \in Licenses
      BY <2>3, LinkMadeOnce DEF LinkInv, TypeOK, MaybeLicense
    <3>2. session = "paid"
      BY <2>1, <3>1 DEF LinkInv, BareUntilPaid
    <3>3. Issued = {} /\ Issued' = {license'}
      BY <1>1, <3>1
    <3>. QED BY <2>1, <3>1, <3>2, <3>3 DEF Grant!Issue
  <2>. QED BY <2>2, <2>3
<1>. QED BY <1>2, <1>3

\* The checkout implements LicenseGrant: at most one licence for a payment, and
\* none before it, however the poll, the webhook and the refunds interleave.
THEOREM CheckoutGrants == Spec => GrantKept
<1>1. Init => Grant!Init
  BY DEF Init, Grant!Init, Issued
<1>2. LinkInv /\ LinkInv' /\ [Next]_vars => [Grant!Next]_Grant!vars
  BY StepGrants
<1>. QED BY <1>1, <1>2, LinkInvariant, PTL DEF Spec, GrantKept, Grant!Spec

-----------------------------------------------------------------------------
(* The invoice of the crypto checkout.                                     *)

\* The copies and columns of an invoice have the types the proof needs.
InvoiceTypes ==
    /\ invoice \in Crypto!Invoice /\ btcStatus \in Crypto!Status
    /\ btcTier \in [InvoiceLicenses -> Crypto!Tier]
    /\ btcPollStatus \in [Polls -> Crypto!Status]
    /\ btcPollLicense \in [Polls -> Crypto!MaybeLicense]
    /\ btcLicense \in Crypto!MaybeLicense /\ btcAdminLicense \in Crypto!MaybeLicense

\* Before BTCPay settles the invoice neither the row nor a copy of it is
\* completed: nothing to issue, nothing to refund.
UnpaidClean ==
    invoice # "Settled" =>
        /\ btcStatus # "completed" /\ btcAdminPc = "Idle"
        /\ \A l \in InvoiceLicenses : btcTier[l] = "none"
        /\ \A p \in Polls : btcPollStatus[p] # "completed"

\* While no Save took the link away, a copy has the link of the row or none.
InvoiceLinked ==
    /\ ~linkLost =>
           /\ \A l \in InvoiceLicenses : (btcTier[l] # "none") <=> (btcLicense = l)
           /\ \A p \in Polls : btcPollLicense[p] \in {NoLicense, btcLicense}
           /\ btcAdminLicense \in {NoLicense, btcLicense}
    /\ btcAdminPc = "Downgrade" => btcAdminLicense # NoLicense

InvoiceInv == InvoiceTypes /\ UnpaidClean /\ InvoiceLinked

-----------------------------------------------------------------------------

LEMMA InitInvoice == Crypto!Init => InvoiceInv
<1>. USE CryptoAssumption DEF Crypto!CheckoutAssumption
<1>. SUFFICES ASSUME Crypto!Init PROVE InvoiceInv
  OBVIOUS
<1>1. InvoiceTypes
  BY DEF Crypto!Init, InvoiceTypes, Crypto!Tier, Crypto!Status, Crypto!MaybeLicense,
         Crypto!Invoice
<1>2. UnpaidClean /\ InvoiceLinked
  BY DEF Crypto!Init, UnpaidClean, InvoiceLinked
<1>. QED BY <1>1, <1>2 DEF InvoiceInv

\* A Save that leaves the link alone saved the link the row has, or filled an
\* empty one; and it was only empty because nothing was linked yet.
LEMMA SaveLinks ==
  ASSUME InvoiceInv, NEW s \in Crypto!Status, NEW l \in Crypto!MaybeLicense,
         Crypto!Save(s, l), ~linkLost', ~linkLost => l \in {NoLicense, btcLicense}
  PROVE  ~linkLost /\ btcLicense' = btcLicense
  BY DEF Crypto!Save

\* The transaction that locks the row creates a licence only for a row that
\* is paid and has none, and links it.
LEMMA InvoiceIssued ==
  ASSUME InvoiceInv, Crypto!FindOrCreate
  PROVE  /\ btcTier' \in [InvoiceLicenses -> Crypto!Tier]
         /\ btcLicense' \in Crypto!MaybeLicense
         /\ btcLicense # NoLicense => btcLicense' = btcLicense
         /\ btcStatus # "completed" => btcTier' = btcTier
         /\ ~linkLost =>
               \A l \in InvoiceLicenses : (btcTier'[l] # "none") <=> (btcLicense' = l)
<1>. USE CryptoAssumption DEF Crypto!CheckoutAssumption, InvoiceInv, InvoiceTypes
<1>1. CASE btcLicense # NoLicense \/ btcStatus # "completed"
  BY <1>1 DEF Crypto!FindOrCreate, InvoiceLinked
<1>2. CASE btcLicense = NoLicense /\ btcStatus = "completed"
  <2>1. PICK l \in InvoiceLicenses :
           /\ btcTier' = [btcTier EXCEPT ![l] = "premium"] /\ btcLicense' = l
    BY <1>2 DEF Crypto!FindOrCreate
  <2>2. btcTier' \in [InvoiceLicenses -> Crypto!Tier] /\ btcLicense' \in Crypto!MaybeLicense
    BY <2>1 DEF Crypto!Tier, Crypto!MaybeLicense
  <2>3. ASSUME ~linkLost, NEW m \in InvoiceLicenses
        PROVE  (btcTier'[m] # "none") <=> (btcLicense' = m)
    BY <1>2, <2>1, <2>3 DEF InvoiceLinked
  <2>. QED BY <1>2, <2>1, <2>2, <2>3
<1>. QED BY <1>1, <1>2

\* Each step of a poll keeps the invariant.
LEMMA CheckStatusInvoice ==
  ASSUME InvoiceInv, NEW p \in Polls, Crypto!CheckStatus(p)
  PROVE  InvoiceInv'
<1>. USE CryptoAssumption DEF Crypto!CheckoutAssumption, Crypto!row, Crypto!poll, Crypto!admin,
                              Crypto!Goto, InvoiceInv
<1>1. CASE Crypto!ReadRow(p)
  BY <1>1 DEF Crypto!ReadRow, InvoiceTypes, UnpaidClean, InvoiceLinked
<1>2. CASE Crypto!QueryInvoice(p)
  <2>1. \/ btcPollStatus' = [btcPollStatus EXCEPT ![p] = Crypto!MapBTCPayStatus[invoice]]
        \/ btcPollStatus' = btcPollStatus
    BY <1>2 DEF Crypto!QueryInvoice
  <2>2. /\ Crypto!MapBTCPayStatus[invoice] \in Crypto!Status
        /\ Crypto!MapBTCPayStatus[invoice] = "completed" => invoice = "Settled"
    BY DEF Crypto!MapBTCPayStatus, Crypto!Status, Crypto!Invoice, InvoiceTypes
  <2>3. InvoiceTypes' /\ UnpaidClean'
    BY <1>2, <2>1, <2>2 DEF Crypto!QueryInvoice, InvoiceTypes, UnpaidClean
  <2>4. InvoiceLinked'
    BY <1>2 DEF Crypto!QueryInvoice, InvoiceLinked
  <2>. QED BY <2>3, <2>4
<1>3. CASE Crypto!SaveStatus(p)
  <2>1. CASE Crypto!Save(btcPollStatus[p], btcPollLicense[p])
    <3>1. btcPollStatus[p] \in Crypto!Status /\ btcPollLicense[p] \in Crypto!MaybeLicense
      BY DEF InvoiceTypes
    <3>2. ~linkLost' => ~linkLost /\ btcLicense' = btcLicense
      BY <2>1, <3>1, SaveLinks DEF InvoiceLinked
    <3>3. InvoiceTypes' /\ UnpaidClean'
      BY <1>3, <2>1, <3>1 DEF Crypto!SaveStatus, Crypto!Save, InvoiceTypes, UnpaidClean
    <3>4. InvoiceLinked'
      BY <1>3, <3>2 DEF Crypto!SaveStatus, InvoiceLinked
    <3>. QED BY <3>3, <3>4
  <2>2. CASE UNCHANGED <<Crypto!row, linkLost>>
    BY <1>3, <2>2 DEF Crypto!SaveStatus, InvoiceTypes, UnpaidClean, InvoiceLinked
  <2>. QED BY <1>3, <2>1, <2>2 DEF Crypto!SaveStatus
<1>4. CASE Crypto!IssueLicense(p)
  <2>1. CASE Crypto!FindOrCreate
    <3>1. InvoiceTypes' /\ UnpaidClean'
      BY <1>4, <2>1, InvoiceIssued DEF Crypto!IssueLicense, InvoiceTypes, UnpaidClean
    <3>2. InvoiceLinked'
      BY <1>4, <2>1, InvoiceIssued DEF Crypto!IssueLicense, InvoiceLinked
    <3>. QED BY <3>1, <3>2
  <2>2. CASE UNCHANGED <<btcLicense, btcTier>>
    BY <1>4, <2>2 DEF Crypto!IssueLicense, InvoiceTypes, UnpaidClean, InvoiceLinked
  <2>. QED BY <1>4, <2>1, <2>2 DEF Crypto!IssueLicense
<1>. QED BY <1>1, <1>2, <1>3, <1>4 DEF Crypto!CheckStatus

\* Each step of a refund keeps the invariant.
LEMMA RefundInvoice ==
  ASSUME InvoiceInv, Crypto!RefundTransaction
  PROVE  InvoiceInv'
<1>. USE CryptoAssumption DEF Crypto!CheckoutAssumption, Crypto!row, Crypto!poll, Crypto!admin,
                              InvoiceInv
<1>1. CASE Crypto!FindRefundable
  BY <1>1 DEF Crypto!FindRefundable, InvoiceTypes, UnpaidClean, InvoiceLinked
<1>2. CASE Crypto!SaveRefundPending
  <2>1. CASE Crypto!Save("refund_pending", btcAdminLicense)
    <3>1. "refund_pending" \in Crypto!Status /\ btcAdminLicense \in Crypto!MaybeLicense
      BY DEF InvoiceTypes, Crypto!Status
    <3>2. ~linkLost' => ~linkLost /\ btcLicense' = btcLicense
      BY <2>1, <3>1, SaveLinks DEF InvoiceLinked
    <3>3. InvoiceTypes' /\ UnpaidClean'
      BY <1>2, <2>1, <3>1 DEF Crypto!SaveRefundPending, Crypto!Save, InvoiceTypes, UnpaidClean
    <3>4. InvoiceLinked'
      BY <1>2, <2>1, <3>2 DEF Crypto!SaveRefundPending, InvoiceLinked
    <3>. QED BY <3>3, <3>4
  <2>2. CASE btcAdminPc' = "Idle" /\ UNCHANGED <<Crypto!row, linkLost>>
    BY <1>2, <2>2 DEF Crypto!SaveRefundPending, InvoiceTypes, UnpaidClean, InvoiceLinked
  <2>. QED BY <1>2, <2>1, <2>2 DEF Crypto!SaveRefundPending
<1>3. CASE Crypto!DowngradeLicense
  <2>1. InvoiceTypes' /\ UnpaidClean'
    BY <1>3 DEF Crypto!DowngradeLicense, InvoiceTypes, UnpaidClean, Crypto!Tier
  <2>2. InvoiceLinked'
    BY <1>3 DEF Crypto!DowngradeLicense, InvoiceTypes, InvoiceLinked
  <2>. QED BY <2>1, <2>2
<1>. QED BY <1>1, <1>2, <1>3 DEF Crypto!RefundTransaction

LEMMA StepInvoice == InvoiceInv /\ [Crypto!Next]_btc => InvoiceInv'
<1>. SUFFICES ASSUME InvoiceInv, [Crypto!Next]_btc PROVE InvoiceInv'
  OBVIOUS
<1>. USE DEF Crypto!row, Crypto!poll, Crypto!admin
<1>1. CASE Crypto!InvoiceMoves
  BY <1>1 DEF Crypto!InvoiceMoves, Crypto!Invoice, InvoiceInv, InvoiceTypes, UnpaidClean, InvoiceLinked
<1>2. CASE Crypto!CleanupAbandoned
  BY <1>2 DEF Crypto!CleanupAbandoned, Crypto!Status, InvoiceInv, InvoiceTypes, UnpaidClean, InvoiceLinked
<1>3. CASE UNCHANGED btc
  BY <1>3 DEF btc, InvoiceInv, InvoiceTypes, UnpaidClean, InvoiceLinked
<1>. QED BY <1>1, <1>2, <1>3, CheckStatusInvoice, RefundInvoice DEF Crypto!Next

\* The choice of the way to pay disturbs neither checkout: whatever is proved
\* of one of them holds of the two together.
THEOREM CheckoutsAsSpecified == CheckoutsSpec => Spec /\ Crypto!Spec
<1>1. CheckoutsInit => Init /\ Crypto!Init
  BY DEF CheckoutsInit
<1>2. [CheckoutsNext]_checkouts => [Next]_vars /\ [Crypto!Next]_Crypto!vars
  BY DEF CheckoutsNext, ByCard, ByCrypto, checkouts, btc, Crypto!vars, Crypto!row, Crypto!poll,
         Crypto!admin
<1>. QED BY <1>1, <1>2, PTL DEF CheckoutsSpec, Spec, Crypto!Spec

LEMMA InvoiceInvariant == CheckoutsSpec => []InvoiceInv
<1>1. Crypto!Init => InvoiceInv
  BY InitInvoice
<1>2. InvoiceInv /\ [Crypto!Next]_Crypto!vars => InvoiceInv'
  BY StepInvoice DEF btc, Crypto!vars, Crypto!row, Crypto!poll, Crypto!admin
<1>. QED BY <1>1, <1>2, CheckoutsAsSpecified, PTL DEF Crypto!Spec

\* No licence of an invoice before BTCPay has settled it: neither a poll that
\* saves an old copy of the row nor the cleanup can make an unpaid row look
\* completed.
THEOREM InvoicePaidFirst == CheckoutsSpec => []IssuedIsPaid
<1>1. InvoiceInv => IssuedIsPaid
  BY DEF InvoiceInv, UnpaidClean, IssuedIsPaid, Crypto!IssuedIsPaid, Crypto!Issued
<1>. QED BY <1>1, InvoiceInvariant, PTL

\* The lock on the row is enough for one licence per invoice until a Save of
\* an old copy takes the link out of the row: the run cc_duplicate shows that
\* such a Save happens.
THEOREM InvoiceLinkKept == CheckoutsSpec => []Crypto!RowLinksLicense
<1>1. InvoiceInv => Crypto!RowLinksLicense
  BY CryptoAssumption
  DEF InvoiceInv, InvoiceTypes, InvoiceLinked, Crypto!RowLinksLicense, Crypto!Issued,
      Crypto!MaybeLicense, Crypto!CheckoutAssumption
<1>. QED BY <1>1, InvoiceInvariant, PTL
=============================================================================
