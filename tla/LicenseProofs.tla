---------------------------- MODULE LicenseProofs ----------------------------
(***************************************************************************)
(* Proofs about the parts of the premium service that MCParts puts side by *)
(* side, for any number of rows and requests and any limits.               *)
(***************************************************************************)
EXTENDS MCParts, FiniteSetTheorems, TLAPS

-----------------------------------------------------------------------------
(* The devices of a licence.  What the proof rests on is the row lock of   *)
(* RegisterDeviceWithLimit: between the count and the insert of a request  *)
(* no other request registers a device, so that the room it has counted is *)
(* still there, unless a Save has filled it, and then "revived" has        *)
(* counted that Save.                                                      *)

Counting == {"count", "create"}
Room == Cardinality(slots) < MaxDevices + revived

\* The transaction of RegisterDeviceWithLimit holds the licence row from its
\* count to its insert, and nobody else does.
LockHeld == \A r \in Actor : pc[r] \in Counting => lock = r

\* What a request has counted stays true until it inserts.
RoomKept == \A r \in Actor : pc[r] = "create" => Room

\* A request at work knows its device.
DeviceKnown == \A r \in Actor : pc[r] # "idle" => device[r] \in Thing

SlotsInv == Slots!TypeOK /\ LockHeld /\ RoomKept /\ DeviceKnown /\ Slots!LimitButForRevived

\* DeviceSlots counts its rows with the library's Cardinality.
LEMMA SlotsCounts ==
    \A S : Slots!Cardinality(S) = Cardinality(S) /\ Slots!IsFiniteSet(S) = IsFiniteSet(S)
  BY DEF Cardinality, Slots!Cardinality, IsFiniteSet, Slots!IsFiniteSet

\* Adding a row and removing one: how the number of rows changes.
LEMMA Rows ==
    ASSUME Slots!DeviceSlotsAssumption, slots \subseteq Thing, NEW d \in Thing
    PROVE  /\ IsFiniteSet(slots) /\ Cardinality(slots) \in Nat
           /\ Cardinality(slots \union {d}) =
                  IF d \in slots THEN Cardinality(slots) ELSE Cardinality(slots) + 1
           /\ Cardinality(slots \ {d}) \in Nat
           /\ Cardinality(slots \ {d}) <= Cardinality(slots)
  <1>1. IsFiniteSet(slots)
    BY FS_Subset, SlotsCounts DEF Slots!DeviceSlotsAssumption
  <1>2. Cardinality(slots) \in Nat
    BY <1>1, FS_CardinalityType
  <1>3. Cardinality(slots \union {d}) =
            IF d \in slots THEN Cardinality(slots) ELSE Cardinality(slots) + 1
    BY <1>1, FS_AddElement
  <1>4. IsFiniteSet(slots \ {d}) /\ Cardinality(slots \ {d}) <= Cardinality(slots)
    BY <1>1, FS_Subset
  <1>5. Cardinality(slots \ {d}) \in Nat
    BY <1>4, FS_CardinalityType
  <1> QED
    BY <1>1, <1>2, <1>3, <1>4, <1>5

\* No device is registered at first.
LEMMA SlotsInit == ASSUME Slots!DeviceSlotsAssumption PROVE Slots!Init => SlotsInv
  <1>1. Cardinality({}) = 0
    BY FS_EmptySet
  <1> QED
    BY <1>1, SlotsCounts DEF Slots!Init, SlotsInv, Slots!TypeOK, LockHeld, RoomKept, DeviceKnown, Slots!LimitButForRevived,
                Counting, Slots!DeviceSlotsAssumption

\* Every step keeps the invariant.
LEMMA SlotsStep ==
    ASSUME Slots!DeviceSlotsAssumption, SlotsInv, [Slots!Next]_Slots!vars
    PROVE  SlotsInv'
  <1> USE DEF SlotsInv
  <1>0. revived \in Nat /\ MaxDevices \in Nat /\ removals \in Nat
    BY DEF Slots!TypeOK, Slots!DeviceSlotsAssumption
  <1>1. ASSUME NEW r \in Actor, NEW step \in {"touch", "register", "delete"}, NEW d \in Thing,
               Slots!Start(r, step, d), activates' \subseteq Actor, removals' \in 0 .. MaxRemovals
        PROVE  SlotsInv'
    <2>1. Slots!TypeOK'
      BY <1>1 DEF Slots!Start, Slots!Goto, Slots!TypeOK
    <2>2. LockHeld' /\ RoomKept' /\ DeviceKnown' /\ Slots!LimitButForRevived'
      BY <1>1 DEF Slots!Start, Slots!Goto, Slots!TypeOK, LockHeld, RoomKept, Room, DeviceKnown,
                  Slots!LimitButForRevived, Counting
    <2> QED
      BY <2>1, <2>2
  <1>2. ASSUME NEW r \in Actor, NEW d \in Thing, Slots!VerifyLicense(r, d)
        PROVE  SlotsInv'
    <2>1. /\ \/ Slots!Start(r, "touch", d) \/ Slots!Start(r, "register", d)
          /\ activates' \subseteq Actor /\ removals' \in 0 .. MaxRemovals
      BY <1>2 DEF Slots!VerifyLicense, Slots!TypeOK
    <2> QED
      BY <2>1, <1>1
  <1>3. ASSUME NEW r \in Actor, NEW d \in Thing, Slots!RestoreLicense(r, d)
        PROVE  SlotsInv'
    <2>1. /\ Slots!Start(r, "register", d)
          /\ activates' \subseteq Actor /\ removals' \in 0 .. MaxRemovals
      BY <1>3 DEF Slots!RestoreLicense, Slots!TypeOK
    <2> QED
      BY <2>1, <1>1
  <1>4. ASSUME NEW r \in Actor, NEW d \in Thing,
               Slots!AdminRemoveDevice(r, d) \/ \E by \in Thing : Slots!RemoveDevice(r, by, d)
        PROVE  SlotsInv'
    <2>1. /\ Slots!Start(r, "delete", d)
          /\ activates' \subseteq Actor
      BY <1>4 DEF Slots!AdminRemoveDevice, Slots!RemoveDevice, Slots!TypeOK
    <2>2. removals' \in 0 .. MaxRemovals
      BY <1>4 DEF Slots!AdminRemoveDevice, Slots!RemoveDevice, Slots!Remove, Slots!TypeOK, Slots!DeviceSlotsAssumption
    <2> QED
      BY <2>1, <2>2, <1>1
  <1>5. ASSUME NEW r \in Actor, Slots!Touch(r)
        PROVE  SlotsInv'
    <2>1. device[r] \in Thing
      BY <1>5 DEF Slots!Touch, DeviceKnown
    <2>2. /\ Cardinality(slots') = IF device[r] \in slots THEN Cardinality(slots)
                                   ELSE Cardinality(slots) + 1
          /\ Cardinality(slots) \in Nat
      BY <1>5, <2>1, Rows DEF Slots!Touch, Slots!TypeOK
    <2>3. Slots!TypeOK'
      BY <1>5, <1>0, <2>1 DEF Slots!Touch, Slots!Finish, Slots!Goto, Slots!TypeOK
    <2>4. LockHeld' /\ DeviceKnown'
      BY <1>5 DEF Slots!Touch, Slots!Finish, Slots!Goto, Slots!TypeOK, LockHeld, DeviceKnown, Counting
    <2>5. /\ Room => Room'
          /\ Slots!LimitButForRevived'
      BY <1>5, <1>0, <2>2, SlotsCounts DEF Slots!Touch, Room, Slots!LimitButForRevived
    <2>6. RoomKept'
      BY <1>5, <2>5 DEF Slots!Touch, Slots!Finish, Slots!Goto, Slots!TypeOK, RoomKept
    <2> QED
      BY <2>3, <2>4, <2>5, <2>6
  <1>6. ASSUME NEW r \in Actor, Slots!LockLicense(r)
        PROVE  SlotsInv'
    <2>1. Slots!TypeOK' /\ DeviceKnown' /\ Slots!LimitButForRevived'
      BY <1>6 DEF Slots!LockLicense, Slots!Goto, Slots!TypeOK, DeviceKnown, Slots!LimitButForRevived
    <2>2. \A q \in Actor : pc[q] \notin Counting
      BY <1>6 DEF Slots!LockLicense, LockHeld, Slots!DeviceSlotsAssumption
    <2>3. LockHeld' /\ RoomKept'
      BY <1>6, <2>2 DEF Slots!LockLicense, Slots!Goto, Slots!TypeOK, LockHeld, RoomKept, Counting
    <2> QED
      BY <2>1, <2>3
  <1>7. ASSUME NEW r \in Actor, Slots!CountDevices(r)
        PROVE  SlotsInv'
    <2>1. Cardinality(slots) \in Nat
      BY Rows, FS_Subset, FS_CardinalityType, SlotsCounts DEF Slots!TypeOK, Slots!DeviceSlotsAssumption
    <2>2. lock = r /\ \A q \in Actor \ {r} : pc[q] \notin Counting
      BY <1>7 DEF Slots!CountDevices, LockHeld, Counting
    <2>3. CASE Slots!Registered >= MaxDevices /\ lock' = Nothing /\ Slots!Finish(r)
      <3>1. Slots!TypeOK' /\ DeviceKnown' /\ Slots!LimitButForRevived'
        BY <1>7, <2>3 DEF Slots!CountDevices, Slots!Finish, Slots!Goto, Slots!TypeOK, DeviceKnown, Slots!LimitButForRevived
      <3>2. LockHeld' /\ RoomKept'
        BY <1>7, <2>2, <2>3 DEF Slots!CountDevices, Slots!Finish, Slots!Goto, Slots!TypeOK, LockHeld, RoomKept, Counting
      <3> QED
        BY <3>1, <3>2
    <2>4. CASE /\ Slots!Registered < MaxDevices /\ UNCHANGED <<lock, device, activates>>
               /\ Slots!Goto(r, "create")
      <3>1. Slots!TypeOK' /\ DeviceKnown' /\ Slots!LimitButForRevived'
        BY <1>7, <2>4 DEF Slots!CountDevices, Slots!Goto, Slots!TypeOK, DeviceKnown, Slots!LimitButForRevived
      <3>2. Room'
        BY <1>7, <1>0, <2>1, <2>4, SlotsCounts DEF Slots!CountDevices, Slots!Registered, Room
      <3>3. LockHeld' /\ RoomKept'
        BY <1>7, <2>2, <2>4, <3>2 DEF Slots!CountDevices, Slots!Goto, Slots!TypeOK, LockHeld, RoomKept, Counting
      <3> QED
        BY <3>1, <3>3
    <2> QED
      BY <1>7, <2>3, <2>4 DEF Slots!CountDevices
  <1>8. ASSUME NEW r \in Actor, Slots!CreateRow(r)
        PROVE  SlotsInv'
    <2>1. device[r] \in Thing /\ Room
      BY <1>8 DEF Slots!CreateRow, DeviceKnown, RoomKept
    <2>2. /\ Cardinality(slots') = IF device[r] \in slots THEN Cardinality(slots)
                                   ELSE Cardinality(slots) + 1
          /\ Cardinality(slots) \in Nat
      BY <1>8, <2>1, Rows DEF Slots!CreateRow, Slots!TypeOK
    <2>3. Slots!LimitButForRevived'
      BY <1>8, <1>0, <2>1, <2>2, SlotsCounts DEF Slots!CreateRow, Room, Slots!LimitButForRevived
    <2>4. \A q \in Actor \ {r} : pc[q] \notin Counting
      BY <1>8 DEF Slots!CreateRow, LockHeld, Counting
    <2>5. /\ pc' \in [Actor -> {"idle", "touch", "register", "count", "create", "sync", "delete"}]
          /\ device' \in [Actor -> Thing \union {Nothing}]
          /\ activates' \subseteq Actor
          /\ \A q \in Actor \ {r} : pc'[q] = pc[q] /\ device'[q] = device[q]
          /\ \/ pc'[r] = "idle"
             \/ pc'[r] = "sync" /\ device' = device
      BY <1>8 DEF Slots!CreateRow, Slots!Finish, Slots!Goto, Slots!TypeOK
    <2>6. Slots!TypeOK'
      BY <1>8, <2>1, <2>5 DEF Slots!CreateRow, Slots!TypeOK
    <2>7. LockHeld' /\ RoomKept' /\ DeviceKnown'
      BY <2>1, <2>4, <2>5 DEF LockHeld, RoomKept, DeviceKnown, Counting
    <2> QED
      BY <2>3, <2>6, <2>7
  <1>9. ASSUME NEW r \in Actor, Slots!SyncTier(r)
        PROVE  SlotsInv'
    <2>1. Slots!TypeOK'
      BY <1>9 DEF Slots!SyncTier, Slots!Finish, Slots!Goto, Slots!TypeOK
    <2> QED
      BY <1>9, <2>1 DEF Slots!SyncTier, Slots!Finish, Slots!Goto, Slots!TypeOK, LockHeld, RoomKept, Room, DeviceKnown,
                        Slots!LimitButForRevived, Counting
  <1>10. ASSUME NEW r \in Actor, Slots!DeleteDevice(r)
         PROVE  SlotsInv'
    <2>1. device[r] \in Thing
      BY <1>10 DEF Slots!DeleteDevice, DeviceKnown
    <2>2. /\ Cardinality(slots') <= Cardinality(slots)
          /\ Cardinality(slots) \in Nat /\ Cardinality(slots') \in Nat
      BY <1>10, <2>1, Rows DEF Slots!DeleteDevice, Slots!TypeOK
    <2>3. Slots!TypeOK'
      BY <1>10 DEF Slots!DeleteDevice, Slots!Finish, Slots!Goto, Slots!TypeOK
    <2>4. /\ Room => Room'
          /\ Slots!LimitButForRevived'
      BY <1>10, <1>0, <2>2, SlotsCounts DEF Slots!DeleteDevice, Room, Slots!LimitButForRevived
    <2>5. LockHeld' /\ RoomKept' /\ DeviceKnown'
      BY <1>10, <2>4 DEF Slots!DeleteDevice, Slots!Finish, Slots!Goto, Slots!TypeOK, LockHeld, RoomKept, DeviceKnown, Counting
    <2> QED
      BY <2>3, <2>4, <2>5
  <1>11. CASE Slots!LicenseChanges
    <2>1. Slots!TypeOK'
      BY <1>11 DEF Slots!LicenseChanges, Slots!TypeOK
    <2> QED
      BY <1>11, <2>1 DEF Slots!LicenseChanges, LockHeld, RoomKept, Room, DeviceKnown, Slots!LimitButForRevived
  <1>12. CASE Slots!FreeSlots
    <2>1. Cardinality(slots') = 0
      BY <1>12, FS_EmptySet DEF Slots!FreeSlots
    <2>2. \A q \in Actor : pc[q] \notin Counting
      BY <1>12 DEF Slots!FreeSlots, LockHeld, Slots!DeviceSlotsAssumption
    <2>3. Slots!TypeOK'
      BY <1>12, <1>0 DEF Slots!FreeSlots, Slots!Remove, Slots!TypeOK, Slots!DeviceSlotsAssumption
    <2>4. Slots!LimitButForRevived'
      BY <1>12, <1>0, <2>1, SlotsCounts DEF Slots!FreeSlots, Slots!LimitButForRevived
    <2>5. LockHeld' /\ RoomKept' /\ DeviceKnown'
      BY <1>12, <2>2 DEF Slots!FreeSlots, LockHeld, RoomKept, DeviceKnown, Counting
    <2> QED
      BY <2>3, <2>4, <2>5
  <1>13. CASE UNCHANGED Slots!vars
    BY <1>13 DEF Slots!vars, Slots!TypeOK, LockHeld, RoomKept, Room, DeviceKnown, Slots!LimitButForRevived
  <1> QED
    BY <1>2, <1>3, <1>4, <1>5, <1>6, <1>7, <1>8, <1>9, <1>10, <1>11, <1>12, <1>13 DEF Slots!Next

LEMMA SlotsAlways == PartsSpec => [](subject = "slots" => SlotsInv)
  <1>1. PartsInit => (subject = "slots" => SlotsInv)
    BY SlotsInit, PartsAssumption DEF PartsInit
  <1>2. (subject = "slots" => SlotsInv) /\ [PartsNext]_partsVars => (subject = "slots" => SlotsInv)'
    <2> SUFFICES ASSUME subject = "slots" => SlotsInv, [PartsNext]_partsVars, subject' = "slots"
                 PROVE  SlotsInv'
      OBVIOUS
    <2>1. subject = "slots"
      BY DEF PartsNext, partsVars
    <2>2. [Slots!Next]_Slots!vars
      BY <2>1 DEF PartsNext, partsVars, ofSlots, Slots!vars
    <2> QED
      BY <2>1, <2>2, SlotsStep, PartsAssumption
  <1> QED
    BY <1>1, <1>2, PTL DEF PartsSpec

\* RegisterDeviceWithLimit, for any number of requests and devices: the device
\* limit of a licence is passed by rows that UpdateLicenseDevice has inserted
\* again and by no others.
THEOREM LimitHolds == PartsSpec => []LimitButForRevived
  <1>1. (subject = "slots" => SlotsInv) => LimitButForRevived
    BY DEF SlotsInv, LimitButForRevived
  <1> QED
    BY <1>1, SlotsAlways, PTL

-----------------------------------------------------------------------------
(* The links mailed to the owner of a licence.  While a token is valid the *)
(* key that marks it as used stays: the key is set for as long as a whole  *)
(* token lives, so the token expires first.  A redemption that has set the *)
(* key is the only one until it has answered, and after that the key, or   *)
(* the age of the token, stops every other.                                *)

\* A link has its time from the one mail it is in.
MailedOnce ==
    \A t \in Thing :
        /\ issuer[t] # "sent" => issuedAt[t] = Never
        /\ issuedAt[t] # Never => issuedAt[t] <= now

\* A marked token is one that was mailed, and its key outlives it.
KeyOutlives ==
    \A t \in Thing :
        spentUntil[t] # Never =>
            /\ issuedAt[t] # Never
            /\ spentUntil[t] > now
            /\ spentUntil[t] >= issuedAt[t] + LinkTtl

\* Nobody can redeem the token any more.
Closed(t) == spentUntil[t] # Never \/ (issuedAt[t] # Never /\ ~Link!Valid(t))

\* A redemption that has checked its token marks it before the token expires.
VerifiedValid == \A r \in Actor : pc[r] = "verified" => Link!Valid(token[r])

\* The one redemption that has marked a token has not answered it yet.
SpentOnce ==
    \A r \in Actor : pc[r] = "spent" =>
        /\ granted[token[r]] = 0
        /\ Closed(token[r])
        /\ \A q \in Actor \ {r} : pc[q] = "spent" => token[q] # token[r]

GrantedClosed == \A t \in Thing : granted[t] > 0 => Closed(t)

LinkInv ==
    /\ Link!TypeOK /\ MailedOnce /\ KeyOutlives /\ VerifiedValid
    /\ SpentOnce /\ GrantedClosed /\ Link!SingleUse

\* Nothing is mailed or marked at first.
LEMMA LinkInit == ASSUME Link!MagicLinkAssumption, Link!Init PROVE LinkInv
  <1>1. hits \in [n : Nat, until : Nat \union {Never}]
    BY DEF Link!Init
  <1>2. Link!TypeOK
    <2>1. now \in Link!Time
      BY DEF Link!Init, Link!Time, Link!MagicLinkAssumption
    <2>2. /\ active \in BOOLEAN /\ crashed \in BOOLEAN
          /\ issuer \in [Thing -> {"idle", "count", "expire", "send", "sent", "refused"}]
          /\ issuedAt \in [Thing -> Link!Time \union {Never}]
          /\ spentUntil \in [Thing -> Nat \union {Never}]
          /\ pc \in [Actor -> {"idle", "verified", "spent"}]
          /\ token \in [Actor -> Thing]
      BY ZenonT(30) DEF Link!Init
    <2>3. granted \in [Thing -> Nat]
      BY DEF Link!Init
    <2> QED
      BY <1>1, <2>1, <2>2, <2>3 DEF Link!TypeOK
  <1>3. MailedOnce /\ KeyOutlives /\ VerifiedValid
    BY DEF Link!Init, MailedOnce, KeyOutlives, VerifiedValid
  <1>4. SpentOnce /\ GrantedClosed /\ Link!SingleUse
    BY <1>2 DEF Link!Init, SpentOnce, GrantedClosed, Link!SingleUse
  <1> QED
    BY <1>2, <1>3, <1>4 DEF LinkInv

\* A step of the background tasks, of which only SignAndSend gives a link its
\* time.
LEMMA MailSteps ==
    ASSUME Link!MagicLinkAssumption, LinkInv, NEW t \in Thing,
           \/ Link!IssueMagicLink(t) \/ Link!CountHit(t) \/ Link!SetWindow(t) \/ Link!SignAndSend(t)
           \/ Link!IssuerDies(t)
    PROVE  LinkInv'
  <1> USE DEF LinkInv
  <1>0. now \in Nat
    BY DEF Link!TypeOK, Link!Time, Link!MagicLinkAssumption
  <1>1. ASSUME Link!IssueMagicLink(t) \/ Link!CountHit(t) \/ Link!SetWindow(t) \/ Link!IssuerDies(t)
        PROVE  LinkInv'
    <2>1. /\ UNCHANGED <<now, active, issuedAt, spentUntil, pc, token, granted>>
          /\ issuer[t] # "sent"
          /\ issuer' \in [Thing -> {"idle", "count", "expire", "send", "sent", "refused"}]
          /\ \A u \in Thing : issuer[u] # "sent" <=> issuer'[u] # "sent"
      BY <1>1 DEF Link!IssueMagicLink, Link!CountHit, Link!SetWindow, Link!IssuerDies, Link!Issuer, Link!redemptions, Link!TypeOK
    <2>2. /\ hits' \in [n : Nat, until : Nat \union {Never}]
          /\ crashed' \in BOOLEAN
      <3>1. /\ hits \in [n : Nat, until : Nat \union {Never}] /\ crashed \in BOOLEAN
            /\ hits.n + 1 \in Nat /\ now + LinkWindow \in Nat
        BY <1>0 DEF Link!TypeOK, Link!MagicLinkAssumption
      <3>2. \/ hits' = hits
            \/ hits' = [hits EXCEPT !.n = @ + 1]
            \/ hits' = [hits EXCEPT !.until = now + LinkWindow]
        BY <1>1 DEF Link!IssueMagicLink, Link!CountHit, Link!SetWindow, Link!IssuerDies
      <3>3. crashed' \in BOOLEAN
        BY <1>1, <3>1 DEF Link!IssueMagicLink, Link!CountHit, Link!SetWindow, Link!IssuerDies
      <3> QED
        BY <3>1, <3>2, <3>3
    <2>3. Link!TypeOK'
      BY <2>1, <2>2 DEF Link!TypeOK
    <2>4. MailedOnce' /\ KeyOutlives' /\ VerifiedValid' /\ SpentOnce' /\ GrantedClosed' /\ Link!SingleUse'
      BY <2>1 DEF MailedOnce, KeyOutlives, VerifiedValid, SpentOnce, GrantedClosed, Link!SingleUse,
                  Closed, Link!Valid
    <2> QED
      BY <2>3, <2>4
  <1>2. ASSUME Link!SignAndSend(t)
        PROVE  LinkInv'
    <2>1. /\ UNCHANGED <<now, active, hits, crashed, spentUntil, pc, token, granted>>
          /\ issuer[t] = "send" /\ issuedAt[t] = Never
          /\ issuer' \in [Thing -> {"idle", "count", "expire", "send", "sent", "refused"}]
          /\ \A u \in Thing \ {t} : issuer'[u] = issuer[u] /\ issuedAt'[u] = issuedAt[u]
          /\ issuedAt' \in [Thing -> Link!Time \union {Never}]
          /\ issuedAt'[t] \in {now, Never}
          /\ issuer'[t] # "sent" => issuedAt'[t] = Never
      BY <1>2 DEF Link!SignAndSend, Link!Issuer, Link!redemptions, Link!TypeOK, MailedOnce
    <2>2. Link!TypeOK'
      BY <2>1 DEF Link!TypeOK
    <2>3. MailedOnce' /\ KeyOutlives'
      BY <2>1, <1>0 DEF MailedOnce, KeyOutlives
    <2>4. /\ ~Closed(t) /\ ~Link!Valid(t)
          /\ \A u \in Thing \ {t} : (Closed(u) <=> Closed(u)') /\ (Link!Valid(u) <=> Link!Valid(u)')
      BY <2>1 DEF Closed, Link!Valid, KeyOutlives
    <2>5. VerifiedValid' /\ SpentOnce' /\ GrantedClosed' /\ Link!SingleUse'
      BY <2>1, <2>4 DEF VerifiedValid, SpentOnce, GrantedClosed, Link!SingleUse, Link!TypeOK
    <2> QED
      BY <2>2, <2>3, <2>5
  <1> QED
    BY <1>1, <1>2

\* A step of a redemption.
LEMMA RedemptionSteps ==
    ASSUME Link!MagicLinkAssumption, LinkInv, NEW r \in Actor,
           (\E t \in Thing : Link!VerifyToken(r, t)) \/ Link!MarkSpent(r) \/ Link!Redeem(r)
    PROVE  LinkInv'
  <1> USE DEF LinkInv
  <1>0. now \in Nat /\ LinkTtl \in Nat /\ LinkTtl > 0
    BY DEF Link!TypeOK, Link!Time, Link!MagicLinkAssumption
  <1>1. ASSUME NEW t \in Thing, Link!VerifyToken(r, t)
        PROVE  LinkInv'
    <2>1. Link!TypeOK'
      BY <1>1 DEF Link!VerifyToken, Link!mails, Link!TypeOK
    <2>2. MailedOnce' /\ KeyOutlives' /\ GrantedClosed' /\ Link!SingleUse'
      BY <1>1 DEF Link!VerifyToken, Link!mails, MailedOnce, KeyOutlives, GrantedClosed, Link!SingleUse, Closed, Link!Valid
    <2>3. VerifiedValid' /\ SpentOnce'
      BY <1>1 DEF Link!VerifyToken, Link!mails, VerifiedValid, SpentOnce, Closed, Link!Valid, Link!TypeOK
    <2> QED
      BY <2>1, <2>2, <2>3
  <1>2. ASSUME Link!MarkSpent(r), Link!Unspent(token[r]), pc' = [pc EXCEPT ![r] = "spent"],
               spentUntil' = [spentUntil EXCEPT ![token[r]] = now + LinkTtl]
        PROVE  LinkInv'
    <2> DEFINE t == token[r]
    <2>1. /\ t \in Thing /\ Link!Valid(t) /\ spentUntil[t] = Never
          /\ issuedAt[t] # Never /\ issuedAt[t] \in Nat /\ issuedAt[t] <= now
      BY <1>2 DEF Link!MarkSpent, VerifiedValid, Link!Valid, Link!Unspent, MailedOnce, Link!TypeOK, Link!Time
    <2>2. granted[t] = 0 /\ ~Closed(t)
      BY <2>1 DEF GrantedClosed, Closed, Link!TypeOK
    <2>3. UNCHANGED <<now, active, Link!mails, token, granted>>
      BY <1>2 DEF Link!MarkSpent
    <2>4. Link!TypeOK'
      BY <1>2, <1>0, <2>1, <2>3 DEF Link!mails, Link!TypeOK
    <2>5. MailedOnce' /\ KeyOutlives'
      BY <1>2, <1>0, <2>1, <2>3 DEF Link!mails, MailedOnce, KeyOutlives, Link!TypeOK,
                                    Link!MagicLinkAssumption
    <2>6. \A u \in Thing : Closed(u)' <=> Closed(u) \/ u = t
      BY <1>2, <1>0, <2>1, <2>3 DEF Link!mails, Closed, Link!Valid, Link!TypeOK, Link!MagicLinkAssumption
    <2>7. VerifiedValid' /\ Link!SingleUse' /\ GrantedClosed'
      BY <1>2, <2>3, <2>6 DEF Link!mails, VerifiedValid, Link!Valid, Link!SingleUse, GrantedClosed, Link!TypeOK
    <2>8. SpentOnce'
      BY <1>2, <2>1, <2>2, <2>3, <2>6 DEF SpentOnce, Link!TypeOK
    <2> QED
      BY <2>4, <2>5, <2>7, <2>8
  <1>3. ASSUME Link!MarkSpent(r), ~Link!Unspent(token[r]), pc' = [pc EXCEPT ![r] = "idle"], UNCHANGED spentUntil
        PROVE  LinkInv'
    <2>1. UNCHANGED <<now, active, Link!mails, token, granted>>
      BY <1>3 DEF Link!MarkSpent
    <2>2. Link!TypeOK'
      BY <1>3, <2>1 DEF Link!mails, Link!TypeOK
    <2> QED
      BY <1>3, <2>1, <2>2 DEF Link!mails, MailedOnce, KeyOutlives, VerifiedValid, SpentOnce, GrantedClosed,
                              Link!SingleUse, Closed, Link!Valid, Link!TypeOK
  <1>4. ASSUME Link!Redeem(r)
        PROVE  LinkInv'
    <2> DEFINE t == token[r]
    <2>1. t \in Thing /\ granted[t] = 0 /\ Closed(t) /\ pc[r] = "spent"
      BY <1>4 DEF Link!Redeem, SpentOnce, Link!TypeOK
    <2>2. /\ UNCHANGED <<now, active, Link!mails, spentUntil, token>>
          /\ granted' \in [Thing -> Nat]
          /\ granted'[t] \in {0, 1}
          /\ \A u \in Thing \ {t} : granted'[u] = granted[u]
          /\ pc' = [pc EXCEPT ![r] = "idle"]
      BY <1>4, <2>1 DEF Link!Redeem, Link!TypeOK
    <2>3. Link!TypeOK'
      BY <2>2 DEF Link!mails, Link!TypeOK
    <2>4. \A u \in Thing : Closed(u)' <=> Closed(u)
      BY <2>2 DEF Link!mails, Closed, Link!Valid
    <2>5. MailedOnce' /\ KeyOutlives' /\ VerifiedValid'
      BY <2>2 DEF Link!mails, MailedOnce, KeyOutlives, VerifiedValid, Link!Valid, Link!TypeOK
    <2>6. GrantedClosed' /\ Link!SingleUse'
      BY <2>1, <2>2, <2>4 DEF GrantedClosed, Link!SingleUse
    <2>7. SpentOnce'
      BY <2>1, <2>2, <2>4 DEF SpentOnce, Link!TypeOK
    <2> QED
      BY <2>3, <2>5, <2>6, <2>7
  <1> QED
    BY <1>1, <1>2, <1>3, <1>4 DEF Link!MarkSpent

\* A tick: a key that goes belongs to a token whose time is over.
LEMMA TickStep == ASSUME Link!MagicLinkAssumption, LinkInv, Link!Tick PROVE LinkInv'
  <1> USE DEF LinkInv
  <1>0. /\ now \in Nat /\ LinkMaxTime \in Nat /\ LinkTtl \in Nat /\ LinkTtl > 0 /\ now < LinkMaxTime
        /\ Never \notin Nat
    BY DEF Link!Tick, Link!TypeOK, Link!Time, Link!MagicLinkAssumption
  <1>1. now' = now + 1 /\ UNCHANGED <<active, issuer, issuedAt, crashed, pc, token, granted>>
    BY DEF Link!Tick
  <1>2. /\ hits' \in [n : Nat, until : Nat \union {Never}]
        /\ spentUntil' \in [Thing -> Nat \union {Never}]
        /\ \A t \in Thing : spentUntil'[t] =
              IF spentUntil[t] = now + 1 THEN Never ELSE spentUntil[t]
    BY <1>1 DEF Link!Tick, Link!TypeOK
  <1>3. Link!TypeOK'
    BY <1>0, <1>1, <1>2 DEF Link!TypeOK, Link!Time
  <1>4. MailedOnce'
    BY <1>0, <1>1 DEF MailedOnce, Link!TypeOK, Link!Time
  <1>5. KeyOutlives'
    BY <1>0, <1>1, <1>2 DEF KeyOutlives, Link!TypeOK, Link!Time
  <1>6. VerifiedValid'
    BY <1>1 DEF Link!Tick, VerifiedValid
  <1>7. \A t \in Thing : Closed(t) => Closed(t)'
    <2> SUFFICES ASSUME NEW t \in Thing, Closed(t) PROVE Closed(t)'
      OBVIOUS
    <2>1. issuedAt[t] # Never /\ issuedAt[t] \in Nat
      BY DEF Closed, KeyOutlives, Link!TypeOK, Link!Time
    <2>2. CASE spentUntil[t] # Never /\ spentUntil[t] # now + 1
      BY <1>1, <1>2, <2>2 DEF Closed
    <2>3. CASE spentUntil[t] # Never /\ spentUntil[t] = now + 1
      BY <1>0, <1>1, <1>2, <2>1, <2>3 DEF Closed, KeyOutlives, Link!Valid
    <2>4. CASE spentUntil[t] = Never
      BY <1>0, <1>1, <2>1, <2>4 DEF Closed, Link!Valid
    <2> QED
      BY <2>2, <2>3, <2>4
  <1>8. SpentOnce' /\ GrantedClosed' /\ Link!SingleUse'
    BY <1>1, <1>7 DEF SpentOnce, GrantedClosed, Link!SingleUse, Link!TypeOK
  <1> QED
    BY <1>3, <1>4, <1>5, <1>6, <1>8

\* Every step keeps the invariant.
LEMMA LinkStep ==
    ASSUME Link!MagicLinkAssumption, LinkInv, [Link!Next]_Link!vars
    PROVE  LinkInv'
  <1>1. CASE Link!LicenseChanges
    <2>1. UNCHANGED <<now, Link!mails, Link!redemptions>> /\ active' \in BOOLEAN
      BY <1>1 DEF Link!LicenseChanges, LinkInv, Link!TypeOK
    <2> QED
      BY <2>1 DEF Link!mails, Link!redemptions, LinkInv, Link!TypeOK, MailedOnce, KeyOutlives, VerifiedValid, SpentOnce,
                  GrantedClosed, Link!SingleUse, Closed, Link!Valid
  <1>2. CASE UNCHANGED Link!vars
    BY <1>2 DEF Link!vars, LinkInv, Link!TypeOK, MailedOnce, KeyOutlives, VerifiedValid, SpentOnce,
                GrantedClosed, Link!SingleUse, Closed, Link!Valid
  <1> QED
    BY <1>1, <1>2, MailSteps, RedemptionSteps, TickStep DEF Link!Next

LEMMA LinkAlways == PartsSpec => [](subject = "link" => LinkInv)
  <1>1. PartsInit => (subject = "link" => LinkInv)
    BY LinkInit, PartsAssumption DEF PartsInit
  <1>2. (subject = "link" => LinkInv) /\ [PartsNext]_partsVars => (subject = "link" => LinkInv)'
    <2> SUFFICES ASSUME subject = "link" => LinkInv, [PartsNext]_partsVars, subject' = "link"
                 PROVE  LinkInv'
      OBVIOUS
    <2>1. subject = "link"
      BY DEF PartsNext, partsVars
    <2>2. [Link!Next]_Link!vars
      BY <2>1 DEF PartsNext, partsVars, ofLink, Link!vars
    <2> QED
      BY <2>1, <2>2, LinkStep, PartsAssumption
  <1> QED
    BY <1>1, <1>2, PTL DEF PartsSpec

\* Redeem of magiclink_service.go: concurrent and repeated redemptions of a
\* link are answered with at most one licence key or portal, for any lifetime
\* of tokens and any order of mails and redemptions.
THEOREM OneGrant == PartsSpec => []SingleUse
  <1>1. (subject = "link" => LinkInv) => SingleUse
    BY DEF LinkInv, SingleUse
  <1> QED
    BY <1>1, LinkAlways, PTL

-----------------------------------------------------------------------------
(* The row of a Stripe invoice.  The event "paid" is handled only for a    *)
(* licence that exists and puts the payment intent into the row; a later   *)
(* handler takes the intent from the row it has read and only adds to it,  *)
(* and no audit finds the row to be of another product.                    *)

\* The paid event is only handled with a licence, which never goes away.
PaidHasLicense ==
    /\ event["paid"] # "orphan"
    /\ event["paid"] = "linked" \/ recorded => license

\* No audit counts our row among the foreign ones.
OursIsKept == \A aud \in Actor : Invoices!Ours \notin verdict[aud]

InvoicesInv == Invoices!TypeOK /\ PaidHasLicense /\ OursIsKept /\ Invoices!RefundFindsLicense

LEMMA InvoicesInit == Invoices!Init => InvoicesInv
  <1> SUFFICES ASSUME Invoices!Init PROVE InvoicesInv
    OBVIOUS
  <1>1. Invoices!TypeOK
    BY DEF Invoices!Init, Invoices!TypeOK
  <1>2. PaidHasLicense /\ OursIsKept /\ Invoices!RefundFindsLicense
    BY DEF Invoices!Init, Invoices!Event, PaidHasLicense, OursIsKept, Invoices!RefundFindsLicense
  <1> QED
    BY <1>1, <1>2 DEF InvoicesInv

\* A handler whose write succeeds.
LEMMA RecordStep ==
    ASSUME Invoices!InvoiceRecordsAssumption, InvoicesInv, NEW ev \in Invoices!Event,
           Invoices!PersistInvoiceRecord(ev), Invoices!WriteRecord(ev)
    PROVE  InvoicesInv'
  <1> USE DEF InvoicesInv
  <1>1. PICK pi \in (IF ev = "paid" THEN {TRUE} ELSE BOOLEAN) : row' = Invoices!Upserted(ev, pi)
    BY DEF Invoices!WriteRecord
  <1>2. read[ev] \in Invoices!Row \union {Nothing} /\ pi \in BOOLEAN
    BY <1>1 DEF Invoices!TypeOK
  <1>3. /\ Invoices!Upserted(ev, pi) \in Invoices!Row
        /\ Invoices!Upserted(ev, pi).pi = (pi \/ (read[ev] # Nothing /\ read[ev].pi))
        /\ read[ev] # Nothing => Invoices!Upserted(ev, pi).license = read[ev].license
    BY <1>2 DEF Invoices!Upserted, Invoices!Row
  <1>4. /\ event' = [event EXCEPT ![ev] = "done"] /\ read' = [read EXCEPT ![ev] = Nothing]
        /\ raced' = (raced \/ row # read[ev]) /\ recorded' = (recorded \/ ev = "paid")
        /\ UNCHANGED <<license, foreign, pc, found, verdict>>
        /\ event[ev] \in {"linked", "orphan"}
    BY DEF Invoices!PersistInvoiceRecord, Invoices!WriteRecord, Invoices!audit
  <1>5. Invoices!TypeOK'
    BY <1>1, <1>3, <1>4 DEF Invoices!TypeOK
  <1>6. event[ev] = "linked" /\ ev = "paid" => license
    BY DEF PaidHasLicense
  <1>7. ev = "paid" => license
    BY <1>4, <1>6 DEF PaidHasLicense
  <1>8. PaidHasLicense' /\ OursIsKept'
    BY <1>4, <1>7 DEF PaidHasLicense, OursIsKept, Invoices!TypeOK, Invoices!Event
  <1>9. Invoices!RefundFindsLicense'
    <2> SUFFICES ASSUME recorded', ~raced' PROVE Invoices!Resolves'
      BY DEF Invoices!RefundFindsLicense
    <2>1. ~raced /\ row = read[ev]
      BY <1>4
    <2>2. row' = Invoices!Upserted(ev, pi) /\ row' \in Invoices!Row /\ Nothing \notin Invoices!Row
      BY <1>1, <1>3 DEF Invoices!InvoiceRecordsAssumption, Invoices!Row
    <2>3. CASE ev = "paid"
      BY <1>1, <1>3, <1>4, <1>7, <2>2, <2>3 DEF Invoices!Resolves
    <2>4. CASE ev # "paid"
      <3>1. recorded
        BY <1>4, <2>4
      <3>2. row # Nothing /\ row.pi /\ license
        BY <2>1, <3>1 DEF Invoices!RefundFindsLicense, Invoices!Resolves, PaidHasLicense
      <3> QED
        BY <1>3, <1>4, <2>1, <2>2, <3>2 DEF Invoices!Resolves
    <2> QED
      BY <2>3, <2>4
  <1> QED
    BY <1>5, <1>8, <1>9

LEMMA PersistStep ==
    ASSUME Invoices!InvoiceRecordsAssumption, InvoicesInv, NEW ev \in Invoices!Event,
           Invoices!PersistInvoiceRecord(ev)
    PROVE  InvoicesInv'
  <1> USE DEF InvoicesInv
  <1>1. CASE Invoices!WriteRecord(ev)
    BY <1>1, RecordStep
  <1>2. CASE UNCHANGED <<row, raced, recorded>>
    <2>1. /\ event' = [event EXCEPT ![ev] = "done"] /\ read' = [read EXCEPT ![ev] = Nothing]
          /\ UNCHANGED <<license, row, raced, recorded, foreign, pc, found, verdict>>
      BY <1>2 DEF Invoices!PersistInvoiceRecord, Invoices!audit
    <2>2. Invoices!TypeOK'
      BY <2>1 DEF Invoices!TypeOK
    <2>3. PaidHasLicense' /\ OursIsKept'
      BY <2>1 DEF PaidHasLicense, OursIsKept, Invoices!TypeOK, Invoices!Event
    <2>4. Invoices!RefundFindsLicense'
      BY <2>1 DEF Invoices!RefundFindsLicense, Invoices!Resolves
    <2> QED
      BY <2>2, <2>3, <2>4
  <1> QED
    BY <1>1, <1>2 DEF Invoices!PersistInvoiceRecord

\* An event changes its state, and nothing is written.
LEMMA EventStep ==
    ASSUME InvoicesInv, NEW ev \in Invoices!Event,
           Invoices!SkipUnlicensed(ev) \/ Invoices!ReadRecord(ev) \/ Invoices!Redeliver(ev)
    PROVE  InvoicesInv'
  <1> USE DEF InvoicesInv
  <1>1. /\ UNCHANGED <<license, row, raced, recorded, foreign, pc, found, verdict>>
        /\ \E ready \in {"queued", "linked", "orphan", "done"} :
              /\ event' = [event EXCEPT ![ev] = ready]
              /\ ready = "orphan" => ev = "finalized"
              /\ ready = "linked" => license
        /\ read' \in {read, [read EXCEPT ![ev] = row], [read EXCEPT ![ev] = Nothing]}
    BY DEF Invoices!SkipUnlicensed, Invoices!ReadRecord, Invoices!Redeliver, Invoices!audit
  <1>2. Invoices!TypeOK'
    BY <1>1 DEF Invoices!TypeOK
  <1>3. PaidHasLicense'
    BY <1>1 DEF PaidHasLicense, Invoices!TypeOK, Invoices!Event
  <1>4. OursIsKept' /\ Invoices!RefundFindsLicense'
    BY <1>1 DEF OursIsKept, Invoices!RefundFindsLicense, Invoices!Resolves
  <1> QED
    BY <1>2, <1>3, <1>4

LEMMA InvoicesStep ==
    ASSUME Invoices!InvoiceRecordsAssumption, InvoicesInv, [Invoices!Next]_Invoices!vars
    PROVE  InvoicesInv'
  <1> USE DEF InvoicesInv, Invoices!records, Invoices!audit
  <1>1. CASE Invoices!FindOrCreateLicense
    BY <1>1 DEF Invoices!FindOrCreateLicense, Invoices!TypeOK, PaidHasLicense, OursIsKept,
                Invoices!RefundFindsLicense, Invoices!Resolves
  <1>3. ASSUME NEW aud \in Actor, Invoices!LoadInvoices(aud)
        PROVE  InvoicesInv'
    <2>1. Invoices!TypeOK'
      BY <1>3 DEF Invoices!LoadInvoices, Invoices!TypeOK
    <2> QED
      BY <1>3, <2>1 DEF Invoices!LoadInvoices, Invoices!TypeOK, PaidHasLicense, OursIsKept,
                        Invoices!RefundFindsLicense, Invoices!Resolves
  <1>4. ASSUME NEW aud \in Actor, Invoices!Classify(aud)
        PROVE  InvoicesInv'
    <2>1. PICK rec \in found[aud] :
             /\ found' = [found EXCEPT ![aud] = @ \ {rec}]
             /\ \/ rec # Invoices!Ours /\ verdict' = [verdict EXCEPT ![aud] = @ \union {rec}]
                \/ UNCHANGED verdict
      BY <1>4 DEF Invoices!Classify
    <2>2. Invoices!TypeOK'
      BY <1>4, <2>1 DEF Invoices!Classify, Invoices!TypeOK
    <2>3. OursIsKept'
      BY <2>1 DEF Invoices!TypeOK, OursIsKept
    <2> QED
      BY <1>4, <2>2, <2>3 DEF Invoices!Classify, PaidHasLicense, Invoices!RefundFindsLicense,
                              Invoices!Resolves
  <1>5. ASSUME NEW aud \in Actor, Invoices!DeleteForeign(aud)
        PROVE  InvoicesInv'
    <2>1. row' = row /\ foreign' \subseteq foreign
      BY <1>5 DEF Invoices!DeleteForeign, OursIsKept
    <2>2. Invoices!TypeOK' /\ OursIsKept'
      BY <1>5, <2>1 DEF Invoices!DeleteForeign, Invoices!TypeOK, OursIsKept
    <2> QED
      BY <1>5, <2>1, <2>2 DEF Invoices!DeleteForeign, PaidHasLicense, Invoices!RefundFindsLicense,
                              Invoices!Resolves
  <1>6. CASE UNCHANGED Invoices!vars
    BY <1>6 DEF Invoices!vars, Invoices!TypeOK, PaidHasLicense, OursIsKept,
                Invoices!RefundFindsLicense, Invoices!Resolves
  <1> QED
    BY <1>1, <1>3, <1>4, <1>5, <1>6, PersistStep, EventStep DEF Invoices!Next

LEMMA InvoicesAlways == PartsSpec => [](subject = "invoices" => InvoicesInv)
  <1>1. PartsInit => (subject = "invoices" => InvoicesInv)
    BY InvoicesInit, PartsAssumption DEF PartsInit
  <1>2. (subject = "invoices" => InvoicesInv) /\ [PartsNext]_partsVars => (subject = "invoices" => InvoicesInv)'
    <2> SUFFICES ASSUME subject = "invoices" => InvoicesInv, [PartsNext]_partsVars, subject' = "invoices"
                 PROVE  InvoicesInv'
      OBVIOUS
    <2>1. subject = "invoices"
      BY DEF PartsNext, partsVars
    <2>2. [Invoices!Next]_Invoices!vars
      BY <2>1 DEF PartsNext, partsVars, ofInvoices, Invoices!vars
    <2> QED
      BY <2>1, <2>2, InvoicesStep, PartsAssumption
  <1> QED
    BY <1>1, <1>2, PTL DEF PartsSpec

\* persistInvoiceRecord of webhook_handler.go: once it has written the row for a
\* paid event a refund finds the licence.  For any number of audits, whatever
\* other rows they delete, and any lookups and writes that fail, the payment
\* intent stays in the row unless two handlers write it at once.
THEOREM RefundFinds == PartsSpec => []RefundFindsLicense
  <1>1. (subject = "invoices" => InvoicesInv) => RefundFindsLicense
    BY DEF InvoicesInv, RefundFindsLicense
  <1> QED
    BY <1>1, InvoicesAlways, PTL

-----------------------------------------------------------------------------
(* The import of legacy licences.  An import that updates a row has locked *)
(* it since it read it, so no revocation is saved in between; what a       *)
(* revocation read is of the same product as the row.                      *)

\* An import that updates the row holds it, and has read what is in it.
UpdateHoldsRow ==
    \A imp \in Thing : pc[imp] = "update" => locked = imp /\ read[imp] = row /\ row # Nothing

\* Whatever was read, the row is still of that brand and payment method.
ReadsSameProduct ==
    \A pro \in Legacy!Process : read[pro] # Nothing =>
        row # Nothing /\ read[pro].brand = row.brand /\ read[pro].method = row.method

RevokersHaveRead == \A rev \in Actor : pc[rev] = "revoke" => read[rev] # Nothing

LegacyInv == Legacy!TypeOK /\ UpdateHoldsRow /\ ReadsSameProduct /\ RevokersHaveRead

LEMMA LegacyInit == ASSUME Legacy!LegacyImportAssumption PROVE Legacy!Init => LegacyInv
  <1> SUFFICES ASSUME Legacy!Init PROVE LegacyInv
    OBVIOUS
  <1>1. Legacy!TypeOK
    BY DEF Legacy!Init, Legacy!TypeOK
  <1>2. UpdateHoldsRow /\ ReadsSameProduct /\ RevokersHaveRead
    BY DEF Legacy!Init, Legacy!Process, UpdateHoldsRow, ReadsSameProduct, RevokersHaveRead
  <1> QED
    BY <1>1, <1>2 DEF LegacyInv

\* What stands for no row, or for nobody, is neither a row nor an import.
LEMMA NotARow ==
    ASSUME Legacy!LegacyImportAssumption
    PROVE  Nothing \notin Legacy!License /\ Nothing \notin Thing
  BY DEF Legacy!LegacyImportAssumption, Legacy!License

\* Each step keeps the invariant, and undoes nothing.
LEMMA LegacyUpdates ==
    ASSUME Legacy!LegacyImportAssumption, LegacyInv, NEW imp \in Thing, Legacy!UpdateRow(imp)
    PROVE  LegacyInv' /\ Legacy!NotUndone
  <1> USE DEF LegacyInv
  <1>1. /\ locked = imp /\ read[imp] = row /\ row # Nothing /\ row \in Legacy!License
        /\ Nothing \notin Legacy!License /\ Nothing \notin Thing
        /\ imp \in Legacy!Process
    BY NotARow DEF Legacy!UpdateRow, UpdateHoldsRow, Legacy!TypeOK, Legacy!Process
  <1>2. /\ row' \in Legacy!License /\ row'.brand = row.brand /\ row'.method = row.method
        /\ row'.cancelled = row.cancelled
    BY <1>1 DEF Legacy!UpdateRow, Legacy!License
  <1>3. /\ locked' = Nothing /\ pc' = [pc EXCEPT ![imp] = "done"]
        /\ read' = [read EXCEPT ![imp] = Nothing]
    BY <1>1 DEF Legacy!UpdateRow
  <1>4. answer' \in [Thing -> {"none", "invalid", "brand_mismatch", "row_revoked",
                              "payment_method_mismatch", "updated", "created", "internal"}]
    BY <1>1 DEF Legacy!UpdateRow, Legacy!Refusal, Legacy!TypeOK
  <1>5. Legacy!TypeOK'
    BY <1>1, <1>2, <1>3, <1>4 DEF Legacy!TypeOK
  <1>6. UpdateHoldsRow'
    BY <1>1, <1>3 DEF UpdateHoldsRow, Legacy!TypeOK, Legacy!Process
  <1>7. ReadsSameProduct' /\ RevokersHaveRead'
    BY <1>1, <1>2, <1>3
    DEF ReadsSameProduct, RevokersHaveRead, Legacy!TypeOK, Legacy!Process,
        Legacy!LegacyImportAssumption
  <1> QED
    BY <1>2, <1>5, <1>6, <1>7 DEF Legacy!NotUndone

LEMMA LegacyRevokes ==
    ASSUME Legacy!LegacyImportAssumption, LegacyInv, NEW rev \in Actor,
           Legacy!ReadToRevoke(rev) \/ Legacy!SaveRevoked(rev)
    PROVE  LegacyInv' /\ Legacy!NotUndone
  <1> USE NotARow DEF LegacyInv
  <1>1. rev \in Legacy!Process /\ rev \notin Thing
    BY DEF Legacy!Process, Legacy!LegacyImportAssumption
  <1>2. CASE Legacy!ReadToRevoke(rev)
    <2>1. Legacy!TypeOK'
      BY <1>1, <1>2 DEF Legacy!ReadToRevoke, Legacy!TypeOK
    <2>2. UpdateHoldsRow' /\ ReadsSameProduct' /\ RevokersHaveRead'
      BY <1>1, <1>2
      DEF Legacy!ReadToRevoke, Legacy!TypeOK, Legacy!Process, UpdateHoldsRow, ReadsSameProduct,
          RevokersHaveRead
    <2> QED
      BY <1>2, <2>1, <2>2 DEF Legacy!ReadToRevoke, Legacy!NotUndone
  <1>3. CASE Legacy!SaveRevoked(rev)
    <2>1. /\ read[rev] # Nothing /\ read[rev] \in Legacy!License
          /\ row # Nothing /\ read[rev].brand = row.brand /\ read[rev].method = row.method
      BY <1>1, <1>3 DEF Legacy!SaveRevoked, RevokersHaveRead, ReadsSameProduct, Legacy!TypeOK
    <2>2. /\ row' \in Legacy!License /\ row'.brand = row.brand /\ row'.method = row.method
          /\ row'.cancelled
      BY <1>3, <2>1 DEF Legacy!SaveRevoked, Legacy!License
    <2>3. /\ locked = Nothing /\ pc' = [pc EXCEPT ![rev] = "done"]
          /\ read' = [read EXCEPT ![rev] = Nothing] /\ UNCHANGED <<locked, answer>>
      BY <1>3 DEF Legacy!SaveRevoked
    <2>4. Legacy!TypeOK'
      BY <1>1, <2>2, <2>3 DEF Legacy!TypeOK
    <2>5. UpdateHoldsRow'
      BY <1>1, <2>3 DEF UpdateHoldsRow, Legacy!TypeOK, Legacy!Process
    <2>6. ReadsSameProduct' /\ RevokersHaveRead'
      BY <1>1, <2>2, <2>3
      DEF ReadsSameProduct, RevokersHaveRead, Legacy!TypeOK, Legacy!Process
    <2> QED
      BY <2>2, <2>4, <2>5, <2>6 DEF Legacy!NotUndone
  <1> QED
    BY <1>2, <1>3

LEMMA LegacySteps ==
    ASSUME Legacy!LegacyImportAssumption, LegacyInv, [Legacy!Next]_Legacy!vars
    PROVE  LegacyInv' /\ Legacy!NotUndone
  <1> USE NotARow DEF LegacyInv
  <1>1. ASSUME NEW imp \in Thing, Legacy!RejectRequest(imp)
        PROVE  LegacyInv' /\ Legacy!NotUndone
    BY <1>1
    DEF Legacy!RejectRequest, Legacy!TypeOK, Legacy!Process, UpdateHoldsRow, ReadsSameProduct,
        RevokersHaveRead, Legacy!NotUndone
  <1>2. ASSUME NEW imp \in Thing, Legacy!FindForUpdate(imp)
        PROVE  LegacyInv' /\ Legacy!NotUndone
    <2>1. imp \in Legacy!Process /\ imp \notin Actor
      BY DEF Legacy!Process, Legacy!LegacyImportAssumption
    <2>2. Legacy!TypeOK'
      BY <1>2, <2>1 DEF Legacy!FindForUpdate, Legacy!TypeOK
    <2>3. UpdateHoldsRow' /\ ReadsSameProduct' /\ RevokersHaveRead'
      BY <1>2, <2>1
      DEF Legacy!FindForUpdate, Legacy!TypeOK, Legacy!Process, UpdateHoldsRow, ReadsSameProduct,
          RevokersHaveRead
    <2> QED
      BY <1>2, <2>2, <2>3 DEF Legacy!FindForUpdate, Legacy!NotUndone
  <1>3. ASSUME NEW imp \in Thing, Legacy!InsertRow(imp)
        PROVE  LegacyInv' /\ Legacy!NotUndone
    <2>1. imp \in Legacy!Process /\ imp \notin Actor
      BY DEF Legacy!Process, Legacy!LegacyImportAssumption
    <2>2. Legacy!TypeOK'
      <3>1. row' \in Legacy!License \union {Nothing}
        <4>1. [brand |-> "vidcombo", method |-> "stripe_legacy", tier |-> "premium",
               cancelled |-> FALSE, updatedBy |-> Nothing] \in Legacy!License
          BY DEF Legacy!License
        <4> QED
          BY <1>3, <4>1 DEF Legacy!InsertRow, Legacy!TypeOK
      <3>2. answer' \in [Thing -> {"none", "invalid", "brand_mismatch", "row_revoked",
                                 "payment_method_mismatch", "updated", "created", "internal"}]
        BY <1>3 DEF Legacy!InsertRow, Legacy!TypeOK
      <3> QED
        BY <1>3, <2>1, <3>1, <3>2 DEF Legacy!InsertRow, Legacy!TypeOK
    <2>3. UpdateHoldsRow' /\ ReadsSameProduct' /\ RevokersHaveRead'
      BY <1>3, <2>1
      DEF Legacy!InsertRow, Legacy!TypeOK, Legacy!Process, UpdateHoldsRow, ReadsSameProduct,
          RevokersHaveRead
    <2> QED
      BY <1>3, <2>2, <2>3 DEF Legacy!InsertRow, Legacy!NotUndone
  <1>4. CASE UNCHANGED Legacy!vars
    BY <1>4
    DEF Legacy!vars, Legacy!TypeOK, UpdateHoldsRow, ReadsSameProduct, RevokersHaveRead,
        Legacy!NotUndone
  <1> QED
    BY <1>1, <1>2, <1>3, <1>4, LegacyUpdates, LegacyRevokes DEF Legacy!Next

LEMMA LegacyStep ==
    ASSUME Legacy!LegacyImportAssumption, LegacyInv, [Legacy!Next]_Legacy!vars
    PROVE  LegacyInv'
  BY LegacySteps

LEMMA LegacyAlways == PartsSpec => [](subject = "legacy" => LegacyInv)
  <1>1. PartsInit => (subject = "legacy" => LegacyInv)
    BY LegacyInit, PartsAssumption DEF PartsInit
  <1>2. (subject = "legacy" => LegacyInv) /\ [PartsNext]_partsVars => (subject = "legacy" => LegacyInv)'
    <2> SUFFICES ASSUME subject = "legacy" => LegacyInv, [PartsNext]_partsVars, subject' = "legacy"
                 PROVE  LegacyInv'
      OBVIOUS
    <2>1. subject = "legacy"
      BY DEF PartsNext, partsVars
    <2>2. [Legacy!Next]_Legacy!vars
      BY <2>1 DEF PartsNext, partsVars, ofLegacy, Legacy!vars
    <2> QED
      BY <2>1, <2>2, LegacyStep, PartsAssumption
  <1> QED
    BY <1>1, <1>2, PTL DEF PartsSpec

\* AdminImportLegacyLicense, for any number of imports and revocations: none of
\* them, repeated or overlapping, makes a cancelled licence valid again or
\* takes the row of another product.
THEOREM ImportsUndoNothing == PartsSpec => NeverUndone
  <1>1. (subject = "legacy" => LegacyInv) /\ [PartsNext]_partsVars
            => (subject = "legacy" => Legacy!NotUndone)
    <2> SUFFICES ASSUME LegacyInv, [PartsNext]_partsVars, subject = "legacy"
                 PROVE  Legacy!NotUndone
      OBVIOUS
    <2>1. [Legacy!Next]_Legacy!vars
      BY DEF PartsNext, partsVars, ofLegacy, Legacy!vars
    <2> QED
      BY <2>1, LegacySteps, PartsAssumption
  <1> QED
    BY <1>1, LegacyAlways, PTL DEF PartsSpec, NeverUndone
=============================================================================
