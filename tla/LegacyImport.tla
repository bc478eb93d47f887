---------------------------- MODULE LegacyImport ----------------------------
(***************************************************************************)
(* AdminImportLegacyLicense for one legacy key: imports run again and at   *)
(* the same time, against administrators and refunds that revoke the row.  *)
(* An import locks the row or inserts it in a transaction; a revocation    *)
(* reads the row without a lock and saves all of its columns.              *)
(***************************************************************************)
EXTENDS Naturals

CONSTANTS Import, Revoker, NoRow, Nobody

LegacyImportAssumption ==
    /\ Import \cap Revoker = {} /\ Nobody \notin Import
    /\ NoRow \notin [brand : {"vidcombo", "svid"}, method : {"stripe_legacy", "stripe"},
                     tier : {"premium", "free"}, cancelled : BOOLEAN,
                     updatedBy : Import \union {Nobody}]

VARIABLES
    row,       \* the licence with the key, in whatever case it is stored
    locked,    \* the import whose transaction holds the row, or is inserting it
    pc,        \* imports and revokers
    read,      \* the row as a process read it
    answer     \* of each import

vars == <<row, locked, pc, read, answer>>

License == [brand : {"vidcombo", "svid"}, method : {"stripe_legacy", "stripe"},
            tier : {"premium", "free"}, cancelled : BOOLEAN,
            updatedBy : Import \union {Nobody}]
Process == Import \union Revoker

\* The key may already be that of a row of any origin.
Init ==
    /\ row \in License \union {NoRow} /\ locked = Nobody
    /\ row # NoRow => row.updatedBy = Nobody
    /\ pc = [p \in Process |-> "idle"] /\ read = [p \in Process |-> NoRow]
    /\ answer = [i \in Import |-> "none"]

\* A plan, an expiry or a status that is not accepted is refused before.
RejectRequest(i) ==
    /\ pc[i] = "idle"
    /\ pc' = [pc EXCEPT ![i] = "done"] /\ answer' = [answer EXCEPT ![i] = "invalid"]
    /\ UNCHANGED <<row, locked, read>>

\* The read without the lock.
FindUnlocked(i) ==
    /\ pc[i] = "idle"
    /\ \/ /\ row = NoRow /\ pc' = [pc EXCEPT ![i] = "insert"] /\ UNCHANGED <<locked, read>>
       \/ /\ row # NoRow
          /\ read' = [read EXCEPT ![i] = row]
          /\ pc' = [pc EXCEPT ![i] = "update"] /\ UNCHANGED locked
    /\ UNCHANGED <<row, answer>>

\* SELECT ... FOR UPDATE; without a row nothing is locked.
FindForUpdate(i) ==
    /\ pc[i] = "idle"
    /\ \/ /\ row = NoRow /\ pc' = [pc EXCEPT ![i] = "insert"] /\ UNCHANGED <<locked, read>>
       \/ /\ row # NoRow /\ locked = Nobody
          /\ locked' = i /\ read' = [read EXCEPT ![i] = row]
          /\ pc' = [pc EXCEPT ![i] = "update"]
    /\ UNCHANGED <<row, answer>>

Refusal(r) ==
    IF r.brand # "vidcombo" THEN "brand_mismatch"
    ELSE IF r.cancelled \/ r.tier # "premium" THEN "row_revoked"
    ELSE IF r.method # "stripe_legacy" THEN "payment_method_mismatch"
    ELSE "none"

UpdateRow(i) ==
    /\ pc[i] = "update"
    /\ \/ /\ Refusal(read[i]) = "none"
          /\ row' = [read[i] EXCEPT !.updatedBy = i]
          /\ answer' = [answer EXCEPT ![i] = "updated"]
       \/ /\ Refusal(read[i]) # "none"
          /\ answer' = [answer EXCEPT ![i] = Refusal(read[i])] /\ UNCHANGED row
    /\ locked' = IF locked = i THEN Nobody ELSE locked
    /\ pc' = [pc EXCEPT ![i] = "done"] /\ read' = [read EXCEPT ![i] = NoRow]

\* ON CONFLICT DO NOTHING; the re-fetch asks for the id of the row that was not
\* inserted and finds nothing.
InsertRow(i) ==
    /\ pc[i] = "insert"
    /\ \/ /\ row = NoRow
          /\ row' = [brand |-> "vidcombo", method |-> "stripe_legacy", tier |-> "premium",
                     cancelled |-> FALSE, updatedBy |-> Nobody]
          /\ answer' = [answer EXCEPT ![i] = "created"]
       \/ /\ row # NoRow
          /\ answer' = [answer EXCEPT ![i] = "internal"] /\ UNCHANGED row
    /\ pc' = [pc EXCEPT ![i] = "done"]
    /\ UNCHANGED <<locked, read>>

ReadToRevoke(v) ==
    /\ pc[v] = "idle" /\ row # NoRow
    /\ read' = [read EXCEPT ![v] = row] /\ pc' = [pc EXCEPT ![v] = "revoke"]
    /\ UNCHANGED <<row, locked, answer>>

\* Cancelled by an administrator, or revoked by a refund.
SaveRevoked(v) ==
    /\ pc[v] = "revoke" /\ locked = Nobody
    /\ \E tier \in {read[v].tier, "free"} :
          row' = [read[v] EXCEPT !.cancelled = TRUE, !.tier = tier]
    /\ pc' = [pc EXCEPT ![v] = "done"] /\ read' = [read EXCEPT ![v] = NoRow]
    /\ UNCHANGED <<locked, answer>>

Next ==
    \/ \E i \in Import : RejectRequest(i) \/ FindForUpdate(i) \/ UpdateRow(i) \/ InsertRow(i)
    \/ \E v \in Revoker : ReadToRevoke(v) \/ SaveRevoked(v)

Spec == Init /\ [][Next]_vars

-----------------------------------------------------------------------------

\* Every variable has its type.
TypeOK ==
    /\ row \in License \union {NoRow} /\ locked \in Import \union {Nobody}
    /\ pc \in [Process -> {"idle", "insert", "update", "revoke", "done"}]
    /\ read \in [Process -> License \union {NoRow}]
    /\ answer \in [Import -> {"none", "invalid", "brand_mismatch", "row_revoked",
                              "payment_method_mismatch", "updated", "created", "internal"}]

NotUndone ==
    row # NoRow =>
        /\ row.cancelled => row'.cancelled
        /\ row'.brand = row.brand /\ row'.method = row.method

\* An import that is run again, or overlaps a revocation, does not undo it and
\* takes no row from another product.
NeverUndone == [][NotUndone]_vars
=============================================================================
