---------------------------- MODULE CrashGroups ----------------------------
(***************************************************************************)
(* The groups of crash reports and the two counters each group keeps: how  *)
(* many reports it has and from how many devices.  A report is submitted   *)
(* in steps (match or create a group, insert, count, increment) that other *)
(* submissions and the merges of administrators interleave with; only the  *)
(* statements of a merge are one transaction, at READ COMMITTED.           *)
(***************************************************************************)
EXTENDS Naturals, FiniteSets

CONSTANTS Group, Report, Device, Fingerprint, Merger, NoGroup

CrashGroupsAssumption == IsFiniteSet(Report) /\ Fingerprint # {} /\ NoGroup \notin Group

VARIABLES
    group,        \* its life, status, unique fingerprint and counters
    device, fingerprint, \* of each report: the sender, the fingerprint
    at,           \* the group of a report
    pc,           \* what the submission of a report does next
    adds,         \* the device_count increment that it has computed
    merge,        \* what each merge does next, on which groups, what it read
    dirty,        \* merges whose groups a submission or a merge has changed
    drifted       \* groups on which operations have overlapped or failed

vars == <<group, device, fingerprint, at, pc, adds, merge, dirty, drifted>>

NoMerge == [pc |-> "idle", target |-> NoGroup, sources |-> {}, active |-> FALSE,
            moved |-> {}, crashes |-> 0, devices |-> 0]

Init ==
    /\ group = [g \in Group |-> [life |-> "absent", active |-> TRUE,
                                 fingerprint |-> CHOOSE p \in Fingerprint : TRUE,
                                 crashes |-> 0, devices |-> 0]]
    /\ device \in [Report -> Device] /\ fingerprint \in [Report -> Fingerprint]
    /\ at = [r \in Report |-> NoGroup] /\ pc = [r \in Report |-> "idle"]
    /\ adds = [r \in Report |-> 0]
    /\ merge = [m \in Merger |-> NoMerge] /\ dirty = {} /\ drifted = {}

Live == {g \in Group : group[g].life = "live"}
Printed(p) == {g \in Live : group[g].fingerprint = p}
Goto(r, step) == pc' = [pc EXCEPT ![r] = step]
Open(r) == pc[r] \in {"match", "promote", "create", "insert", "count", "increment"}
Inserted(r) == pc[r] \in {"count", "increment", "done"}
Held(m) == {merge[m].target} \union merge[m].sources

\* A step of a submission on group g is seen by the merges that hold g.
Touches(g) == dirty' = dirty \union {m \in Merger : merge[m].pc # "idle" /\ g \in Held(m)}

-----------------------------------------------------------------------------
(* A report is submitted.                                                  *)

SubmitCrash(r) ==
    /\ pc[r] = "idle" /\ Goto(r, "match")
    /\ UNCHANGED <<group, device, fingerprint, at, adds, merge, dirty, drifted>>

\* By its fingerprint, by the older kind of fingerprint, or by its title among
\* the active groups: the last two may be those of any group.  The lookup may
\* fail, and the report goes on without a group.
FindMatchingCrashGroup(r) ==
    /\ pc[r] = "match"
    /\ \/ /\ \E g \in Live : at' = [at EXCEPT ![r] = g]
          /\ Touches(at'[r])
          /\ Goto(r, IF group[at'[r]].fingerprint = fingerprint[r] THEN "insert" ELSE "promote")
       \/ Printed(fingerprint[r]) = {} /\ Goto(r, "create") /\ UNCHANGED <<at, dirty>>
       \/ Goto(r, "insert") /\ UNCHANGED <<at, dirty>>
    /\ UNCHANGED <<group, device, fingerprint, adds, merge, drifted>>

\* A group found by its title takes the new fingerprint, unless the unique
\* index has it: the failure is only logged.
Promote(r) ==
    /\ pc[r] = "promote" /\ Goto(r, "insert")
    /\ group' = IF at[r] \in Live /\ Printed(fingerprint[r]) = {}
                THEN [group EXCEPT ![at[r]].fingerprint = fingerprint[r]] ELSE group
    /\ UNCHANGED <<device, fingerprint, at, adds, merge, dirty, drifted>>

\* The second of two submissions that create the group goes on without one.
CreateGroup(r) ==
    /\ pc[r] = "create" /\ Goto(r, "insert")
    /\ \/ \E g \in Group :
             /\ Printed(fingerprint[r]) = {} /\ group[g].life = "absent"
             /\ group' = [group EXCEPT ![g] = [@ EXCEPT !.life = "live", !.fingerprint = fingerprint[r]]]
             /\ at' = [at EXCEPT ![r] = g]
       \/ UNCHANGED <<group, at>>
    /\ UNCHANGED <<device, fingerprint, adds, merge, dirty, drifted>>

\* Another report of the device is being counted in this group.
Rival(r) ==
    \E q \in Report \ {r} : device[q] = device[r] /\ at[q] = at[r] /\ pc[q] \in {"count", "increment"}

InsertReport(r) ==
    /\ pc[r] = "insert"
    /\ \/ /\ at[r] # NoGroup /\ Goto(r, "count") /\ Touches(at[r])
          /\ drifted' = IF Rival(r) THEN drifted \union {at[r]} ELSE drifted
       \/ /\ at[r] = NoGroup /\ Goto(r, "done") /\ UNCHANGED <<dirty, drifted>>
       \/ /\ Goto(r, "failed") /\ UNCHANGED <<dirty, drifted>>
    /\ UNCHANGED <<group, device, fingerprint, at, adds, merge>>

\* IncrementCounts: the report itself may be in already, hence "at most one".
CountDevice(r) ==
    /\ pc[r] = "count" /\ Goto(r, "increment")
    /\ adds' = [adds EXCEPT ![r] =
          IF Cardinality({q \in Report : Inserted(q) /\ at[q] = at[r] /\ device[q] = device[r]}) <= 1
          THEN 1 ELSE 0]
    /\ UNCHANGED <<group, device, fingerprint, at, merge, dirty, drifted>>

\* Where the reports cannot be counted, there are none of this device.
CountUnread(r) ==
    /\ pc[r] = "count" /\ Goto(r, "increment")
    /\ adds' = [adds EXCEPT ![r] = 1]
    /\ drifted' = drifted \union {at[r]}
    /\ UNCHANGED <<group, device, fingerprint, at, merge, dirty>>

\* No row is updated when the group has gone.
IncrementCounts(r) ==
    /\ pc[r] = "increment" /\ Goto(r, "done") /\ Touches(at[r])
    /\ group' = IF at[r] \in Live
                THEN [group EXCEPT ![at[r]].crashes = @ + 1, ![at[r]].devices = @ + adds[r]]
                ELSE group
    /\ UNCHANGED <<device, fingerprint, at, adds, merge, drifted>>

\* The failure is logged; or the server has ended.
IncrementLost(r) ==
    /\ pc[r] \in {"count", "increment"} /\ Goto(r, "done") /\ Touches(at[r])
    /\ drifted' = drifted \union {at[r]}
    /\ UNCHANGED <<group, device, fingerprint, at, adds, merge>>

-----------------------------------------------------------------------------
(* Administrators.                                                         *)

UpdateCrashGroup(g) ==
    /\ g \in Live
    /\ group' = [group EXCEPT ![g].active = ~@]
    /\ UNCHANGED <<device, fingerprint, at, pc, adds, merge, dirty, drifted>>

\* loadCrashGroupsForMerge: all groups exist; the status is chosen from this.
LoadForMerge(m, t, S) ==
    /\ merge[m].pc = "idle" /\ S # {} /\ t \notin S /\ {t} \union S \subseteq Live
    /\ merge' = [merge EXCEPT ![m] =
          [NoMerge EXCEPT !.pc = "reassign", !.target = t, !.sources = S,
                          !.active = \E g \in {t} \union S : group[g].active]]
    /\ dirty' = IF \/ \E r \in Report : Open(r) /\ at[r] \in {t} \union S
                   \/ \E n \in Merger \ {m} : merge[n].pc # "idle" /\ Held(n) \cap ({t} \union S) # {}
                THEN dirty \union {m} ELSE dirty \ {m}
    /\ UNCHANGED <<group, device, fingerprint, at, pc, adds, drifted>>

ReportsOf(G) == {r \in Report : Inserted(r) /\ at[r] \in G}

\* COUNT(device_id), without DISTINCT.
MergedCountsNotDistinct(m) ==
    LET n == Cardinality(ReportsOf(Held(m))) IN [crashes |-> n, devices |-> n]
\* The reports of the groups merged are counted again: a device may be in several.
MergedCounts(m) ==
    LET all == ReportsOf(Held(m)) IN
    [crashes |-> Cardinality(all), devices |-> Cardinality({device[r] : r \in all})]

\* The UPDATE holds the rows it moves; nobody sees them moved yet.
Reassign(m) ==
    /\ merge[m].pc = "reassign"
    /\ LET mine == ReportsOf(merge[m].sources) IN
          /\ \A n \in Merger \ {m} : merge[n].moved \cap mine = {}
          /\ merge' = [merge EXCEPT ![m] = [@ EXCEPT !.pc = "commit", !.moved = mine,
                          !.crashes = MergedCounts(m).crashes, !.devices = MergedCounts(m).devices]]
    /\ UNCHANGED <<group, device, fingerprint, at, pc, adds, dirty, drifted>>

\* The target may have gone: its UPDATE finds no row and is no error.
CommitMerge(m) ==
    LET c == merge[m]  overlaps == m \in dirty \/ \E r \in Report : Open(r) /\ at[r] \in Held(m)
    IN
    /\ c.pc = "commit"
    /\ at' = [r \in Report |-> IF r \in c.moved THEN c.target ELSE at[r]]
    /\ group' = [g \in Group |->
          IF g \in c.sources THEN [group[g] EXCEPT !.life = "gone"]
          ELSE IF g = c.target THEN [group[g] EXCEPT !.active = c.active, !.crashes = c.crashes,
                                                     !.devices = c.devices]
          ELSE group[g]]
    /\ drifted' = IF overlaps THEN drifted \union Held(m) ELSE drifted \ {c.target}
    /\ dirty' = dirty \union {n \in Merger : merge[n].pc # "idle" /\ Held(n) \cap Held(m) # {}}
    /\ merge' = [merge EXCEPT ![m] = NoMerge]
    /\ UNCHANGED <<device, fingerprint, pc, adds>>

\* A statement fails, or two merges wait for each other and one is ended.
AbortMerge(m) ==
    /\ merge[m].pc # "idle"
    /\ merge' = [merge EXCEPT ![m] = NoMerge]
    /\ UNCHANGED <<group, device, fingerprint, at, pc, adds, dirty, drifted>>

Next ==
    \/ \E r \in Report :
          \/ SubmitCrash(r) \/ FindMatchingCrashGroup(r) \/ Promote(r) \/ CreateGroup(r)
          \/ InsertReport(r) \/ CountDevice(r) \/ CountUnread(r)
          \/ IncrementCounts(r) \/ IncrementLost(r)
    \/ \E m \in Merger :
          \/ \E t \in Group, S \in SUBSET Group : LoadForMerge(m, t, S)
          \/ Reassign(m) \/ CommitMerge(m) \/ AbortMerge(m)
    \/ \E g \in Group : UpdateCrashGroup(g)

Spec == Init /\ [][Next]_vars

-----------------------------------------------------------------------------

\* Every variable has its type.
TypeOK ==
    /\ group \in [Group -> [life : {"absent", "live", "gone"}, active : BOOLEAN, fingerprint : Fingerprint,
                            crashes : Nat, devices : Nat]]
    /\ device \in [Report -> Device] /\ fingerprint \in [Report -> Fingerprint]
    /\ at \in [Report -> Group \union {NoGroup}]
    /\ pc \in [Report -> {"idle", "match", "promote", "create", "insert", "count", "increment",
                          "done", "failed"}]
    /\ adds \in [Report -> 0 .. 1]
    /\ dirty \subseteq Merger /\ drifted \subseteq Group

Counted(g) == {r \in Report : pc[r] = "done" /\ at[r] = g}

\* "Merge reassigns all crashes ... reconciles the target": the counters of a
\* group are those of its reports, and no report is left with a group that has
\* gone, except where operations on the group have overlapped or a statement
\* has failed.
CountsExact ==
    /\ \A g \in Live \ drifted :
          /\ group[g].crashes = Cardinality(Counted(g))
          /\ group[g].devices = Cardinality({device[r] : r \in Counted(g)})
    /\ \A r \in Report : Inserted(r) /\ at[r] # NoGroup =>
          at[r] \in Live \union drifted
=============================================================================
