------------------------------- MODULE Alerts -------------------------------
(***************************************************************************)
(* Alert configurations: a job checks the enabled ones every few minutes   *)
(* and sends an alert for each metric above its threshold, then stays      *)
(* silent for the cooldown.  The job and the console each Save a whole row *)
(* they read earlier; sending takes seconds in between.                    *)
(***************************************************************************)
EXTENDS Naturals

CONSTANTS
    Config,
    Cooldown,   \* CooldownMins, in ticks of the job
    MaxTime,    \* bound: the clock
    Never

AlertsAssumption == MaxTime \in Nat

VARIABLES
    now,
    row,        \* exists, is_enabled, last_fired_at of each configuration
    check,      \* the run of the job: the rows it has read, those to go, the one it sends
    edit,       \* the configuration that the console edits, as it was read
    sentAt,     \* when the last alert was sent
    early,      \* alerts sent within the cooldown
    crossed     \* configurations for which a check and an edit have crossed, or a write failed

vars == <<now, row, check, edit, sentAt, early, crossed>>

NoCheck == [read |-> <<>>, todo |-> {}, sending |-> {}]
NoEdit == [open |-> {}, enabled |-> TRUE, firedAt |-> Never]

Init ==
    /\ now = 0
    /\ row = [c \in Config |-> [exists |-> FALSE, enabled |-> TRUE, firedAt |-> Never]]
    /\ check = NoCheck /\ edit = NoEdit
    /\ sentAt = [c \in Config |-> Never] /\ early = {} /\ crossed = {}

-----------------------------------------------------------------------------
(* CheckAlerts.                                                            *)

Enabled == {c \in Config : row[c].exists /\ row[c].enabled}

\* ListEnabledConfigs.
CheckAlerts ==
    /\ check = NoCheck /\ Enabled # {}
    /\ check' = [read |-> [c \in Enabled |-> row[c]], todo |-> Enabled, sending |-> {}]
    /\ UNCHANGED <<now, row, edit, sentAt, early, crossed>>

CoolingDown(c) ==
    /\ check.read[c].firedAt # Never
    /\ now < check.read[c].firedAt + Cooldown

\* Cooling down, below the threshold, or the metric cannot be read.
Pass(c) ==
    /\ check.sending = {} /\ c \in check.todo
    /\ check' = IF check.todo = {c} THEN NoCheck ELSE [check EXCEPT !.todo = @ \ {c}]
    /\ UNCHANGED <<now, row, edit, sentAt, early, crossed>>

\* Sent or failed, it is logged.
SendAlert(c) ==
    /\ check.sending = {} /\ c \in check.todo /\ ~CoolingDown(c)
    /\ check' = [check EXCEPT !.todo = @ \ {c}, !.sending = {c}]
    /\ early' = IF sentAt[c] # Never /\ now < sentAt[c] + Cooldown THEN early \union {c} ELSE early
    /\ sentAt' = [sentAt EXCEPT ![c] = now]
    /\ UNCHANGED <<now, row, edit, crossed>>

NotFired(c) == check.read[c].firedAt
Fired(c) == now

\* The whole row, as it was read: an edit since then is undone, and a
\* configuration deleted since then is there again.  The error is ignored.
SaveFired(c) ==
    /\ check.sending = {c}
    /\ check' = IF check.todo = {} THEN NoCheck ELSE [check EXCEPT !.sending = {}]
    /\ \/ /\ row' = [row EXCEPT ![c] = [check.read[c] EXCEPT !.firedAt = Fired(c)]]
          /\ crossed' = IF c \in edit.open THEN crossed \union {c} ELSE crossed
       \/ row' = row /\ crossed' = crossed \union {c}
    /\ UNCHANGED <<now, edit, sentAt, early>>

-----------------------------------------------------------------------------
(* The console.                                                            *)

\* An id is not given twice: one that has sent stands for a used one.
CreateConfig(c) ==
    /\ ~row[c].exists /\ sentAt[c] = Never /\ row' = [row EXCEPT ![c].exists = TRUE]
    /\ UNCHANGED <<now, check, edit, sentAt, early, crossed>>

FindConfig(c) ==
    /\ edit = NoEdit /\ row[c].exists
    /\ edit' = [open |-> {c}, enabled |-> row[c].enabled, firedAt |-> row[c].firedAt]
    /\ UNCHANGED <<now, row, check, sentAt, early, crossed>>

UpdateConfig(c) ==
    /\ edit.open = {c}
    /\ \E e \in BOOLEAN : row' = [row EXCEPT ![c] = [exists |-> TRUE, enabled |-> e, firedAt |-> edit.firedAt]]
    /\ edit' = NoEdit
    /\ UNCHANGED <<now, check, sentAt, early, crossed>>

DeleteConfig(c) ==
    /\ row[c].exists
    /\ row' = [row EXCEPT ![c].exists = FALSE]
    /\ UNCHANGED <<now, check, edit, sentAt, early, crossed>>

\* A run of the job, and an edit, end within a tick.
Tick ==
    /\ now < MaxTime /\ check = NoCheck /\ edit = NoEdit
    /\ now' = now + 1
    /\ UNCHANGED <<row, check, edit, sentAt, early, crossed>>

Next ==
    \/ CheckAlerts \/ Tick
    \/ \E c \in Config :
          \/ Pass(c) \/ SendAlert(c) \/ SaveFired(c)
          \/ CreateConfig(c) \/ FindConfig(c) \/ UpdateConfig(c) \/ DeleteConfig(c)

Spec == Init /\ [][Next]_vars

-----------------------------------------------------------------------------

Row == [exists : BOOLEAN, enabled : BOOLEAN, firedAt : Nat \union {Never}]
\* Every variable has its type.
TypeOK ==
    /\ now \in 0 .. MaxTime /\ row \in [Config -> Row]
    /\ \A c \in check.todo \union check.sending : check.read[c] \in Row
    /\ check.todo \subseteq Config /\ check.sending \subseteq Config
    /\ edit \in [open : SUBSET Config, enabled : BOOLEAN, firedAt : Nat \union {Never}]
    /\ sentAt \in [Config -> Nat \union {Never}]
    /\ early \subseteq Config /\ crossed \subseteq Config

\* An alert is not repeated within its cooldown, whether it was sent or failed,
\* unless an edit was open while the job wrote when it fired, or that write failed.
CooldownKept == early \subseteq crossed
=============================================================================
