----------------------------- MODULE AlertStates -----------------------------
(***************************************************************************)
(* The alert tables of the store (internal/store/alert_state.go and        *)
(* internal/store/telegram.go).                                            *)
(*                                                                         *)
(* The database handle has a single connection, so a statement outside a   *)
(* transaction and a whole transaction are both one atomic step.  A table  *)
(* is modelled column by column: each flag or nullable timestamp of        *)
(* alert_states is the set of alert ids for which it is set.               *)
(***************************************************************************)
EXTENDS FiniteSets

CONSTANTS
    Alerts,         \* alert ids
    Destinations    \* ids of telegram_destinations, never reused (AUTOINCREMENT)

VARIABLES
    exists,         \* ids with a row in alert_states
    present,        \* is_present = 1
    critical,       \* severity = 'critical'
    emailSent,      \* last_critical_email_at IS NOT NULL
    emailPending,   \* resolution_email_pending = 1
    pushSent,       \* last_critical_push_at IS NOT NULL
    pushPending,    \* resolution_push_pending = 1
    tgSent,         \* per destination: telegram_alert_deliveries rows (active_sent_at is set)
    tgResolved,     \* per destination: those with resolution_sent_at set
    links           \* telegram_destinations, joined with users.is_active

emailCols == <<emailSent, emailPending>>
pushCols == <<pushSent, pushPending>>
tgCols == <<tgSent, tgResolved>>
stateCols == <<exists, present, critical>>
dbVars == <<stateCols, emailCols, pushCols, tgCols, links>>

\* A destination id is unused, linked to an active or inactive user, or deleted.
LinkStates == {"unused", "active", "inactive", "deleted"}
Linked(d) == links[d] \in {"active", "inactive"}

StoreTypeOK ==
    /\ exists \in SUBSET Alerts
    /\ present \in SUBSET Alerts
    /\ critical \in SUBSET Alerts
    /\ emailSent \in SUBSET Alerts
    /\ emailPending \in SUBSET Alerts
    /\ pushSent \in SUBSET Alerts
    /\ pushPending \in SUBSET Alerts
    /\ tgSent \in [Destinations -> SUBSET Alerts]
    /\ tgResolved \in [Destinations -> SUBSET Alerts]
    /\ links \in [Destinations -> LinkStates]

\* A fresh database: the tables are empty; some users may have linked a chat.
StoreInit ==
    /\ exists = {} /\ present = {} /\ critical = {}
    /\ emailSent = {} /\ emailPending = {}
    /\ pushSent = {} /\ pushPending = {}
    /\ tgSent = [d \in Destinations |-> {}]
    /\ tgResolved = [d \in Destinations |-> {}]
    /\ links \in [Destinations -> {"unused", "active"}]

-----------------------------------------------------------------------------
\* An evaluation: the alerts found, by severity, and whether an evaluator failed.
Evaluations == [critical : SUBSET Alerts, warning : SUBSET Alerts, partial : BOOLEAN]
Found(ev) == ev.critical \cup ev.warning

\* Mutant: absence from a partial evaluation counts as resolution.
MissingWhenPartial(ev) == present \ Found(ev)

\* The rows a sync of ev resolves: none when the evaluation was partial.
Missing(ev) == IF ev.partial THEN {} ELSE present \ Found(ev)
\* Mutant: a revived alert keeps its old deliveries.
ReappearingForgotten(ev) == {}

\* The known alerts that a sync of ev brings back.
Reappearing(ev) == (Found(ev) \cap exists) \ present

\* Mutant: the send mark is cleared before it is read.
PendingAfterClearing(pending, sent, ev) ==
    (pending \ Found(ev)) \cup (Missing(ev) \cap (sent \ Missing(ev)) \cap critical)

\* resolution_x_pending after a sync: cleared for every alert found, set for a
\* resolved alert whose critical notice was recorded as sent.
PendingAfterSync(pending, sent, ev) ==
    (pending \ Found(ev)) \cup (Missing(ev) \cap sent \cap critical)

syncAlertStates(ev) ==
    /\ exists' = exists \cup Found(ev)
    /\ present' = (present \cup Found(ev)) \ Missing(ev)
    /\ critical' = (critical \ ev.warning) \cup ev.critical
    /\ emailPending' = PendingAfterSync(emailPending, emailSent, ev)
    /\ emailSent' = emailSent \ Missing(ev)
    /\ pushPending' = PendingAfterSync(pushPending, pushSent, ev)
    /\ pushSent' = pushSent \ Missing(ev)
    /\ tgSent' = [d \in Destinations |-> tgSent[d] \ Reappearing(ev)]
    /\ tgResolved' = [d \in Destinations |-> tgResolved[d] \ Reappearing(ev)]
    /\ UNCHANGED links

-----------------------------------------------------------------------------
(***************************************************************************)
(* What each channel still has to send, and how a delivery is recorded.    *)
(* The guards on is_present differ between channels, as in the code.       *)
(***************************************************************************)
\* Mutant: the wrong column is read.
ListPendingEmailAlertIDs == present \cap emailPending

ListCriticalEmailSentAlertIDs == present \cap emailSent
ListPendingAlertResolutionEmails == emailPending \ present

MarkAlertCriticalEmailsSent(ids) ==
    /\ emailSent' = emailSent \cup (ids \cap exists)
    /\ UNCHANGED <<stateCols, emailPending, pushCols, tgCols, links>>

MarkAlertResolutionEmailsSent(ids) ==
    /\ emailPending' = emailPending \ ids
    /\ UNCHANGED <<stateCols, emailSent, pushCols, tgCols, links>>

ListCriticalPushSentAlertIDs == present \cap pushSent
ListPendingAlertResolutionPushes == pushPending \ present

\* Mutant: the mark lacks its is_present guard.
MarkPushesSentUnguarded(ids) ==
    /\ pushSent' = pushSent \cup (ids \cap exists)
    /\ UNCHANGED <<stateCols, emailCols, pushPending, tgCols, links>>

MarkAlertCriticalPushesSent(ids) ==
    /\ pushSent' = pushSent \cup (ids \cap present)
    /\ UNCHANGED <<stateCols, emailCols, pushPending, tgCols, links>>

MarkAlertResolutionPushesSent(ids) ==
    /\ pushPending' = pushPending \ (ids \ present)
    /\ UNCHANGED <<stateCols, emailCols, pushSent, tgCols, links>>

ListActiveTelegramDestinations == {d \in Destinations : links[d] = "active"}
ListCriticalTelegramSentAlertIDs(d) == tgSent[d]
\* Mutant: only alerts that were critical to the end are owed a resolution.
ListPendingCriticalTelegrams(d) == (tgSent[d] \ tgResolved[d]) \cap (exists \ present) \cap critical

ListPendingAlertResolutionTelegrams(d) == (tgSent[d] \ tgResolved[d]) \cap (exists \ present)

\* One transaction over all ids: a missing alert or destination row fails the
\* foreign key of the insert and rolls every id back.
MarkAlertCriticalTelegramsSent(d, ids) ==
    /\ IF ids \subseteq exists /\ Linked(d)
       THEN /\ tgSent' = [tgSent EXCEPT ![d] = @ \cup ids]
            /\ tgResolved' = [tgResolved EXCEPT ![d] = @ \ ids]
       ELSE UNCHANGED tgCols
    /\ UNCHANGED <<stateCols, emailCols, pushCols, links>>

MarkAlertResolutionTelegramsSent(d, ids) ==
    /\ tgResolved' = [tgResolved EXCEPT ![d] = @ \cup (ids \cap tgSent[d])]
    /\ UNCHANGED <<stateCols, emailCols, pushCols, tgSent, links>>

-----------------------------------------------------------------------------
(***************************************************************************)
(* Other writers of these tables.                                          *)
(***************************************************************************)

\* Rows are deleted together with their deliveries (ON DELETE CASCADE).
DeleteRows(ids) ==
    /\ exists' = exists \ ids
    /\ present' = present \ ids
    /\ critical' = critical \ ids
    /\ emailSent' = emailSent \ ids
    /\ emailPending' = emailPending \ ids
    /\ pushSent' = pushSent \ ids
    /\ pushPending' = pushPending \ ids
    /\ tgSent' = [d \in Destinations |-> tgSent[d] \ ids]
    /\ tgResolved' = [d \in Destinations |-> tgResolved[d] \ ids]

\* The rows the history cleanup may delete once they are old enough.
Prunable ==
    {a \in exists \ (present \cup emailPending \cup pushPending) :
        \A d \in Destinations : a \notin tgSent[d] \ tgResolved[d]}

\* old: the rows whose updated_at lies before the cutoff.
DeleteOldAlertHistory(old) == DeleteRows(Prunable \cap old) /\ UNCHANGED links

\* The reset of all operational data also deletes every Telegram link.
ResetAllData ==
    /\ DeleteRows(exists)
    /\ links' = [d \in Destinations |-> IF Linked(d) THEN "deleted" ELSE links[d]]

\* A user links a private chat, is deactivated or reactivated, or is unlinked
\* (the unlink cascades to the deliveries of the destination).  Linking again
\* (ON CONFLICT DO UPDATE) keeps the destination and its deliveries, whichever
\* chat it stands for from then on.
UpsertTelegramDestination(d) ==
    /\ \/ links[d] = "unused" /\ links' = [links EXCEPT ![d] = "active"]
       \/ Linked(d) /\ UNCHANGED links
    /\ UNCHANGED <<stateCols, emailCols, pushCols, tgCols>>

SetUserActive(d) ==
    /\ Linked(d)
    /\ links' = [links EXCEPT ![d] = IF @ = "active" THEN "inactive" ELSE "active"]
    /\ UNCHANGED <<stateCols, emailCols, pushCols, tgCols>>

DeleteTelegramDestinationForUser(d) ==
    /\ Linked(d)
    /\ links' = [links EXCEPT ![d] = "deleted"]
    /\ tgSent' = [tgSent EXCEPT ![d] = {}]
    /\ tgResolved' = [tgResolved EXCEPT ![d] = {}]
    /\ UNCHANGED <<stateCols, emailCols, pushCols>>
=============================================================================
