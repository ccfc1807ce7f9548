-------------------------------- MODULE Views --------------------------------
(***************************************************************************)
(* What people are shown about the host of module Monitor: the daily mail  *)
(* (internal/service/email.go), the dashboard and the server lists         *)
(* (internal/web/handlers).  Each of them works the state of the host out  *)
(* again from the reports, beside the alerts that are kept for it.         *)
(*                                                                         *)
(* S is the set of alerts that are silenced, maint whether the host is in  *)
(* maintenance, A the alerts of the host.  A row of the mail is "issue",   *)
(* "ok" or "none" when the host is left out.                               *)
(***************************************************************************)
EXTENDS Monitor

Warnings == {"backup_size", "swap", "pbs_verify", "pve_unknown_vm"}
alertDiskSeverity(pct) == pct >= 95
Critical(a) ==
    CASE a[1] = "disk" -> bound.kind = "windows" \/ alertDiskSeverity(IF bound.kind = "pve" THEN rep.disk ELSE pbsRep.disk)
      [] OTHER -> a[1] \notin Warnings
Kept(A, S, maint) == IF maint THEN {} ELSE A \ S

-----------------------------------------------------------------------------
\* The daily mail.

\* The VMs that a late host owes a backup of: the configured ones, or the last
\* job's.
staleVMRows == IF configured # {} THEN {v \in configured : ~vmCfg[v].excl} ELSE {r.vm : r \in rep.rows}
\* The VMs scheduled on the day of the job that are not in it.
missingRows ==
    IF rep.rows = {} \/ configured = {} THEN {}
    ELSE LET seen == {r.vm : r \in rep.rows}
             first == CHOOSE r \in rep.rows : r.vm = Min(seen)
         IN  {v \in configured \ seen : VMScheduledForDay(vmCfg[v], Day(first.start))}
missingVMRows == {v \in missingRows : ~vmCfg[v].excl}

PVERow(S) ==
    LET silenced == <<"pve_stale", Server>> \in S IN
    CASE PVEStaleSuppressed -> IF configured # {} THEN "none" ELSE "ok"
      [] ~PVEStaleSuppressed /\ (~reported \/ IsStaleForLoadedPVEConfig(rep.at)) -> IF silenced THEN "none" ELSE "issue"
      [] OTHER -> IF missingVMRows # {} THEN "issue" ELSE "ok"

emailPBSTaskRow(t) == [job |-> t.job, failed |-> PBSTaskFailed(t)]
PBSRow(S) ==
    LET silenced == <<"pbs_report_stale", Server>> \in S
        rows == {emailPBSTaskRow(t) : t \in pbsRep.tasks}
        failures == {r \in rows : r.failed /\ <<pbsTaskFailureAlert(r), r.job[2]>> \notin S}
    IN  CASE pbsRep = NoPBSReport -> IF silenced THEN "none" ELSE "issue"
          [] pbsRep # NoPBSReport /\ IsStale(pbsRep.at) /\ silenced -> IF failures # {} THEN "issue" ELSE "none"
          [] OTHER -> IF IsStale(pbsRep.at) \/ failures # {} THEN "issue" ELSE "ok"

WindowsTypes == {"windows_heartbeat", "windows_disk_health", "windows_volume_missing"}
NoHealth == WindowsTypes \ {"windows_disk_health"}   \* mutant: a type is missing in the switch
windowsAlertReasons == WindowsTypes
MailAlerts(A, S, maint) ==
    LET kept == Kept(A, S, maint)
    IN  [errors |-> {a \in kept : a[1] = "backup_error"}, disks |-> {a \in kept : a[1] = "disk"},
         reasons |-> {a \in kept : a[1] \in windowsAlertReasons}]
WindowsRow(alerts) == IF winReps = <<>> \/ alerts.reasons # {} THEN "issue" ELSE "ok"

\* The issues listed at the top of the mail, and its colour.
buildSummaryIssues(row, errors) == (IF row = "issue" THEN {<<bound.kind, Server>>} ELSE {}) \cup errors
buildEmailData(A, S, maint) ==
    LET alerts == MailAlerts(A, S, maint)
        row == CASE maint -> "none"
                 [] ~maint /\ bound.kind = "pve" -> PVERow(S)
                 [] ~maint /\ bound.kind = "pbs" -> PBSRow(S)
                 [] OTHER -> WindowsRow(alerts)
    IN  [row |-> row, issues |-> buildSummaryIssues(row, alerts.errors), disks |-> alerts.disks,
         vms |-> CASE row # "issue" \/ bound.kind # "pve" -> {}
                   [] ~(row # "issue" \/ bound.kind # "pve") /\ (~reported \/ ~IsStaleForLoadedPVEConfig(rep.at)) -> missingVMRows
                   [] OTHER -> staleVMRows]
TotalIssues(mail) == Cardinality(mail.issues)
Green(mail) == TotalIssues(mail) = 0

-----------------------------------------------------------------------------
\* The pages.
ActivePersistedAlerts(A, S, maint) == Kept(A, S, maint)
alertCountsByServer(alerts) ==
    [critical |-> Cardinality({a \in alerts : Critical(a)}), warning |-> Cardinality({a \in alerts : ~Critical(a)})]
ActiveAlertCounts(A, S, maint) == alertCountsByServer(ActivePersistedAlerts(A, S, maint))
buildServerHealth(count) ==
    CASE count.critical > 0 -> "bad" [] count.critical = 0 /\ count.warning > 0 -> "warn" [] OTHER -> "ok"
\* The status on the server's page and in the list of its kind.
serverStatus(A, S, maint) ==
    IF maint THEN "info" ELSE buildServerHealth(alertCountsByServer(ActivePersistedAlerts(A, S, maint)))

buildHeartbeatView == [seen |-> hb # NoBeat, online |-> hb # NoBeat /\ (HeartbeatMax = 0 \/ now - hb.at <= HeartbeatMax)]
currentPVESwapView == IF hb.swap # "unknown" /\ (~reported \/ hb.at >= rep.at) THEN hb.swap = "on" ELSE reported /\ rep.swap
buildPVESwapListView(S) ==
    CASE ~currentPVESwapView -> "ok"
      [] currentPVESwapView /\ (alertCfg.swap = "off" \/ <<"swap", Server>> \in S) -> "muted"
      [] OTHER -> "bad"

PVEBackupStatusSummary ==
    LET failed == {r.status : r \in rep.rows} \ {"OK", "WARN"}
    IN  CASE rep.rows = {} -> rep.status
          [] rep.rows # {} /\ failed # {} -> CHOOSE s \in failed : TRUE
          [] OTHER -> IF \E r \in rep.rows : r.status = "WARN" THEN "WARN" ELSE "OK"

\* A row of the list of PVE hosts.
ExcludedListed == missingRows   \* mutant: the list forgets the exclusion
ListMissing == {v \in missingRows : ~vmCfg[v].excl}
PVEServers(A, S, maint) ==
    LET disabled == noVMsConfirmed \/ (configured # {} /\ ~HasActiveVMBackupConfigs)
    IN  [health |-> serverStatus(A, S, maint),
         stale |-> IF reported THEN IsStaleForLoadedPVEConfig(rep.at) ELSE ~PVEStaleSuppressed,
         swap |-> buildPVESwapListView(S),
         status |-> IF reported /\ ~disabled THEN PVEBackupStatusSummary ELSE "",
         missing |-> ListMissing,
         unknown |-> IF reported /\ configured # {} THEN {r.vm : r \in rep.rows} \ configured ELSE {}]
\* The jobs on the page of one PVE host: excluded VMs are marked.
PVEServerDetail == [missing |-> {v \in missingRows : ~vmCfg[v].excl}, marked |-> {v \in missingRows : vmCfg[v].excl}]

pbsTaskDisplays == {[job |-> t.job, class |-> IF PBSTaskFailed(t) THEN "bad" ELSE "ok"] : t \in pbsRep.tasks}
pbsTaskSummary == \E t \in pbsRep.tasks : PBSTaskFailed(t)
pbsFillBadge == pbsRep.full # Unset /\ pbsRep.full > now
\* A row of the list of backup servers; the swap is the report's.
PBSServers(A, S, maint) ==
    [health |-> serverStatus(A, S, maint), stale |-> pbsRep = NoPBSReport, swap |-> pbsRep.swap, tasks |-> pbsTaskDisplays]

windowsHasDiskAlert ==
    \E v \in DOMAIN current :
        ~Healthy(current[v].health) \/ (Threshold(winCfg) > 0 /\ current[v].pct >= Threshold(winCfg))
windowsDiskSummary == CASE DOMAIN current = {} -> "none" [] DOMAIN current # {} /\ windowsHasDiskAlert -> "bad" [] OTHER -> "ok"
WindowsServers(A, S, maint) ==
    [health |-> serverStatus(A, S, maint), disks |-> windowsDiskSummary, heartbeat |-> buildHeartbeatView]

\* The dashboard: the counter that the host adds to, and the alert totals.
summarizeDashboardAlerts(A, S, maint) ==
    LET kept == {a \in A : a \notin S /\ ~maint}
    IN  [counts |-> alertCountsByServer(kept),
         backup |-> \E a \in kept : a[1] = "backup_error",
         volume |-> \E a \in kept : a[1] = "windows_volume_missing"]
dashboardHealthRank(counts) == IF counts.critical > 0 THEN 0 ELSE 1
StaleCounter(S) ==
    LET silenced == <<IF bound.kind = "pve" THEN "pve_stale" ELSE "pbs_report_stale", Server>> \in S
    IN  [stat |-> IF silenced THEN "none" ELSE "stale", rank |-> 0]
AlertCounter(counts) ==
    IF counts.critical + counts.warning > 0 THEN [stat |-> "alerts", rank |-> dashboardHealthRank(counts)]
    ELSE [stat |-> "ok", rank |-> 3]
dashboardPVE(sum, S) ==
    CASE ~reported /\ ~PVEStaleSuppressed -> StaleCounter(S)
      [] (reported \/ PVEStaleSuppressed) /\ sum.backup -> [stat |-> "backup", rank |-> 0]
      [] OTHER -> AlertCounter(sum.counts)
dashboardPBS(sum, S) == IF pbsRep = NoPBSReport THEN StaleCounter(S) ELSE AlertCounter(sum.counts)
dashboardWindows(sum) ==
    CASE ~buildHeartbeatView.online -> [stat |-> "offline", rank |-> 0]
      [] buildHeartbeatView.online /\ (windowsHasDiskAlert \/ sum.volume) -> [stat |-> "disk", rank |-> 0]
      [] OTHER -> AlertCounter(sum.counts)
Dashboard(A, S, maint) ==
    LET sum == summarizeDashboardAlerts(A, S, maint)
    IN  CASE maint -> [stat |-> "maintenance", rank |-> 2]
          [] ~maint /\ bound.kind = "pve" -> dashboardPVE(sum, S)
          [] ~maint /\ bound.kind = "pbs" -> dashboardPBS(sum, S)
          [] OTHER -> dashboardWindows(sum)

-----------------------------------------------------------------------------
\* Alerts that the daily mail speaks of.  A VM missing from the job is listed
\* unless the host is late as a whole or its lateness is not watched.
InMail(a) ==
    \/ a[1] \in {"pve_stale", "backup_error", "pbs_sync_failed", "pbs_gc_failed"} \cup WindowsTypes
    \/ a[1] = "pve_missing_vm" /\ ~PVEStaleSuppressed /\ ~IsStaleForLoadedPVEConfig(rep.at)

\* The mail says "Todos los servidores operativos" only when no alert of the
\* kinds it speaks of is left: not even one when all the others are silenced;
\* and a configured host that is an issue names the VMs without a backup
\* (buildEmailData, internal/service/email.go:307).
GreenMailIsTrue ==
    LET A == RunAll IN
    /\ \A a \in A : InMail(a) => ~Green(buildEmailData(A, A \ {a}, FALSE))
    /\ LET mail == buildEmailData(A, {}, FALSE)
       IN  (bound.kind = "pve" /\ mail.row = "issue" /\ reported /\ configured # {}) => mail.vms # {}

\* How quiet the mail is.  A host in maintenance is no issue.  One all of whose
\* alerts are silenced is none either, except for what the mail judges without
\* asking for the silencing: a VM missing from the job (missingVMRows,
\* internal/service/email.go:432), which makes the PVE host an issue exactly when
\* the mail speaks of it, and a PBS or Windows host whose report is of another day
\* or that has never reported.
SilencedMailIsGreen ==
    LET A == RunAll IN
    /\ Green(buildEmailData(A, {}, TRUE))
    /\ bound.kind = "pve" => (Green(buildEmailData(A, A, FALSE)) <=> ~\E a \in A : a[1] = "pve_missing_vm" /\ InMail(a))
    /\ (bound.kind = "windows" /\ winReps # <<>>) => Green(buildEmailData(A, A, FALSE))
    /\ (bound.kind = "pbs" /\ pbsRep # NoPBSReport /\ ~IsStale(pbsRep.at)) => Green(buildEmailData(A, A, FALSE))

\* The mail and the alerts tell the same, silenced missing VMs included.
MailAgrees == GreenMailIsTrue /\ SilencedMailIsGreen

\* What the lists work out by themselves agrees with the alerts: missing and
\* unknown VMs, a late report, the swap, the status of the last job, failed
\* maintenance, full or failing volumes and the signal
\* (PVEServers, Dashboard, internal/web/handlers/servers.go:431).
RowsAgree ==
    LET A == RunAll
        has(type) == \E a \in A : a[1] = type
        of(type) == {a[2] : a \in {b \in A : b[1] = type}}
        row == PVEServers(A, {}, FALSE)
    IN  CASE bound.kind = "pve" ->
               /\ row.missing = of("pve_missing_vm") /\ PVEServerDetail.missing = row.missing
               /\ row.unknown = of("pve_unknown_vm") /\ row.stale = has("pve_stale")
               /\ (row.swap = "bad") = has("swap") /\ (buildHeartbeatView.seen /\ ~buildHeartbeatView.online) = has("pve_heartbeat")
               /\ (~noVMsConfirmed /\ \E v \in of("backup_error") : v # Server \/ rep.rows = {}) => pveBackupStatusAlertable(row.status)
          [] bound.kind = "pbs" ->
               /\ {r.job[2] : r \in {x \in pbsTaskDisplays : x.class = "bad"}} = of("pbs_sync_failed") \cup of("pbs_gc_failed")
               /\ has("pbs_fill") => pbsFillBadge
               /\ pbsTaskSummary = (has("pbs_sync_failed") \/ has("pbs_gc_failed"))
          [] OTHER ->
               /\ windowsHasDiskAlert = (has("disk") \/ has("windows_disk_health"))
               /\ buildHeartbeatView.seen => (~buildHeartbeatView.online = has("windows_heartbeat"))

\* A host is counted as operational on the dashboard exactly when its page
\* shows no alert, except a Windows host that has never been heard of and a
\* silenced volume; the totals of the dashboard are the ones beside the menu
\* (Dashboard, ActiveAlertCounts, internal/web/handlers/dashboard.go:16).
OperationalIsQuiet ==
    LET A == RunAll IN
    \A S \in {{}, {a \in A : a[1] \in {"disk", "windows_disk_health"}}, A} :
        /\ (Dashboard(A, S, FALSE).stat = "ok") => (serverStatus(A, S, FALSE) = "ok")
        /\ summarizeDashboardAlerts(A, S, FALSE).counts = ActiveAlertCounts(A, S, FALSE)
        /\ (S = {} /\ bound.kind # "windows" /\ serverStatus(A, S, FALSE) = "ok"
              /\ (bound.kind = "pbs" => pbsRep # NoPBSReport)) => Dashboard(A, S, FALSE).stat = "ok"

\* The pages and the alerts tell the same.
PagesAgree == RowsAgree /\ OperationalIsQuiet
=============================================================================
