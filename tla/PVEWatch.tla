------------------------------ MODULE PVEWatch ------------------------------
(***************************************************************************)
(* How the backups of one Proxmox VE host become alerts.  The node runs    *)
(* vzdump jobs; the client groups the finished tasks of the last job and   *)
(* sends a report (client/pve.go); the server keeps the report             *)
(* (internal/store/pve.go) and the alert evaluators read it together with  *)
(* the backup schedule, the thresholds and the heartbeat                   *)
(* (internal/service/alertengine.go, report.go, internal/domain).          *)
(*                                                                         *)
(* Time runs in slots, SlotsPerDay to a day; a backup day is complete at   *)
(* slot Finish of the next morning.  A status is "OK", "WARN" (it starts   *)
(* with WARNING), "GEN" (a generic "job errors"), "stopped" (the exit      *)
(* status could not be read), "ERR" (a message) or "ERROR".                *)
(***************************************************************************)
EXTENDS Hosts

CONSTANTS Week,         \* weekdays (7 in the code)
          SlotsPerDay,  \* slots of a day
          Finish,       \* slot of the expected finish time
          MaxGap        \* slots between two tasks of one job (2 hours)

ASSUME PVEAssumption ==
    /\ {Week, SlotsPerDay} \subseteq Nat \ {0} /\ Finish \in 0..(SlotsPerDay - 1) /\ MaxGap \in Nat

VARIABLES tasks,    \* finished vzdump tasks of the node
          files,    \* backups in the storages: [vm, at]
          vmCfg,    \* vm_backup_configs of the server, by VM
          inv,      \* backup_inventory_known and has_backup_vms
          alertCfg, \* the server's overrides and the global switch
          rep       \* the latest report

pveVars == <<tasks, files, vmCfg, inv, alertCfg, rep>>

Weekdays == 0..(Week - 1)
Day(t) == t \div SlotsPerDay
Start(d) == d * SlotsPerDay
Weekday(d) == d % Week
NoReport == [at |-> Unset, rows |-> {}, status |-> "", disk |-> 0, swap |-> FALSE, full |-> {}, reads |-> {}]
Absent == [on |-> FALSE, excl |-> FALSE, days |-> {}]
Default == {w \in Weekdays : w < Week - 1 \/ Week = 1}   \* Monday to Friday
Outcomes == {"ok", "warn", "fail", "cut"}

-----------------------------------------------------------------------------
\* The client: what it makes of the node's tasks.

\* A task's log: the VMs it started, the ones it reported as failed or
\* finished, and a TASK ERROR that names a reason.  An unreadable log is empty.
parseBackupLog(log) ==
    [vmids |-> log.started,
     statuses |-> [v \in VMs |-> IF v \in log.failed THEN "ERR" ELSE IF v \in log.finished THEN "OK" ELSE ""],
     jobError |-> log.jobError]
EmptyLog == [started |-> {}, failed |-> {}, finished |-> {}, jobError |-> FALSE]
aggregateTaskInfo(t, reads) == parseBackupLog(IF reads.logs THEN t.log ELSE EmptyLog)

EmptyStatus(t, reads) == IF reads.exit THEN t.status ELSE ""   \* mutant: the list's status is forgotten
taskStatus(t, reads) == IF reads.exit THEN t.status ELSE "stopped"
isGenericBackupStatus(s) == s \in {"", "GEN", "ERROR"}
isBackupWarningStatus(s) == s = "WARN"
NoLineIsOK(s, v, info) == IF info.statuses[v] = "" THEN "OK" ELSE info.statuses[v]   \* mutant: silence is success
TaskStatusOnly(s, v, info) == s   \* mutant: the task speaks for each of its VMs
resolveBackupTaskStatus(s, v, info) ==
    CASE info.statuses[v] = "OK" /\ isBackupWarningStatus(s) -> s
      [] info.statuses[v] # "" /\ ~(info.statuses[v] = "OK" /\ isBackupWarningStatus(s)) -> info.statuses[v]
      [] OTHER -> IF isGenericBackupStatus(s) /\ info.jobError THEN "ERR" ELSE s

\* The tasks newest first: by end, then as the node lists them.
Newest(T) == CHOOSE t \in T : \A u \in T : u.end < t.end \/ (u.end = t.end /\ u.id <= t.id)

\* The last job: going back in time, a gap longer than MaxGap ends it.
GapBefore(u, T) ==
    LET later == {w \in T : w.end > u.end}
    IN  later # {} /\ Min({w.start : w \in later}) - u.end > MaxGap
LastJob(T) == {t \in T : \A u \in T : u.end >= t.end => ~GapBefore(u, T)}

FileIn(v, t) == \E f \in files : f.vm = v /\ t.start <= f.at /\ f.at <= t.end
Row(v, t, s, reads) ==
    LET has == reads.files /\ FileIn(v, t)
        timed == aggregateTaskInfo(t, reads).statuses[v] = "OK"
    IN  [vm |-> v, status |-> s, file |-> has,
         start |-> IF has /\ timed THEN Min({f.at : f \in {g \in files : g.vm = v /\ t.start <= g.at /\ g.at <= t.end}})
                   ELSE t.start]

\* The rows of the per-VM tasks of the job, the newest of each VM.
perVMRows(job, reads) ==
    LET per == {t \in job : t.vm # Server}
        last(v) == Newest({t \in per : t.vm = v})
    IN  {Row(v, last(v), resolveBackupTaskStatus(taskStatus(last(v), reads), v, aggregateTaskInfo(last(v), reads)), reads)
           : v \in {t.vm : t \in per}}

\* A job listed only as one aggregate task: its VMs come from the log, or from
\* the backups made during it.
aggregateRows(job, reads) ==
    LET agg == Newest(job)
        info == aggregateTaskInfo(agg, reads)
        s == taskStatus(agg, reads)
        found == IF info.vmids # {} THEN info.vmids ELSE {v \in VMs : reads.files /\ FileIn(v, agg)}
        status(v) == IF resolveBackupTaskStatus(s, v, info) = s /\ isGenericBackupStatus(s)
                        /\ info.statuses[v] = "" /\ reads.files /\ FileIn(v, agg)
                     THEN "OK" ELSE resolveBackupTaskStatus(s, v, info)
    IN  {Row(v, agg, status(v), reads) : v \in found}

backupJobTasks(reads) ==
    LET job == LastJob(tasks)
    IN  IF ~reads.tasks \/ tasks = {} THEN {}
        ELSE IF \E t \in job : t.vm # Server THEN perVMRows(job, reads) ELSE aggregateRows(job, reads)

\* job_error of the job: the first reason found in the log of a generic task.
jobErrorOf(reads) ==
    /\ reads.tasks /\ tasks # {}
    /\ LET job == LastJob(tasks)
           perVM == \E t \in job : t.vm # Server
       IN  \E t \in IF perVM THEN job ELSE {Newest(job)} :
               /\ perVM => isGenericBackupStatus(taskStatus(t, reads))
               /\ aggregateTaskInfo(t, reads).jobError

\* jobBackupStatus: failures before warnings before OK.
jobBackupStatus(rows, jobError) ==
    LET failed == {r.status : r \in rows} \ {"OK", "WARN"}
    IN  CASE jobError -> "ERR"
          [] ~jobError /\ failed # {} -> CHOOSE s \in failed : TRUE
          [] OTHER -> IF \E r \in rows : r.status = "WARN" THEN "WARN" ELSE "OK"

\* lastBackupStatus: without rows the newest task speaks for the host.
lastBackupStatus(reads) ==
    IF ~reads.again \/ tasks = {} THEN "ERROR"
    ELSE LET last == Newest(tasks)
             s == taskStatus(last, reads)
         IN  IF isGenericBackupStatus(s) /\ aggregateTaskInfo(last, reads).jobError THEN "ERR" ELSE s

reportBackupStatus(rows, reads) ==
    IF rows # {} THEN jobBackupStatus(rows, jobErrorOf(reads)) ELSE lastBackupStatus(reads)

generateReport(reads) ==
    LET rows == backupJobTasks(reads)
    IN  [rows |-> rows, status |-> reportBackupStatus(rows, reads)]

\* What can fail while the report is built: at most one endpoint, or the task
\* list both times it is asked for.
AllRead == [tasks |-> TRUE, again |-> TRUE, logs |-> TRUE, files |-> TRUE, exit |-> TRUE]
Reads == {AllRead} \cup IF ~bound.fails THEN {}
         ELSE {[AllRead EXCEPT !.tasks = FALSE, !.again = FALSE]}
              \cup {[AllRead EXCEPT ![k] = FALSE] : k \in {"tasks", "logs", "files", "exit"}}

-----------------------------------------------------------------------------
\* The schedule (internal/domain/schedule.go).
VMScheduledForDay(c, d) == c.on /\ Weekday(d) \in c.days
configured == {v \in VMs : vmCfg[v].on}
HasActiveVMBackupConfigs == \E v \in configured : ~vmCfg[v].excl /\ vmCfg[v].days # {}
noVMsConfirmed == inv = "none"
PVEStaleSuppressed ==
    \/ alertCfg.stale = "off"
    \/ noVMsConfirmed
    \/ configured # {} /\ ~HasActiveVMBackupConfigs

expected == UNION {vmCfg[v].days : v \in {u \in configured : ~vmCfg[u].excl}}
expectedFinishFromAlertConfig == IF alertCfg.finish # Unset THEN alertCfg.finish ELSE Finish
Cutoff(d) == Start(d + 1) + expectedFinishFromAlertConfig
IsStale(at) == Day(at) # Day(now)

\* isStaleForConfigsAt: the most recent expected day whose window has closed.
Lookback == 2 * Week
isStaleForToday(at) == IsStale(at)   \* mutant: the schedule is not looked at
isStaleForConfigsAt(at) ==
    LET closed == {i \in 1..Lookback : Weekday(Day(now) - i) \in expected /\ now >= Cutoff(Day(now) - i)}
    IN  CASE expected = {} -> FALSE
          [] expected # {} /\ closed # {} -> at < Start(Day(now) - Min(closed))
          [] OTHER -> IsStale(at)
IsStaleForLoadedPVEConfig(at) == ~PVEStaleSuppressed /\ isStaleForConfigsAt(at)

-----------------------------------------------------------------------------
\* The evaluators (internal/service/alertengine.go).  An alert is its type and
\* the VM, or Server, it is about.
pveBackupStatusAlertable(s) == s \notin {"", "OK", "WARN"}
resolveBackupErr(v) ==
    CASE v # Server /\ v \in DOMAIN alertCfg.vmErr /\ alertCfg.vmErr[v] # "unset" -> alertCfg.vmErr[v] = "on"
      [] OTHER -> IF alertCfg.err # "unset" THEN alertCfg.err = "on" ELSE alertCfg.globalErr
pveVMBackupExcluded(v) == vmCfg[v].on /\ vmCfg[v].excl
reported == rep # NoReport
BackupsWatched == reported /\ (configured = {} \/ HasActiveVMBackupConfigs)

evalPVEDisk ==
    IF Threshold(alertCfg.disk) # 0 /\ reported /\ rep.disk >= Threshold(alertCfg.disk) THEN {<<"disk", Server>>} ELSE {}

serverStatusAlert ==
    IF pveBackupStatusAlertable(rep.status) /\ resolveBackupErr(Server) THEN {<<"backup_error", Server>>} ELSE {}
evalPVEBackupErrors ==
    IF ~BackupsWatched THEN {}
    ELSE LET failed == {r.vm : r \in {x \in rep.rows : pveBackupStatusAlertable(x.status)}}
         IN  {<<"backup_error", v>> : v \in {u \in failed : ~pveVMBackupExcluded(u) /\ resolveBackupErr(u)}}
             \cup (IF failed = {} THEN serverStatusAlert ELSE {})

evalPVEBackupSize ==
    IF ~BackupsWatched THEN {}
    ELSE {<<"backup_size", r.vm>> : r \in {x \in rep.rows : /\ ~pveVMBackupExcluded(x.vm)
                                                           /\ x.vm \in alertCfg.minSize /\ ~x.file}}

evalPVEMissingVM ==
    IF ~reported \/ rep.rows = {} \/ configured = {} THEN {}
    ELSE LET seen == {r.vm : r \in rep.rows}
             first == CHOOSE r \in rep.rows : r.vm = Min(seen)
         IN  {<<"pve_missing_vm", v>> : v \in {u \in configured \ seen :
                  ~vmCfg[u].excl /\ VMScheduledForDay(vmCfg[u], Day(first.start))}}

evalPVEUnknownVM ==
    IF ~reported \/ configured = {} THEN {}
    ELSE {<<"pve_unknown_vm", v>> : v \in {r.vm : r \in rep.rows} \ configured}

evalPVEStale ==
    IF PVEStaleSuppressed THEN {}
    ELSE IF ~reported \/ IsStaleForLoadedPVEConfig(rep.at) THEN {<<"pve_stale", Server>>} ELSE {}

evalPVEHeartbeat == heartbeat("pve_heartbeat")

pveAlerts == evalPVEDisk \cup evalPVEBackupErrors \cup evalPVEBackupSize \cup evalPVEMissingVM
          \cup evalPVEUnknownVM \cup evalPVEStale \cup evalPVEHeartbeat \cup evalHostSwap(alertCfg.swap, rep.swap, rep.at)
-----------------------------------------------------------------------------
PVEInit ==
    /\ tasks = {} /\ files = {}
    /\ \E c \in IF bound.kind = "pve" THEN bound.cfgs ELSE {[v \in VMs |-> "absent"]} : vmCfg = [v \in VMs |->
           CASE c[v] = "absent" -> Absent
             [] c[v] = "active" -> [on |-> TRUE, excl |-> FALSE, days |-> Default]
             [] c[v] = "excluded" -> [on |-> TRUE, excl |-> TRUE, days |-> Weekdays]]
    /\ inv = IF \E v \in VMs : vmCfg[v].on THEN "some" ELSE "unknown"
    /\ alertCfg = [stale |-> "unset", swap |-> "unset", err |-> "unset", globalErr |-> TRUE,
                   disk |-> Unset, finish |-> Unset, vmErr |-> [v \in VMs |-> "unset"], minSize |-> VMs]
    /\ rep = NoReport

\* The node ends a vzdump task: of one VM, of several, or one that failed
\* before it started any.
LogOf(out) == [started |-> DOMAIN out, failed |-> {v \in DOMAIN out : out[v] = "fail"},
               finished |-> {v \in DOMAIN out : out[v] \in {"ok", "warn"}}, jobError |-> DOMAIN out = {}]
StatusOf(out) ==
    LET with(o) == \E v \in DOMAIN out : out[v] = o
    IN  CASE with("cut") -> "ERR"
          [] ~with("cut") /\ (DOMAIN out = {} \/ with("fail")) -> "GEN"
          [] OTHER -> IF with("warn") THEN "WARN" ELSE "OK"
Vzdump(vm, start, out) ==
    /\ Cardinality(tasks) < bound.tasks /\ reports < bound.reports   \* nobody reads a later task
    /\ tasks' = tasks \cup {[id |-> Cardinality(tasks), vm |-> vm, start |-> start, end |-> now,
                              status |-> StatusOf(out), log |-> LogOf(out)]}
    /\ files' = files \cup {[vm |-> v, at |-> IF v = Min(DOMAIN out) THEN start ELSE now]
                               : v \in LogOf(out).finished}
    /\ UNCHANGED <<vmCfg, inv, alertCfg, rep>> /\ UNCHANGED hostVars
RunBackup ==
    \E start \in {now, now - 1} : start >= 0 /\
        \/ \E v \in VMs, o \in Outcomes : Vzdump(v, start, [u \in {v} |-> o])
        \/ \E V \in SUBSET VMs : \E out \in [V -> Outcomes] : Vzdump(Server, start, out)

\* The rows of a report: itself, its storage and its tasks.
insertPVEReportWithSwap(r, swap) == [NoReport EXCEPT !.at = now, !.status = r.status, !.swap = swap]
insertPVEStorageInfo(p, disk) == [p EXCEPT !.disk = disk]
insertPVEBackupTask(p, r) == [p EXCEPT !.rows = r.rows]

\* InsertPVEReportData stores them in one transaction.  The history with them
\* is what was read, and the tasks there were.
InsertPVEReportData(reads, disk, swap) ==
    LET r == generateReport(reads) IN
    /\ Report
    /\ rep' = [insertPVEBackupTask(insertPVEStorageInfo(insertPVEReportWithSwap(r, swap), disk), r)
                   EXCEPT !.reads = reads, !.full = IF reads = AllRead THEN tasks ELSE {}]
    /\ Received(swap) /\ heard' = now
    /\ UNCHANGED <<tasks, files, vmCfg, inv, alertCfg, hb>>

PVEEdit == Edit /\ UNCHANGED <<tasks, files, rep>>

\* The statements behind the edits.  A second row for a VM breaks an index.
CreateVMBackupConfigForServer(v, days) == [vmCfg EXCEPT ![v] = [on |-> TRUE, excl |-> FALSE, days |-> days]]
UpdateVMBackupConfigForServer(v, days) == IF vmCfg[v].on THEN [vmCfg EXCEPT ![v].days = days] ELSE vmCfg
ToggleVMExcludeForServer(v) == IF vmCfg[v].on THEN [vmCfg EXCEPT ![v].excl = ~@] ELSE vmCfg
DeleteVMBackupConfigForServer(v) == [vmCfg EXCEPT ![v] = Absent]
UpsertPVEAlertConfig(stale, err, swap, disk, finish) ==
    [alertCfg EXCEPT !.stale = stale, !.err = err, !.swap = swap, !.disk = disk, !.finish = finish]
UpsertPVEVMAlertConfig(v, err, min) ==
    [alertCfg EXCEPT !.vmErr[v] = err, !.minSize = IF min THEN @ \cup {v} ELSE @ \ {v}]
DeletePVEVMAlertConfig(v) == [alertCfg EXCEPT !.vmErr[v] = "unset", !.minSize = @ \ {v}]

\* The backup configuration, edited in the web UI or through the client's key.
CreateVMConfig(v, days) ==
    /\ PVEEdit /\ ~vmCfg[v].on
    /\ vmCfg' = CreateVMBackupConfigForServer(v, days) /\ inv' = "some" /\ UNCHANGED alertCfg
UpdateVMConfig(v, days) ==
    /\ PVEEdit
    /\ vmCfg' = UpdateVMBackupConfigForServer(v, days) /\ inv' = "some" /\ UNCHANGED alertCfg
DeleteVMConfig(v) == PVEEdit /\ vmCfg' = DeleteVMBackupConfigForServer(v) /\ UNCHANGED <<inv, alertCfg>>
ToggleVMExclude(v) == PVEEdit /\ vmCfg' = ToggleVMExcludeForServer(v) /\ UNCHANGED <<inv, alertCfg>>
UpdateBackupInventory(has) ==
    /\ PVEEdit /\ inv' = (IF has THEN "some" ELSE "none") /\ UNCHANGED <<vmCfg, alertCfg>>

\* The thresholds of the server and of a VM; an empty form field is "unset",
\* and a form with nothing in it deletes the VM's row.
PVEAlertConfigPost(stale, err, swap, disk, finish) ==
    PVEEdit /\ alertCfg' = UpsertPVEAlertConfig(stale, err, swap, disk, finish) /\ UNCHANGED <<vmCfg, inv>>
PVEVMAlertConfigPost(v, err, min) ==
    /\ PVEEdit
    /\ alertCfg' = IF err = "unset" /\ ~min THEN DeletePVEVMAlertConfig(v) ELSE UpsertPVEVMAlertConfig(v, err, min)
    /\ UNCHANGED <<vmCfg, inv>>
GlobalBackupErr(on) ==
    /\ PVEEdit /\ alertCfg' = [alertCfg EXCEPT !.globalErr = on] /\ UNCHANGED <<vmCfg, inv>>

EditBackupConfig ==
    \/ \E v \in VMs, days \in SUBSET Weekdays : CreateVMConfig(v, days) \/ UpdateVMConfig(v, days)
    \/ \E v \in VMs : DeleteVMConfig(v) \/ ToggleVMExclude(v)
    \/ \E has \in BOOLEAN : UpdateBackupInventory(has)
EditAlertConfig ==
    \/ \E stale, swap \in {"unset", "off"}, err \in Override, disk \in {Unset, 0}, finish \in {Unset, 0} :
           PVEAlertConfigPost(stale, err, swap, disk, finish)
    \/ \E v \in VMs, err \in Override, min \in BOOLEAN : PVEVMAlertConfigPost(v, err, min)
    \/ \E on \in BOOLEAN : GlobalBackupErr(on)

PVENext ==
    /\ bound.kind = "pve"
    /\ \/ RunBackup
       \/ \E reads \in Reads, disk \in bound.disks, swap \in bound.swaps : InsertPVEReportData(reads, disk, swap)
       \/ EditBackupConfig
       \/ EditAlertConfig

-----------------------------------------------------------------------------
\* Every variable has its type.
PVETypeOK ==
    /\ \A t \in tasks : t.start <= t.end /\ t.end <= now
    /\ vmCfg \in [VMs -> [on : BOOLEAN, excl : BOOLEAN, days : SUBSET Weekdays]]
    /\ inv \in {"unknown", "none", "some"}
    /\ alertCfg \in [stale : Override, swap : Override, err : Override, globalErr : BOOLEAN, disk : Int, finish : Int,
                      vmErr : [VMs -> Override], minSize : SUBSET VMs]
    /\ rep = NoReport \/ (rep.at \in 0..now /\ rep.status \in {"OK", "WARN", "GEN", "ERR", "ERROR", "stopped"})

\* The outcome of VM v in the newest task that covers it in the last job.
Covers(t, v) == v \in t.log.started
OneKind(job) == \A t, u \in job : t.vm = Server => t = u
FailedIn(job, v) ==
    LET of == {t \in job : Covers(t, v)}
    IN  of # {} /\ (v \in Newest(of).log.failed \/ v \notin Newest(of).log.finished)

\* A VM that failed in the last job, as the report that followed could read it,
\* has an alert of its own, unless it is excluded or its errors are not wanted.
\* The job was recorded either as one task or as one task per VM
\* (client/pve.go:118, internal/service/alertengine.go:385).
VMFailureAlerts ==
    (rep # NoReport /\ rep.reads = AllRead /\ rep.full # {}) =>
        LET job == LastJob(rep.full) IN
        \A v \in VMs :
            (/\ OneKind(job) /\ FailedIn(job, v) /\ ~pveVMBackupExcluded(v) /\ resolveBackupErr(v)
             /\ (configured = {} \/ HasActiveVMBackupConfigs))
            => <<"backup_error", v>> \in pveAlerts

\* A backup error names a VM only if a task of the last job started it and
\* never said it finished, or a whole task failed, and the server only if a task of that job failed or
\* the node has none (client/pve.go:496, internal/service/alertengine.go:387).
ErrorsAreFounded ==
    \A v \in VMs \cup {Server} :
        (<<"backup_error", v>> \in pveAlerts /\ rep.reads = AllRead) =>
            IF v = Server THEN rep.full = {} \/ \E t \in LastJob(rep.full) : t.status \notin {"OK", "WARN"}
            ELSE \E t \in LastJob(rep.full) : t.log.jobError \/ (Covers(t, v) /\ v \notin t.log.finished)

\* A node that would not list its tasks is not silent: the report that is sent
\* all the same says ERROR and raises the server's alert
\* (backupJobTasks and lastBackupStatus, client/pve.go:124).
UnreadNodeAlerts ==
    (reported /\ ~rep.reads.tasks /\ ~rep.reads.again /\ BackupsWatched /\ resolveBackupErr(Server))
        => <<"backup_error", Server>> \in pveAlerts

\* What goes wrong on the node reaches an alert, and so does not knowing.
FailureReachesAlert == VMFailureAlerts /\ UnreadNodeAlerts

\* An excluded VM raises nothing of its own, whatever its backups do
\* (pveVMBackupExcluded, internal/service/alertengine.go:1322).
ExcludedIsSilent ==
    \A v \in VMs : pveVMBackupExcluded(v) => \A a \in pveAlerts : a[2] # v

\* No alarm without its cause, and none that nobody wants.
AlarmsAreFounded == ErrorsAreFounded /\ ExcludedIsSilent

\* "Sin reporte" is raised exactly when a scheduled day ended, its window
\* closed the next morning, and no report has arrived since that day began;
\* the code only looks at the last Lookback days (internal/service/report.go:245).
StaleMatchesSchedule ==
    (reported /\ expected # {} /\ ~PVEStaleSuppressed) =>
        LET missed == {d \in (Day(now) - 3 * Week)..Day(now) :
                          /\ \E v \in configured : ~vmCfg[v].excl /\ VMScheduledForDay(vmCfg[v], d)
                          /\ Cutoff(d) <= now /\ rep.at < Start(d)}
        IN  (<<"pve_stale", Server>> \in pveAlerts) <=> (missed # {})
=============================================================================
