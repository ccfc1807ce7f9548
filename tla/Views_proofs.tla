---------------------------- MODULE Views_proofs ----------------------------
(***************************************************************************)
(* Proofs about what people are shown of a monitored host: for any VMs,    *)
(* groups, jobs, volumes, limits and scenarios, the daily mail and the     *)
(* pages tell the same as the alerts.                                      *)
(***************************************************************************)
EXTENDS Views, Monitor_proofs

-----------------------------------------------------------------------------
(***************************************************************************)
(* What is stored, as far as the mail and the pages need it: the rows of a *)
(* report name VMs and have a status that is known, whatever of the node   *)
(* could be read, and every stored list is finite.                         *)
(***************************************************************************)
RowsKnown == \A r \in rep.rows : r.vm \in VMs /\ r.status \in Statuses
TasksFinite == IsFiniteSet(pbsRep.tasks)

LEMMA ViewStart ==
  ASSUME Init
  PROVE  RowsKnown /\ TasksFinite
<1>1. rep = NoReport /\ pbsRep = NoPBSReport
  BY DEF Init, PVEInit, PBSInit
<1>2. rep.rows = {} /\ pbsRep.tasks = {}
  BY <1>1 DEF NoReport, NoPBSReport
<1> QED BY <1>2, FS_EmptySet DEF RowsKnown, TasksFinite

LEMMA RowsStep ==
  ASSUME VzInv, RowsKnown, [Next]_vars
  PROVE  RowsKnown'
<1>0. CASE UNCHANGED rep
  BY <1>0 DEF RowsKnown
<1>1. CASE ~PVENext
  BY <1>0, <1>1 DEF Next, vars, pveVars
<1>2. CASE RunBackup
  BY <1>0, <1>2 DEF RunBackup, Vzdump
<1>3. CASE EditBackupConfig
  BY <1>0, <1>3 DEF EditBackupConfig, CreateVMConfig, UpdateVMConfig, DeleteVMConfig, ToggleVMExclude, UpdateBackupInventory, PVEEdit
<1>4. CASE EditAlertConfig
  BY <1>0, <1>4 DEF EditAlertConfig, PVEAlertConfigPost, PVEVMAlertConfigPost, GlobalBackupErr, PVEEdit
<1>5. ASSUME NEW reads, NEW disk, NEW swap, InsertPVEReportData(reads, disk, swap)
      PROVE  RowsKnown'
  <2>1. rep'.rows = backupJobTasks(reads)
    BY <1>5, StoredPVE DEF generateReport
  <2> QED BY <2>1, AnyRows DEF VzInv, RowsKnown
<1> QED BY <1>1, <1>2, <1>3, <1>4, <1>5 DEF PVENext

LEMMA FiniteImage ==
  ASSUME NEW S, IsFiniteSet(S), NEW f
  PROVE  IsFiniteSet({f[x] : x \in S})
<1> DEFINE T == {f[x] : x \in S}
           g == [x \in S |-> f[x]]
<1>1. g \in Surjection(S, T)
  BY DEF Surjection
<1> HIDE DEF T, g
<1>2. IsFiniteSet(T)
  BY <1>1, FS_Surjection
<1> QED BY <1>2 DEF T

\* A report carries at most one task of each job that the backup server ran.
LEMMA ReportedTasksFinite ==
  ASSUME TaskInv, NEW reads
  PROVE  IsFiniteSet(maintenanceTasks(reads))
<1> DEFINE jobs == {t.job : t \in pbsTasks}
           newest == {latest({t \in pbsTasks : t.job = j}) : j \in jobs}
           told == {u \in newest : exitStatus(u, reads) \notin {"", "stopped"}}
           rows == {[job |-> t.job, status |-> exitStatus(t, reads)] : t \in told}
<1>1. IsFiniteSet(jobs)
  <2> DEFINE f == [t \in pbsTasks |-> t.job]
  <2>1. jobs = {f[t] : t \in pbsTasks} /\ IsFiniteSet(pbsTasks)
    BY DEF TaskInv, TaskTypes
  <2> HIDE DEF f, jobs
  <2> QED BY <2>1, FiniteImage
<1>2. IsFiniteSet(newest)
  <2> DEFINE f == [j \in jobs |-> latest({t \in pbsTasks : t.job = j})]
  <2>1. newest = {f[j] : j \in jobs}
    OBVIOUS
  <2> HIDE DEF f, jobs, newest
  <2> QED BY <1>1, <2>1, FiniteImage
<1>3. IsFiniteSet(told)
  <2> HIDE DEF newest
  <2> QED BY <1>2, FS_Subset
<1>4. IsFiniteSet(rows)
  <2> DEFINE f == [t \in told |-> [job |-> t.job, status |-> exitStatus(t, reads)]]
  <2>1. rows = {f[t] : t \in told}
    OBVIOUS
  <2> HIDE DEF f, told, rows
  <2> QED BY <1>3, <2>1, FiniteImage
<1>5. maintenanceTasks(reads) = IF ~reads.tasks THEN {} ELSE rows
  BY DEF maintenanceTasks
<1> QED BY <1>4, <1>5, FS_EmptySet

LEMMA TasksStep ==
  ASSUME TaskInv, TasksFinite, [Next]_vars
  PROVE  TasksFinite'
<1>0. CASE UNCHANGED pbsRep
  BY <1>0 DEF TasksFinite
<1>1. CASE ~PBSNext
  BY <1>0, <1>1 DEF Next, vars, pbsVars
<1>2. ASSUME NEW reads, NEW disk, NEW full, NEW swap, InsertPBSReportData(reads, disk, full, swap)
      PROVE  TasksFinite'
  <2>1. pbsRep'.tasks = maintenanceTasks(reads)
    BY <1>2, StoredPBS DEF pbsReport
  <2> QED BY <2>1, ReportedTasksFinite DEF TasksFinite
<1> QED BY <1>0, <1>1, <1>2 DEF PBSNext, StartTask, EndTask, Verify, PBSAlertConfigPost

\* The state that the mail and the pages are worked out from.
Shown ==
    /\ SignalTypes /\ WinTypes /\ TokenInv /\ TaskInv /\ GroupsReported /\ JobsReported
    /\ VzInv /\ CfgTypes /\ ClockTypes /\ RowsKnown /\ TasksFinite

LEMMA ShownInvariant == Spec => []Shown
<1>1. Init => Shown
  BY SignalsStart, VolumesStart, TaskStart, VzStart, CfgStart, ClockStart, ViewStart DEF Shown
<1>2. Shown /\ [Next]_vars => Shown'
  BY SignalsTyped, VolumesStep, TaskStep, ReportedStep, VzStep, CfgStep, ClockStep, RowsStep, TasksStep DEF Shown
<1> QED BY <1>1, <1>2, PTL DEF Spec

-----------------------------------------------------------------------------
(***************************************************************************)
(* The alerts of a host: each is a type and what it is about, each type is *)
(* the work of one evaluator, and there are finitely many.                 *)
(***************************************************************************)
PVETypes == {"disk", "backup_error", "backup_size", "pve_missing_vm", "pve_unknown_vm", "pve_stale", "pve_heartbeat", "swap"}
PBSTypes == {"pbs_report_stale", "pbs_heartbeat", "disk", "pbs_fill", "pbs_verify", "pbs_sync_failed", "pbs_gc_failed", "swap"}
WinAlertTypes == {"disk", "windows_disk_health", "windows_volume_missing", "windows_heartbeat"}
evalPVESwap == evalHostSwap(alertCfg.swap, rep.swap, rep.at)
evalPBSSwap == evalHostSwap(pbsCfg.swap, pbsRep.swap, pbsRep.at)

LEMMA MissingAlert ==
  ASSUME NEW a \in evalPVEMissingVM
  PROVE  \E u \in configured : a = <<"pve_missing_vm", u>>
  BY DEF evalPVEMissingVM

LEMMA VerifyAlert ==
  ASSUME NEW a \in evalPBSVerify
  PROVE  \E r \in pbsRep.groups : a = <<"pbs_verify", r.group>>
<1>1. pbsCfg.verify
  BY DEF evalPBSVerify
<1>2. a \in {<<"pbs_verify", r.group>> : r \in {x \in pbsRep.groups : x.state \notin {"", "ok"}}}
  BY <1>1, Zenon DEF evalPBSVerify
<1> QED BY <1>2

LEMMA PVEOrigins ==
  ASSUME NEW a \in pveAlerts
  PROVE  \/ a[1] = "disk" /\ a \in evalPVEDisk
         \/ a[1] = "backup_error" /\ a \in evalPVEBackupErrors
         \/ a[1] = "backup_size" /\ a \in evalPVEBackupSize
         \/ a[1] = "pve_missing_vm" /\ a \in evalPVEMissingVM
         \/ a[1] = "pve_unknown_vm" /\ a \in evalPVEUnknownVM
         \/ a[1] = "pve_stale" /\ a \in evalPVEStale
         \/ a[1] = "pve_heartbeat" /\ a \in evalPVEHeartbeat
         \/ a[1] = "swap" /\ a \in evalPVESwap
<1>1. a \in evalPVEDisk => a[1] = "disk"
  BY DEF evalPVEDisk
<1>2. a \in evalPVEBackupErrors => a[1] = "backup_error"
  BY DEF evalPVEBackupErrors, serverStatusAlert
<1>3. a \in evalPVEBackupSize => a[1] = "backup_size"
  BY DEF evalPVEBackupSize
<1>4. a \in evalPVEMissingVM => a[1] = "pve_missing_vm"
  BY MissingAlert
<1>5. a \in evalPVEUnknownVM => a[1] = "pve_unknown_vm"
  BY DEF evalPVEUnknownVM
<1>6. a \in evalPVEStale => a[1] = "pve_stale"
  BY DEF evalPVEStale
<1>7. a \in evalPVEHeartbeat => a[1] = "pve_heartbeat"
  BY DEF evalPVEHeartbeat, heartbeat
<1>8. a \in evalPVESwap => a[1] = "swap"
  BY DEF evalPVESwap, evalHostSwap
<1> QED BY <1>1, <1>2, <1>3, <1>4, <1>5, <1>6, <1>7, <1>8, Zenon DEF pveAlerts, evalPVESwap

LEMMA PBSOrigins ==
  ASSUME NEW a \in pbsAlerts
  PROVE  \/ a[1] = "pbs_report_stale" /\ a \in evalPBSReportStale
         \/ a[1] = "pbs_heartbeat" /\ a \in evalPBSHeartbeat
         \/ a[1] = "disk" /\ a \in evalPBSDisk
         \/ a[1] = "pbs_fill" /\ a \in evalPBSFill
         \/ a[1] = "pbs_verify" /\ a \in evalPBSVerify
         \/ a[1] \in {"pbs_sync_failed", "pbs_gc_failed"} /\ a \in evalPBSTaskFailures
         \/ a[1] = "swap" /\ a \in evalPBSSwap
<1>1. a \in evalPBSReportStale => a[1] = "pbs_report_stale"
  BY DEF evalPBSReportStale
<1>2. a \in evalPBSHeartbeat => a[1] = "pbs_heartbeat"
  BY DEF evalPBSHeartbeat, heartbeat
<1>3. a \in evalPBSDisk => a[1] = "disk"
  BY DEF evalPBSDisk
<1>4. a \in evalPBSFill => a[1] = "pbs_fill"
  BY DEF evalPBSFill
<1>5. a \in evalPBSVerify => a[1] = "pbs_verify"
  BY VerifyAlert
<1>6. a \in evalPBSTaskFailures => a[1] \in {"pbs_sync_failed", "pbs_gc_failed"}
  BY DEF evalPBSTaskFailures, pbsTaskFailureAlert
<1>7. a \in evalPBSSwap => a[1] = "swap"
  BY DEF evalPBSSwap, evalHostSwap
<1> QED BY <1>1, <1>2, <1>3, <1>4, <1>5, <1>6, <1>7, Zenon DEF pbsAlerts, evalPBSSwap

LEMMA WindowsOrigins ==
  ASSUME NEW a \in windowsAlerts
  PROVE  \/ a[1] = "disk" /\ a \in evalWindowsDisk
         \/ a[1] = "windows_disk_health" /\ a \in evalWindowsDiskHealth
         \/ a[1] = "windows_volume_missing" /\ a \in evalWindowsMissingVolume
         \/ a[1] = "windows_heartbeat" /\ a \in evalWindowsHeartbeat
<1>1. a \in evalWindowsDisk => a[1] = "disk"
  BY DEF evalWindowsDisk
<1>2. a \in evalWindowsDiskHealth => a[1] = "windows_disk_health"
  BY DEF evalWindowsDiskHealth
<1>3. a \in evalWindowsMissingVolume => a[1] = "windows_volume_missing"
  BY DEF evalWindowsMissingVolume
<1>4. a \in evalWindowsHeartbeat => a[1] = "windows_heartbeat"
  BY DEF evalWindowsHeartbeat
<1> QED BY <1>1, <1>2, <1>3, <1>4, Zenon DEF windowsAlerts

LEMMA FourAreFinite ==
  ASSUME NEW a, NEW b, NEW c, NEW d
  PROVE  IsFiniteSet({a, b, c, d})
<1>1. IsFiniteSet({a} \cup {b}) /\ IsFiniteSet({c} \cup {d})
  BY FS_Singleton, FS_Union
<1>2. IsFiniteSet(({a} \cup {b}) \cup ({c} \cup {d}))
  BY <1>1, FS_Union
<1>3. {a, b, c, d} = ({a} \cup {b}) \cup ({c} \cup {d})
  OBVIOUS
<1> QED BY <1>2, <1>3

\* Alerts of four plus four types about finitely many things.
LEMMA AlertsFinite ==
  ASSUME NEW A, NEW T, IsFiniteSet(T), NEW X, IsFiniteSet(X), \A a \in A : a \in T \X X
  PROVE  IsFiniteSet(A)
<1>1. IsFiniteSet(T \X X)
  BY FS_Product
<1>2. A \in SUBSET (T \X X)
  OBVIOUS
<1> QED BY <1>1, <1>2, FS_Subset

LEMMA TypesFinite == IsFiniteSet(PVETypes) /\ IsFiniteSet(PBSTypes) /\ IsFiniteSet(WinAlertTypes)
<1>1. /\ PVETypes = {"disk", "backup_error", "backup_size", "pve_missing_vm"} \cup {"pve_unknown_vm", "pve_stale", "pve_heartbeat", "swap"}
      /\ PBSTypes = {"pbs_report_stale", "pbs_heartbeat", "disk", "pbs_fill"} \cup {"pbs_verify", "pbs_sync_failed", "pbs_gc_failed", "swap"}
  BY DEF PVETypes, PBSTypes
<1> QED BY <1>1, FourAreFinite, FS_Union DEF WinAlertTypes

\* The alerts of every host are finitely many, so that counting them tells
\* whether there are any.
LEMMA RunAllFinite ==
  ASSUME Shown
  PROVE  IsFiniteSet(RunAll)
<1>1. IsFiniteSet(pveAlerts)
  <2> DEFINE X == VMs \cup {Server}
  <2>1. IsFiniteSet(X)
    BY HostsAssumption, FS_AddElement
  <2>2. ASSUME NEW a \in pveAlerts
        PROVE  a \in PVETypes \X X
    <3>1. \A r \in rep.rows : r.vm \in VMs
      BY DEF Shown, RowsKnown
    <3>2. configured \subseteq VMs
      BY DEF configured
    <3>3. a \in evalPVEDisk => a \in PVETypes \X X
      BY DEF evalPVEDisk, PVETypes
    <3>4. a \in evalPVEBackupErrors => a \in PVETypes \X X
      BY <3>1 DEF evalPVEBackupErrors, serverStatusAlert, PVETypes
    <3>5. a \in evalPVEBackupSize => a \in PVETypes \X X
      BY <3>1 DEF evalPVEBackupSize, PVETypes
    <3>6. a \in evalPVEMissingVM => a \in PVETypes \X X
      BY <3>2, MissingAlert DEF PVETypes
    <3>7. a \in evalPVEUnknownVM => a \in PVETypes \X X
      BY <3>1 DEF evalPVEUnknownVM, PVETypes
    <3>8. a \in evalPVEStale \cup evalPVEHeartbeat \cup evalPVESwap => a \in PVETypes \X X
      BY DEF evalPVEStale, evalPVEHeartbeat, heartbeat, evalPVESwap, evalHostSwap, PVETypes
    <3> HIDE DEF X
    <3> QED BY <3>3, <3>4, <3>5, <3>6, <3>7, <3>8, PVEOrigins, Zenon
  <2> HIDE DEF X
  <2> QED BY <2>1, <2>2, TypesFinite, AlertsFinite
<1>2. IsFiniteSet(pbsAlerts)
  <2> DEFINE f == [t \in pbsRep.tasks |-> t.job[2]]
             J == {f[t] : t \in pbsRep.tasks}
             X == ({Server} \cup {Store}) \cup (Groups \cup J)
  <2>1. IsFiniteSet(J)
    <3> HIDE DEF f
    <3> QED BY FiniteImage DEF Shown, TasksFinite
  <2>2. IsFiniteSet(Groups \cup J)
    <3> HIDE DEF J
    <3> QED BY <2>1, PBSAssumption, FS_Union
  <2>3. IsFiniteSet({Server} \cup {Store})
    BY FS_Singleton, FS_Union
  <2>4. IsFiniteSet(X)
    <3> HIDE DEF J
    <3> QED BY <2>2, <2>3, FS_Union
  <2>5. ASSUME NEW a \in pbsAlerts
        PROVE  a \in PBSTypes \X X
    <3>1. \A r \in pbsRep.groups : r.group \in Groups
      <4>1. pbsRep = NoPBSReport => pbsRep.groups = {}
        BY DEF NoPBSReport
      <4> QED BY <4>1 DEF Shown, GroupsReported
    <3>2. \A t \in pbsRep.tasks : t.job[2] \in J
      OBVIOUS
    <3> HIDE DEF J
    <3>3. a \in evalPBSVerify => a \in PBSTypes \X X
      BY <3>1, VerifyAlert DEF PBSTypes
    <3>4. a \in evalPBSTaskFailures => a \in PBSTypes \X X
      BY <3>2 DEF evalPBSTaskFailures, pbsTaskFailureAlert, PBSTypes
    <3>5. a \in evalPBSReportStale \cup evalPBSHeartbeat \cup evalPBSDisk \cup evalPBSFill \cup evalPBSSwap => a \in PBSTypes \X X
      BY DEF evalPBSReportStale, evalPBSHeartbeat, heartbeat, evalPBSDisk, evalPBSFill, evalPBSSwap, evalHostSwap, PBSTypes
    <3> HIDE DEF X
    <3> QED BY <3>3, <3>4, <3>5, PBSOrigins, Zenon
  <2> HIDE DEF X
  <2> QED BY <2>4, <2>5, TypesFinite, AlertsFinite
<1>3. IsFiniteSet(windowsAlerts)
  <2> DEFINE X == Volumes \cup {Server}
  <2>1. IsFiniteSet(X)
    BY WindowsAssumption, FS_AddElement
  <2>2. DOMAIN current \subseteq Volumes
    <3>1. CASE winReps = <<>>
      BY <3>1 DEF current
    <3>2. CASE winReps # <<>>
      <4>1. winReps[Len(winReps)] \in WinReport
        BY <3>2 DEF Shown, WinTypes
      <4> QED BY <3>2, <4>1, DriveDomain DEF current, WinReport
    <3> QED BY <3>1, <3>2
  <2>3. Len(winReps) >= 2 => DOMAIN previous \subseteq Volumes
    <3>1. Len(winReps) >= 2 => winReps[Len(winReps) - 1] \in WinReport
      BY DEF Shown, WinTypes
    <3> QED BY <3>1, DriveDomain DEF previous, WinReport
  <2>4. Len(winReps) \in Nat
    BY DEF Shown, WinTypes
  <2>5. ASSUME NEW a \in windowsAlerts
        PROVE  a \in WinAlertTypes \X X
    <3>1. a \in evalWindowsDisk => a \in WinAlertTypes \X X
      BY <2>2 DEF evalWindowsDisk, WinAlertTypes
    <3>2. a \in evalWindowsDiskHealth => a \in WinAlertTypes \X X
      BY <2>2 DEF evalWindowsDiskHealth, WinAlertTypes
    <3>3. a \in evalWindowsMissingVolume => a \in WinAlertTypes \X X
      BY <2>3, <2>4 DEF evalWindowsMissingVolume, WinAlertTypes
    <3>4. a \in evalWindowsHeartbeat => a \in WinAlertTypes \X X
      BY DEF evalWindowsHeartbeat, WinAlertTypes
    <3> HIDE DEF X
    <3> QED BY <3>1, <3>2, <3>3, <3>4, WindowsOrigins, Zenon
  <2> HIDE DEF X
  <2> QED BY <2>1, <2>5, TypesFinite, AlertsFinite
<1>4. bound.kind \in {"pve", "pbs", "windows"}
  BY DEF Shown, SignalTypes, Scenario
<1> QED BY <1>1, <1>2, <1>3, <1>4 DEF RunAll

-----------------------------------------------------------------------------
(***************************************************************************)
(* The lists of hosts.                                                     *)
(***************************************************************************)
HasType(type) == \E a \in RunAll : a[1] = type
Named(type) == {a[2] : a \in {b \in RunAll : b[1] = type}}

LEMMA Seconds ==
  ASSUME NEW type, NEW T, NEW E, \A a : a \in E <=> \E v \in T : a = <<type, v>>
  PROVE  T = {a[2] : a \in E}
<1>1. ASSUME NEW x \in T
      PROVE  x \in {a[2] : a \in E}
  <2>1. PICK a : a = <<type, x>>
    OBVIOUS
  <2>2. a \in E /\ a[2] = x
    BY <2>1
  <2> QED BY <2>2
<1>2. ASSUME NEW a \in E
      PROVE  a[2] \in T
  <2>1. PICK v \in T : a = <<type, v>>
    OBVIOUS
  <2> QED BY <2>1
<1> QED BY <1>1, <1>2

LEMMA NothingReported ==
  ASSUME ~reported
  PROVE  rep.rows = {} /\ rep.at = Unset
<1>1. rep = NoReport
  BY DEF reported
<1> QED BY <1>1 DEF NoReport

\* The row of the host with nothing silenced.
PVEList == PVEServers(RunAll, {}, FALSE)
LEMMA ListFields ==
  /\ PVEList.missing = ListMissing
  /\ PVEList.stale = IF reported THEN IsStaleForLoadedPVEConfig(rep.at) ELSE ~PVEStaleSuppressed
  /\ PVEList.swap = buildPVESwapListView({})
  /\ PVEList.status = (IF reported /\ ~(noVMsConfirmed \/ (configured # {} /\ ~HasActiveVMBackupConfigs))
                        THEN PVEBackupStatusSummary ELSE "")
  /\ PVEList.unknown = IF reported /\ configured # {} THEN {r.vm : r \in rep.rows} \ configured ELSE {}
  BY DEF PVEServers, PVEList

LEMMA MissingListed ==
  ASSUME bound.kind = "pve"
  PROVE  ListMissing = Named("pve_missing_vm") /\ PVEServerDetail.missing = ListMissing
<1>1. RunAll = pveAlerts
  BY DEF RunAll
<1>2. Named("pve_missing_vm") = {a[2] : a \in evalPVEMissingVM}
  <2>1. \A a : (a \in pveAlerts /\ a[1] = "pve_missing_vm") <=> a \in evalPVEMissingVM
    <3>1. \A a \in pveAlerts : a[1] = "pve_missing_vm" => a \in evalPVEMissingVM
      BY PVEOrigins
    <3>2. \A a \in evalPVEMissingVM : a \in pveAlerts /\ a[1] = "pve_missing_vm"
      BY MissingAlert DEF pveAlerts
    <3> QED BY <3>1, <3>2
  <2> QED BY <1>1, <2>1 DEF Named
<1>3. ~reported => rep.rows = {}
  BY NothingReported
<1>4. CASE ~reported \/ rep.rows = {} \/ configured = {}
  <2>1. evalPVEMissingVM = {} /\ missingRows = {}
    BY <1>3, <1>4 DEF evalPVEMissingVM, missingRows
  <2> QED BY <1>2, <2>1 DEF ListMissing, PVEServerDetail
<1>5. CASE ~(~reported \/ rep.rows = {} \/ configured = {})
  <2> DEFINE seen == {r.vm : r \in rep.rows}
             first == CHOOSE r \in rep.rows : r.vm = Min(seen)
             d == Day(first.start)
  <2>1. evalPVEMissingVM = {<<"pve_missing_vm", v>> : v \in {u \in configured \ seen :
                               ~vmCfg[u].excl /\ VMScheduledForDay(vmCfg[u], d)}}
    BY <1>5 DEF evalPVEMissingVM
  <2>2. missingRows = {v \in configured \ seen : VMScheduledForDay(vmCfg[v], d)}
    BY <1>5 DEF missingRows
  <2> HIDE DEF seen, d
  <2> DEFINE V == {u \in configured \ seen : ~vmCfg[u].excl /\ VMScheduledForDay(vmCfg[u], d)}
  <2>3. {a[2] : a \in evalPVEMissingVM} = V
    <3>1. \A a : a \in evalPVEMissingVM <=> \E v \in V : a = <<"pve_missing_vm", v>>
      BY <2>1
    <3> HIDE DEF V
    <3>2. V = {a[2] : a \in evalPVEMissingVM}
      BY <3>1, Seconds, Zenon
    <3> QED BY <3>2
  <2>4. {v \in missingRows : ~vmCfg[v].excl} = V
    BY <2>2
  <2> QED BY <1>2, <2>3, <2>4 DEF ListMissing, PVEServerDetail
<1> QED BY <1>4, <1>5

LEMMA UnknownListed ==
  ASSUME bound.kind = "pve"
  PROVE  PVEList.unknown = Named("pve_unknown_vm")
<1>1. RunAll = pveAlerts
  BY DEF RunAll
<1>2. \A a : (a \in pveAlerts /\ a[1] = "pve_unknown_vm") <=> a \in evalPVEUnknownVM
  <2>1. \A a \in pveAlerts : a[1] = "pve_unknown_vm" => a \in evalPVEUnknownVM
    BY PVEOrigins
  <2>2. \A a \in evalPVEUnknownVM : a \in pveAlerts /\ a[1] = "pve_unknown_vm"
    BY DEF pveAlerts, evalPVEUnknownVM
  <2> QED BY <2>1, <2>2
<1>3. Named("pve_unknown_vm") = {a[2] : a \in evalPVEUnknownVM}
  BY <1>1, <1>2 DEF Named
<1> DEFINE U == IF reported /\ configured # {} THEN {r.vm : r \in rep.rows} \ configured ELSE {}
<1>4. {a[2] : a \in evalPVEUnknownVM} = U
  <2>1. \A a : a \in evalPVEUnknownVM <=> \E v \in U : a = <<"pve_unknown_vm", v>>
    BY DEF evalPVEUnknownVM
  <2> HIDE DEF U
  <2>2. U = {a[2] : a \in evalPVEUnknownVM}
    BY <2>1, Seconds, Zenon
  <2> QED BY <2>2
<1>5. PVEList.unknown = U
  BY ListFields, Zenon
<1> QED BY <1>3, <1>4, <1>5

LEMMA StaleListed ==
  ASSUME bound.kind = "pve"
  PROVE  PVEList.stale = HasType("pve_stale")
<1>1. RunAll = pveAlerts
  BY DEF RunAll
<1>2. HasType("pve_stale") <=> evalPVEStale # {}
  <2>1. \A a \in pveAlerts : a[1] = "pve_stale" => a \in evalPVEStale
    BY PVEOrigins
  <2>2. \A a \in evalPVEStale : a \in pveAlerts /\ a[1] = "pve_stale"
    BY DEF pveAlerts, evalPVEStale
  <2> QED BY <1>1, <2>1, <2>2 DEF HasType
<1>3. evalPVEStale # {} <=> (~PVEStaleSuppressed /\ (~reported \/ IsStaleForLoadedPVEConfig(rep.at)))
  BY DEF evalPVEStale
<1>4. IsStaleForLoadedPVEConfig(rep.at) => ~PVEStaleSuppressed
  BY DEF IsStaleForLoadedPVEConfig
<1>5. IsStaleForLoadedPVEConfig(rep.at) \in BOOLEAN /\ PVEStaleSuppressed \in BOOLEAN /\ HasType("pve_stale") \in BOOLEAN
  BY DEF IsStaleForLoadedPVEConfig, PVEStaleSuppressed, HasType
<1>6. (IF reported THEN IsStaleForLoadedPVEConfig(rep.at) ELSE ~PVEStaleSuppressed) <=> HasType("pve_stale")
  BY <1>2, <1>3, <1>4
<1>7. PVEList.stale = IF reported THEN IsStaleForLoadedPVEConfig(rep.at) ELSE ~PVEStaleSuppressed
  BY ListFields, Zenon
<1> QED BY <1>5, <1>6, <1>7, Zenon

LEMMA ReportedAt ==
  ASSUME Shown
  PROVE  reported <=> rep.at # Unset
<1>1. ~reported => rep.at = Unset
  BY NothingReported
<1>2. rep.at \in Int /\ (rep = NoReport \/ 0 <= rep.at)
  BY DEF Shown, SignalTypes, ClockTypes
<1> QED BY <1>1, <1>2 DEF reported, Unset

LEMMA SwapListed ==
  ASSUME Shown, bound.kind = "pve"
  PROVE  (PVEList.swap = "bad") = HasType("swap")
<1>1. RunAll = pveAlerts
  BY DEF RunAll
<1>2. HasType("swap") <=> evalPVESwap # {}
  <2>1. \A a \in pveAlerts : a[1] = "swap" => a \in evalPVESwap
    BY PVEOrigins
  <2>2. \A a \in evalPVESwap : a \in pveAlerts /\ a[1] = "swap"
    BY DEF pveAlerts, evalPVESwap, evalHostSwap
  <2> QED BY <1>1, <2>1, <2>2 DEF HasType
<1>3. evalPVESwap # {} <=> (alertCfg.swap # "off" /\ currentHostSwap(rep.swap, rep.at))
  BY DEF evalPVESwap, evalHostSwap
<1>4. currentPVESwapView <=> currentHostSwap(rep.swap, rep.at)
  BY ReportedAt DEF currentPVESwapView, currentHostSwap
<1>5. (buildPVESwapListView({}) = "bad") <=> (currentPVESwapView /\ alertCfg.swap # "off")
  BY DEF buildPVESwapListView
<1>6. PVEList.swap = buildPVESwapListView({})
  BY ListFields, Zenon
<1> QED BY <1>2, <1>3, <1>4, <1>5, <1>6 DEF HasType

\* A host that has sent a signal is offline when the signal is too old.
LEMMA SignalShown ==
  ASSUME Shown
  PROVE  /\ buildHeartbeatView.seen <=> hb # NoBeat
         /\ buildHeartbeatView.online <=> (hb # NoBeat /\ (HeartbeatMax = 0 \/ now - hb.at <= HeartbeatMax))
         /\ hb # NoBeat => (~buildHeartbeatView.online <=> (HeartbeatMax > 0 /\ now - hb.at > HeartbeatMax))
         /\ hb # NoBeat => hb.at # Unset
<1>1. /\ buildHeartbeatView.seen <=> hb # NoBeat
      /\ buildHeartbeatView.online <=> (hb # NoBeat /\ (HeartbeatMax = 0 \/ now - hb.at <= HeartbeatMax))
  BY DEF buildHeartbeatView
<1>2. now \in Nat /\ hb.at \in Int /\ HeartbeatMax \in Nat
  BY HostsAssumption DEF Shown, SignalTypes
<1>3. hb # NoBeat => 0 <= hb.at
  BY DEF Shown, ClockTypes
<1> QED BY <1>1, <1>2, <1>3 DEF Unset

LEMMA SignalListed ==
  ASSUME Shown, bound.kind = "pve"
  PROVE  (buildHeartbeatView.seen /\ ~buildHeartbeatView.online) = HasType("pve_heartbeat")
<1>1. RunAll = pveAlerts
  BY DEF RunAll
<1>2. HasType("pve_heartbeat") <=> evalPVEHeartbeat # {}
  <2>1. \A a \in pveAlerts : a[1] = "pve_heartbeat" => a \in evalPVEHeartbeat
    BY PVEOrigins
  <2>2. \A a \in evalPVEHeartbeat : a \in pveAlerts /\ a[1] = "pve_heartbeat"
    BY DEF pveAlerts, evalPVEHeartbeat, heartbeat
  <2> QED BY <1>1, <2>1, <2>2 DEF HasType
<1>3. evalPVEHeartbeat # {} <=> (HeartbeatMax > 0 /\ hb # NoBeat /\ now - hb.at > HeartbeatMax)
  BY DEF evalPVEHeartbeat, heartbeat
<1> QED BY <1>2, <1>3, SignalShown DEF HasType

\* A backup error that the list can show as the status of the last job is one.
LEMMA StatusListed ==
  ASSUME Shown, bound.kind = "pve", ~noVMsConfirmed,
         NEW v \in Named("backup_error"), v # Server \/ rep.rows = {}
  PROVE  pveBackupStatusAlertable(PVEList.status)
<1>1. PICK a \in evalPVEBackupErrors : a[2] = v
  <2>1. RunAll = pveAlerts
    BY DEF RunAll
  <2> QED BY <2>1, PVEOrigins DEF Named
<1> DEFINE bad == {r.vm : r \in {x \in rep.rows : pveBackupStatusAlertable(x.status)}}
           failed == {r.status : r \in rep.rows} \ {"OK", "WARN"}
<1>2. BackupsWatched /\ (v \in bad \/ (bad = {} /\ v = Server /\ pveBackupStatusAlertable(rep.status)))
  BY <1>1 DEF evalPVEBackupErrors, serverStatusAlert
<1>3. PVEList.status = PVEBackupStatusSummary
  <2>1. reported /\ ~(noVMsConfirmed \/ (configured # {} /\ ~HasActiveVMBackupConfigs))
    BY <1>2 DEF BackupsWatched
  <2> QED BY <2>1, ListFields, Zenon
<1>4. CASE rep.rows = {}
  <2>1. PVEBackupStatusSummary = rep.status
    BY <1>4 DEF PVEBackupStatusSummary
  <2> QED BY <1>2, <1>3, <1>4, <2>1
<1>5. CASE rep.rows # {}
  <2>1. PICK r \in rep.rows : pveBackupStatusAlertable(r.status)
    BY <1>2, <1>5
  <2>2. failed # {}
    BY <2>1 DEF pveBackupStatusAlertable
  <2>3. PVEBackupStatusSummary = CHOOSE s \in failed : TRUE
    BY <1>5, <2>2 DEF PVEBackupStatusSummary
  <2>4. PVEBackupStatusSummary \in failed
    BY <2>2, <2>3
  <2>5. failed \subseteq Statuses \ {"OK", "WARN"}
    BY DEF Shown, RowsKnown
  <2> QED BY <1>3, <2>4, <2>5 DEF pveBackupStatusAlertable, Statuses
<1> QED BY <1>4, <1>5

\* The failed maintenance of a backup server, as alerts and as rows.
LEMMA FailuresListed ==
  ASSUME bound.kind = "pbs"
  PROVE  /\ {r.job[2] : r \in {x \in pbsTaskDisplays : x.class = "bad"}} = Named("pbs_sync_failed") \cup Named("pbs_gc_failed")
         /\ pbsTaskSummary = (HasType("pbs_sync_failed") \/ HasType("pbs_gc_failed"))
<1> DEFINE failed == {u \in pbsRep.tasks : PBSTaskFailed(u)}
           ids == {r.job[2] : r \in {x \in pbsTaskDisplays : x.class = "bad"}}
           types == {"pbs_sync_failed", "pbs_gc_failed"}
<1>1. RunAll = pbsAlerts
  BY DEF RunAll
<1>2. ASSUME NEW a \in RunAll, a[1] \in types
      PROVE  \E t \in failed : a[2] = t.job[2]
  <2>1. a \in evalPBSTaskFailures
    BY <1>1, <1>2, PBSOrigins
  <2>2. PICK t \in failed : a = <<pbsTaskFailureAlert(t), t.job[2]>>
    BY <2>1 DEF evalPBSTaskFailures
  <2> QED BY <2>2
<1>3. ASSUME NEW t \in failed
      PROVE  \E a \in RunAll : a[1] \in types /\ a[2] = t.job[2]
  <2>1. PICK a : a = <<pbsTaskFailureAlert(t), t.job[2]>>
    OBVIOUS
  <2>2. a[1] = pbsTaskFailureAlert(t) /\ a[2] = t.job[2]
    BY <2>1
  <2>3. a \in evalPBSTaskFailures
    BY <2>1 DEF evalPBSTaskFailures
  <2>4. pbsTaskFailureAlert(t) \in types
    BY DEF pbsTaskFailureAlert
  <2> QED BY <1>1, <2>2, <2>3, <2>4 DEF pbsAlerts
<1>4. ASSUME NEW r \in pbsTaskDisplays, r.class = "bad"
      PROVE  \E t \in failed : r.job = t.job
  <2>1. PICK t \in pbsRep.tasks : r = [job |-> t.job, class |-> IF PBSTaskFailed(t) THEN "bad" ELSE "ok"]
    BY DEF pbsTaskDisplays
  <2>2. r.job = t.job /\ r.class = IF PBSTaskFailed(t) THEN "bad" ELSE "ok"
    BY <2>1
  <2> QED BY <1>4, <2>2
<1>5. ASSUME NEW t \in failed
      PROVE  \E r \in pbsTaskDisplays : r.class = "bad" /\ r.job = t.job
  <2>1. PICK r : r = [job |-> t.job, class |-> IF PBSTaskFailed(t) THEN "bad" ELSE "ok"]
    OBVIOUS
  <2>2. r.job = t.job /\ r.class = "bad"
    BY <2>1
  <2>3. r \in pbsTaskDisplays
    BY <2>1 DEF pbsTaskDisplays
  <2> QED BY <2>2, <2>3
<1>6. \A x : x \in ids <=> \E t \in failed : x = t.job[2]
  <2>1. \A x \in ids : \E t \in failed : x = t.job[2]
    BY <1>4
  <2>2. \A t \in failed : t.job[2] \in ids
    BY <1>5
  <2> HIDE DEF ids, failed
  <2> QED BY <2>1, <2>2
<1>7. \A x : x \in Named("pbs_sync_failed") \cup Named("pbs_gc_failed") <=> \E a \in RunAll : a[1] \in types /\ x = a[2]
  BY DEF Named
<1>8. \A x : (\E t \in failed : x = t.job[2]) <=> \E a \in RunAll : a[1] \in types /\ x = a[2]
  <2> HIDE DEF failed, types
  <2> QED BY <1>2, <1>3
<1>9. ids = Named("pbs_sync_failed") \cup Named("pbs_gc_failed")
  <2> HIDE DEF ids, failed, types
  <2> QED BY <1>6, <1>7, <1>8
<1>10. pbsTaskSummary <=> \E a \in RunAll : a[1] \in types
  <2>1. pbsTaskSummary <=> \E t \in failed : TRUE
    BY DEF pbsTaskSummary
  <2> HIDE DEF failed, types
  <2> QED BY <1>2, <1>3, <2>1
<1> QED BY <1>9, <1>10 DEF HasType, pbsTaskSummary

LEMMA FillListed ==
  ASSUME bound.kind = "pbs", HasType("pbs_fill")
  PROVE  pbsFillBadge
<1>1. evalPBSFill # {}
  BY PBSOrigins DEF HasType, RunAll
<1> QED BY <1>1 DEF evalPBSFill, pbsFillBadge

LEMMA VolumesListed ==
  ASSUME bound.kind = "windows"
  PROVE  windowsHasDiskAlert = (HasType("disk") \/ HasType("windows_disk_health"))
<1>1. RunAll = windowsAlerts
  BY DEF RunAll
<1>2. HasType("disk") <=> \E v \in DOMAIN current : Threshold(winCfg) > 0 /\ current[v].pct >= Threshold(winCfg)
  <2>1. HasType("disk") <=> evalWindowsDisk # {}
    <3>1. \A a \in windowsAlerts : a[1] = "disk" => a \in evalWindowsDisk
      BY WindowsOrigins
    <3>2. \A a \in evalWindowsDisk : a \in windowsAlerts /\ a[1] = "disk"
      BY DEF windowsAlerts, evalWindowsDisk
    <3> QED BY <1>1, <3>1, <3>2 DEF HasType
  <2> QED BY <2>1 DEF evalWindowsDisk
<1>3. HasType("windows_disk_health") <=> \E v \in DOMAIN current : ~Healthy(current[v].health)
  <2>1. HasType("windows_disk_health") <=> evalWindowsDiskHealth # {}
    <3>1. \A a \in windowsAlerts : a[1] = "windows_disk_health" => a \in evalWindowsDiskHealth
      BY WindowsOrigins
    <3>2. \A a \in evalWindowsDiskHealth : a \in windowsAlerts /\ a[1] = "windows_disk_health"
      BY DEF windowsAlerts, evalWindowsDiskHealth
    <3> QED BY <1>1, <3>1, <3>2 DEF HasType
  <2> QED BY <2>1 DEF evalWindowsDiskHealth
<1> QED BY <1>2, <1>3 DEF windowsHasDiskAlert, HasType

LEMMA WindowsSignalListed ==
  ASSUME Shown, bound.kind = "windows", buildHeartbeatView.seen
  PROVE  ~buildHeartbeatView.online = HasType("windows_heartbeat")
<1>1. RunAll = windowsAlerts
  BY DEF RunAll
<1>2. HasType("windows_heartbeat") <=> evalWindowsHeartbeat # {}
  <2>1. \A a \in windowsAlerts : a[1] = "windows_heartbeat" => a \in evalWindowsHeartbeat
    BY WindowsOrigins
  <2>2. \A a \in evalWindowsHeartbeat : a \in windowsAlerts /\ a[1] = "windows_heartbeat"
    BY DEF windowsAlerts, evalWindowsHeartbeat
  <2> QED BY <1>1, <2>1, <2>2 DEF HasType
<1>3. hb # NoBeat /\ lastSeen = hb.at /\ lastSeen # Unset
  BY SignalShown DEF lastSeen
<1>4. evalWindowsHeartbeat # {} <=> (HeartbeatMax > 0 /\ now - hb.at > HeartbeatMax)
  BY <1>3 DEF evalWindowsHeartbeat
<1> QED BY <1>2, <1>3, <1>4, SignalShown DEF HasType

\* What the lists work out by themselves is what the alerts say.
LEMMA ListsAgree ==
  ASSUME Shown
  PROVE  RowsAgree
<1>0. bound.kind \in {"pve", "pbs", "windows"}
  BY DEF Shown, SignalTypes, Scenario
<1>1. CASE bound.kind = "pve"
  <2>1. /\ PVEList.missing = Named("pve_missing_vm") /\ PVEServerDetail.missing = PVEList.missing
        /\ PVEList.unknown = Named("pve_unknown_vm") /\ PVEList.stale = HasType("pve_stale")
        /\ (PVEList.swap = "bad") = HasType("swap") /\ (buildHeartbeatView.seen /\ ~buildHeartbeatView.online) = HasType("pve_heartbeat")
        /\ (~noVMsConfirmed /\ \E v \in Named("backup_error") : v # Server \/ rep.rows = {}) => pveBackupStatusAlertable(PVEList.status)
    BY <1>1, ListFields, MissingListed, UnknownListed, StaleListed, SwapListed, SignalListed, StatusListed, Zenon
  <2> QED BY <1>1, <2>1, Zenon DEF RowsAgree, PVEList, Named, HasType
<1>2. CASE bound.kind = "pbs"
  BY <1>2, FailuresListed, FillListed, Zenon DEF RowsAgree, Named, HasType
<1>3. CASE bound.kind = "windows"
  BY <1>3, VolumesListed, WindowsSignalListed, Zenon DEF RowsAgree, Named, HasType
<1> QED BY <1>0, <1>1, <1>2, <1>3

-----------------------------------------------------------------------------
(***************************************************************************)
(* The dashboard.                                                          *)
(***************************************************************************)

\* Counting the alerts by severity loses none of them.
LEMMA CountsTell ==
  ASSUME NEW K, IsFiniteSet(K)
  PROVE  /\ alertCountsByServer(K).critical \in Nat /\ alertCountsByServer(K).warning \in Nat
         /\ (alertCountsByServer(K).critical = 0 /\ alertCountsByServer(K).warning = 0) <=> K = {}
<1> DEFINE C == {a \in K : Critical(a)}
           W == {a \in K : ~Critical(a)}
<1>1. C \in SUBSET K /\ W \in SUBSET K /\ (C = {} /\ W = {} <=> K = {})
  OBVIOUS
<1>2. alertCountsByServer(K).critical = Cardinality(C) /\ alertCountsByServer(K).warning = Cardinality(W)
  BY DEF alertCountsByServer
<1> HIDE DEF C, W
<1>3. IsFiniteSet(C) /\ IsFiniteSet(W)
  BY <1>1, FS_Subset
<1>4. Cardinality(C) \in Nat /\ Cardinality(W) \in Nat
  BY <1>3, FS_CardinalityType
<1>5. (Cardinality(C) = 0 <=> C = {}) /\ (Cardinality(W) = 0 <=> W = {})
  BY <1>3, FS_EmptySet
<1> QED BY <1>1, <1>2, <1>4, <1>5

\* The colour of the host's page, and the counter it adds to when nothing else
\* is said of it: both are "ok" exactly when there is no alert.
LEMMA QuietMeansNone ==
  ASSUME NEW K, IsFiniteSet(K)
  PROVE  /\ (buildServerHealth(alertCountsByServer(K)) = "ok") <=> K = {}
         /\ (AlertCounter(alertCountsByServer(K)).stat = "ok") <=> K = {}
<1>1. PICK c \in Nat : c = alertCountsByServer(K).critical
  BY CountsTell
<1>2. PICK w \in Nat : w = alertCountsByServer(K).warning
  BY CountsTell
<1>3. (c = 0 /\ w = 0) <=> K = {}
  BY <1>1, <1>2, CountsTell
<1>4. (buildServerHealth(alertCountsByServer(K)) = "ok") <=> (c = 0 /\ w = 0)
  BY <1>1, <1>2 DEF buildServerHealth
<1>5. (AlertCounter(alertCountsByServer(K)).stat = "ok") <=> (c = 0 /\ w = 0)
  <2>1. CASE c + w > 0
    <3>1. AlertCounter(alertCountsByServer(K)).stat = "alerts"
      BY <1>1, <1>2, <2>1 DEF AlertCounter
    <3> QED BY <2>1, <3>1
  <2>2. CASE ~(c + w > 0)
    <3>1. AlertCounter(alertCountsByServer(K)).stat = "ok"
      BY <1>1, <1>2, <2>2 DEF AlertCounter
    <3> QED BY <2>2, <3>1
  <2> QED BY <2>1, <2>2
<1> QED BY <1>3, <1>4, <1>5

\* A host that the dashboard counts as operational is counted by its alerts.
LEMMA DashboardOk ==
  ASSUME NEW sum, NEW S
  PROVE  /\ dashboardPVE(sum, S).stat = "ok" <=>
              ((reported \/ PVEStaleSuppressed) /\ ~sum.backup /\ AlertCounter(sum.counts).stat = "ok")
         /\ dashboardPBS(sum, S).stat = "ok" <=> (pbsRep # NoPBSReport /\ AlertCounter(sum.counts).stat = "ok")
         /\ dashboardWindows(sum).stat = "ok" => AlertCounter(sum.counts).stat = "ok"
<1>1. StaleCounter(S).stat # "ok"
  BY DEF StaleCounter
<1>2. dashboardPVE(sum, S).stat = "ok" <=>
         ((reported \/ PVEStaleSuppressed) /\ ~sum.backup /\ AlertCounter(sum.counts).stat = "ok")
  <2>1. CASE ~reported /\ ~PVEStaleSuppressed
    BY <1>1, <2>1 DEF dashboardPVE
  <2>2. CASE (reported \/ PVEStaleSuppressed) /\ sum.backup
    <3>1. dashboardPVE(sum, S).stat = "backup"
      BY <2>2 DEF dashboardPVE
    <3> QED BY <2>2, <3>1
  <2>3. CASE (reported \/ PVEStaleSuppressed) /\ ~sum.backup
    <3>1. dashboardPVE(sum, S) = AlertCounter(sum.counts)
      BY <2>3 DEF dashboardPVE
    <3> QED BY <2>3, <3>1
  <2> QED BY <2>1, <2>2, <2>3
<1>3. dashboardPBS(sum, S).stat = "ok" <=> (pbsRep # NoPBSReport /\ AlertCounter(sum.counts).stat = "ok")
  <2>1. CASE pbsRep = NoPBSReport
    BY <1>1, <2>1 DEF dashboardPBS
  <2>2. CASE pbsRep # NoPBSReport
    BY <2>2 DEF dashboardPBS
  <2> QED BY <2>1, <2>2
<1>4. dashboardWindows(sum).stat = "ok" => AlertCounter(sum.counts).stat = "ok"
  <2> DEFINE on == buildHeartbeatView.online
             bad == windowsHasDiskAlert \/ sum.volume
  <2>0. dashboardWindows(sum) = CASE ~on -> [stat |-> "offline", rank |-> 0]
                                  [] on /\ bad -> [stat |-> "disk", rank |-> 0]
                                  [] OTHER -> AlertCounter(sum.counts)
    BY DEF dashboardWindows
  <2> HIDE DEF on, bad
  <2>1. CASE ~on
    <3>1. dashboardWindows(sum) = [stat |-> "offline", rank |-> 0]
      BY <2>0, <2>1
    <3> QED BY <3>1
  <2>2. CASE on /\ bad
    <3>1. dashboardWindows(sum) = [stat |-> "disk", rank |-> 0]
      BY <2>0, <2>2
    <3> QED BY <3>1
  <2>3. CASE on /\ ~bad
    BY <2>0, <2>3
  <2> QED BY <2>1, <2>2, <2>3
<1> QED BY <1>2, <1>3, <1>4

\* The alerts of the host, silenced ones left out, as the pages see them.
LEMMA SummaryFields ==
  ASSUME NEW A, NEW S
  PROVE  /\ ActivePersistedAlerts(A, S, FALSE) = A \ S
         /\ summarizeDashboardAlerts(A, S, FALSE).counts = alertCountsByServer(A \ S)
         /\ summarizeDashboardAlerts(A, S, FALSE).backup <=> \E a \in A \ S : a[1] = "backup_error"
         /\ serverStatus(A, S, FALSE) = buildServerHealth(alertCountsByServer(A \ S))
<1>1. {a \in A : a \notin S /\ ~FALSE} = A \ S
  OBVIOUS
<1>2. ActivePersistedAlerts(A, S, FALSE) = A \ S
  BY DEF ActivePersistedAlerts, Kept
<1>3. /\ summarizeDashboardAlerts(A, S, FALSE).counts = alertCountsByServer(A \ S)
      /\ summarizeDashboardAlerts(A, S, FALSE).backup <=> \E a \in A \ S : a[1] = "backup_error"
  <2> DEFINE sum == summarizeDashboardAlerts(A, S, FALSE)
             b == \E a \in {x \in A : x \notin S /\ ~FALSE} : a[1] = "backup_error"
             v == \E a \in {x \in A : x \notin S /\ ~FALSE} : a[1] = "windows_volume_missing"
             c == alertCountsByServer({x \in A : x \notin S /\ ~FALSE})
  <2>1. sum = [counts |-> c, backup |-> b, volume |-> v]
    BY DEF summarizeDashboardAlerts
  <2>2. sum.counts = c /\ (sum.backup <=> b)
    <3> HIDE DEF sum, c, b, v
    <3> QED BY <2>1
  <2>3. c = alertCountsByServer(A \ S) /\ (b <=> \E a \in A \ S : a[1] = "backup_error")
    BY <1>1, Zenon
  <2> QED BY <2>2, <2>3
<1>4. serverStatus(A, S, FALSE) = buildServerHealth(alertCountsByServer(A \ S))
  BY <1>2 DEF serverStatus
<1> QED BY <1>2, <1>3, <1>4

LEMMA DashboardAgrees ==
  ASSUME Shown
  PROVE  OperationalIsQuiet
<1>0. bound.kind \in {"pve", "pbs", "windows"}
  BY DEF Shown, SignalTypes, Scenario
<1>1. PICK A : A = RunAll
  OBVIOUS
<1>2. IsFiniteSet(A)
  BY <1>1, RunAllFinite
<1>3. SUFFICES ASSUME NEW S
               PROVE  /\ (Dashboard(A, S, FALSE).stat = "ok") => (serverStatus(A, S, FALSE) = "ok")
                      /\ summarizeDashboardAlerts(A, S, FALSE).counts = ActiveAlertCounts(A, S, FALSE)
                      /\ (S = {} /\ bound.kind # "windows" /\ serverStatus(A, S, FALSE) = "ok"
                            /\ (bound.kind = "pbs" => pbsRep # NoPBSReport)) => Dashboard(A, S, FALSE).stat = "ok"
  BY <1>1, Zenon DEF OperationalIsQuiet
<1>4. PICK K : K = A \ S /\ IsFiniteSet(K)
  BY <1>2, FS_Subset
<1>5. PICK sum : /\ sum = summarizeDashboardAlerts(A, S, FALSE) /\ sum.counts = alertCountsByServer(K)
                 /\ sum.backup <=> \E a \in K : a[1] = "backup_error"
  <2>1. /\ summarizeDashboardAlerts(A, S, FALSE).counts = alertCountsByServer(A \ S)
        /\ summarizeDashboardAlerts(A, S, FALSE).backup <=> \E a \in A \ S : a[1] = "backup_error"
    BY SummaryFields, Zenon
  <2> QED BY <1>4, <2>1, Zenon
<1>6. serverStatus(A, S, FALSE) = "ok" <=> K = {}
  <2>1. serverStatus(A, S, FALSE) = buildServerHealth(alertCountsByServer(K))
    BY <1>4, SummaryFields, Zenon
  <2> QED BY <1>4, <2>1, QuietMeansNone
<1>7. AlertCounter(sum.counts).stat = "ok" <=> K = {}
  <2>1. (AlertCounter(alertCountsByServer(K)).stat = "ok") <=> K = {}
    BY <1>4, QuietMeansNone
  <2> QED BY <1>5, <2>1
<1>8. summarizeDashboardAlerts(A, S, FALSE).counts = ActiveAlertCounts(A, S, FALSE)
  <2>1. ActiveAlertCounts(A, S, FALSE) = alertCountsByServer(A \ S)
    BY SummaryFields, Zenon DEF ActiveAlertCounts
  <2> QED BY <1>4, <1>5, <2>1, Zenon
<1>9. CASE bound.kind = "pve"
  <2>1. Dashboard(A, S, FALSE) = dashboardPVE(sum, S)
    BY <1>5, <1>9 DEF Dashboard
  <2>2. (Dashboard(A, S, FALSE).stat = "ok") <=> ((reported \/ PVEStaleSuppressed) /\ ~sum.backup /\ K = {})
    BY <1>7, <2>1, DashboardOk
  <2>3. (S = {} /\ K = {}) => (reported \/ PVEStaleSuppressed)
    <3>1. ~reported /\ ~PVEStaleSuppressed => <<"pve_stale", Server>> \in evalPVEStale
      BY DEF evalPVEStale
    <3>2. ~reported /\ ~PVEStaleSuppressed => <<"pve_stale", Server>> \in A
      BY <1>1, <1>9, <3>1 DEF RunAll, pveAlerts
    <3> QED BY <1>4, <3>2
  <2> QED BY <1>5, <1>6, <1>8, <1>9, <2>2, <2>3
<1>10. CASE bound.kind = "pbs"
  <2>1. Dashboard(A, S, FALSE) = dashboardPBS(sum, S)
    BY <1>5, <1>10 DEF Dashboard
  <2>2. (Dashboard(A, S, FALSE).stat = "ok") <=> (pbsRep # NoPBSReport /\ K = {})
    BY <1>7, <2>1, DashboardOk
  <2> QED BY <1>6, <1>8, <1>10, <2>2
<1>11. CASE bound.kind = "windows"
  <2>1. Dashboard(A, S, FALSE) = dashboardWindows(sum)
    BY <1>5, <1>11 DEF Dashboard
  <2>2. (Dashboard(A, S, FALSE).stat = "ok") => K = {}
    BY <1>7, <2>1, DashboardOk
  <2> QED BY <1>6, <1>8, <1>11, <2>2
<1> QED BY <1>0, <1>9, <1>10, <1>11

\* The pages and the alerts tell the same: missing and unknown VMs, a late
\* report, the swap, the status of the last job, failed maintenance, volumes
\* and the signal are listed exactly when they are alerted about, and a host is
\* operational on the dashboard exactly when its page shows no alert
\* (PVEServers and Dashboard, internal/web/handlers/servers.go:431 and
\* dashboard.go:16).
THEOREM PagesTellTheAlerts == Spec => []PagesAgree
<1>1. Shown => PagesAgree
  BY ListsAgree, DashboardAgrees DEF PagesAgree
<1> QED BY <1>1, ShownInvariant, PTL

-----------------------------------------------------------------------------
(***************************************************************************)
(* The daily mail.                                                         *)
(***************************************************************************)

\* What the mail says of the host: nothing, that it is well, or an issue.
MailRow(A, S) ==
    CASE bound.kind = "pve" -> PVERow(S)
      [] bound.kind = "pbs" -> PBSRow(S)
      [] OTHER -> WindowsRow(MailAlerts(A, S, FALSE))

LEMMA MailFields ==
  ASSUME NEW A, NEW S
  PROVE  /\ buildEmailData(A, S, FALSE).row = MailRow(A, S)
         /\ buildEmailData(A, S, FALSE).issues =
              (IF MailRow(A, S) = "issue" THEN {<<bound.kind, Server>>} ELSE {}) \cup {a \in A \ S : a[1] = "backup_error"}
         /\ MailAlerts(A, S, FALSE).reasons = {a \in A \ S : a[1] \in WindowsTypes}
         /\ (bound.kind = "pve" /\ MailRow(A, S) = "issue") =>
              buildEmailData(A, S, FALSE).vms = IF ~reported \/ ~IsStaleForLoadedPVEConfig(rep.at) THEN missingVMRows ELSE staleVMRows
<1>1. /\ MailAlerts(A, S, FALSE).errors = {a \in A \ S : a[1] = "backup_error"}
      /\ MailAlerts(A, S, FALSE).reasons = {a \in A \ S : a[1] \in WindowsTypes}
  BY DEF MailAlerts, Kept, windowsAlertReasons
<1> DEFINE alerts == MailAlerts(A, S, FALSE)
           row == CASE FALSE -> "none"
                    [] ~FALSE /\ bound.kind = "pve" -> PVERow(S)
                    [] ~FALSE /\ bound.kind = "pbs" -> PBSRow(S)
                    [] OTHER -> WindowsRow(alerts)
           vms == CASE row # "issue" \/ bound.kind # "pve" -> {}
                    [] ~(row # "issue" \/ bound.kind # "pve") /\ (~reported \/ ~IsStaleForLoadedPVEConfig(rep.at)) -> missingVMRows
                    [] OTHER -> staleVMRows
           issues == buildSummaryIssues(row, alerts.errors)
           disks == alerts.disks
<1>2. row = MailRow(A, S)
  <2> HIDE DEF alerts
  <2>1. CASE bound.kind = "pve"
    BY <2>1 DEF MailRow
  <2>2. CASE bound.kind = "pbs"
    BY <2>2 DEF MailRow
  <2>3. CASE bound.kind \notin {"pve", "pbs"}
    BY <2>3 DEF MailRow, alerts
  <2> QED BY <2>1, <2>2, <2>3
<1>3. buildEmailData(A, S, FALSE) = [row |-> row, issues |-> issues, disks |-> disks, vms |-> vms]
  BY DEF buildEmailData
<1> HIDE DEF row, vms, issues, disks
<1>4. buildEmailData(A, S, FALSE).row = row /\ buildEmailData(A, S, FALSE).issues = issues /\ buildEmailData(A, S, FALSE).vms = vms
  <2>1. PICK mail : mail = buildEmailData(A, S, FALSE)
    OBVIOUS
  <2>2. mail = [row |-> row, issues |-> issues, disks |-> disks, vms |-> vms]
    BY <1>3, <2>1, Zenon
  <2>3. mail.row = row /\ mail.issues = issues /\ mail.vms = vms
    BY <2>2
  <2> QED BY <2>1, <2>3, Zenon
<1>5. issues = (IF row = "issue" THEN {<<bound.kind, Server>>} ELSE {}) \cup {a \in A \ S : a[1] = "backup_error"}
  BY <1>1 DEF issues, buildSummaryIssues
<1>6. (bound.kind = "pve" /\ row = "issue") => vms = IF ~reported \/ ~IsStaleForLoadedPVEConfig(rep.at) THEN missingVMRows ELSE staleVMRows
  BY DEF vms
<1> QED BY <1>1, <1>2, <1>4, <1>5, <1>6, Zenon

\* The mail is green exactly when the host is no issue and no backup failed.
LEMMA GreenMeans ==
  ASSUME NEW A, IsFiniteSet(A), NEW S
  PROVE  Green(buildEmailData(A, S, FALSE)) <=> (MailRow(A, S) # "issue" /\ \A a \in A \ S : a[1] # "backup_error")
<1> DEFINE mail == buildEmailData(A, S, FALSE)
           errors == {a \in A \ S : a[1] = "backup_error"}
           host == IF MailRow(A, S) = "issue" THEN {<<bound.kind, Server>>} ELSE {}
<1>1. mail.issues = host \cup errors
  BY MailFields, Zenon
<1>2. IsFiniteSet(host)
  <2>1. host \in SUBSET {<<bound.kind, Server>>}
    OBVIOUS
  <2>2. IsFiniteSet({<<bound.kind, Server>>})
    BY FS_Singleton, Zenon
  <2> HIDE DEF host
  <2> QED BY <2>1, <2>2, FS_Subset
<1>3. errors \in SUBSET A
  OBVIOUS
<1> HIDE DEF mail, errors, host
<1>4. IsFiniteSet(errors)
  BY <1>3, FS_Subset
<1>5. IsFiniteSet(host \cup errors)
  BY <1>2, <1>4, FS_Union
<1>6. Green(mail) <=> host \cup errors = {}
  <2>1. Green(mail) <=> Cardinality(host \cup errors) = 0
    BY <1>1 DEF Green, TotalIssues
  <2> QED BY <1>5, <2>1, FS_EmptySet
<1>7. host \cup errors = {} <=> (MailRow(A, S) # "issue" /\ \A a \in A \ S : a[1] # "backup_error")
  BY DEF host, errors
<1> QED BY <1>6, <1>7 DEF mail

\* When a PVE host is an issue of the mail.
LEMMA PVEIssue ==
  ASSUME NEW S
  PROVE  PVERow(S) = "issue" <=>
           /\ ~PVEStaleSuppressed
           /\ IF ~reported \/ IsStaleForLoadedPVEConfig(rep.at) THEN <<"pve_stale", Server>> \notin S ELSE missingVMRows # {}
<1>1. CASE PVEStaleSuppressed
  BY <1>1 DEF PVERow
<1>2. CASE ~PVEStaleSuppressed /\ (~reported \/ IsStaleForLoadedPVEConfig(rep.at))
  BY <1>2 DEF PVERow
<1>3. CASE ~PVEStaleSuppressed /\ ~(~reported \/ IsStaleForLoadedPVEConfig(rep.at))
  BY <1>3 DEF PVERow
<1> QED BY <1>1, <1>2, <1>3

\* The mail and the evaluators agree on what is late and what is missing.
LEMMA PVEReasons ==
  ASSUME bound.kind = "pve"
  PROVE  /\ missingVMRows # {} <=> HasType("pve_missing_vm")
         /\ <<"pve_stale", Server>> \in RunAll <=> (~PVEStaleSuppressed /\ (~reported \/ IsStaleForLoadedPVEConfig(rep.at)))
         /\ \A a \in RunAll : a[1] = "pve_stale" => a = <<"pve_stale", Server>>
         /\ HasType("pve_missing_vm") => reported
<1>0. RunAll = pveAlerts
  BY DEF RunAll
<1>1. missingVMRows # {} <=> HasType("pve_missing_vm")
  <2>1. missingVMRows = Named("pve_missing_vm")
    BY MissingListed DEF missingVMRows, ListMissing
  <2>2. Named("pve_missing_vm") # {} <=> HasType("pve_missing_vm")
    BY DEF Named, HasType
  <2> QED BY <2>1, <2>2
<1>2. \A a \in RunAll : a[1] = "pve_stale" => a \in evalPVEStale
  BY <1>0, PVEOrigins
<1>3. \A a : a \in evalPVEStale <=> (a = <<"pve_stale", Server>> /\ ~PVEStaleSuppressed /\ (~reported \/ IsStaleForLoadedPVEConfig(rep.at)))
  BY DEF evalPVEStale
<1>4. evalPVEStale \subseteq RunAll
  BY <1>0 DEF pveAlerts
<1>5. <<"pve_stale", Server>>[1] = "pve_stale"
  OBVIOUS
<1>6. HasType("pve_missing_vm") => reported
  <2>1. HasType("pve_missing_vm") => evalPVEMissingVM # {}
    BY <1>0, PVEOrigins DEF HasType
  <2> QED BY <2>1 DEF evalPVEMissingVM
<1> QED BY <1>1, <1>2, <1>3, <1>4, <1>5, <1>6

\* When a backup server is an issue of the mail: a failed task that is not
\* silenced, or a report of another day.
LEMMA PBSIssue ==
  ASSUME NEW S
  PROVE  /\ (\E t \in pbsRep.tasks : PBSTaskFailed(t) /\ <<pbsTaskFailureAlert(t), t.job[2]>> \notin S) => PBSRow(S) = "issue"
         /\ (pbsRep # NoPBSReport /\ ~IsStale(pbsRep.at)
              /\ \A t \in pbsRep.tasks : PBSTaskFailed(t) => <<pbsTaskFailureAlert(t), t.job[2]>> \in S) => PBSRow(S) # "issue"
<1> DEFINE silenced == <<"pbs_report_stale", Server>> \in S
           rows == {emailPBSTaskRow(t) : t \in pbsRep.tasks}
           failures == {r \in rows : r.failed /\ <<pbsTaskFailureAlert(r), r.job[2]>> \notin S}
           old == IsStale(pbsRep.at)
<1>1. PBSRow(S) = CASE pbsRep = NoPBSReport -> IF silenced THEN "none" ELSE "issue"
                    [] pbsRep # NoPBSReport /\ old /\ silenced -> IF failures # {} THEN "issue" ELSE "none"
                    [] OTHER -> IF old \/ failures # {} THEN "issue" ELSE "ok"
  BY DEF PBSRow
<1>2. ASSUME NEW t \in pbsRep.tasks
      PROVE  /\ emailPBSTaskRow(t).failed <=> PBSTaskFailed(t)
             /\ emailPBSTaskRow(t).job = t.job /\ pbsTaskFailureAlert(emailPBSTaskRow(t)) = pbsTaskFailureAlert(t)
  <2>1. emailPBSTaskRow(t).job = t.job /\ (emailPBSTaskRow(t).failed <=> PBSTaskFailed(t))
    BY DEF emailPBSTaskRow
  <2> QED BY <2>1 DEF pbsTaskFailureAlert
<1>3. failures # {} <=> \E t \in pbsRep.tasks : PBSTaskFailed(t) /\ <<pbsTaskFailureAlert(t), t.job[2]>> \notin S
  <2>1. failures # {} <=> \E t \in pbsRep.tasks : LET r == emailPBSTaskRow(t) IN
                                  r.failed /\ <<pbsTaskFailureAlert(r), r.job[2]>> \notin S
    OBVIOUS
  <2> QED BY <1>2, <2>1
<1>4. pbsRep = NoPBSReport => pbsRep.tasks = {}
  BY DEF NoPBSReport
<1>5. failures # {} => pbsRep # NoPBSReport
  BY <1>3, <1>4
<1> HIDE DEF silenced, rows, failures, old
<1>6. failures # {} => PBSRow(S) = "issue"
  BY <1>1, <1>5
<1>7. (pbsRep # NoPBSReport /\ ~old /\ failures = {}) => PBSRow(S) # "issue"
  BY <1>1
<1> QED BY <1>3, <1>6, <1>7 DEF old

\* An alert that the mail speaks of keeps it from being green, even when all
\* the others are silenced.
LEMMA AlertIsInMail ==
  ASSUME Shown, NEW a \in RunAll, InMail(a)
  PROVE  ~Green(buildEmailData(RunAll, RunAll \ {a}, FALSE))
<1> DEFINE S == RunAll \ {a}
<1>0. bound.kind \in {"pve", "pbs", "windows"}
  BY DEF Shown, SignalTypes, Scenario
<1>1. RunAll \ S = {a}
  OBVIOUS
<1>2. Green(buildEmailData(RunAll, S, FALSE)) <=> (MailRow(RunAll, S) # "issue" /\ \A b \in RunAll \ S : b[1] # "backup_error")
  BY RunAllFinite, GreenMeans
<1>3. SUFFICES ASSUME a[1] # "backup_error"
               PROVE  MailRow(RunAll, S) = "issue"
  BY <1>1, <1>2
<1>4. CASE bound.kind = "pve"
  <2>0. a[1] \in {"pve_stale", "pve_missing_vm"}
    BY <1>3, <1>4, PVEOrigins DEF RunAll, InMail, WindowsTypes
  <2>1. MailRow(RunAll, S) = PVERow(S)
    BY <1>4 DEF MailRow
  <2>2. CASE a[1] = "pve_stale"
    <3>1. a = <<"pve_stale", Server>>
      BY <1>4, <2>2, PVEReasons
    <3>2. <<"pve_stale", Server>> \notin S
      BY <3>1
    <3> QED BY <1>4, <2>1, <3>1, <3>2, PVEReasons, PVEIssue
  <2>3. CASE a[1] = "pve_missing_vm"
    <3>1. HasType("pve_missing_vm") /\ ~PVEStaleSuppressed /\ ~IsStaleForLoadedPVEConfig(rep.at)
      BY <2>3 DEF HasType, InMail, WindowsTypes
    <3> QED BY <1>4, <2>1, <3>1, PVEReasons, PVEIssue
  <2> QED BY <2>0, <2>2, <2>3
<1>5. CASE bound.kind = "pbs"
  <2>0. a \in evalPBSTaskFailures
    BY <1>3, <1>5, PBSOrigins DEF RunAll, InMail, WindowsTypes
  <2>1. MailRow(RunAll, S) = PBSRow(S)
    BY <1>5 DEF MailRow
  <2>2. PICK t \in pbsRep.tasks : PBSTaskFailed(t) /\ a = <<pbsTaskFailureAlert(t), t.job[2]>>
    BY <2>0 DEF evalPBSTaskFailures
  <2>3. <<pbsTaskFailureAlert(t), t.job[2]>> \notin S
    BY <2>2
  <2> QED BY <2>1, <2>2, <2>3, PBSIssue
<1>6. CASE bound.kind = "windows"
  <2>0. a[1] \in WindowsTypes
    BY <1>3, <1>6, WindowsOrigins DEF RunAll, InMail, WindowsTypes
  <2>1. MailRow(RunAll, S) = WindowsRow(MailAlerts(RunAll, S, FALSE))
    BY <1>6 DEF MailRow
  <2>2. MailAlerts(RunAll, S, FALSE).reasons = {b \in RunAll \ S : b[1] \in WindowsTypes}
    BY MailFields, Zenon
  <2>3. MailAlerts(RunAll, S, FALSE).reasons # {}
    BY <1>1, <2>0, <2>2
  <2> QED BY <2>1, <2>3 DEF WindowsRow
<1> QED BY <1>0, <1>4, <1>5, <1>6

\* A configured host that is an issue names VMs.
LEMMA IssueNamesVMs ==
  ASSUME bound.kind = "pve", buildEmailData(RunAll, {}, FALSE).row = "issue", reported, configured # {}
  PROVE  buildEmailData(RunAll, {}, FALSE).vms # {}
<1>0. PICK S : S = {}
  OBVIOUS
<1>1. MailRow(RunAll, S) = "issue" /\ PVERow(S) = "issue"
  <2>1. buildEmailData(RunAll, S, FALSE).row = MailRow(RunAll, S)
    BY MailFields, Zenon
  <2> QED BY <1>0, <2>1 DEF MailRow
<1>2. buildEmailData(RunAll, {}, FALSE).vms = IF ~reported \/ ~IsStaleForLoadedPVEConfig(rep.at) THEN missingVMRows ELSE staleVMRows
  <2>1. buildEmailData(RunAll, S, FALSE).vms = IF ~reported \/ ~IsStaleForLoadedPVEConfig(rep.at) THEN missingVMRows ELSE staleVMRows
    BY <1>1, MailFields, Zenon
  <2> QED BY <1>0, <2>1
<1>3. ~PVEStaleSuppressed /\ (~IsStaleForLoadedPVEConfig(rep.at) => missingVMRows # {})
  BY <1>1, PVEIssue
<1>4. staleVMRows # {}
  <2>1. HasActiveVMBackupConfigs
    BY <1>3 DEF PVEStaleSuppressed
  <2> QED BY <2>1 DEF HasActiveVMBackupConfigs, staleVMRows
<1> QED BY <1>2, <1>3, <1>4

\* Nothing is said of a host in maintenance.
LEMMA MaintenanceIsGreen == Green(buildEmailData(RunAll, {}, TRUE))
<1> DEFINE mail == buildEmailData(RunAll, {}, TRUE)
<1>1. MailAlerts(RunAll, {}, TRUE).errors = {}
  BY DEF MailAlerts, Kept
<1>2. mail.issues = buildSummaryIssues("none", MailAlerts(RunAll, {}, TRUE).errors)
  BY DEF buildEmailData
<1>3. mail.issues = {}
  BY <1>1, <1>2 DEF buildSummaryIssues
<1> QED BY <1>3, FS_EmptySet DEF Green, TotalIssues

\* A host whose alerts are all silenced is no issue, but for a missing VM.
LEMMA SilenceIsGreen ==
  ASSUME Shown
  PROVE  /\ bound.kind = "pve" => (Green(buildEmailData(RunAll, RunAll, FALSE))
                                    <=> ~\E a \in RunAll : a[1] = "pve_missing_vm" /\ InMail(a))
         /\ (bound.kind = "windows" /\ winReps # <<>>) => Green(buildEmailData(RunAll, RunAll, FALSE))
         /\ (bound.kind = "pbs" /\ pbsRep # NoPBSReport /\ ~IsStale(pbsRep.at)) => Green(buildEmailData(RunAll, RunAll, FALSE))
<1>1. Green(buildEmailData(RunAll, RunAll, FALSE)) <=> MailRow(RunAll, RunAll) # "issue"
  <2>1. RunAll \ RunAll = {}
    OBVIOUS
  <2> QED BY <2>1, RunAllFinite, GreenMeans
<1>2. ASSUME bound.kind = "pve"
      PROVE  MailRow(RunAll, RunAll) = "issue" <=> \E a \in RunAll : a[1] = "pve_missing_vm" /\ InMail(a)
  <2> DEFINE late == ~reported \/ IsStaleForLoadedPVEConfig(rep.at)
  <2>1. /\ missingVMRows # {} <=> \E a \in RunAll : a[1] = "pve_missing_vm"
        /\ missingVMRows # {} => reported
        /\ <<"pve_stale", Server>> \in RunAll <=> (~PVEStaleSuppressed /\ late)
    BY <1>2, PVEReasons DEF HasType
  <2>2. PVERow(RunAll) = "issue" <=> ~PVEStaleSuppressed /\ (IF late THEN <<"pve_stale", Server>> \notin RunAll ELSE missingVMRows # {})
    BY PVEIssue
  <2>3. \A a : a[1] = "pve_missing_vm" => (InMail(a) <=> ~PVEStaleSuppressed /\ ~IsStaleForLoadedPVEConfig(rep.at))
    BY DEF InMail, WindowsTypes
  <2> HIDE DEF late
  <2>4. PVERow(RunAll) = "issue" <=> ~PVEStaleSuppressed /\ ~late /\ missingVMRows # {}
    BY <2>1, <2>2
  <2>5. PVERow(RunAll) = "issue" <=> \E a \in RunAll : a[1] = "pve_missing_vm" /\ InMail(a)
    BY <2>1, <2>3, <2>4, Zenon DEF late
  <2> QED BY <1>2, <2>5 DEF MailRow
<1>3. ASSUME bound.kind = "windows", winReps # <<>>
      PROVE  MailRow(RunAll, RunAll) # "issue"
  <2>1. MailAlerts(RunAll, RunAll, FALSE).reasons = {b \in RunAll \ RunAll : b[1] \in WindowsTypes}
    BY MailFields, Zenon
  <2>2. MailAlerts(RunAll, RunAll, FALSE).reasons = {}
    BY <2>1
  <2> QED BY <1>3, <2>2 DEF MailRow, WindowsRow
<1>4. ASSUME bound.kind = "pbs", pbsRep # NoPBSReport, ~IsStale(pbsRep.at)
      PROVE  MailRow(RunAll, RunAll) # "issue"
  <2>1. \A t \in pbsRep.tasks : PBSTaskFailed(t) => <<pbsTaskFailureAlert(t), t.job[2]>> \in RunAll
    BY <1>4 DEF RunAll, pbsAlerts, evalPBSTaskFailures
  <2>2. PBSRow(RunAll) # "issue"
    BY <1>4, <2>1, PBSIssue
  <2> QED BY <1>4, <2>2 DEF MailRow
<1> QED BY <1>1, <1>2, <1>3, <1>4

\* The daily mail and the alerts tell the same: the mail says "Todos los
\* servidores operativos" only when no alert of the kinds it speaks of is left,
\* a configured host that is an issue names the VMs without a backup; and a host
\* in maintenance, or all of whose alerts are silenced, is no issue, except that a
\* missing VM makes it one whether it is silenced or not, and that a PBS or
\* Windows host may be late by the mail's own account (buildEmailData and
\* missingVMRows, internal/service/email.go:307, 432).
THEOREM MailTellsTheAlerts == Spec => []MailAgrees
<1>1. Shown => GreenMailIsTrue
  BY AlertIsInMail, IssueNamesVMs, Zenon DEF GreenMailIsTrue
<1>2. Shown => SilencedMailIsGreen
  BY MaintenanceIsGreen, SilenceIsGreen, Zenon DEF SilencedMailIsGreen
<1>3. Shown => MailAgrees
  BY <1>1, <1>2 DEF MailAgrees
<1> QED BY <1>3, ShownInvariant, PTL
=============================================================================
