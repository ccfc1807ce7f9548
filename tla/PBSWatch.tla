------------------------------ MODULE PBSWatch ------------------------------
(***************************************************************************)
(* How the state of one Proxmox Backup Server becomes alerts: its          *)
(* datastore, the verification of its snapshots and its maintenance tasks  *)
(* are read by the client (client/pbs.go), stored with one report          *)
(* (internal/store/pbs.go) and looked at by the evaluators                 *)
(* (internal/service/alertengine.go).                                      *)
(*                                                                         *)
(* A task's exit status is "OK", "error" (a text that contains "error" or  *)
(* "fail"), "other" (any other text) or "stopped"; end is Unset while it   *)
(* runs.                                                                   *)
(***************************************************************************)
EXTENDS Hosts

CONSTANTS Groups,    \* backup groups of the datastore
          PBSJobs,   \* pairs <<kind, id>> of the maintenance jobs, kind "sync" or "gc"
          StaleMax,  \* slots a report stays fresh (GlobalStaleHours)
          FillDays   \* slots until full that are few (DaysUntilFull)

ASSUME PBSAssumption ==
    {StaleMax, FillDays} \subseteq Nat /\ IsFiniteSet(Groups) /\ \A j \in PBSJobs : j \in {"sync", "gc"} \X STRING

VARIABLES pbsTasks, \* maintenance tasks: [id, job, start, end, exit]
          verified, \* verification of the newest snapshot of each group
          pbsCfg,   \* pbs_alert_config of the server
          pbsRep    \* the latest report

pbsVars == <<pbsTasks, verified, pbsCfg, pbsRep>>

Store == "datastore"
States == {"", "ok", "failed"}
NoPBSReport == [at |-> Unset, disk |-> 0, full |-> Unset, groups |-> {}, tasks |-> {}, swap |-> FALSE,
                reads |-> {}, seen |-> {}]

-----------------------------------------------------------------------------
\* The client.

\* taskTime: when a task ended, or when it started if it has not.
taskTime(t) == IF t.end # Unset THEN t.end ELSE t.start
\* maintenanceTasks keeps the newest task of each job, as the node lists them.
OldestFirst(T) == CHOOSE t \in T : \A u \in T : taskTime(u) >= taskTime(t)   \* mutant: < for >
latest(T) == CHOOSE t \in T : \A u \in T : taskTime(u) < taskTime(t) \/ (taskTime(u) = taskTime(t) /\ u.id <= t.id)
\* The status of a task; the detail is asked for when the list says "stopped".
exitStatus(t, reads) ==
    IF t.end = Unset THEN "" ELSE IF t.listed THEN t.exit ELSE IF reads.detail THEN t.exit ELSE ""
maintenanceTasks(reads) ==
    LET newest == {latest({t \in pbsTasks : t.job = j}) : j \in {t.job : t \in pbsTasks}}
    IN  IF ~reads.tasks THEN {}
        ELSE {[job |-> t.job, status |-> exitStatus(t, reads)] :
                  t \in {u \in newest : exitStatus(u, reads) \notin {"", "stopped"}}}

\* generateReport: without the groups the datastore is sent alone, without the
\* snapshots its groups carry no verification.
groupRows(reads) ==
    IF ~reads.groups THEN {} ELSE {[group |-> g, state |-> IF reads.snaps THEN verified[g] ELSE ""] : g \in Groups}
pbsReport(reads) == [groups |-> groupRows(reads), tasks |-> maintenanceTasks(reads)]

AllPBSRead == [groups |-> TRUE, snaps |-> TRUE, tasks |-> TRUE, detail |-> TRUE]
PBSReads == {AllPBSRead} \cup {[AllPBSRead EXCEPT ![k] = FALSE] : k \in {f \in DOMAIN AllPBSRead : bound.fails}}

-----------------------------------------------------------------------------
\* The evaluators.
staleHours == IF pbsCfg.stale # Unset THEN pbsCfg.stale ELSE StaleMax
NeverReportedOnly == IF pbsRep = NoPBSReport THEN {<<"pbs_report_stale", Server>>} ELSE {}   \* mutant: no age
evalPBSReportStale ==
    IF staleHours # 0 /\ (pbsRep = NoPBSReport \/ now - pbsRep.at > staleHours)
    THEN {<<"pbs_report_stale", Server>>} ELSE {}
evalPBSHeartbeat == heartbeat("pbs_heartbeat")
evalPBSDisk ==
    IF Threshold(pbsCfg.disk) # 0 /\ pbsRep # NoPBSReport /\ pbsRep.disk >= Threshold(pbsCfg.disk)
    THEN {<<"disk", Store>>} ELSE {}
evalPBSFill ==
    IF pbsCfg.fill /\ FillDays # 0 /\ pbsRep.full # Unset /\ pbsRep.full > now /\ pbsRep.full - now < FillDays
    THEN {<<"pbs_fill", Store>>} ELSE {}

evalPBSVerify ==
    IF pbsCfg.verify THEN {<<"pbs_verify", r.group>> : r \in {x \in pbsRep.groups : x.state \notin {"", "ok"}}} ELSE {}

PBSTaskFailed(t) == t.status = "error"
pbsTaskFailureAlert(t) == IF t.job[1] = "gc" THEN "pbs_gc_failed" ELSE "pbs_sync_failed"
evalPBSTaskFailures == {<<pbsTaskFailureAlert(t), t.job[2]>> : t \in {u \in pbsRep.tasks : PBSTaskFailed(u)}}

pbsAlerts == evalPBSReportStale \cup evalPBSHeartbeat \cup evalPBSDisk \cup evalPBSFill \cup evalPBSVerify
             \cup evalPBSTaskFailures \cup evalHostSwap(pbsCfg.swap, pbsRep.swap, pbsRep.at)

-----------------------------------------------------------------------------
\* A server without a row of its own has the verification alert on.
PBSInit ==
    /\ pbsTasks = {} /\ verified = [g \in Groups |-> ""]
    /\ pbsCfg = [stale |-> Unset, disk |-> Unset, fill |-> FALSE, verify |-> TRUE, swap |-> "unset"]
    /\ pbsRep = NoPBSReport

\* The backup server starts and ends maintenance tasks and verifies snapshots,
\* as long as a report may still read it.
StartTask(j, listed) ==
    /\ Cardinality(pbsTasks) < bound.tasks /\ reports < bound.reports
    /\ \A t \in pbsTasks : t.job = j => t.end # Unset
    /\ pbsTasks' = pbsTasks \cup {[id |-> Cardinality(pbsTasks), job |-> j, start |-> now, end |-> Unset,
                                    exit |-> "", listed |-> listed]}
    /\ UNCHANGED <<verified, pbsCfg, pbsRep>> /\ UNCHANGED hostVars
EndTask(t, exit) ==
    /\ t.end = Unset /\ reports < bound.reports
    /\ pbsTasks' = (pbsTasks \ {t}) \cup {[t EXCEPT !.end = now, !.exit = exit]}
    /\ UNCHANGED <<verified, pbsCfg, pbsRep>> /\ UNCHANGED hostVars
Verify(g, state) ==
    /\ bound.tasks > 0 /\ reports < bound.reports /\ verified[g] # state
    /\ verified' = [verified EXCEPT ![g] = state]
    /\ UNCHANGED <<pbsTasks, pbsCfg, pbsRep>> /\ UNCHANGED hostVars

\* The rows of a report: itself, its datastore, the groups and the tasks.
insertPBSReportWithSwap(swap) == [NoPBSReport EXCEPT !.at = now, !.swap = swap]
insertPBSStore(p, disk, full) == [p EXCEPT !.disk = disk, !.full = full]
insertPBSSnapshot(p, r) == [p EXCEPT !.groups = r.groups]
insertPBSTask(p, r) == [p EXCEPT !.tasks = r.tasks]

\* InsertPBSReportData stores them in one transaction.  The history with them
\* is what was read, and the tasks and verifications there were.
InsertPBSReportData(reads, disk, full, swap) ==
    LET r == pbsReport(reads)
        store == insertPBSStore(insertPBSReportWithSwap(swap), disk, full) IN
    /\ Report
    /\ pbsRep' = [insertPBSTask(insertPBSSnapshot(store, r), r)
                      EXCEPT !.reads = reads, !.seen = [tasks |-> pbsTasks, verified |-> verified]]
    /\ Received(swap) /\ heard' = now
    /\ UNCHANGED <<pbsTasks, verified, pbsCfg, hb>>

UpsertPBSAlertConfig(stale, disk, fill, verify, swap) ==
    [stale |-> stale, disk |-> disk, fill |-> fill, verify |-> verify, swap |-> swap]
PBSAlertConfigPost(stale, disk, fill, verify, swap) ==
    /\ Edit
    /\ pbsCfg' = UpsertPBSAlertConfig(stale, disk, fill, verify, swap)
    /\ UNCHANGED <<pbsTasks, verified, pbsRep>>

PBSNext ==
    /\ bound.kind = "pbs"
    /\ \/ \E j \in PBSJobs, listed \in BOOLEAN : StartTask(j, listed)
       \/ \E t \in pbsTasks, exit \in {"OK", "error", "other", "stopped"} : EndTask(t, exit)
       \/ \E g \in Groups, state \in States : Verify(g, state)
       \/ \E reads \in PBSReads, disk \in bound.disks, full \in {Unset, now + 2}, swap \in bound.swaps :
              InsertPBSReportData(reads, disk, full, swap)
       \/ \E stale, disk \in {Unset, 0}, fill, verify \in BOOLEAN, swap \in {"unset", "off"} :
              PBSAlertConfigPost(stale, disk, fill, verify, swap)

-----------------------------------------------------------------------------
\* Every variable has its type.
PBSTypeOK ==
    /\ \A t \in pbsTasks : t.job \in PBSJobs /\ t.start <= now /\ (t.end = Unset \/ t.end \in t.start..now)
    /\ verified \in [Groups -> States]
    /\ pbsRep.at \in {Unset} \cup 0..now
    /\ \A t \in pbsRep.tasks : t.job \in PBSJobs /\ t.status \in {"OK", "error", "other"}

Ended(j) == {t \in pbsRep.seen.tasks : t.job = j /\ t.end # Unset}
Running(j) == \E t \in pbsRep.seen.tasks : t.job = j /\ t.end = Unset

\* A maintenance job whose last task failed has its alert after a report that
\* could read everything, as long as no new task of the job is running; a job
\* whose last task ended well has none (maintenanceTasks, client/pbs.go:168).
MaintenanceFailureAlerts ==
    (pbsRep # NoPBSReport /\ pbsRep.reads = AllPBSRead) => \A j \in PBSJobs :
        (Ended(j) # {} /\ ~Running(j) /\ \A t, u \in Ended(j) : t.end = u.end => t = u) =>
            LET last == CHOOSE t \in Ended(j) : \A u \in Ended(j) : u.end <= t.end
            IN  (last.exit = "error") <=> (<<pbsTaskFailureAlert([job |-> j]), j[2]>> \in pbsAlerts)

\* "maintenanceTasks returns the latest completed sync and garbage collection
\* task for each PBS job/datastore" (client/pbs.go:165): every job that has a
\* completed task with a status is in a report that could read everything.
LatestCompletedIsReported ==
    (pbsRep # NoPBSReport /\ pbsRep.reads = AllPBSRead) => \A j \in PBSJobs :
        (\E t \in Ended(j) : t.exit \in {"OK", "error"}) /\ (\A t \in Ended(j) : t.exit # "stopped")
            => \E r \in pbsRep.tasks : r.job = j

\* A verification alert names a group whose newest snapshot failed when the
\* report was made, and every such group of a complete report has one
\* (evalPBSVerify, internal/service/alertengine.go:886).
VerifyAlertsMatch ==
    (pbsRep # NoPBSReport /\ pbsCfg.verify) => \A g \in Groups :
        LET alerted == <<"pbs_verify", g>> \in pbsAlerts IN
        /\ alerted => pbsRep.seen.verified[g] = "failed"
        /\ (pbsRep.reads = AllPBSRead /\ pbsRep.seen.verified[g] = "failed") => alerted

\* The alerts about jobs and snapshots are those of the node.
PBSAlertsMatch == MaintenanceFailureAlerts /\ VerifyAlertsMatch
=============================================================================
