---------------------------- MODULE WindowsWatch ----------------------------
(***************************************************************************)
(* How the volumes of one Windows host become alerts.  The client lists    *)
(* its logical volumes and posts them with a token that it keeps in a file *)
(* until the server has answered (client-windows); the server stores the   *)
(* first report of a token, refreshes the heartbeat, and compares the last *)
(* two reports (internal/store/windows.go,                                 *)
(* internal/service/alertengine.go).                                       *)
(***************************************************************************)
EXTENDS Hosts, Sequences

CONSTANT Volumes   \* drive letters

ASSUME WindowsAssumption == IsFiniteSet(Volumes)

VARIABLES drives,   \* the volumes of the host: name -> [pct, health]
          pending,  \* the token in the file, Unset if there is none
          tokens,   \* tokens made so far
          winReps,  \* stored reports, oldest first: [token, at, disks]
          winCfg,   \* the disk threshold of the server
          fresh     \* history: the volumes of each token's first delivery

winVars == <<drives, pending, tokens, winReps, winCfg, fresh>>

Sound == [pct |-> 50, health |-> ""]
Healthy(h) == h \in {"", "ok"}

-----------------------------------------------------------------------------
\* collectDisks and parseDisksJSON: the fixed logical volumes.
collectDisks == drives
\* loadOrCreatePendingReportID: the token of an unanswered report is used again.
loadOrCreatePendingReportID == IF pending # Unset THEN pending ELSE tokens

-----------------------------------------------------------------------------
\* The evaluators, over the newest report and the one before it.
current == IF winReps = <<>> THEN <<>> ELSE winReps[Len(winReps)].disks
previous == IF Len(winReps) < 2 THEN <<>> ELSE winReps[Len(winReps) - 1].disks
evalWindowsDisk ==
    {<<"disk", v>> : v \in {u \in DOMAIN current : Threshold(winCfg) > 0 /\ current[u].pct >= Threshold(winCfg)}}
evalWindowsDiskHealth == {<<"windows_disk_health", v>> : v \in {u \in DOMAIN current : ~Healthy(current[u].health)}}
evalWindowsMissingVolume ==
    IF Len(winReps) < 2 THEN {} ELSE {<<"windows_volume_missing", v>> : v \in DOMAIN previous \ DOMAIN current}

\* Without a heartbeat row the newest report counts as the last signal.
lastSeen == IF hb # NoBeat THEN hb.at ELSE IF winReps # <<>> THEN winReps[Len(winReps)].at ELSE Unset
evalWindowsHeartbeat ==
    IF HeartbeatMax > 0 /\ lastSeen # Unset /\ now - lastSeen > HeartbeatMax THEN {<<"windows_heartbeat", Server>>} ELSE {}

windowsAlerts == evalWindowsDisk \cup evalWindowsDiskHealth \cup evalWindowsMissingVolume \cup evalWindowsHeartbeat

-----------------------------------------------------------------------------
WindowsInit ==
    /\ drives = [v \in Volumes |-> Sound]
    /\ pending = Unset /\ tokens = 0 /\ winReps = <<>> /\ winCfg = Unset /\ fresh = <<>>

\* A volume fills, fails, disappears or comes back.
ChangeDrives(d) ==
    /\ bound.tasks > 0 /\ reports < bound.reports /\ d # drives
    /\ drives' = d
    /\ UNCHANGED <<pending, tokens, winReps, winCfg, fresh>> /\ UNCHANGED hostVars

\* InsertWindowsReportData: a token that is stored already is ignored.
DoubleInsert(token) == TRUE   \* mutant: the token is not looked for
NewToken(token) == \A i \in DOMAIN winReps : winReps[i].token # token
insertWindowsReport(token, disks) == Append(winReps, [token |-> token, at |-> now, disks |-> disks])
InsertWindowsReportData(token, disks) == IF NewToken(token) THEN insertWindowsReport(token, disks) ELSE winReps

\* ReportWindows stores the report and counts it as a signal.
ReportWindows(token, disks) ==
    /\ winReps' = InsertWindowsReportData(token, disks)
    /\ hb' = UpsertServerHeartbeat("unknown") /\ heard' = now

\* runReport.  The post is lost, or its answer is
\* (the host may also stop there), or the client removes the token.
runReport(delivered, answered) ==
    LET token == loadOrCreatePendingReportID IN
    /\ Report
    /\ answered => delivered
    /\ tokens' = IF token = tokens THEN tokens + 1 ELSE tokens
    /\ pending' = IF answered THEN Unset ELSE token
    /\ fresh' = IF delivered /\ (pending = Unset \/ winReps = <<>> \/ winReps[Len(winReps)].token # pending)
                THEN Append(fresh, DOMAIN drives) ELSE fresh
    /\ IF delivered THEN ReportWindows(token, collectDisks) ELSE UNCHANGED <<winReps, hb, heard>>
    /\ UNCHANGED <<drives, winCfg, swapSeen>>

WindowsAlertConfigPost(disk) ==
    /\ Edit /\ winCfg' = disk /\ UNCHANGED <<drives, pending, tokens, winReps, fresh>>

WindowsNext ==
    /\ bound.kind = "windows"
    /\ \/ \E V \in SUBSET Volumes, d \in {Sound, [pct |-> 95, health |-> ""], [pct |-> 50, health |-> "bad"]} :
              V # {} /\ ChangeDrives([v \in V |-> d])
       \/ \E delivered, answered \in BOOLEAN : runReport(delivered, answered)
       \/ \E disk \in {Unset, 0, 40} : WindowsAlertConfigPost(disk)

-----------------------------------------------------------------------------
\* Every variable has its type.
WindowsTypeOK ==
    /\ DOMAIN drives \subseteq Volumes
    /\ pending \in {Unset} \cup 0..(tokens - 1)
    /\ \A i \in DOMAIN winReps : winReps[i].token \in 0..(tokens - 1) /\ winReps[i].at \in 0..now
    /\ winCfg \in Int

\* A retry never hides a volume that was lost: whatever answers were lost, the
\* alert names exactly the volumes that the last report but one had and the
\* last one has not, counting a report and its retries once
\* (evalWindowsMissingVolume, internal/service/alertengine.go:1119).
LostVolumeSurvivesRetry ==
    LET n == Len(fresh) IN
    \A v \in Volumes :
        (<<"windows_volume_missing", v>> \in windowsAlerts) <=> (n >= 2 /\ v \in fresh[n - 1] /\ v \notin fresh[n])
=============================================================================
