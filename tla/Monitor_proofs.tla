--------------------------- MODULE Monitor_proofs ---------------------------
(***************************************************************************)
(* Proofs about the monitored hosts: for any VMs, groups, jobs, volumes,   *)
(* limits and scenarios, that what is reported and heard becomes the       *)
(* alerts it should.                                                       *)
(***************************************************************************)
EXTENDS Monitor, TLAPS, FiniteSetTheorems, WellFoundedInduction

-----------------------------------------------------------------------------
(***************************************************************************)
(* Signals: the heartbeat row, the latest report and what was received.    *)
(***************************************************************************)

\* The variables of this part; rep and pbsRep by the two fields it needs.
SignalTypes ==
    /\ now \in Nat /\ heard \in Int /\ bound \in Scenario
    /\ hb.at \in Int /\ hb.at <= now /\ hb.swap \in {"unknown", "off", "on"}
    /\ swapSeen.at \in Int /\ swapSeen.at <= now /\ swapSeen.on \in BOOLEAN /\ swapSeen.tie \in BOOLEAN
    /\ rep.at \in Int /\ rep.swap \in BOOLEAN
    /\ pbsRep.at \in Int /\ pbsRep.swap \in BOOLEAN
    /\ pbsCfg.stale \in {Unset, 0}

\* What a step can do to them.
Quiet == UNCHANGED <<hb, heard, swapSeen, bound, rep, pbsRep>> /\ now' \in {now, now + 1} /\ pbsCfg'.stale \in {pbsCfg.stale, Unset, 0}
Beat(swap) ==
    /\ swap = "unknown" => hb.swap = "unknown"
    /\ hb'.at = now /\ hb'.swap = IF swap # "unknown" THEN swap ELSE hb.swap
    /\ heard' = now
    /\ swap = "unknown" => UNCHANGED swapSeen
    /\ swap # "unknown" => Received(swap = "on")
    /\ UNCHANGED <<now, bound, rep, pbsRep, pbsCfg>>
PVEArrives(swap) ==
    /\ bound.kind = "pve" /\ rep'.at = now /\ rep'.swap = swap
    /\ Received(swap) /\ heard' = now /\ UNCHANGED <<now, hb, bound, pbsRep, pbsCfg>>
PBSArrives(swap) ==
    /\ bound.kind = "pbs" /\ pbsRep'.at = now /\ pbsRep'.swap = swap
    /\ Received(swap) /\ heard' = now /\ UNCHANGED <<now, hb, bound, rep, pbsCfg>>
WindowsArrives ==
    /\ bound.kind = "windows" /\ hb'.at = now /\ hb'.swap = hb.swap
    /\ heard' = now /\ UNCHANGED <<now, swapSeen, bound, rep, pbsRep, pbsCfg>>

\* The fields of a stored report.
LEMMA StoredPVE ==
  ASSUME NEW reads, NEW disk, NEW swap, InsertPVEReportData(reads, disk, swap)
  PROVE  rep'.at = now /\ rep'.swap = swap /\ rep'.reads = reads /\ rep'.disk = disk
         /\ rep'.rows = generateReport(reads).rows /\ rep'.status = generateReport(reads).status
         /\ rep'.full = (IF reads = AllRead THEN tasks ELSE {})
<1> DEFINE r == generateReport(reads)
           full == IF reads = AllRead THEN tasks ELSE {}
<1>1. rep' = [insertPVEBackupTask(insertPVEStorageInfo(insertPVEReportWithSwap(r, swap), disk), r)
                   EXCEPT !.reads = reads, !.full = full]
  BY DEF InsertPVEReportData
<1> HIDE DEF r, full
<1>2. /\ rep'.at = now /\ rep'.swap = swap /\ rep'.reads = reads /\ rep'.disk = disk
      /\ rep'.rows = r.rows /\ rep'.status = r.status /\ rep'.full = full
  BY <1>1 DEF insertPVEReportWithSwap, insertPVEStorageInfo, insertPVEBackupTask, NoReport
<1> QED
  BY <1>2 DEF r, full

LEMMA StoredPBS ==
  ASSUME NEW reads, NEW disk, NEW full, NEW swap, InsertPBSReportData(reads, disk, full, swap)
  PROVE  pbsRep'.at = now /\ pbsRep'.swap = swap /\ pbsRep'.reads = reads
         /\ pbsRep'.groups = groupRows(reads) /\ pbsRep'.tasks = maintenanceTasks(reads)
         /\ pbsRep'.seen = [tasks |-> pbsTasks, verified |-> verified]
<1> DEFINE r == pbsReport(reads)
           seen == [tasks |-> pbsTasks, verified |-> verified]
           store == insertPBSStore(insertPBSReportWithSwap(swap), disk, full)
<1>1. pbsRep' = [insertPBSTask(insertPBSSnapshot(store, r), r) EXCEPT !.reads = reads, !.seen = seen]
  BY DEF InsertPBSReportData
<1>2. r.groups = groupRows(reads) /\ r.tasks = maintenanceTasks(reads)
  BY DEF pbsReport
<1> HIDE DEF r, seen
<1>3. /\ pbsRep'.at = now /\ pbsRep'.swap = swap /\ pbsRep'.reads = reads
      /\ pbsRep'.groups = r.groups /\ pbsRep'.tasks = r.tasks /\ pbsRep'.seen = seen
  BY <1>1 DEF insertPBSReportWithSwap, insertPBSStore, insertPBSSnapshot, insertPBSTask, NoPBSReport
<1> QED
  BY <1>2, <1>3 DEF seen

LEMMA SignalSteps ==
  ASSUME SignalTypes, [Next]_vars
  PROVE  \/ Quiet
         \/ \E swap \in {"unknown", "off", "on"} : Beat(swap)
         \/ \E swap \in BOOLEAN : PVEArrives(swap) \/ PBSArrives(swap)
         \/ WindowsArrives
<1> USE DEF SignalTypes
<1>1. CASE Tick /\ UNCHANGED <<pveVars, pbsVars, winVars>>
  BY <1>1 DEF Tick, Quiet, pveVars, pbsVars
<1>2. CASE \E swap \in {"unknown", "off", "on"} : Heartbeat(swap) /\ UNCHANGED <<pveVars, pbsVars, winVars>>
  <2>1. PICK swap \in {"unknown", "off", "on"} : Heartbeat(swap)
    BY <1>2
  <2>2. Beat(swap)
    BY <1>2, <2>1 DEF Heartbeat, Beat, UpsertServerHeartbeat, pveVars, pbsVars
  <2> QED BY <2>2
<1>3. CASE PVENext /\ UNCHANGED <<pbsVars, winVars>>
  <2>0. UNCHANGED <<pbsCfg, pbsRep>> /\ bound.kind = "pve"
    BY <1>3 DEF pbsVars, PVENext
  <2>1. CASE RunBackup
    <3>1. UNCHANGED rep /\ UNCHANGED hostVars
      BY <2>1 DEF RunBackup, Vzdump
    <3> QED BY <3>1, <2>0 DEF hostVars, Quiet
  <2>2. CASE \E reads \in Reads, disk \in bound.disks, swap \in bound.swaps : InsertPVEReportData(reads, disk, swap)
    <3>1. PICK reads \in Reads, disk \in bound.disks, swap \in bound.swaps : InsertPVEReportData(reads, disk, swap)
      BY <2>2
    <3>2. swap \in BOOLEAN
      BY <3>1 DEF Scenario
    <3>3. rep'.at = now /\ rep'.swap = swap
      BY <3>1, StoredPVE
    <3>4. PVEArrives(swap)
      BY <2>0, <3>1, <3>3 DEF InsertPVEReportData, Report, PVEArrives
    <3> QED BY <3>2, <3>4
  <2>3. CASE EditBackupConfig
    <3>1. PVEEdit
      BY <2>3 DEF EditBackupConfig, CreateVMConfig, UpdateVMConfig, DeleteVMConfig, ToggleVMExclude, UpdateBackupInventory
    <3> QED BY <2>0, <3>1 DEF PVEEdit, Edit, Quiet
  <2>4. CASE EditAlertConfig
    <3>1. PVEEdit
      BY <2>4 DEF EditAlertConfig, PVEAlertConfigPost, PVEVMAlertConfigPost, GlobalBackupErr
    <3> QED BY <2>0, <3>1 DEF PVEEdit, Edit, Quiet
  <2> QED BY <1>3, <2>1, <2>2, <2>3, <2>4 DEF PVENext
<1>4. CASE PBSNext /\ UNCHANGED <<pveVars, winVars>>
  <2>0. UNCHANGED rep /\ bound.kind = "pbs"
    BY <1>4 DEF pveVars, PBSNext
  <2>1. CASE \E j \in PBSJobs, listed \in BOOLEAN : StartTask(j, listed)
    BY <2>0, <2>1 DEF StartTask, hostVars, Quiet
  <2>2. CASE \E t \in pbsTasks, exit \in {"OK", "error", "other", "stopped"} : EndTask(t, exit)
    BY <2>0, <2>2 DEF EndTask, hostVars, Quiet
  <2>3. CASE \E g \in Groups, state \in States : Verify(g, state)
    BY <2>0, <2>3 DEF Verify, hostVars, Quiet
  <2>4. CASE \E reads \in PBSReads, disk \in bound.disks, full \in {Unset, now + 2}, swap \in bound.swaps :
              InsertPBSReportData(reads, disk, full, swap)
    <3>1. PICK reads \in PBSReads, disk \in bound.disks, full \in {Unset, now + 2}, swap \in bound.swaps :
              InsertPBSReportData(reads, disk, full, swap)
      BY <2>4
    <3>2. swap \in BOOLEAN
      BY <3>1 DEF Scenario
    <3>3. pbsRep'.at = now /\ pbsRep'.swap = swap
      BY <3>1, StoredPBS
    <3>4. PBSArrives(swap)
      BY <2>0, <3>1, <3>3 DEF InsertPBSReportData, Report, PBSArrives
    <3> QED BY <3>2, <3>4
  <2>5. CASE \E stale, disk \in {Unset, 0}, fill, verify \in BOOLEAN, swap \in {"unset", "off"} :
              PBSAlertConfigPost(stale, disk, fill, verify, swap)
    BY <2>0, <2>5 DEF PBSAlertConfigPost, UpsertPBSAlertConfig, Edit, Quiet
  <2> QED BY <1>4, <2>1, <2>2, <2>3, <2>4, <2>5 DEF PBSNext
<1>5. CASE WindowsNext /\ UNCHANGED <<pveVars, pbsVars>>
  <2>0. UNCHANGED <<rep, pbsRep, pbsCfg>> /\ bound.kind = "windows"
    BY <1>5 DEF pveVars, pbsVars, WindowsNext
  <2>1. CASE \E V \in SUBSET Volumes, d \in {Sound, [pct |-> 95, health |-> ""], [pct |-> 50, health |-> "bad"]} :
              V # {} /\ ChangeDrives([v \in V |-> d])
    <3>1. UNCHANGED hostVars
      BY <2>1 DEF ChangeDrives
    <3> QED BY <2>0, <3>1 DEF hostVars, Quiet
  <2>2. CASE \E delivered, answered \in BOOLEAN : runReport(delivered, answered)
    <3>1. PICK delivered \in BOOLEAN, answered \in BOOLEAN : runReport(delivered, answered)
      BY <2>2
    <3>2. CASE delivered
      BY <2>0, <3>1, <3>2 DEF runReport, ReportWindows, Report, UpsertServerHeartbeat, WindowsArrives
    <3>3. CASE ~delivered
      BY <2>0, <3>1, <3>3 DEF runReport, Report, Quiet
    <3> QED BY <3>2, <3>3
  <2>3. CASE \E disk \in {Unset, 0, 40} : WindowsAlertConfigPost(disk)
    BY <2>0, <2>3 DEF WindowsAlertConfigPost, Edit, Quiet
  <2> QED BY <1>5, <2>1, <2>2, <2>3 DEF WindowsNext
<1>6. CASE UNCHANGED vars
  BY <1>6 DEF vars, hostVars, pveVars, pbsVars, Quiet
<1> QED BY <1>1, <1>2, <1>3, <1>4, <1>5, <1>6 DEF Next

LEMMA ReceivedFields ==
  ASSUME NEW on \in BOOLEAN, Received(on)
  PROVE  /\ swapSeen'.at = now /\ swapSeen'.on = on /\ swapSeen'.tie = (swapSeen.at = now)
         /\ swapSeen'.on \in BOOLEAN /\ swapSeen'.tie \in BOOLEAN
<1> DEFINE tie == swapSeen.at = now
<1>0. tie \in BOOLEAN
  OBVIOUS
<1>1. swapSeen' = [at |-> now, on |-> on, tie |-> tie]
  BY DEF Received
<1> HIDE DEF tie
<1>2. swapSeen'.at = now /\ swapSeen'.on = on /\ swapSeen'.tie = tie
  BY <1>1
<1>3. swapSeen'.tie = (swapSeen.at = now)
  BY <1>2, Zenon DEF tie
<1> QED BY <1>0, <1>2, <1>3, Zenon

LEMMA SignalsStart ==
  ASSUME Init
  PROVE  SignalTypes
<1>1. bound \in Scenario /\ now = 0 /\ heard = Unset /\ hb = NoBeat /\ swapSeen = [at |-> Unset, on |-> FALSE, tie |-> FALSE]
  BY HostsAssumption DEF Init, HostsInit
<1>2. rep = NoReport /\ pbsRep = NoPBSReport /\ pbsCfg.stale = Unset
  BY DEF Init, PVEInit, PBSInit
<1>3. hb.at = -1 /\ hb.swap = "unknown" /\ rep.at = -1 /\ pbsRep.at = -1 /\ swapSeen.at = -1
  BY <1>1, <1>2 DEF NoBeat, NoReport, NoPBSReport, Unset
<1>4. rep.swap \in BOOLEAN /\ pbsRep.swap \in BOOLEAN
  <2>1. rep.swap = FALSE
    BY <1>2, Zenon DEF NoReport
  <2>2. pbsRep.swap = FALSE
    BY <1>2, Zenon DEF NoPBSReport
  <2> QED BY <2>1, <2>2, Zenon
<1>5. swapSeen.on \in BOOLEAN /\ swapSeen.tie \in BOOLEAN
  <2>1. swapSeen.on = FALSE /\ swapSeen.tie = FALSE
    BY <1>1, Zenon
  <2> QED BY <2>1, Zenon
<1>6. heard = -1 /\ pbsCfg.stale = -1
  BY <1>1, <1>2 DEF Unset
<1> QED
  BY <1>1, <1>3, <1>4, <1>5, <1>6 DEF SignalTypes, Unset

LEMMA SignalsTyped ==
  ASSUME SignalTypes, [Next]_vars
  PROVE  SignalTypes'
<1> USE DEF SignalTypes
<1>1. CASE Quiet
  BY <1>1 DEF Quiet
<1>2. ASSUME NEW swap \in {"unknown", "off", "on"}, Beat(swap)
      PROVE  SignalTypes'
  <2>1. swapSeen'.at \in Int /\ swapSeen'.at <= now /\ swapSeen'.on \in BOOLEAN /\ swapSeen'.tie \in BOOLEAN
    <3>1. CASE swap = "unknown"
      BY <1>2, <3>1 DEF Beat
    <3>2. CASE swap # "unknown"
      <4>1. (swap = "on") \in BOOLEAN /\ Received(swap = "on")
        BY <1>2, <3>2 DEF Beat
      <4>2. swapSeen'.at = now /\ swapSeen'.on \in BOOLEAN /\ swapSeen'.tie \in BOOLEAN
        BY <4>1, ReceivedFields, Zenon
      <4> QED BY <4>2
    <3> QED BY <3>1, <3>2
  <2>2. hb'.at = now /\ hb'.swap \in {"unknown", "off", "on"} /\ heard' = now /\ UNCHANGED <<now, bound, rep, pbsRep, pbsCfg>>
    BY <1>2 DEF Beat
  <2> QED BY <2>1, <2>2
<1>3. ASSUME NEW swap \in BOOLEAN, PVEArrives(swap)
      PROVE  SignalTypes'
  BY <1>3, ReceivedFields DEF PVEArrives
<1>4. ASSUME NEW swap \in BOOLEAN, PBSArrives(swap)
      PROVE  SignalTypes'
  BY <1>4, ReceivedFields DEF PBSArrives
<1>5. CASE WindowsArrives
  BY <1>5 DEF WindowsArrives
<1> QED BY <1>1, <1>2, <1>3, <1>4, <1>5, SignalSteps

\* The latest report of the host that the scenario is about.
ReportAt == IF bound.kind = "pve" THEN rep.at ELSE pbsRep.at
ReportSwap == IF bound.kind = "pve" THEN rep.swap ELSE pbsRep.swap

\* Nothing stored about swap is newer than what was received last, and unless
\* two signals came in one slot that is the newer of the two that are stored.
SwapInv ==
    bound.kind # "windows" =>
        /\ ReportAt <= swapSeen.at
        /\ hb.swap # "unknown" => hb.at <= swapSeen.at
        /\ (swapSeen.at # Unset /\ ~swapSeen.tie) =>
             \/ hb.swap # "unknown" /\ hb.at = swapSeen.at /\ (swapSeen.on <=> hb.swap = "on") /\ ReportAt < hb.at
             \/ ReportAt = swapSeen.at /\ (swapSeen.on <=> ReportSwap) /\ (hb.swap = "unknown" \/ hb.at < ReportAt)

LEMMA SwapStart ==
  ASSUME Init
  PROVE  SwapInv
<1>1. hb = NoBeat /\ swapSeen = [at |-> Unset, on |-> FALSE, tie |-> FALSE] /\ rep = NoReport /\ pbsRep = NoPBSReport
  BY DEF Init, HostsInit, PVEInit, PBSInit
<1>2. ReportAt = Unset /\ swapSeen.at = Unset /\ hb.swap = "unknown"
  BY <1>1 DEF ReportAt, NoBeat, NoReport, NoPBSReport
<1> QED
  BY <1>2 DEF SwapInv, Unset

LEMMA SwapStep ==
  ASSUME SignalTypes, SwapInv, [Next]_vars
  PROVE  SwapInv'
<1> USE DEF SignalTypes, SwapInv, ReportAt, ReportSwap
<1>1. CASE Quiet
  BY <1>1 DEF Quiet
<1>2. ASSUME NEW swap \in {"unknown", "off", "on"}, Beat(swap)
      PROVE  SwapInv'
  <2>1. CASE swap = "unknown"
    BY <1>2, <2>1 DEF Beat
  <2>2. CASE swap # "unknown"
    <3>1. hb'.at = now /\ hb'.swap = swap /\ swapSeen'.at = now /\ (swapSeen'.on <=> swap = "on")
          /\ (swapSeen'.tie <=> swapSeen.at = now) /\ UNCHANGED <<bound, rep, pbsRep>>
      <4>1. (swap = "on") \in BOOLEAN /\ Received(swap = "on")
        BY <1>2, <2>2 DEF Beat
      <4>2. swapSeen'.at = now /\ (swapSeen'.on <=> swap = "on") /\ (swapSeen'.tie <=> swapSeen.at = now)
        BY <4>1, ReceivedFields, Zenon
      <4> QED BY <1>2, <2>2, <4>2 DEF Beat
    <3> QED BY <2>2, <3>1
  <2> QED BY <2>1, <2>2
<1>3. ASSUME NEW swap \in BOOLEAN, PVEArrives(swap)
      PROVE  SwapInv'
  <2>1. swapSeen'.at = now /\ (swapSeen'.on <=> swap) /\ (swapSeen'.tie <=> swapSeen.at = now)
    BY <1>3, ReceivedFields, Zenon DEF PVEArrives
  <2>2. rep'.at = now /\ (rep'.swap <=> swap) /\ UNCHANGED <<now, bound, hb>> /\ bound.kind = "pve"
    BY <1>3 DEF PVEArrives
  <2> QED BY <2>1, <2>2
<1>4. ASSUME NEW swap \in BOOLEAN, PBSArrives(swap)
      PROVE  SwapInv'
  <2>1. swapSeen'.at = now /\ (swapSeen'.on <=> swap) /\ (swapSeen'.tie <=> swapSeen.at = now)
    BY <1>4, ReceivedFields, Zenon DEF PBSArrives
  <2>2. pbsRep'.at = now /\ (pbsRep'.swap <=> swap) /\ UNCHANGED <<now, bound, hb>> /\ bound.kind = "pbs"
    BY <1>4 DEF PBSArrives
  <2> QED BY <2>1, <2>2
<1>5. CASE WindowsArrives
  BY <1>5 DEF WindowsArrives
<1> QED BY <1>1, <1>2, <1>3, <1>4, <1>5, SignalSteps

\* The swap alert is the work of evalHostSwap alone.
LEMMA SwapAlert ==
  /\ <<"swap", Server>> \in pveAlerts <=> (alertCfg.swap # "off" /\ currentHostSwap(rep.swap, rep.at))
  /\ <<"swap", Server>> \in pbsAlerts <=> (pbsCfg.swap # "off" /\ currentHostSwap(pbsRep.swap, pbsRep.at))
<1>1. /\ <<"swap", Server>> \notin evalPVEDisk
      /\ <<"swap", Server>> \notin evalPVEBackupErrors
      /\ <<"swap", Server>> \notin evalPVEBackupSize
      /\ <<"swap", Server>> \notin evalPVEMissingVM
      /\ <<"swap", Server>> \notin evalPVEUnknownVM
      /\ <<"swap", Server>> \notin evalPVEStale
      /\ <<"swap", Server>> \notin evalPVEHeartbeat
  BY DEF evalPVEDisk, evalPVEBackupErrors, serverStatusAlert, evalPVEBackupSize, evalPVEMissingVM, evalPVEUnknownVM,
         evalPVEStale, evalPVEHeartbeat, heartbeat
<1>2. /\ <<"swap", Server>> \notin evalPBSReportStale
      /\ <<"swap", Server>> \notin evalPBSHeartbeat
      /\ <<"swap", Server>> \notin evalPBSDisk
      /\ <<"swap", Server>> \notin evalPBSFill
      /\ <<"swap", Server>> \notin evalPBSVerify
      /\ <<"swap", Server>> \notin evalPBSTaskFailures
  BY DEF evalPBSReportStale, evalPBSHeartbeat, heartbeat, evalPBSDisk, evalPBSFill, evalPBSVerify, evalPBSTaskFailures,
         pbsTaskFailureAlert
<1>3. ASSUME NEW o, NEW s, NEW a
      PROVE  <<"swap", Server>> \in evalHostSwap(o, s, a) <=> (o # "off" /\ currentHostSwap(s, a))
  BY DEF evalHostSwap
<1> QED BY <1>1, <1>2, <1>3 DEF pveAlerts, pbsAlerts

\* The swap alert of a Proxmox host follows what was received last, whether
\* it was a report or a heartbeat (currentHostSwap,
\* internal/service/alertengine.go:728).
THEOREM SwapIsFollowed == Spec => []SwapFollowsNewest
<1> DEFINE Inv == SignalTypes /\ SwapInv
<1>1. Init => Inv
  BY SignalsStart, SwapStart
<1>2. Inv /\ [Next]_vars => Inv'
  BY SignalsTyped, SwapStep
<1>3. Inv => SwapFollowsNewest
  <2> SUFFICES ASSUME Inv, bound.kind # "windows", swapSeen.at # Unset, ~swapSeen.tie, alertCfg.swap # "off", pbsCfg.swap # "off"
               PROVE  (<<"swap", Server>> \in RunAll) <=> swapSeen.on
    BY DEF SwapFollowsNewest
  <2>1. (<<"swap", Server>> \in RunAll) <=> currentHostSwap(ReportSwap, ReportAt)
    <3>1. CASE bound.kind = "pve"
      BY <3>1, SwapAlert DEF RunAll, ReportSwap, ReportAt
    <3>2. CASE bound.kind = "pbs"
      BY <3>2, SwapAlert DEF RunAll, ReportSwap, ReportAt
    <3> QED BY <3>1, <3>2 DEF SignalTypes, Scenario
  <2>2. ReportAt \in Int /\ ReportSwap \in BOOLEAN
    BY DEF SignalTypes, ReportAt, ReportSwap
  <2>3. currentHostSwap(ReportSwap, ReportAt) <=> swapSeen.on
    <3> HIDE DEF ReportAt, ReportSwap
    <3> QED BY <2>2 DEF SignalTypes, SwapInv, currentHostSwap, Unset
  <2> QED BY <2>1, <2>3
<1> QED BY <1>1, <1>2, <1>3, PTL DEF Spec

\* What was heard last is what the row, or the report, says.
HeardInv ==
    /\ bound.kind = "windows" => hb.at = heard
    /\ bound.kind = "pbs" => pbsRep.at <= heard
    /\ heard <= now

LEMMA HeardStep ==
  ASSUME SignalTypes, HeardInv, [Next]_vars
  PROVE  HeardInv'
<1> USE DEF SignalTypes, HeardInv
<1>1. CASE Quiet
  BY <1>1 DEF Quiet
<1>2. ASSUME NEW swap \in {"unknown", "off", "on"}, Beat(swap)
      PROVE  HeardInv'
  <2>1. hb'.at = now /\ heard' = now /\ UNCHANGED <<now, bound, pbsRep>>
    BY <1>2 DEF Beat
  <2> QED BY <2>1
<1>3. ASSUME NEW swap \in BOOLEAN, PVEArrives(swap)
      PROVE  HeardInv'
  BY <1>3 DEF PVEArrives
<1>4. ASSUME NEW swap \in BOOLEAN, PBSArrives(swap)
      PROVE  HeardInv'
  BY <1>4 DEF PBSArrives
<1>5. CASE WindowsArrives
  BY <1>5 DEF WindowsArrives
<1> QED BY <1>1, <1>2, <1>3, <1>4, <1>5, SignalSteps

\* A backup server or Windows host that falls silent gets an alert, whichever
\* of its signals came before (internal/service/alertengine.go:735).
THEOREM SilenceIsHeard == Spec => []SilenceIsNoticed
<1> DEFINE Inv == SignalTypes /\ HeardInv
<1>1. Init => Inv
  <2>1. Init => SignalTypes
    BY SignalsStart
  <2>2. Init => now = 0 /\ heard = Unset /\ hb = NoBeat /\ pbsRep = NoPBSReport
    BY DEF Init, HostsInit, PBSInit
  <2>3. Init => HeardInv
    BY <2>2 DEF HeardInv, NoBeat, NoPBSReport, Unset
  <2> QED BY <2>1, <2>3
<1>2. Inv /\ [Next]_vars => Inv'
  BY SignalsTyped, HeardStep
<1>3. Inv => SilenceIsNoticed
  <2> SUFFICES ASSUME Inv, bound.kind # "pve", heard # Unset, now - heard > HeartbeatMax, now - heard > StaleMax,
                      bound.kind = "pbs" => staleHours # 0, bound.kind = "windows" => HeartbeatMax # 0
               PROVE  \E type \in {"pbs_heartbeat", "pbs_report_stale", "windows_heartbeat"} : <<type, Server>> \in RunAll
    BY DEF SilenceIsNoticed
  <2>0. HeartbeatMax \in Nat /\ StaleMax \in Nat
    BY HostsAssumption, PBSAssumption
  <2>1. CASE bound.kind = "pbs"
    <3>1. staleHours # 0 /\ now - pbsRep.at > staleHours
      BY <2>0, <2>1 DEF staleHours, HeardInv, SignalTypes, Unset
    <3>2. <<"pbs_report_stale", Server>> \in evalPBSReportStale
      BY <3>1 DEF evalPBSReportStale
    <3> QED BY <2>1, <3>2 DEF RunAll, pbsAlerts
  <2>2. CASE bound.kind = "windows"
    <3>1. hb.at = heard /\ hb # NoBeat
      BY <2>2 DEF HeardInv, NoBeat
    <3>2. lastSeen = heard
      BY <3>1 DEF lastSeen
    <3>3. HeartbeatMax > 0
      BY <2>0, <2>2
    <3>4. <<"windows_heartbeat", Server>> \in evalWindowsHeartbeat
      BY <3>2, <3>3 DEF evalWindowsHeartbeat
    <3> QED BY <2>2, <3>4 DEF RunAll, windowsAlerts
  <2> QED BY <2>1, <2>2 DEF SignalTypes, Scenario
<1> QED BY <1>1, <1>2, <1>3, PTL DEF Spec

-----------------------------------------------------------------------------
(***************************************************************************)
(* The volumes of a Windows host and the retries of its reports.           *)
(***************************************************************************)
Disk == {Sound, [pct |-> 95, health |-> ""], [pct |-> 50, health |-> "bad"]}
Disks == UNION {[V -> Disk] : V \in SUBSET Volumes}
WinReport == [token : Nat, at : Nat, disks : Disks]

WinTypes ==
    /\ now \in Nat /\ tokens \in Nat /\ pending \in Int /\ drives \in Disks /\ winCfg \in Int
    /\ winReps \in Seq(WinReport) /\ fresh \in Seq(SUBSET Volumes)
    /\ \A i \in 1..Len(winReps) : winReps[i].at <= now

\* The token in the file is the newest one, the reports carry tokens given out
\* before, and only the last report can carry the newest; the reports are the
\* first deliveries.
TokenInv ==
    /\ pending # Unset => pending = tokens - 1 /\ tokens > 0
    /\ Len(fresh) = Len(winReps)
    /\ \A i \in 1..Len(winReps) :
           /\ winReps[i].token < tokens
           /\ winReps[i].token = tokens - 1 => i = Len(winReps)
           /\ fresh[i] = DOMAIN winReps[i].disks

LEMMA DriveDomain ==
  ASSUME NEW d \in Disks
  PROVE  DOMAIN d \in SUBSET Volumes
  BY DEF Disks

LEMMA StoredFields ==
  ASSUME WinTypes, NEW i \in 1..Len(winReps)
  PROVE  winReps[i].token \in Nat /\ winReps[i].at \in Nat
<1>1. winReps[i] \in WinReport
  BY DEF WinTypes
<1> QED BY <1>1 DEF WinReport

\* What one attempt to report does, lost or not, answered or not.
LEMMA Attempt ==
  ASSUME WinTypes, TokenInv, NEW delivered \in BOOLEAN, NEW answered \in BOOLEAN, runReport(delivered, answered)
  PROVE  /\ tokens' \in {tokens, tokens + 1}
         /\ pending' # Unset => pending' = tokens' - 1 /\ tokens' > 0
         /\ \/ UNCHANGED <<winReps, fresh>>
            \/ /\ winReps' = Append(winReps, [token |-> tokens' - 1, at |-> now, disks |-> drives])
               /\ fresh' = Append(fresh, DOMAIN drives) /\ tokens' > 0
               /\ \A i \in 1..Len(winReps) : winReps[i].token # tokens' - 1
         /\ UNCHANGED <<now, drives, winCfg>>
<1> DEFINE token == loadOrCreatePendingReportID
<1> USE DEF WinTypes
<1>1. /\ tokens' = (IF token = tokens THEN tokens + 1 ELSE tokens)
      /\ pending' = (IF answered THEN Unset ELSE token)
      /\ UNCHANGED <<now, drives, winCfg>>
  BY DEF runReport, Report
<1>2. token = (IF pending # Unset THEN pending ELSE tokens)
  BY DEF loadOrCreatePendingReportID
<1> HIDE DEF token
<1>3. token \in Nat /\ tokens' = token + 1
  BY <1>1, <1>2 DEF TokenInv, Unset
<1>4. /\ tokens' \in {tokens, tokens + 1}
      /\ pending' # Unset => pending' = tokens' - 1 /\ tokens' > 0
  BY <1>1, <1>2, <1>3 DEF TokenInv, Unset
<1>5. CASE ~delivered
  <2>1. UNCHANGED <<winReps, fresh>>
    BY <1>5 DEF runReport
  <2> QED BY <1>1, <1>4, <2>1
<1>6. CASE delivered
  <2>1. winReps' = InsertWindowsReportData(token, drives)
    BY <1>6 DEF runReport, ReportWindows, collectDisks, token
  <2>2. fresh' = IF pending = Unset \/ winReps = <<>> \/ winReps[Len(winReps)].token # pending
                 THEN Append(fresh, DOMAIN drives) ELSE fresh
    BY <1>6 DEF runReport
  <2>3. NewToken(token) <=> (\A i \in 1..Len(winReps) : winReps[i].token # token)
    BY DEF NewToken
  <2>4. CASE pending = Unset \/ winReps = <<>> \/ winReps[Len(winReps)].token # pending
    <3>1. \A i \in 1..Len(winReps) : winReps[i].token # token
      <4>1. CASE pending = Unset
        BY <1>2, <4>1 DEF TokenInv, WinReport
      <4>2. CASE pending # Unset /\ winReps = <<>>
        BY <4>2
      <4>3. CASE pending # Unset /\ winReps # <<>>
        <5>1. winReps[Len(winReps)].token # pending /\ token = pending /\ pending = tokens - 1
          BY <1>2, <2>4, <4>3 DEF TokenInv
        <5> QED BY <5>1 DEF TokenInv
      <4> QED BY <4>1, <4>2, <4>3
    <3>2. winReps' = Append(winReps, [token |-> token, at |-> now, disks |-> drives])
      BY <2>1, <2>3, <3>1 DEF InsertWindowsReportData, insertWindowsReport
    <3>3. fresh' = Append(fresh, DOMAIN drives)
      BY <2>2, <2>4
    <3>4. token = tokens' - 1 /\ tokens' > 0
      BY <1>3
    <3> QED BY <1>1, <1>4, <3>1, <3>2, <3>3, <3>4
  <2>5. CASE ~(pending = Unset \/ winReps = <<>> \/ winReps[Len(winReps)].token # pending)
    <3>1. Len(winReps) \in 1..Len(winReps) /\ winReps[Len(winReps)].token = token
      BY <1>2, <2>5
    <3>2. ~NewToken(token)
      BY <2>3, <3>1
    <3>3. UNCHANGED <<winReps, fresh>>
      BY <2>1, <2>2, <2>5, <3>2 DEF InsertWindowsReportData
    <3> QED BY <1>1, <1>4, <3>3
  <2> QED BY <2>4, <2>5
<1> QED BY <1>5, <1>6

LEMMA VolumesStep ==
  ASSUME WinTypes, TokenInv, [Next]_vars
  PROVE  (WinTypes /\ TokenInv)'
<1>1. CASE UNCHANGED <<drives, pending, tokens, winReps, winCfg, fresh>> /\ now' \in {now, now + 1}
  <2>1. WinTypes'
    <3>1. \A i \in 1..Len(winReps) : winReps[i].at <= now'
      BY <1>1, StoredFields DEF WinTypes
    <3>2. now' \in Nat
      BY <1>1 DEF WinTypes
    <3> QED BY <1>1, <3>1, <3>2 DEF WinTypes
  <2>2. TokenInv'
    BY <1>1 DEF TokenInv
  <2> QED BY <2>1, <2>2
<1>2. CASE (Tick \/ \E swap \in {"unknown", "off", "on"} : Heartbeat(swap)) /\ UNCHANGED <<pveVars, pbsVars, winVars>>
  BY <1>1, <1>2 DEF Tick, Heartbeat, winVars
<1>3. CASE PVENext /\ UNCHANGED <<pbsVars, winVars>>
  <2>1. now' = now
    BY <1>3 DEF PVENext, RunBackup, Vzdump, hostVars, InsertPVEReportData, Report, EditBackupConfig, EditAlertConfig,
          CreateVMConfig, UpdateVMConfig, DeleteVMConfig, ToggleVMExclude, UpdateBackupInventory, PVEAlertConfigPost,
          PVEVMAlertConfigPost, GlobalBackupErr, PVEEdit, Edit
  <2> QED BY <1>1, <1>3, <2>1 DEF winVars
<1>4. CASE PBSNext /\ UNCHANGED <<pveVars, winVars>>
  <2>1. now' = now
    BY <1>4 DEF PBSNext, StartTask, EndTask, Verify, InsertPBSReportData, PBSAlertConfigPost, hostVars, Report, Edit
  <2> QED BY <1>1, <1>4, <2>1 DEF winVars
<1>5. CASE WindowsNext /\ UNCHANGED <<pveVars, pbsVars>>
  <2>1. ASSUME NEW V \in SUBSET Volumes, NEW d \in Disk, ChangeDrives([v \in V |-> d])
        PROVE  (WinTypes /\ TokenInv)'
    <3>1. drives' = [v \in V |-> d] /\ UNCHANGED <<pending, tokens, winReps, winCfg, fresh, now>>
      BY <2>1 DEF ChangeDrives, hostVars
    <3>2. drives' \in Disks
      BY <3>1 DEF Disks
    <3>3. WinTypes'
      BY <3>1, <3>2 DEF WinTypes
    <3>4. TokenInv'
      BY <3>1 DEF TokenInv
    <3> QED BY <3>3, <3>4
  <2>2. ASSUME NEW delivered \in BOOLEAN, NEW answered \in BOOLEAN, runReport(delivered, answered)
        PROVE  (WinTypes /\ TokenInv)'
    <3>1. /\ tokens' \in {tokens, tokens + 1}
          /\ pending' # Unset => pending' = tokens' - 1 /\ tokens' > 0
          /\ UNCHANGED <<now, drives, winCfg>>
      BY <2>2, Attempt
    <3>2. tokens' \in Nat /\ pending' \in Int
      BY <3>1 DEF WinTypes, Unset
    <3>3. CASE UNCHANGED <<winReps, fresh>>
      <4>1. WinTypes'
        BY <3>1, <3>2, <3>3 DEF WinTypes
      <4>2. \A i \in 1..Len(winReps) : winReps[i].token \in Nat
        BY StoredFields
      <4>3. TokenInv'
        BY <3>1, <3>3, <4>2 DEF TokenInv, WinTypes
      <4> QED BY <4>1, <4>3
    <3>4. CASE /\ winReps' = Append(winReps, [token |-> tokens' - 1, at |-> now, disks |-> drives])
               /\ fresh' = Append(fresh, DOMAIN drives) /\ tokens' > 0
               /\ \A i \in 1..Len(winReps) : winReps[i].token # tokens' - 1
      <4> DEFINE r == [token |-> tokens' - 1, at |-> now, disks |-> drives]
                 n == Len(winReps)
      <4>1. r \in WinReport /\ r.token = tokens' - 1 /\ r.at = now /\ r.disks = drives
        <5>0. tokens' > 0
          BY <3>4
        <5>1. tokens' - 1 \in Nat
          <6>1. \A k \in Nat : k > 0 => k - 1 \in Nat
            OBVIOUS
          <6> QED BY <3>2, <5>0, <6>1
        <5>2. now \in Nat /\ drives \in Disks
          BY DEF WinTypes
        <5> QED BY <5>1, <5>2 DEF WinReport
      <4>2. DOMAIN drives \in SUBSET Volumes
        BY DriveDomain DEF WinTypes
      <4>3. \A i \in 1..n : winReps[i].token \in Nat
        BY StoredFields
      <4>4. winReps' = Append(winReps, r)
        BY <3>4
      <4> HIDE DEF r
      <4>5. winReps' \in Seq(WinReport) /\ Len(winReps') = n + 1 /\ winReps'[n + 1] = r
            /\ \A i \in 1..n : winReps'[i] = winReps[i]
        BY <4>1, <4>4 DEF WinTypes
      <4>6. fresh' \in Seq(SUBSET Volumes) /\ Len(fresh') = n + 1 /\ fresh'[n + 1] = DOMAIN drives
            /\ \A i \in 1..n : fresh'[i] = fresh[i]
        BY <3>4, <4>2 DEF WinTypes, TokenInv
      <4>7. n \in Nat
        BY DEF WinTypes
      <4> HIDE DEF n
      <4>8. WinTypes'
        <5>1. \A i \in 1..(n + 1) : winReps'[i].at <= now
          BY <4>1, <4>5, <4>7 DEF WinTypes, n
        <5> QED BY <3>1, <3>2, <4>5, <4>6, <5>1 DEF WinTypes
      <4>9. TokenInv'
        <5>1. ASSUME NEW i \in 1..(n + 1)
              PROVE  /\ winReps'[i].token < tokens'
                     /\ winReps'[i].token = tokens' - 1 => i = n + 1
                     /\ fresh'[i] = DOMAIN winReps'[i].disks
          <6>1. CASE i = n + 1
            BY <6>1, <4>1, <4>5, <4>6, <3>2
          <6>2. CASE i # n + 1
            <7>1. i \in 1..n
              BY <6>2, <4>7
            <7>2. winReps'[i] = winReps[i] /\ fresh'[i] = fresh[i]
              BY <7>1, <4>5, <4>6
            <7>3. winReps[i].token < tokens /\ fresh[i] = DOMAIN winReps[i].disks
              BY <7>1 DEF TokenInv, n
            <7>4. winReps[i].token # tokens' - 1
              BY <3>4, <7>1 DEF n
            <7>5. tokens \in Nat /\ winReps[i].token \in Nat
              BY <4>3, <7>1 DEF WinTypes
            <7> QED BY <7>2, <7>3, <7>4, <7>5, <3>1
          <6> QED BY <6>1, <6>2
        <5> QED BY <3>1, <4>5, <4>6, <5>1 DEF TokenInv
      <4> QED BY <4>8, <4>9
    <3> QED BY <2>2, <3>3, <3>4, Attempt
  <2>3. ASSUME NEW disk \in {Unset, 0, 40}, WindowsAlertConfigPost(disk)
        PROVE  (WinTypes /\ TokenInv)'
    <3>1. winCfg' \in Int /\ UNCHANGED <<drives, pending, tokens, winReps, fresh, now>>
      BY <2>3 DEF WindowsAlertConfigPost, Edit, Unset
    <3>2. WinTypes'
      BY <3>1 DEF WinTypes
    <3>3. TokenInv'
      BY <3>1 DEF TokenInv
    <3> QED BY <3>2, <3>3
  <2> QED BY <1>5, <2>1, <2>2, <2>3 DEF WindowsNext, Disk
<1>6. CASE UNCHANGED vars
  BY <1>1, <1>6 DEF vars, hostVars, winVars, WinTypes
<1> QED BY <1>2, <1>3, <1>4, <1>5, <1>6 DEF Next

LEMMA VolumesStart ==
  ASSUME Init
  PROVE  WinTypes /\ TokenInv
<1>1. now = 0 /\ drives = [v \in Volumes |-> Sound] /\ pending = Unset /\ tokens = 0 /\ winReps = <<>> /\ winCfg = Unset /\ fresh = <<>>
  BY DEF Init, HostsInit, WindowsInit
<1>2. drives \in Disks
  BY <1>1 DEF Disks, Disk
<1>3. Unset \in Int
  BY DEF Unset
<1> QED BY <1>1, <1>2, <1>3 DEF WinTypes, TokenInv

\* A retry never hides a volume that was lost: the alert names exactly the
\* volumes that the last report but one had and the last one has not, counting
\* a report and its retries once (client-windows and InsertWindowsReportData,
\* internal/store/windows.go).
THEOREM LostVolumesAreNamed == Spec => []LostVolumeSurvivesRetry
<1>1. Init => WinTypes /\ TokenInv
  BY VolumesStart
<1>2. (WinTypes /\ TokenInv) /\ [Next]_vars => (WinTypes /\ TokenInv)'
  BY VolumesStep
<1>3. WinTypes /\ TokenInv => LostVolumeSurvivesRetry
  <2> SUFFICES ASSUME WinTypes, TokenInv, NEW v \in Volumes
               PROVE  (<<"windows_volume_missing", v>> \in windowsAlerts)
                      <=> (Len(fresh) >= 2 /\ v \in fresh[Len(fresh) - 1] /\ v \notin fresh[Len(fresh)])
    BY DEF LostVolumeSurvivesRetry
  <2>1. (<<"windows_volume_missing", v>> \in windowsAlerts) <=> (<<"windows_volume_missing", v>> \in evalWindowsMissingVolume)
    BY DEF windowsAlerts, evalWindowsDisk, evalWindowsDiskHealth, evalWindowsHeartbeat
  <2>2. (<<"windows_volume_missing", v>> \in evalWindowsMissingVolume)
        <=> (Len(winReps) >= 2 /\ v \in DOMAIN previous \ DOMAIN current)
    BY DEF evalWindowsMissingVolume, WinTypes
  <2>3. CASE Len(winReps) >= 2
    <3>1. previous = winReps[Len(winReps) - 1].disks /\ current = winReps[Len(winReps)].disks
      BY <2>3 DEF previous, current, WinTypes
    <3>2. /\ fresh[Len(winReps)] = DOMAIN winReps[Len(winReps)].disks
          /\ fresh[Len(winReps) - 1] = DOMAIN winReps[Len(winReps) - 1].disks
      BY <2>3 DEF TokenInv, WinTypes
    <3> QED BY <2>1, <2>2, <3>1, <3>2 DEF TokenInv
  <2>4. CASE ~(Len(winReps) >= 2)
    BY <2>1, <2>2, <2>4 DEF TokenInv
  <2> QED BY <2>3, <2>4
<1> QED BY <1>1, <1>2, <1>3, PTL DEF Spec

-----------------------------------------------------------------------------
(***************************************************************************)
(* The maintenance tasks and verifications of a backup server.             *)
(***************************************************************************)
Exits == {"", "OK", "error", "other", "stopped"}
PBSTask == [id : Nat, job : PBSJobs, start : Nat, end : Int, exit : Exits, listed : BOOLEAN]

\* latest looks for a task that comes after all others of the set.
Follows(t, u) == taskTime(u) < taskTime(t) \/ (taskTime(u) = taskTime(t) /\ u.id <= t.id)

TaskTypes ==
    /\ now \in Nat
    /\ pbsTasks \subseteq PBSTask /\ IsFiniteSet(pbsTasks)
    /\ \A t \in pbsTasks : /\ t.start <= now
                           /\ t.end = Unset \/ (t.start <= t.end /\ t.end <= now /\ t.exit # "")
    /\ verified \in [Groups -> States]
HasLast(S) == \A T \in SUBSET S : T # {} => \E t \in T : \A u \in T : Follows(t, u)
TaskInv == TaskTypes /\ HasLast(pbsTasks)

\* What the evaluators are given by the latest report: for each group its
\* verification, for each job the exit of its last task.
GroupsReported ==
    pbsRep # NoPBSReport =>
        /\ pbsRep.seen.verified \in [Groups -> States]
        /\ \A r \in pbsRep.groups : r.group \in Groups /\ r.state \in {"", pbsRep.seen.verified[r.group]}
        /\ pbsRep.reads = AllPBSRead =>
               \A g \in Groups : \E r \in pbsRep.groups : r.group = g /\ r.state = pbsRep.seen.verified[g]
Settled(j) == Ended(j) # {} /\ ~Running(j) /\ \A t, u \in Ended(j) : t.end = u.end => t = u
IsLast(l, j) == l \in Ended(j) /\ \A u \in Ended(j) : u.end <= l.end
JobsReported ==
    pbsRep # NoPBSReport =>
        /\ \A t \in pbsRep.seen.tasks : t.end \in Int
        /\ \A r \in pbsRep.tasks : r.job \in PBSJobs /\ r.status \in {"OK", "error", "other"}
        /\ pbsRep.reads = AllPBSRead => \A j \in PBSJobs : Settled(j) =>
               \E l : IsLast(l, j) /\ ((l.exit = "error") <=> \E r \in pbsRep.tasks : r.job = j /\ r.status = "error")

LEMMA FollowsIsTotal ==
  ASSUME NEW t \in PBSTask, NEW u \in PBSTask
  PROVE  /\ Follows(t, t) /\ (Follows(t, u) \/ Follows(u, t))
         /\ \A w \in PBSTask : Follows(t, u) /\ Follows(u, w) => Follows(t, w)
<1>1. \A x \in PBSTask : taskTime(x) \in Int /\ x.id \in Nat
  BY DEF PBSTask, taskTime
<1> QED BY <1>1 DEF Follows

\* One more task leaves every set of tasks with one that follows all others.
LEMMA OneMoreTask ==
  ASSUME NEW S \in SUBSET PBSTask, NEW x \in PBSTask,
         HasLast(S)
  PROVE  HasLast(S \cup {x})
<1> SUFFICES ASSUME NEW T \in SUBSET (S \cup {x}), T # {}
             PROVE  \E t \in T : \A u \in T : Follows(t, u)
  BY DEF HasLast
<1>1. CASE x \notin T
  BY <1>1 DEF HasLast
<1>2. CASE T = {x}
  BY <1>2, FollowsIsTotal
<1>3. CASE x \in T /\ T # {x}
  <2>1. T \ {x} \in SUBSET S /\ T \ {x} # {}
    BY <1>3
  <2>2. PICK t \in T \ {x} : \A u \in T \ {x} : Follows(t, u)
    BY <2>1 DEF HasLast
  <2>3. t \in PBSTask /\ T \subseteq PBSTask
    OBVIOUS
  <2>4. CASE Follows(t, x)
    <3>1. \A u \in T : Follows(t, u)
      BY <2>2, <2>4
    <3> QED BY <3>1
  <2>5. CASE Follows(x, t)
    <3>1. \A u \in T : Follows(x, u)
      BY <2>2, <2>3, <2>5, FollowsIsTotal
    <3> QED BY <1>3, <3>1
  <2> QED BY <2>3, <2>4, <2>5, FollowsIsTotal
<1> QED BY <1>1, <1>2, <1>3

LEMMA TaskStart ==
  ASSUME Init
  PROVE  TaskInv /\ GroupsReported /\ JobsReported
<1>1. now = 0 /\ pbsTasks = {} /\ verified = [g \in Groups |-> ""] /\ pbsRep = NoPBSReport
  BY DEF Init, HostsInit, PBSInit
<1>2. IsFiniteSet(pbsTasks)
  BY <1>1, FS_EmptySet
<1> QED BY <1>1, <1>2 DEF TaskInv, TaskTypes, HasLast, GroupsReported, JobsReported, States

\* Only the backup server touches its tasks.
LEMMA TasksAlone ==
  ASSUME TaskInv, UNCHANGED <<pbsTasks, verified>>, now' \in {now, now + 1}
  PROVE  TaskInv'
<1>1. \A t \in pbsTasks : t.start \in Nat /\ t.end \in Int
  BY DEF TaskInv, TaskTypes, PBSTask
<1>2. now \in Nat
  BY DEF TaskInv, TaskTypes
<1>3. now' \in Nat /\ now <= now'
  BY <1>2
<1>4. ASSUME NEW t \in pbsTasks
      PROVE  t.start <= now' /\ (t.end = Unset \/ (t.start <= t.end /\ t.end <= now' /\ t.exit # ""))
  <2>1. t.start <= now /\ (t.end = Unset \/ (t.start <= t.end /\ t.end <= now /\ t.exit # ""))
    BY DEF TaskInv, TaskTypes
  <2>2. \A a \in Int : a <= now => a <= now'
    BY <1>2, <1>3
  <2>3. t.start \in Int /\ t.end \in Int
    BY <1>1
  <2> QED BY <2>1, <2>2, <2>3, Zenon
<1> QED BY <1>3, <1>4 DEF TaskInv, TaskTypes

LEMMA TaskStep ==
  ASSUME TaskInv, [Next]_vars
  PROVE  TaskInv'
<1>1. CASE (Tick \/ \E swap \in {"unknown", "off", "on"} : Heartbeat(swap)) /\ UNCHANGED <<pveVars, pbsVars, winVars>>
  BY <1>1, TasksAlone DEF Tick, Heartbeat, pbsVars
<1>2. CASE PVENext /\ UNCHANGED <<pbsVars, winVars>>
  <2>1. now' = now
    BY <1>2 DEF PVENext, RunBackup, Vzdump, hostVars, InsertPVEReportData, Report, EditBackupConfig, EditAlertConfig,
          CreateVMConfig, UpdateVMConfig, DeleteVMConfig, ToggleVMExclude, UpdateBackupInventory, PVEAlertConfigPost,
          PVEVMAlertConfigPost, GlobalBackupErr, PVEEdit, Edit
  <2> QED BY <1>2, <2>1, TasksAlone DEF pbsVars
<1>3. CASE WindowsNext /\ UNCHANGED <<pveVars, pbsVars>>
  <2>1. now' = now
    BY <1>3 DEF WindowsNext, ChangeDrives, runReport, WindowsAlertConfigPost, hostVars, Report, Edit
  <2> QED BY <1>3, <2>1, TasksAlone DEF pbsVars
<1>4. CASE UNCHANGED vars
  BY <1>4, TasksAlone DEF vars, hostVars, pbsVars
<1>5. ASSUME NEW j \in PBSJobs, NEW listed \in BOOLEAN, StartTask(j, listed)
      PROVE  TaskInv'
  <2> DEFINE x == [id |-> Cardinality(pbsTasks), job |-> j, start |-> now, end |-> Unset, exit |-> "", listed |-> listed]
  <2>1. pbsTasks' = pbsTasks \cup {x} /\ UNCHANGED <<verified, now>>
    BY <1>5 DEF StartTask, hostVars
  <2>2. x \in PBSTask /\ x.start = now /\ x.end = Unset
    <3>1. Cardinality(pbsTasks) \in Nat
      BY FS_CardinalityType DEF TaskInv, TaskTypes
    <3>2. now \in Nat
      BY DEF TaskInv, TaskTypes
    <3>3. Unset \in Int
      BY DEF Unset
    <3> QED BY <3>1, <3>2, <3>3 DEF PBSTask, Exits
  <2> HIDE DEF x
  <2>3. IsFiniteSet(pbsTasks')
    BY <2>1, FS_AddElement DEF TaskInv, TaskTypes
  <2>4. HasLast(pbsTasks \cup {x})
    BY <2>2, OneMoreTask DEF TaskInv, TaskTypes
  <2>5. x.start <= now
    <3>1. now \in Nat
      BY DEF TaskInv, TaskTypes
    <3> QED BY <2>2, <3>1
  <2>6. \A t \in pbsTasks \cup {x} : /\ t.start <= now
                                     /\ t.end = Unset \/ (t.start <= t.end /\ t.end <= now /\ t.exit # "")
    BY <2>2, <2>5, Zenon DEF TaskInv, TaskTypes
  <2>7. pbsTasks \cup {x} \subseteq PBSTask
    BY <2>2 DEF TaskInv, TaskTypes
  <2> QED BY <2>1, <2>3, <2>4, <2>6, <2>7, Zenon DEF TaskInv, TaskTypes
<1>6. ASSUME NEW y \in pbsTasks, NEW exit \in {"OK", "error", "other", "stopped"}, EndTask(y, exit)
      PROVE  TaskInv'
  <2> DEFINE x == [y EXCEPT !.end = now, !.exit = exit]
             S == pbsTasks \ {y}
  <2>1. pbsTasks' = S \cup {x} /\ UNCHANGED <<verified, now>>
    BY <1>6 DEF EndTask, hostVars
  <2>0. y \in PBSTask /\ now \in Nat /\ y.start \in Nat /\ y.start <= now
    BY DEF TaskInv, TaskTypes, PBSTask
  <2>2. x \in PBSTask /\ x.start = y.start /\ x.end = now /\ x.exit = exit
    <3>1. now \in Int
      BY <2>0
    <3> QED BY <2>0, <3>1 DEF PBSTask, Exits
  <2>3. IsFiniteSet(S \cup {x})
    BY FS_RemoveElement, FS_AddElement DEF TaskInv, TaskTypes
  <2>4. HasLast(S)
    BY DEF TaskInv, HasLast
  <2>5. S \subseteq PBSTask
    BY DEF TaskInv, TaskTypes
  <2> HIDE DEF x
  <2>6. HasLast(S \cup {x})
    <3> HIDE DEF S
    <3> QED BY <2>2, <2>4, <2>5, OneMoreTask
  <2>7. x.start <= now /\ x.start <= x.end /\ x.end <= now /\ x.exit # ""
    <3>1. now <= now
      BY <2>0
    <3> QED BY <2>0, <2>2, <3>1, Zenon
  <2>8. \A t \in S \cup {x} : /\ t.start <= now
                              /\ t.end = Unset \/ (t.start <= t.end /\ t.end <= now /\ t.exit # "")
    BY <2>7, Zenon DEF TaskInv, TaskTypes
  <2>9. S \cup {x} \subseteq PBSTask
    BY <2>2, <2>5
  <2> QED BY <2>1, <2>3, <2>6, <2>8, <2>9, Zenon DEF TaskInv, TaskTypes
<1>7. ASSUME NEW g \in Groups, NEW state \in States, Verify(g, state)
      PROVE  TaskInv'
  <2>1. verified' = [verified EXCEPT ![g] = state] /\ UNCHANGED <<pbsTasks, now>>
    BY <1>7 DEF Verify, hostVars
  <2>2. verified' \in [Groups -> States]
    BY <2>1 DEF TaskInv, TaskTypes
  <2> QED BY <2>1, <2>2 DEF TaskInv, TaskTypes
<1>8. ASSUME NEW reads, NEW disk, NEW full, NEW swap, InsertPBSReportData(reads, disk, full, swap)
      PROVE  TaskInv'
  BY <1>8, TasksAlone DEF InsertPBSReportData, Report
<1>9. ASSUME NEW stale, NEW disk, NEW fill, NEW verify, NEW swap, PBSAlertConfigPost(stale, disk, fill, verify, swap)
      PROVE  TaskInv'
  BY <1>9, TasksAlone DEF PBSAlertConfigPost, Edit
<1>10. CASE PBSNext /\ UNCHANGED <<pveVars, winVars>>
  BY <1>5, <1>6, <1>7, <1>8, <1>9, <1>10 DEF PBSNext
<1> QED BY <1>1, <1>2, <1>3, <1>4, <1>10 DEF Next

\* The tasks of one job, of which latest finds the one that follows all.
Of(j) == {t \in pbsTasks : t.job = j}

LEMMA LatestOf ==
  ASSUME TaskInv, NEW j, Of(j) # {}
  PROVE  latest(Of(j)) \in Of(j) /\ \A u \in Of(j) : Follows(latest(Of(j)), u)
<1>1. \E t \in Of(j) : \A u \in Of(j) : Follows(t, u)
  BY DEF TaskInv, HasLast, Of
<1> DEFINE T == Of(j)
<1> HIDE DEF T
<1>2. latest(T) = CHOOSE t \in T : \A u \in T : Follows(t, u)
  BY DEF latest, Follows
<1>3. \E t \in T : \A u \in T : Follows(t, u)
  BY <1>1 DEF T
<1>4. latest(T) \in T /\ \A u \in T : Follows(latest(T), u)
  BY <1>2, <1>3
<1> QED BY <1>4 DEF T

\* maintenanceTasks: one row for each job whose latest task has a status.
LEMMA MaintenanceRows ==
  ASSUME TaskInv, NEW reads
  PROVE  /\ \A r \in maintenanceTasks(reads) :
                \E u \in pbsTasks : /\ r.job = u.job /\ u = latest(Of(u.job))
                                    /\ r.status = exitStatus(u, reads) /\ r.status \notin {"", "stopped"}
         /\ reads = AllPBSRead => \A u \in pbsTasks :
                (u = latest(Of(u.job)) /\ exitStatus(u, reads) \notin {"", "stopped"}) =>
                    \E r \in maintenanceTasks(reads) : r.job = u.job /\ r.status = exitStatus(u, reads)
<1> DEFINE newest == {latest(Of(j)) : j \in {t.job : t \in pbsTasks}}
           rows == {[job |-> t.job, status |-> exitStatus(t, reads)] :
                       t \in {u \in newest : exitStatus(u, reads) \notin {"", "stopped"}}}
<1>1. maintenanceTasks(reads) = IF ~reads.tasks THEN {} ELSE rows
  BY DEF maintenanceTasks, Of
<1>2. \A u \in newest : u \in pbsTasks /\ u = latest(Of(u.job))
  <2> SUFFICES ASSUME NEW w \in pbsTasks
               PROVE  latest(Of(w.job)) \in pbsTasks /\ latest(Of(w.job)) = latest(Of(latest(Of(w.job)).job))
    OBVIOUS
  <2>1. Of(w.job) # {}
    BY DEF Of
  <2>2. latest(Of(w.job)) \in Of(w.job)
    BY <2>1, LatestOf
  <2>3. latest(Of(w.job)) \in pbsTasks /\ latest(Of(w.job)).job = w.job
    BY <2>2 DEF Of
  <2> QED BY <2>3
<1>3. \A u \in pbsTasks : u = latest(Of(u.job)) => u \in newest
  OBVIOUS
<1> HIDE DEF newest
<1>4. ASSUME NEW r \in rows
      PROVE  \E u \in pbsTasks : /\ r.job = u.job /\ u = latest(Of(u.job))
                                 /\ r.status = exitStatus(u, reads) /\ r.status \notin {"", "stopped"}
  <2>1. PICK u \in newest : r = [job |-> u.job, status |-> exitStatus(u, reads)] /\ exitStatus(u, reads) \notin {"", "stopped"}
    OBVIOUS
  <2>2. r.job = u.job /\ r.status = exitStatus(u, reads)
    BY <2>1
  <2> QED BY <1>2, <2>1, <2>2
<1>5. ASSUME NEW u \in pbsTasks, u = latest(Of(u.job)), exitStatus(u, reads) \notin {"", "stopped"}
      PROVE  \E r \in rows : r.job = u.job /\ r.status = exitStatus(u, reads)
  <2> DEFINE r == [job |-> u.job, status |-> exitStatus(u, reads)]
  <2>1. r \in rows
    BY <1>3, <1>5
  <2>2. r.job = u.job /\ r.status = exitStatus(u, reads)
    OBVIOUS
  <2> QED BY <2>1, <2>2
<1> HIDE DEF rows
<1>6. reads = AllPBSRead => maintenanceTasks(reads) = rows
  BY <1>1 DEF AllPBSRead
<1>7. maintenanceTasks(reads) \subseteq rows
  BY <1>1
<1> QED BY <1>4, <1>5, <1>6, <1>7

LEMMA SeenFields ==
  ASSUME NEW reads, NEW disk, NEW full, NEW swap, InsertPBSReportData(reads, disk, full, swap)
  PROVE  /\ pbsRep'.seen.tasks = pbsTasks /\ pbsRep'.seen.verified = verified
         /\ \A j : (Ended(j))' = {t \in pbsTasks : t.job = j /\ t.end # Unset}
         /\ \A j : (Running(j))' <=> \E t \in pbsTasks : t.job = j /\ t.end = Unset
<1>1. pbsRep'.seen = [tasks |-> pbsTasks, verified |-> verified]
  BY StoredPBS
<1>2. pbsRep'.seen.tasks = pbsTasks /\ pbsRep'.seen.verified = verified
  BY <1>1
<1> QED BY <1>2 DEF Ended, Running

LEMMA ReportGroups ==
  ASSUME TaskInv, NEW reads, NEW disk, NEW full, NEW swap, InsertPBSReportData(reads, disk, full, swap)
  PROVE  GroupsReported'
<1>1. pbsRep'.seen.verified = verified /\ pbsRep'.groups = groupRows(reads) /\ pbsRep'.reads = reads
  BY SeenFields, StoredPBS
<1>2. verified \in [Groups -> States]
  BY DEF TaskInv, TaskTypes
<1>3. ASSUME NEW r \in groupRows(reads)
      PROVE  r.group \in Groups /\ r.state \in {"", verified[r.group]}
  <2>1. PICK g \in Groups : r = [group |-> g, state |-> IF reads.snaps THEN verified[g] ELSE ""]
    BY DEF groupRows
  <2>2. r.group = g /\ r.state = (IF reads.snaps THEN verified[g] ELSE "")
    BY <2>1
  <2> QED BY <2>2
<1>4. ASSUME reads = AllPBSRead, NEW g \in Groups
      PROVE  \E r \in groupRows(reads) : r.group = g /\ r.state = verified[g]
  <2>1. groupRows(reads) = {[group |-> h, state |-> verified[h]] : h \in Groups}
    BY <1>4 DEF groupRows, AllPBSRead
  <2>2. [group |-> g, state |-> verified[g]] \in groupRows(reads)
    BY <2>1
  <2> QED BY <2>2
<1> QED BY <1>1, <1>2, <1>3, <1>4 DEF GroupsReported

LEMMA ReportJobs ==
  ASSUME TaskInv, NEW reads, NEW disk, NEW full, NEW swap, InsertPBSReportData(reads, disk, full, swap)
  PROVE  JobsReported'
<1>1. pbsRep'.seen.tasks = pbsTasks /\ pbsRep'.tasks = maintenanceTasks(reads) /\ pbsRep'.reads = reads
  BY SeenFields, StoredPBS
<1>2. pbsTasks \subseteq PBSTask
  BY DEF TaskInv, TaskTypes
<1>3. \A t \in pbsTasks : t.end \in Int /\ t.job \in PBSJobs /\ t.exit \in Exits /\ t.id \in Nat
  BY <1>2 DEF PBSTask
<1>4. \A r \in maintenanceTasks(reads) : r.job \in PBSJobs /\ r.status \in {"OK", "error", "other"}
  <2> SUFFICES ASSUME NEW r \in maintenanceTasks(reads)
               PROVE  r.job \in PBSJobs /\ r.status \in {"OK", "error", "other"}
    OBVIOUS
  <2>1. PICK u \in pbsTasks : r.job = u.job /\ r.status = exitStatus(u, reads) /\ r.status \notin {"", "stopped"}
    BY MaintenanceRows
  <2>2. exitStatus(u, reads) \in Exits
    BY <1>3 DEF exitStatus, Exits
  <2> QED BY <1>3, <2>1, <2>2 DEF Exits
<1>5. ASSUME reads = AllPBSRead, NEW j \in PBSJobs, Settled(j)'
      PROVE  \E l : IsLast(l, j)' /\ ((l.exit = "error") <=> \E r \in maintenanceTasks(reads) : r.job = j /\ r.status = "error")
  <2>1. (Ended(j))' = Of(j)
    <3>1. (Ended(j))' = {t \in pbsTasks : t.job = j /\ t.end # Unset}
      BY SeenFields
    <3>2. ~\E t \in pbsTasks : t.job = j /\ t.end = Unset
      BY <1>5, SeenFields DEF Settled
    <3> QED BY <3>1, <3>2 DEF Of
  <2>2. Of(j) # {}
    BY <1>5, <2>1 DEF Settled
  <2>3. PICK l \in Of(j) : l = latest(Of(j)) /\ \A u \in Of(j) : Follows(l, u)
    BY <2>2, LatestOf
  <2>4. \A u \in Of(j) : u \in pbsTasks /\ u.job = j /\ u.end # Unset /\ u.end \in Int /\ taskTime(u) = u.end
    <3>1. \A u \in Of(j) : u.end # Unset
      BY <2>1, SeenFields
    <3> QED BY <1>3, <3>1 DEF Of, taskTime
  <2>5. l = latest(Of(l.job))
    BY <2>3, <2>4
  <2>6. IsLast(l, j)'
    <3>1. ASSUME NEW u \in Of(j)
          PROVE  u.end <= l.end
      <4>1. u.end < l.end \/ u.end = l.end
        BY <2>3, <2>4 DEF Follows
      <4>2. u.end \in Int /\ l.end \in Int
        BY <2>3, <2>4
      <4> QED BY <4>1, <4>2
    <3> QED BY <2>1, <2>3, <3>1 DEF IsLast
  <2>7. exitStatus(l, reads) = l.exit
    BY <1>5, <2>3, <2>4 DEF exitStatus, AllPBSRead
  <2>8. ASSUME l.exit = "error"
        PROVE  \E r \in maintenanceTasks(reads) : r.job = j /\ r.status = "error"
    <3>1. l \in pbsTasks /\ l.job = j /\ exitStatus(l, reads) = "error"
      BY <2>3, <2>4, <2>7, <2>8
    <3>2. exitStatus(l, reads) \notin {"", "stopped"}
      BY <3>1
    <3>3. \E r \in maintenanceTasks(reads) : r.job = l.job /\ r.status = exitStatus(l, reads)
      BY <1>5, <2>5, <3>1, <3>2, MaintenanceRows
    <3> QED BY <3>1, <3>3
  <2>9. ASSUME NEW r \in maintenanceTasks(reads), r.job = j, r.status = "error"
        PROVE  l.exit = "error"
    <3>1. PICK u \in pbsTasks : r.job = u.job /\ u = latest(Of(u.job)) /\ r.status = exitStatus(u, reads)
      BY MaintenanceRows
    <3>2. u = l
      BY <2>3, <2>9, <3>1
    <3> QED BY <2>7, <2>9, <3>1, <3>2
  <2> QED BY <2>6, <2>8, <2>9
<1> QED BY <1>1, <1>3, <1>4, <1>5 DEF JobsReported

LEMMA ReportedStep ==
  ASSUME TaskInv, GroupsReported, JobsReported, [Next]_vars
  PROVE  (GroupsReported /\ JobsReported)'
<1>1. CASE UNCHANGED pbsRep
  <2>1. GroupsReported'
    BY <1>1 DEF GroupsReported
  <2>2. JobsReported'
    BY <1>1 DEF JobsReported, Settled, IsLast, Ended, Running
  <2> QED BY <2>1, <2>2
<1>2. ASSUME NEW reads, NEW disk, NEW full, NEW swap, InsertPBSReportData(reads, disk, full, swap)
      PROVE  (GroupsReported /\ JobsReported)'
  BY <1>2, ReportGroups, ReportJobs
<1>3. CASE PBSNext
  BY <1>1, <1>2, <1>3 DEF PBSNext, StartTask, EndTask, Verify, PBSAlertConfigPost
<1>4. CASE ~PBSNext
  BY <1>1, <1>4 DEF Next, vars, pbsVars
<1> QED BY <1>3, <1>4

\* Each alert of a job or a group is the work of its own evaluator.
LEMMA PBSAlertOrigins ==
  /\ \A g : <<"pbs_verify", g>> \in pbsAlerts <=> <<"pbs_verify", g>> \in evalPBSVerify
  /\ \A j, id : <<pbsTaskFailureAlert([job |-> j]), id>> \in pbsAlerts
                    <=> <<pbsTaskFailureAlert([job |-> j]), id>> \in evalPBSTaskFailures
<1>1. ASSUME NEW type \in {"pbs_verify", "pbs_gc_failed", "pbs_sync_failed"}, NEW x
      PROVE  /\ <<type, x>> \notin evalPBSReportStale /\ <<type, x>> \notin evalPBSHeartbeat
             /\ <<type, x>> \notin evalPBSDisk /\ <<type, x>> \notin evalPBSFill
             /\ <<type, x>> \notin evalHostSwap(pbsCfg.swap, pbsRep.swap, pbsRep.at)
  BY DEF evalPBSReportStale, evalPBSHeartbeat, heartbeat, evalPBSDisk, evalPBSFill, evalHostSwap
<1>2. ASSUME NEW x
      PROVE  <<"pbs_verify", x>> \notin evalPBSTaskFailures
  BY DEF evalPBSTaskFailures, pbsTaskFailureAlert
<1>3. ASSUME NEW type \in {"pbs_gc_failed", "pbs_sync_failed"}, NEW x
      PROVE  <<type, x>> \notin evalPBSVerify
  BY DEF evalPBSVerify
<1>4. \A j : pbsTaskFailureAlert([job |-> j]) \in {"pbs_gc_failed", "pbs_sync_failed"}
  BY DEF pbsTaskFailureAlert
<1> QED BY <1>1, <1>2, <1>3, <1>4 DEF pbsAlerts

LEMMA VerifyFollows ==
  ASSUME GroupsReported
  PROVE  VerifyAlertsMatch
<1> SUFFICES ASSUME pbsRep # NoPBSReport, pbsCfg.verify, NEW g \in Groups
             PROVE  /\ <<"pbs_verify", g>> \in pbsAlerts => pbsRep.seen.verified[g] = "failed"
                    /\ (pbsRep.reads = AllPBSRead /\ pbsRep.seen.verified[g] = "failed") => <<"pbs_verify", g>> \in pbsAlerts
  BY DEF VerifyAlertsMatch
<1>1. <<"pbs_verify", g>> \in pbsAlerts <=> \E r \in pbsRep.groups : r.group = g /\ r.state \notin {"", "ok"}
  BY PBSAlertOrigins DEF evalPBSVerify
<1>2. pbsRep.seen.verified[g] \in {"", "ok", "failed"}
  BY DEF GroupsReported, States
<1>3. ASSUME NEW r \in pbsRep.groups, r.group = g, r.state \notin {"", "ok"}
      PROVE  pbsRep.seen.verified[g] = "failed"
  BY <1>2, <1>3 DEF GroupsReported
<1>4. ASSUME pbsRep.reads = AllPBSRead, pbsRep.seen.verified[g] = "failed"
      PROVE  \E r \in pbsRep.groups : r.group = g /\ r.state \notin {"", "ok"}
  BY <1>4 DEF GroupsReported
<1> QED BY <1>1, <1>3, <1>4

LEMMA MaintenanceFollows ==
  ASSUME JobsReported
  PROVE  MaintenanceFailureAlerts
<1> SUFFICES ASSUME pbsRep # NoPBSReport, pbsRep.reads = AllPBSRead, NEW j \in PBSJobs, Settled(j),
                    NEW last, last = CHOOSE t \in Ended(j) : \A u \in Ended(j) : u.end <= t.end
             PROVE  (last.exit = "error") <=> (<<pbsTaskFailureAlert([job |-> j]), j[2]>> \in pbsAlerts)
  BY DEF MaintenanceFailureAlerts, Settled
<1>1. PICK l : IsLast(l, j) /\ ((l.exit = "error") <=> \E r \in pbsRep.tasks : r.job = j /\ r.status = "error")
  BY DEF JobsReported
<1>2. last = l
  <2>1. last \in Ended(j) /\ \A u \in Ended(j) : u.end <= last.end
    BY <1>1 DEF IsLast
  <2>2. last.end <= l.end /\ l.end <= last.end
    BY <1>1, <2>1 DEF IsLast
  <2>3. last.end \in Int /\ l.end \in Int
    BY <1>1, <2>1 DEF IsLast, Ended, JobsReported
  <2>4. last.end = l.end
    BY <2>2, <2>3
  <2> QED BY <1>1, <2>1, <2>4 DEF IsLast, Settled
<1> DEFINE type == pbsTaskFailureAlert([job |-> j])
<1>3. <<type, j[2]>> \in pbsAlerts <=> \E r \in pbsRep.tasks : /\ r.status = "error" /\ pbsTaskFailureAlert(r) = type
                                                               /\ r.job[2] = j[2]
  BY PBSAlertOrigins DEF evalPBSTaskFailures, PBSTaskFailed
<1>4. ASSUME NEW r \in pbsRep.tasks, pbsTaskFailureAlert(r) = type, r.job[2] = j[2]
      PROVE  r.job = j
  <2>1. r.job \in {"sync", "gc"} \X STRING /\ j \in {"sync", "gc"} \X STRING
    BY PBSAssumption DEF JobsReported
  <2>2. r.job[1] = j[1]
    BY <1>4, <2>1 DEF pbsTaskFailureAlert
  <2> QED BY <1>4, <2>1, <2>2
<1>5. ASSUME NEW r \in pbsRep.tasks, r.job = j
      PROVE  pbsTaskFailureAlert(r) = type /\ r.job[2] = j[2]
  BY <1>5 DEF pbsTaskFailureAlert
<1>6. <<type, j[2]>> \in pbsAlerts <=> \E r \in pbsRep.tasks : r.job = j /\ r.status = "error"
  <2> HIDE DEF type
  <2> QED BY <1>3, <1>4, <1>5
<1> QED BY <1>1, <1>2, <1>6

\* The alerts about maintenance jobs and snapshots are those of the backup
\* server: a settled job is alerted about exactly if its last task failed, and a
\* group if its newest snapshot did (client/pbs.go:168,
\* internal/service/alertengine.go:886).
THEOREM BackupServerAlertsMatch == Spec => []PBSAlertsMatch
<1> DEFINE Inv == TaskInv /\ GroupsReported /\ JobsReported
<1>1. Init => Inv
  BY TaskStart
<1>2. Inv /\ [Next]_vars => Inv'
  BY TaskStep, ReportedStep
<1>3. Inv => PBSAlertsMatch
  BY VerifyFollows, MaintenanceFollows DEF PBSAlertsMatch
<1> QED BY <1>1, <1>2, <1>3, PTL DEF Spec

-----------------------------------------------------------------------------
(***************************************************************************)
(* The backup tasks of a Proxmox VE node and the rows of its reports.      *)
(***************************************************************************)
Log == [started : SUBSET VMs, failed : SUBSET VMs, finished : SUBSET VMs, jobError : BOOLEAN]
VzTask == [id : Nat, vm : VMs \cup {Server}, start : Int, end : Int, status : {"OK", "WARN", "GEN", "ERR"}, log : Log]

\* What the log of a task says agrees with itself and with its status.
Agrees(t) ==
    /\ t.log.failed \subseteq t.log.started /\ t.log.finished \subseteq t.log.started
    /\ t.log.failed \cap t.log.finished = {}
    /\ t.vm # Server => t.log.started = {t.vm}
    /\ t.log.jobError <=> t.log.started = {}
    /\ t.log.jobError => t.status = "GEN"
    /\ \A v \in t.log.started : (v \notin t.log.failed /\ v \notin t.log.finished) => t.status = "ERR"

\* Newest looks for a task that comes after all others of the set.
After(t, u) == u.end < t.end \/ (u.end = t.end /\ u.id <= t.id)
HasNewest(S) == \A T \in SUBSET S : T # {} => \E t \in T : \A u \in T : After(t, u)

VzTypes ==
    /\ now \in Nat /\ tasks \subseteq VzTask /\ IsFiniteSet(tasks)
    /\ \A t \in tasks : t.start <= t.end /\ t.end <= now
VzAgree == \A t \in tasks : Agrees(t)

LEMMA AfterIsTotal ==
  ASSUME NEW t \in VzTask, NEW u \in VzTask
  PROVE  /\ After(t, t) /\ (After(t, u) \/ After(u, t))
         /\ \A w \in VzTask : After(t, u) /\ After(u, w) => After(t, w)
<1>1. \A x \in VzTask : x.end \in Int /\ x.id \in Nat
  BY DEF VzTask
<1> QED BY <1>1 DEF After

LEMMA OneMoreVzdump ==
  ASSUME NEW S \in SUBSET VzTask, NEW x \in VzTask, HasNewest(S)
  PROVE  HasNewest(S \cup {x})
<1> SUFFICES ASSUME NEW T \in SUBSET (S \cup {x}), T # {}
             PROVE  \E t \in T : \A u \in T : After(t, u)
  BY DEF HasNewest
<1>1. CASE x \notin T
  BY <1>1 DEF HasNewest
<1>2. CASE T = {x}
  BY <1>2, AfterIsTotal
<1>3. CASE x \in T /\ T # {x}
  <2>1. T \ {x} \in SUBSET S /\ T \ {x} # {}
    BY <1>3
  <2>2. PICK t \in T \ {x} : \A u \in T \ {x} : After(t, u)
    BY <2>1 DEF HasNewest
  <2>3. t \in VzTask /\ T \subseteq VzTask
    OBVIOUS
  <2>4. CASE After(t, x)
    <3>1. \A u \in T : After(t, u)
      BY <2>2, <2>4
    <3> QED BY <3>1
  <2>5. CASE After(x, t)
    <3>1. \A u \in T : After(x, u)
      BY <2>2, <2>3, <2>5, AfterIsTotal
    <3> QED BY <1>3, <3>1
  <2> QED BY <2>3, <2>4, <2>5, AfterIsTotal
<1> QED BY <1>1, <1>2, <1>3

LEMMA NewestOf ==
  ASSUME HasNewest(tasks), NEW T \in SUBSET tasks, T # {}
  PROVE  Newest(T) \in T /\ \A u \in T : After(Newest(T), u)
<1>1. \E t \in T : \A u \in T : After(t, u)
  BY DEF HasNewest
<1>2. Newest(T) = CHOOSE t \in T : \A u \in T : After(t, u)
  BY DEF Newest, After
<1> QED BY <1>1, <1>2

\* The task that a run of vzdump leaves behind.
LEMMA LogAgrees ==
  ASSUME NEW V \in SUBSET VMs, NEW out \in [V -> Outcomes], NEW t,
         t.log = LogOf(out), t.status = StatusOf(out), t.vm = Server \/ V = {t.vm}
  PROVE  t.log \in Log /\ t.status \in {"OK", "WARN", "GEN", "ERR"} /\ Agrees(t)
<1>1. DOMAIN out = V /\ \A v \in V : out[v] \in {"ok", "warn", "fail", "cut"}
  BY DEF Outcomes
<1>2. /\ t.log.started = V /\ t.log.failed = {v \in V : out[v] = "fail"}
      /\ t.log.finished = {v \in V : out[v] \in {"ok", "warn"}} /\ t.log.jobError = (V = {})
  BY <1>1 DEF LogOf
<1>3. t.log \in Log
  <2>1. (DOMAIN out = {}) \in BOOLEAN
    OBVIOUS
  <2> QED BY <1>1, <2>1 DEF LogOf, Log
<1>4. t.status \in {"OK", "WARN", "GEN", "ERR"}
  BY DEF StatusOf
<1>5. (\E v \in V : out[v] = "cut") => t.status = "ERR"
  BY <1>1 DEF StatusOf
<1>6. V = {} => t.status = "GEN"
  BY <1>1 DEF StatusOf
<1>7. \A v \in V : (v \notin t.log.failed /\ v \notin t.log.finished) => out[v] = "cut"
  BY <1>1, <1>2
<1>8. Agrees(t)
  BY <1>2, <1>5, <1>6, <1>7 DEF Agrees
<1> QED BY <1>3, <1>4, <1>8

LEMMA VzdumpStep ==
  ASSUME VzTypes, VzAgree, HasNewest(tasks), NEW start \in {now, now - 1},
         NEW V \in SUBSET VMs, NEW out \in [V -> Outcomes], NEW vm \in VMs \cup {Server}, vm = Server \/ V = {vm},
         Vzdump(vm, start, out)
  PROVE  (VzTypes /\ VzAgree /\ HasNewest(tasks))'
<1> DEFINE x == [id |-> Cardinality(tasks), vm |-> vm, start |-> start, end |-> now, status |-> StatusOf(out), log |-> LogOf(out)]
<1>1. tasks' = tasks \cup {x} /\ now' = now
  BY DEF Vzdump, hostVars
<1>2. x.log = LogOf(out) /\ x.status = StatusOf(out) /\ x.vm = vm /\ x.start = start /\ x.end = now
  OBVIOUS
<1>3. LogOf(out) \in Log /\ StatusOf(out) \in {"OK", "WARN", "GEN", "ERR"} /\ Agrees(x)
  <2> HIDE DEF x
  <2> QED BY <1>2, LogAgrees
<1>4. now \in Nat /\ IsFiniteSet(tasks) /\ tasks \subseteq VzTask
  BY DEF VzTypes
<1>5. Cardinality(tasks) \in Nat
  BY <1>4, FS_CardinalityType
<1>6. now \in Int /\ start \in Int /\ start <= now /\ now <= now
  BY <1>4
<1>7. x \in VzTask
  BY <1>3, <1>5, <1>6 DEF VzTask
<1> HIDE DEF x
<1>8. HasNewest(tasks \cup {x})
  BY <1>4, <1>7, OneMoreVzdump
<1>9. IsFiniteSet(tasks \cup {x}) /\ tasks \cup {x} \subseteq VzTask
  BY <1>4, <1>7, FS_AddElement
<1>10. \A t \in tasks \cup {x} : t.start <= t.end /\ t.end <= now
  BY <1>2, <1>6, Zenon DEF VzTypes
<1>11. \A t \in tasks \cup {x} : Agrees(t)
  BY <1>3 DEF VzAgree
<1> QED BY <1>1, <1>4, <1>8, <1>9, <1>10, <1>11, Zenon DEF VzTypes, VzAgree

-----------------------------------------------------------------------------
\* What the client reads off one task when every endpoint answers.
LEMMA TaskRead ==
  ASSUME NEW t \in VzTask
  PROVE  /\ taskStatus(t, AllRead) = t.status
         /\ aggregateTaskInfo(t, AllRead).vmids = t.log.started
         /\ aggregateTaskInfo(t, AllRead).jobError = t.log.jobError
         /\ \A v \in VMs : aggregateTaskInfo(t, AllRead).statuses[v]
                = IF v \in t.log.failed THEN "ERR" ELSE IF v \in t.log.finished THEN "OK" ELSE ""
<1>1. taskStatus(t, AllRead) = t.status
  BY DEF taskStatus, AllRead
<1>2. aggregateTaskInfo(t, AllRead) = parseBackupLog(t.log)
  BY DEF aggregateTaskInfo, AllRead
<1> DEFINE st == [v \in VMs |-> IF v \in t.log.failed THEN "ERR" ELSE IF v \in t.log.finished THEN "OK" ELSE ""]
<1>3. parseBackupLog(t.log) = [vmids |-> t.log.started, statuses |-> st, jobError |-> t.log.jobError]
  BY DEF parseBackupLog
<1>4. \A v \in VMs : st[v] = IF v \in t.log.failed THEN "ERR" ELSE IF v \in t.log.finished THEN "OK" ELSE ""
  OBVIOUS
<1> HIDE DEF st
<1>5. parseBackupLog(t.log).vmids = t.log.started /\ parseBackupLog(t.log).statuses = st
  BY <1>3
<1>6. parseBackupLog(t.log).jobError = t.log.jobError
  <2> DEFINE je == t.log.jobError
             ids == t.log.started
  <2>1. parseBackupLog(t.log) = [vmids |-> ids, statuses |-> st, jobError |-> je]
    BY <1>3
  <2> HIDE DEF je, ids
  <2>2. parseBackupLog(t.log).jobError = je
    BY <2>1
  <2> QED BY <2>2 DEF je
<1> QED BY <1>1, <1>2, <1>4, <1>5, <1>6, Zenon

\* A VM's status: what its own lines say, and without lines what the task says.
Resolved(t, v) == resolveBackupTaskStatus(taskStatus(t, AllRead), v, aggregateTaskInfo(t, AllRead))

LEMMA ResolvedStatus ==
  ASSUME NEW t \in VzTask, NEW v \in VMs
  PROVE  /\ v \in t.log.failed => Resolved(t, v) = "ERR"
         /\ (v \notin t.log.failed /\ v \in t.log.finished) => Resolved(t, v) \in {"OK", "WARN"}
         /\ (v \notin t.log.failed /\ v \notin t.log.finished) =>
                Resolved(t, v) = IF t.status = "GEN" /\ t.log.jobError THEN "ERR" ELSE t.status
<1> DEFINE info == aggregateTaskInfo(t, AllRead)
           s == t.status
<1>0. s \in {"OK", "WARN", "GEN", "ERR"}
  BY DEF VzTask
<1>1. /\ Resolved(t, v) = resolveBackupTaskStatus(s, v, info) /\ info.jobError = t.log.jobError
      /\ info.statuses[v] = IF v \in t.log.failed THEN "ERR" ELSE IF v \in t.log.finished THEN "OK" ELSE ""
  BY TaskRead DEF Resolved
<1> HIDE DEF info, s
<1>2. CASE v \in t.log.failed
  <2>1. info.statuses[v] = "ERR"
    BY <1>1, <1>2
  <2> QED BY <1>1, <1>2, <2>1 DEF resolveBackupTaskStatus
<1>3. CASE v \notin t.log.failed /\ v \in t.log.finished
  <2>1. info.statuses[v] = "OK"
    BY <1>1, <1>3
  <2> QED BY <1>1, <1>3, <2>1 DEF resolveBackupTaskStatus, isBackupWarningStatus
<1>4. CASE v \notin t.log.failed /\ v \notin t.log.finished
  <2>1. info.statuses[v] = ""
    BY <1>1, <1>4
  <2>2. resolveBackupTaskStatus(s, v, info) = IF isGenericBackupStatus(s) /\ info.jobError THEN "ERR" ELSE s
    BY <2>1 DEF resolveBackupTaskStatus
  <2>3. isGenericBackupStatus(s) <=> s = "GEN"
    BY <1>0 DEF isGenericBackupStatus
  <2> QED BY <1>1, <1>4, <2>2, <2>3 DEF s
<1> QED BY <1>2, <1>3, <1>4

\* A row is bad exactly if its VM failed, or neither finished nor failed.
LEMMA RowsTellTheTruth ==
  ASSUME NEW t \in VzTask, Agrees(t), NEW v \in t.log.started
  PROVE  /\ v \in VMs
         /\ pveBackupStatusAlertable(Resolved(t, v)) <=> v \notin t.log.finished
         /\ (v \notin t.log.failed /\ v \notin t.log.finished) => t.status = "ERR" /\ Resolved(t, v) = "ERR"
<1>1. v \in VMs
  BY DEF VzTask, Log
<1>2. CASE v \in t.log.failed
  BY <1>1, <1>2, ResolvedStatus DEF Agrees, pveBackupStatusAlertable
<1>3. CASE v \notin t.log.failed /\ v \in t.log.finished
  BY <1>1, <1>3, ResolvedStatus DEF pveBackupStatusAlertable
<1>4. CASE v \notin t.log.failed /\ v \notin t.log.finished
  <2>1. t.status = "ERR"
    BY <1>4 DEF Agrees
  <2>2. Resolved(t, v) = "ERR"
    BY <1>1, <1>4, <2>1, ResolvedStatus
  <2> QED BY <1>1, <1>4, <2>1, <2>2 DEF pveBackupStatusAlertable
<1> QED BY <1>2, <1>3, <1>4

LEMMA RowFields ==
  ASSUME NEW v, NEW t, NEW s, NEW reads
  PROVE  Row(v, t, s, reads).vm = v /\ Row(v, t, s, reads).status = s
  BY DEF Row

-----------------------------------------------------------------------------
\* The last job of a node that has tasks is made of some of them, the newest
\* one included.
LEMMA LastJobHasNewest ==
  ASSUME VzTypes, HasNewest(tasks), tasks # {}
  PROVE  LastJob(tasks) \subseteq tasks /\ Newest(tasks) \in LastJob(tasks)
<1>1. Newest(tasks) \in tasks /\ \A u \in tasks : After(Newest(tasks), u)
  BY NewestOf
<1>2. \A t \in tasks : t.end \in Int
  BY DEF VzTypes, VzTask
<1>3. ASSUME NEW u \in tasks, u.end >= Newest(tasks).end
      PROVE  ~GapBefore(u, tasks)
  <2>1. \A w \in tasks : ~(w.end > u.end)
    <3> SUFFICES ASSUME NEW w \in tasks, w.end > u.end
                 PROVE  FALSE
      OBVIOUS
    <3>1. w.end \in Int /\ u.end \in Int /\ Newest(tasks).end \in Int
      BY <1>1, <1>2
    <3>2. w.end < Newest(tasks).end \/ w.end = Newest(tasks).end
      BY <1>1 DEF After
    <3> QED BY <1>3, <3>1, <3>2
  <2> QED BY <2>1 DEF GapBefore
<1> QED BY <1>1, <1>3 DEF LastJob

\* The rows of a job with a task of its own for each VM.
LEMMA PerVMRows ==
  ASSUME VzTypes, VzAgree, HasNewest(tasks), NEW job \in SUBSET tasks
  PROVE  /\ \A r \in perVMRows(job, AllRead) :
                \E t \in job : r.vm \in VMs /\ r.vm \in t.log.started /\ r.status = Resolved(t, r.vm)
         /\ \A v \in VMs : {t \in job : t.vm = v} # {} =>
                \E r \in perVMRows(job, AllRead) : r.vm = v /\ r.status = Resolved(Newest({t \in job : t.vm = v}), v)
<1> DEFINE per == {t \in job : t.vm # Server}
           last(v) == Newest({t \in per : t.vm = v})
<1>0. tasks \subseteq VzTask /\ \A t \in tasks : Agrees(t)
  BY DEF VzTypes, VzAgree
<1>1. perVMRows(job, AllRead) = {Row(v, last(v), Resolved(last(v), v), AllRead) : v \in {t.vm : t \in per}}
  BY DEF perVMRows, Resolved
<1>2. \A t \in per : t.vm \in VMs /\ t \in tasks
  BY <1>0 DEF VzTask
<1>3. ASSUME NEW v, {t \in per : t.vm = v} # {}
      PROVE  last(v) \in per /\ last(v).vm = v
  <2>1. {t \in per : t.vm = v} \in SUBSET tasks
    BY <1>2
  <2>2. last(v) \in {t \in per : t.vm = v}
    BY <1>3, <2>1, NewestOf
  <2> QED BY <2>2
<1>4. ASSUME NEW r \in perVMRows(job, AllRead)
      PROVE  \E t \in job : r.vm \in VMs /\ r.vm \in t.log.started /\ r.status = Resolved(t, r.vm)
  <2>1. PICK w \in per : r = Row(w.vm, last(w.vm), Resolved(last(w.vm), w.vm), AllRead)
    BY <1>1
  <2>2. r.vm = w.vm /\ r.status = Resolved(last(w.vm), w.vm)
    BY <2>1, RowFields
  <2>3. last(w.vm) \in per /\ last(w.vm).vm = w.vm
    BY <1>3
  <2>4. last(w.vm).log.started = {w.vm}
    BY <1>0, <1>2, <2>3 DEF Agrees
  <2> QED BY <1>2, <2>2, <2>3, <2>4
<1>5. ASSUME NEW v \in VMs, {t \in job : t.vm = v} # {}
      PROVE  \E r \in perVMRows(job, AllRead) : r.vm = v /\ r.status = Resolved(Newest({t \in job : t.vm = v}), v)
  <2>1. v # Server
    BY HostsAssumption DEF Server
  <2>2. {t \in job : t.vm = v} = {t \in per : t.vm = v}
    BY <2>1
  <2>3. v \in {t.vm : t \in per}
    BY <1>5, <2>2
  <2>4. Row(v, last(v), Resolved(last(v), v), AllRead) \in perVMRows(job, AllRead)
    BY <1>1, <2>3
  <2>5. last(v) = Newest({t \in job : t.vm = v})
    BY <2>2
  <2>6. PICK r : r = Row(v, last(v), Resolved(last(v), v), AllRead)
    OBVIOUS
  <2>7. r.vm = v /\ r.status = Resolved(last(v), v)
    BY <2>6, RowFields
  <2> HIDE DEF last
  <2> QED BY <2>4, <2>5, <2>6, <2>7, Zenon
<1> QED BY <1>4, <1>5

\* The rows of a job that is one task for several VMs.
LEMMA AggregateRows ==
  ASSUME VzTypes, VzAgree, HasNewest(tasks), NEW job \in SUBSET tasks, NEW agg \in job, agg = Newest(job)
  PROVE  /\ \A r \in aggregateRows(job, AllRead) :
                /\ r.vm \in VMs
                /\ pveBackupStatusAlertable(r.status) =>
                       agg.log.jobError \/ (r.vm \in agg.log.started /\ r.vm \notin agg.log.finished)
         /\ \A v \in agg.log.started \ agg.log.finished :
                \E r \in aggregateRows(job, AllRead) : r.vm = v /\ pveBackupStatusAlertable(r.status)
<1> DEFINE info == aggregateTaskInfo(agg, AllRead)
           s == taskStatus(agg, AllRead)
           found == IF info.vmids # {} THEN info.vmids ELSE {v \in VMs : AllRead.files /\ FileIn(v, agg)}
           status(v) == IF /\ Resolved(agg, v) = s /\ isGenericBackupStatus(s)
                           /\ info.statuses[v] = "" /\ AllRead.files /\ FileIn(v, agg)
                        THEN "OK" ELSE Resolved(agg, v)
<1>0. agg \in VzTask /\ Agrees(agg)
  BY DEF VzTypes, VzAgree
<1>1. aggregateRows(job, AllRead) = {Row(v, agg, status(v), AllRead) : v \in found}
  BY DEF aggregateRows, Resolved
<1>2. info.vmids = agg.log.started /\ s = agg.status
      /\ \A v \in VMs : info.statuses[v] = IF v \in agg.log.failed THEN "ERR" ELSE IF v \in agg.log.finished THEN "OK" ELSE ""
  BY <1>0, TaskRead
<1>3. agg.log.started \subseteq VMs /\ found \subseteq VMs
  BY <1>0, <1>2 DEF VzTask, Log
<1>4. agg.log.started # {} => found = agg.log.started
  BY <1>2
<1>5. agg.log.started = {} => agg.log.jobError
  BY <1>0 DEF Agrees
<1>6. \A v : status(v) \in {"OK", Resolved(agg, v)}
  OBVIOUS
<1>7. ASSUME NEW v \in agg.log.started, v \notin agg.log.finished
      PROVE  status(v) = Resolved(agg, v) /\ pveBackupStatusAlertable(Resolved(agg, v))
  <2>1. pveBackupStatusAlertable(Resolved(agg, v))
    BY <1>0, <1>7, RowsTellTheTruth
  <2>2. CASE v \in agg.log.failed
    <3>1. info.statuses[v] # ""
      BY <1>2, <1>3, <2>2
    <3> QED BY <2>1, <3>1
  <2>3. CASE v \notin agg.log.failed
    <3>1. s = "ERR"
      BY <1>0, <1>2, <1>7, <2>3, RowsTellTheTruth
    <3>2. ~isGenericBackupStatus(s)
      BY <3>1 DEF isGenericBackupStatus
    <3> QED BY <2>1, <3>2
  <2> QED BY <2>2, <2>3
<1> HIDE DEF status, found, info, s
<1>8. ASSUME NEW r \in aggregateRows(job, AllRead)
      PROVE  /\ r.vm \in VMs
             /\ pveBackupStatusAlertable(r.status) =>
                    agg.log.jobError \/ (r.vm \in agg.log.started /\ r.vm \notin agg.log.finished)
  <2>1. PICK v \in found : r = Row(v, agg, status(v), AllRead)
    BY <1>1
  <2>2. r.vm = v /\ r.status = status(v)
    BY <2>1, RowFields
  <2>3. CASE agg.log.started = {}
    BY <1>3, <1>5, <2>2, <2>3
  <2>4. CASE agg.log.started # {}
    <3>1. v \in agg.log.started
      BY <1>4, <2>4
    <3>2. ASSUME pveBackupStatusAlertable(r.status)
          PROVE  v \notin agg.log.finished
      <4>1. r.status = Resolved(agg, v)
        BY <1>6, <2>2, <3>2 DEF pveBackupStatusAlertable
      <4> QED BY <1>0, <3>1, <3>2, <4>1, RowsTellTheTruth
    <3> QED BY <1>3, <2>2, <3>1, <3>2
  <2> QED BY <2>3, <2>4
<1>9. ASSUME NEW v \in agg.log.started \ agg.log.finished
      PROVE  \E r \in aggregateRows(job, AllRead) : r.vm = v /\ pveBackupStatusAlertable(r.status)
  <2>1. v \in found
    BY <1>4
  <2>2. PICK r : r = Row(v, agg, status(v), AllRead)
    OBVIOUS
  <2>3. r \in aggregateRows(job, AllRead)
    BY <1>1, <2>1, <2>2
  <2>4. r.vm = v /\ r.status = status(v)
    BY <2>2, RowFields
  <2> QED BY <1>7, <2>3, <2>4
<1> QED BY <1>8, <1>9

\* The rows of a report that could read everything: every VM that failed in the
\* last job has a bad row, and every bad row has its cause in that job.
LEMMA JobRows ==
  ASSUME VzTypes, VzAgree, HasNewest(tasks), tasks # {}
  PROVE  LET rows == backupJobTasks(AllRead)
             job == LastJob(tasks)
         IN  /\ \A r \in rows : r.vm \in VMs
             /\ \A r \in rows : pveBackupStatusAlertable(r.status) =>
                    \E t \in job : t.log.jobError \/ (Covers(t, r.vm) /\ r.vm \notin t.log.finished)
             /\ \A v \in VMs : (OneKind(job) /\ FailedIn(job, v)) =>
                    \E r \in rows : r.vm = v /\ pveBackupStatusAlertable(r.status)
<1> DEFINE rows == backupJobTasks(AllRead)
           job == LastJob(tasks)
<1>0. job \in SUBSET tasks /\ job # {}
  BY LastJobHasNewest
<1>1. \A t \in tasks : t \in VzTask /\ Agrees(t)
  BY DEF VzTypes, VzAgree
<1>2. rows = IF \E t \in job : t.vm # Server THEN perVMRows(job, AllRead) ELSE aggregateRows(job, AllRead)
  BY DEF backupJobTasks, AllRead
<1>3. ASSUME NEW v \in VMs, FailedIn(job, v)
      PROVE  LET of == {t \in job : Covers(t, v)}
             IN  /\ Newest(of) \in of
                 /\ v \in Newest(of).log.started /\ v \notin Newest(of).log.finished
                 /\ pveBackupStatusAlertable(Resolved(Newest(of), v))
  <2> DEFINE of == {t \in job : Covers(t, v)}
  <2>1. of # {} /\ (v \in Newest(of).log.failed \/ v \notin Newest(of).log.finished)
    BY <1>3 DEF FailedIn
  <2>2. of \in SUBSET tasks
    BY <1>0
  <2>3. Newest(of) \in of
    BY <2>1, <2>2, NewestOf
  <2>4. v \in Newest(of).log.started /\ Newest(of) \in tasks
    BY <2>2, <2>3 DEF Covers
  <2>5. v \notin Newest(of).log.finished
    BY <1>1, <2>1, <2>4 DEF Agrees
  <2> QED BY <1>1, <2>3, <2>4, <2>5, RowsTellTheTruth
<1> HIDE DEF rows, job
<1>4. CASE \E t \in job : t.vm # Server
  <2>0. rows = perVMRows(job, AllRead)
    BY <1>2, <1>4
  <2>1. ASSUME NEW r \in rows
        PROVE  /\ r.vm \in VMs
               /\ pveBackupStatusAlertable(r.status) =>
                    \E t \in job : t.log.jobError \/ (Covers(t, r.vm) /\ r.vm \notin t.log.finished)
    <3>1. PICK t \in job : r.vm \in VMs /\ r.vm \in t.log.started /\ r.status = Resolved(t, r.vm)
      BY <1>0, <2>0, PerVMRows
    <3>2. t \in VzTask /\ Agrees(t)
      BY <1>0, <1>1
    <3>3. pveBackupStatusAlertable(r.status) => r.vm \notin t.log.finished
      BY <3>1, <3>2, RowsTellTheTruth
    <3> QED BY <3>1, <3>3 DEF Covers
  <2>2. ASSUME NEW v \in VMs, OneKind(job), FailedIn(job, v)
        PROVE  \E r \in rows : r.vm = v /\ pveBackupStatusAlertable(r.status)
    <3>1. \A t \in job : t.vm # Server
      BY <1>4, <2>2 DEF OneKind
    <3>2. \A t \in job : Covers(t, v) <=> t.vm = v
      BY <1>0, <1>1, <3>1 DEF Agrees, Covers
    <3>3. {t \in job : Covers(t, v)} = {t \in job : t.vm = v}
      BY <3>2
    <3>4. {t \in job : t.vm = v} # {} /\ pveBackupStatusAlertable(Resolved(Newest({t \in job : t.vm = v}), v))
      BY <1>3, <2>2, <3>3
    <3>5. \E r \in rows : r.vm = v /\ r.status = Resolved(Newest({t \in job : t.vm = v}), v)
      BY <1>0, <2>0, <3>4, PerVMRows
    <3> QED BY <3>4, <3>5
  <2> QED BY <2>1, <2>2 DEF rows, job
<1>5. CASE ~\E t \in job : t.vm # Server
  <2>0. rows = aggregateRows(job, AllRead)
    BY <1>2, <1>5
  <2>1. PICK agg \in job : agg = Newest(job)
    BY <1>0, NewestOf
  <2>2. ASSUME NEW r \in rows
        PROVE  /\ r.vm \in VMs
               /\ pveBackupStatusAlertable(r.status) =>
                    \E t \in job : t.log.jobError \/ (Covers(t, r.vm) /\ r.vm \notin t.log.finished)
    BY <1>0, <2>0, <2>1, AggregateRows DEF Covers
  <2>3. ASSUME NEW v \in VMs, OneKind(job), FailedIn(job, v)
        PROVE  \E r \in rows : r.vm = v /\ pveBackupStatusAlertable(r.status)
    <3>1. \A t \in job : t = agg
      BY <1>5, <2>1, <2>3 DEF OneKind
    <3>2. v \in agg.log.started \ agg.log.finished
      BY <1>3, <2>3, <3>1
    <3> QED BY <1>0, <2>0, <2>1, <3>2, AggregateRows
  <2> QED BY <2>2, <2>3 DEF rows, job
<1> QED BY <1>4, <1>5

\* The status of the whole report is bad without a bad row only if a task of
\* the last job failed.
LEMMA StatusIsFounded ==
  ASSUME VzTypes, VzAgree, HasNewest(tasks), tasks # {},
         \A r \in backupJobTasks(AllRead) : ~pveBackupStatusAlertable(r.status),
         pveBackupStatusAlertable(reportBackupStatus(backupJobTasks(AllRead), AllRead))
  PROVE  \E t \in LastJob(tasks) : t.status \notin {"OK", "WARN"}
<1> DEFINE rows == backupJobTasks(AllRead)
           job == LastJob(tasks)
<1>0. job \in SUBSET tasks /\ job # {} /\ Newest(tasks) \in job
  BY LastJobHasNewest
<1>1. \A t \in tasks : t \in VzTask /\ Agrees(t)
  BY DEF VzTypes, VzAgree
<1>2. \A t \in job : aggregateTaskInfo(t, AllRead).jobError => t.status = "GEN"
  BY <1>0, <1>1, TaskRead DEF Agrees
<1>3. CASE rows # {}
  <2>1. reportBackupStatus(rows, AllRead) = jobBackupStatus(rows, jobErrorOf(AllRead))
    BY <1>3 DEF reportBackupStatus
  <2>2. CASE jobErrorOf(AllRead)
    <3>1. Newest(job) \in job
      BY <1>0, NewestOf
    <3>2. \E t \in job : aggregateTaskInfo(t, AllRead).jobError
      BY <2>2, <3>1 DEF jobErrorOf
    <3> QED BY <1>2, <3>2
  <2>3. CASE ~jobErrorOf(AllRead)
    <3> DEFINE failed == {r.status : r \in rows} \ {"OK", "WARN"}
    <3>1. \A x \in failed : ~pveBackupStatusAlertable(x)
      OBVIOUS
    <3>2. jobBackupStatus(rows, FALSE) \in failed \cup {"OK", "WARN"}
      BY DEF jobBackupStatus
    <3> HIDE DEF failed
    <3>3. ~pveBackupStatusAlertable(jobBackupStatus(rows, FALSE))
      BY <3>1, <3>2 DEF pveBackupStatusAlertable
    <3>4. jobBackupStatus(rows, jobErrorOf(AllRead)) = jobBackupStatus(rows, FALSE)
      BY <2>3 DEF jobBackupStatus
    <3> QED BY <2>1, <3>3, <3>4
  <2> QED BY <2>2, <2>3
<1>4. CASE rows = {}
  <2> DEFINE last == Newest(tasks)
  <2>1. reportBackupStatus(rows, AllRead) = lastBackupStatus(AllRead)
    BY <1>4 DEF reportBackupStatus
  <2>2. lastBackupStatus(AllRead) = LET s == taskStatus(last, AllRead)
                                    IN  IF isGenericBackupStatus(s) /\ aggregateTaskInfo(last, AllRead).jobError THEN "ERR" ELSE s
    BY DEF lastBackupStatus, AllRead
  <2>3. taskStatus(last, AllRead) = last.status
    BY <1>0, <1>1, TaskRead
  <2>4. CASE aggregateTaskInfo(last, AllRead).jobError
    <3>1. last.status = "GEN"
      BY <1>0, <1>2, <2>4
    <3> QED BY <1>0, <3>1
  <2>5. CASE ~aggregateTaskInfo(last, AllRead).jobError
    <3>1. pveBackupStatusAlertable(last.status)
      BY <2>1, <2>2, <2>3, <2>5
    <3> QED BY <1>0, <3>1 DEF pveBackupStatusAlertable
  <2> QED BY <2>4, <2>5
<1> QED BY <1>3, <1>4

\* What the evaluators are given by the latest report.
VzReported ==
    rep # NoReport =>
        /\ (~rep.reads.tasks /\ ~rep.reads.again) => rep.rows = {} /\ rep.status = "ERROR"
        /\ rep.reads = AllRead =>
             /\ \A r \in rep.rows : r.vm \in VMs
             /\ rep.full # {} => \A v \in VMs : (OneKind(LastJob(rep.full)) /\ FailedIn(LastJob(rep.full), v)) =>
                    \E r \in rep.rows : r.vm = v /\ pveBackupStatusAlertable(r.status)
             /\ \A r \in rep.rows : pveBackupStatusAlertable(r.status) =>
                    \E t \in LastJob(rep.full) : t.log.jobError \/ (Covers(t, r.vm) /\ r.vm \notin t.log.finished)
             /\ ((\A r \in rep.rows : ~pveBackupStatusAlertable(r.status)) /\ pveBackupStatusAlertable(rep.status)) =>
                    rep.full = {} \/ \E t \in LastJob(rep.full) : t.status \notin {"OK", "WARN"}

LEMMA VzReport ==
  ASSUME VzTypes, VzAgree, HasNewest(tasks), NEW reads, NEW disk, NEW swap, InsertPVEReportData(reads, disk, swap)
  PROVE  VzReported'
<1>1. /\ rep'.reads = reads /\ rep'.rows = generateReport(reads).rows /\ rep'.status = generateReport(reads).status
      /\ rep'.full = IF reads = AllRead THEN tasks ELSE {}
  BY StoredPVE
<1>2. rep'.rows = backupJobTasks(reads) /\ rep'.status = reportBackupStatus(backupJobTasks(reads), reads)
  BY <1>1 DEF generateReport
<1>3. ASSUME ~reads.tasks, ~reads.again
      PROVE  rep'.rows = {} /\ rep'.status = "ERROR"
  BY <1>2, <1>3 DEF backupJobTasks, reportBackupStatus, lastBackupStatus
<1>4. ASSUME reads = AllRead, tasks = {}
      PROVE  rep'.rows = {} /\ rep'.full = {}
  BY <1>1, <1>2, <1>4 DEF backupJobTasks
<1>5. ASSUME reads = AllRead, tasks # {}
      PROVE  /\ \A r \in rep'.rows : r.vm \in VMs
             /\ \A v \in VMs : (OneKind(LastJob(rep'.full)) /\ FailedIn(LastJob(rep'.full), v)) =>
                    \E r \in rep'.rows : r.vm = v /\ pveBackupStatusAlertable(r.status)
             /\ \A r \in rep'.rows : pveBackupStatusAlertable(r.status) =>
                    \E t \in LastJob(rep'.full) : t.log.jobError \/ (Covers(t, r.vm) /\ r.vm \notin t.log.finished)
             /\ ((\A r \in rep'.rows : ~pveBackupStatusAlertable(r.status)) /\ pveBackupStatusAlertable(rep'.status)) =>
                    \E t \in LastJob(rep'.full) : t.status \notin {"OK", "WARN"}
  <2>1. rep'.full = tasks /\ rep'.rows = backupJobTasks(AllRead) /\ rep'.status = reportBackupStatus(backupJobTasks(AllRead), AllRead)
    BY <1>1, <1>2, <1>5
  <2>2. /\ \A r \in backupJobTasks(AllRead) : r.vm \in VMs
        /\ \A r \in backupJobTasks(AllRead) : pveBackupStatusAlertable(r.status) =>
               \E t \in LastJob(tasks) : t.log.jobError \/ (Covers(t, r.vm) /\ r.vm \notin t.log.finished)
        /\ \A v \in VMs : (OneKind(LastJob(tasks)) /\ FailedIn(LastJob(tasks), v)) =>
               \E r \in backupJobTasks(AllRead) : r.vm = v /\ pveBackupStatusAlertable(r.status)
    BY <1>5, JobRows
  <2>3. ((\A r \in backupJobTasks(AllRead) : ~pveBackupStatusAlertable(r.status))
             /\ pveBackupStatusAlertable(reportBackupStatus(backupJobTasks(AllRead), AllRead))) =>
               \E t \in LastJob(tasks) : t.status \notin {"OK", "WARN"}
    BY <1>5, StatusIsFounded
  <2> QED BY <2>1, <2>2, <2>3
<1> QED BY <1>1, <1>3, <1>4, <1>5 DEF VzReported

VzInv == VzTypes /\ VzAgree /\ HasNewest(tasks) /\ VzReported

LEMMA VzStart ==
  ASSUME Init
  PROVE  VzInv
<1>1. now = 0 /\ tasks = {} /\ rep = NoReport
  BY DEF Init, HostsInit, PVEInit
<1>2. IsFiniteSet(tasks)
  BY <1>1, FS_EmptySet
<1> QED BY <1>1, <1>2 DEF VzInv, VzTypes, VzAgree, HasNewest, VzReported

\* A step that leaves the tasks and the report alone.
LEMMA VzAlone ==
  ASSUME VzInv, UNCHANGED tasks, now' \in {now, now + 1}
  PROVE  (VzTypes /\ VzAgree /\ HasNewest(tasks))' /\ (UNCHANGED rep => VzReported')
<1>1. VzTypes /\ now \in Nat /\ \A t \in tasks : t.end \in Int
  BY DEF VzInv, VzTypes, VzTask
<1>2. now' \in Nat /\ \A a \in Int : a <= now => a <= now'
  BY <1>1
<1>3. \A t \in tasks : t.start <= t.end /\ t.end <= now'
  BY <1>1, <1>2, Zenon DEF VzTypes
<1>4. VzTypes'
  BY <1>1, <1>2, <1>3, Zenon DEF VzTypes
<1>5. VzAgree' /\ HasNewest(tasks)'
  BY DEF VzInv, VzAgree, HasNewest
<1>6. UNCHANGED rep => VzReported'
  BY DEF VzInv, VzReported
<1> QED BY <1>4, <1>5, <1>6

LEMMA VzStep ==
  ASSUME VzInv, [Next]_vars
  PROVE  VzInv'
<1>1. CASE (Tick \/ \E swap \in {"unknown", "off", "on"} : Heartbeat(swap)) /\ UNCHANGED <<pveVars, pbsVars, winVars>>
  BY <1>1, VzAlone DEF Tick, Heartbeat, pveVars, VzInv
<1>2. CASE PBSNext /\ UNCHANGED <<pveVars, winVars>>
  <2>1. now' = now
    BY <1>2 DEF PBSNext, StartTask, EndTask, Verify, InsertPBSReportData, PBSAlertConfigPost, hostVars, Report, Edit
  <2> QED BY <1>2, <2>1, VzAlone DEF pveVars, VzInv
<1>3. CASE WindowsNext /\ UNCHANGED <<pveVars, pbsVars>>
  <2>1. now' = now
    BY <1>3 DEF WindowsNext, ChangeDrives, runReport, WindowsAlertConfigPost, hostVars, Report, Edit
  <2> QED BY <1>3, <2>1, VzAlone DEF pveVars, VzInv
<1>4. CASE UNCHANGED vars
  BY <1>4, VzAlone DEF vars, hostVars, pveVars, VzInv
<1>5. CASE EditBackupConfig
  <2>1. PVEEdit
    BY <1>5 DEF EditBackupConfig, CreateVMConfig, UpdateVMConfig, DeleteVMConfig, ToggleVMExclude, UpdateBackupInventory
  <2> QED BY <2>1, VzAlone DEF PVEEdit, Edit, VzInv
<1>6. CASE EditAlertConfig
  <2>1. PVEEdit
    BY <1>6 DEF EditAlertConfig, PVEAlertConfigPost, PVEVMAlertConfigPost, GlobalBackupErr
  <2> QED BY <2>1, VzAlone DEF PVEEdit, Edit, VzInv
<1>7. ASSUME NEW reads, NEW disk, NEW swap, InsertPVEReportData(reads, disk, swap)
      PROVE  VzInv'
  <2>1. UNCHANGED <<tasks, now>>
    BY <1>7 DEF InsertPVEReportData, Report
  <2>2. VzReported'
    BY <1>7, VzReport DEF VzInv
  <2> QED BY <2>1, <2>2, VzAlone DEF VzInv
<1>8. CASE RunBackup
  <2>0. PICK start \in {now, now - 1} :
           \/ \E v \in VMs, o \in Outcomes : Vzdump(v, start, [u \in {v} |-> o])
           \/ \E V \in SUBSET VMs : \E out \in [V -> Outcomes] : Vzdump(Server, start, out)
    BY <1>8 DEF RunBackup
  <2>1. UNCHANGED rep /\ (VzTypes /\ VzAgree /\ HasNewest(tasks))'
    <3>1. ASSUME NEW v \in VMs, NEW o \in Outcomes, Vzdump(v, start, [u \in {v} |-> o])
          PROVE  UNCHANGED rep /\ (VzTypes /\ VzAgree /\ HasNewest(tasks))'
      <4>1. [u \in {v} |-> o] \in [{v} -> Outcomes] /\ {v} \in SUBSET VMs
        OBVIOUS
      <4>2. UNCHANGED rep
        BY <3>1 DEF Vzdump
      <4> QED BY <3>1, <4>1, <4>2, VzdumpStep DEF VzInv
    <3>2. ASSUME NEW V \in SUBSET VMs, NEW out \in [V -> Outcomes], Vzdump(Server, start, out)
          PROVE  UNCHANGED rep /\ (VzTypes /\ VzAgree /\ HasNewest(tasks))'
      <4>1. UNCHANGED rep
        BY <3>2 DEF Vzdump
      <4> QED BY <3>2, <4>1, VzdumpStep DEF VzInv
    <3> QED BY <2>0, <3>1, <3>2
  <2>2. VzReported'
    BY <2>1 DEF VzInv, VzReported
  <2> QED BY <2>1, <2>2 DEF VzInv
<1>9. CASE PVENext /\ UNCHANGED <<pbsVars, winVars>>
  BY <1>5, <1>6, <1>7, <1>8, <1>9 DEF PVENext
<1> QED BY <1>1, <1>2, <1>3, <1>4, <1>9 DEF Next

LEMMA VzInvariant == Spec => []VzInv
<1>1. Init => VzInv
  BY VzStart
<1>2. VzInv /\ [Next]_vars => VzInv'
  BY VzStep
<1> QED BY <1>1, <1>2, PTL DEF Spec

\* Backup errors come from their evaluator alone.
LEMMA BackupErrors ==
  \A v : <<"backup_error", v>> \in pveAlerts <=> <<"backup_error", v>> \in evalPVEBackupErrors
<1> SUFFICES ASSUME NEW v
             PROVE  <<"backup_error", v>> \in pveAlerts <=> <<"backup_error", v>> \in evalPVEBackupErrors
  OBVIOUS
<1>1. /\ <<"backup_error", v>> \notin evalPVEDisk
      /\ <<"backup_error", v>> \notin evalPVEBackupSize
      /\ <<"backup_error", v>> \notin evalPVEMissingVM
      /\ <<"backup_error", v>> \notin evalPVEUnknownVM
      /\ <<"backup_error", v>> \notin evalPVEStale
      /\ <<"backup_error", v>> \notin evalPVEHeartbeat
      /\ <<"backup_error", v>> \notin evalHostSwap(alertCfg.swap, rep.swap, rep.at)
  BY DEF evalPVEDisk, evalPVEBackupSize, evalPVEMissingVM, evalPVEUnknownVM, evalPVEStale, evalPVEHeartbeat, heartbeat, evalHostSwap
<1> QED BY <1>1 DEF pveAlerts

\* A VM that failed in the last job has its alert after a report that could
\* read the node, and a node that would not answer has one too
\* (client/pve.go:118 and :124, internal/service/alertengine.go:385).
THEOREM FailuresReachAlerts == Spec => []FailureReachesAlert
<1>1. VzInv => VMFailureAlerts
  <2> SUFFICES ASSUME VzReported, rep # NoReport, rep.reads = AllRead, rep.full # {},
                      NEW v \in VMs, OneKind(LastJob(rep.full)), FailedIn(LastJob(rep.full), v),
                      ~pveVMBackupExcluded(v), resolveBackupErr(v), configured = {} \/ HasActiveVMBackupConfigs
               PROVE  <<"backup_error", v>> \in pveAlerts
    BY DEF VMFailureAlerts, VzInv
  <2>1. \E r \in rep.rows : r.vm = v /\ pveBackupStatusAlertable(r.status)
    BY DEF VzReported
  <2>2. BackupsWatched
    BY DEF BackupsWatched, reported
  <2>3. <<"backup_error", v>> \in evalPVEBackupErrors
    BY <2>1, <2>2 DEF evalPVEBackupErrors
  <2> QED BY <2>3, BackupErrors
<1>2. VzInv => UnreadNodeAlerts
  <2> SUFFICES ASSUME VzReported, reported, ~rep.reads.tasks, ~rep.reads.again, BackupsWatched, resolveBackupErr(Server)
               PROVE  <<"backup_error", Server>> \in pveAlerts
    BY DEF UnreadNodeAlerts, VzInv
  <2>1. rep.rows = {} /\ rep.status = "ERROR"
    BY DEF VzReported, reported
  <2>2. <<"backup_error", Server>> \in serverStatusAlert
    BY <2>1 DEF serverStatusAlert, pveBackupStatusAlertable
  <2>3. <<"backup_error", Server>> \in evalPVEBackupErrors
    BY <2>1, <2>2 DEF evalPVEBackupErrors
  <2> QED BY <2>3, BackupErrors
<1>3. VzInv => FailureReachesAlert
  BY <1>1, <1>2 DEF FailureReachesAlert
<1> QED BY <1>3, VzInvariant, PTL

\* An excluded VM has no alert, whatever the report and the settings are.
LEMMA ExclusionSilences == ExcludedIsSilent
<1> SUFFICES ASSUME NEW v \in VMs, pveVMBackupExcluded(v), NEW a \in pveAlerts
             PROVE  a[2] # v
  BY DEF ExcludedIsSilent
<1>1. v # Server
  BY HostsAssumption DEF Server
<1>2. v \in configured /\ vmCfg[v].excl
  BY DEF pveVMBackupExcluded, configured
<1>3. CASE a \in evalPVEDisk \cup evalPVEStale \cup evalPVEHeartbeat \cup evalHostSwap(alertCfg.swap, rep.swap, rep.at)
  <2>1. a[2] = Server
    BY <1>3 DEF evalPVEDisk, evalPVEStale, evalPVEHeartbeat, heartbeat, evalHostSwap
  <2> QED BY <1>1, <2>1
<1>4. CASE a \in evalPVEBackupErrors
  BY <1>1, <1>4 DEF evalPVEBackupErrors, serverStatusAlert
<1>5. CASE a \in evalPVEBackupSize
  BY <1>5 DEF evalPVEBackupSize
<1>6. CASE a \in evalPVEMissingVM
  <2>1. PICK u \in configured : ~vmCfg[u].excl /\ a = <<"pve_missing_vm", u>>
    BY <1>6 DEF evalPVEMissingVM
  <2>2. u # v
    BY <1>2, <2>1
  <2> QED BY <2>1, <2>2
<1>7. CASE a \in evalPVEUnknownVM
  BY <1>2, <1>7 DEF evalPVEUnknownVM
<1> QED BY <1>3, <1>4, <1>5, <1>6, <1>7 DEF pveAlerts

\* No backup error without a cause in the last job that the report could read,
\* and nothing about a VM that is excluded (client/pve.go:496,
\* internal/service/alertengine.go:387 and :1322).
THEOREM AlarmsHaveCauses == Spec => []AlarmsAreFounded
<1>1. VzInv => ErrorsAreFounded
  <2> SUFFICES ASSUME VzReported, NEW v \in VMs \cup {Server}, <<"backup_error", v>> \in evalPVEBackupErrors, rep.reads = AllRead
               PROVE  IF v = Server THEN rep.full = {} \/ \E t \in LastJob(rep.full) : t.status \notin {"OK", "WARN"}
                      ELSE \E t \in LastJob(rep.full) : t.log.jobError \/ (Covers(t, v) /\ v \notin t.log.finished)
    BY BackupErrors DEF ErrorsAreFounded, VzInv
  <2> DEFINE failed == {r.vm : r \in {x \in rep.rows : pveBackupStatusAlertable(x.status)}}
  <2>1. rep # NoReport
    BY DEF evalPVEBackupErrors, BackupsWatched, reported
  <2>2. Server \notin VMs
    BY HostsAssumption DEF Server
  <2>3. v \in failed \/ (failed = {} /\ v = Server /\ pveBackupStatusAlertable(rep.status))
    BY DEF evalPVEBackupErrors, serverStatusAlert
  <2>4. CASE v \in failed
    <3>1. PICK r \in rep.rows : r.vm = v /\ pveBackupStatusAlertable(r.status)
      BY <2>4
    <3>2. v \in VMs
      BY <2>1, <3>1 DEF VzReported
    <3> QED BY <2>1, <2>2, <3>1, <3>2 DEF VzReported
  <2>5. CASE failed = {} /\ v = Server /\ pveBackupStatusAlertable(rep.status)
    <3>1. \A r \in rep.rows : ~pveBackupStatusAlertable(r.status)
      BY <2>5
    <3> QED BY <2>1, <2>5, <3>1 DEF VzReported
  <2> QED BY <2>3, <2>4, <2>5
<1>2. VzInv => AlarmsAreFounded
  BY <1>1, ExclusionSilences DEF AlarmsAreFounded
<1> QED BY <1>2, VzInvariant, PTL

-----------------------------------------------------------------------------
(***************************************************************************)
(* The settings of a Proxmox VE host, and the schedule of its backups.     *)
(***************************************************************************)
VMConfig == [on : BOOLEAN, excl : BOOLEAN, days : SUBSET Weekdays]
AlertConfig == [stale : Override, swap : Override, err : Override, globalErr : BOOLEAN, disk : Int, finish : {Unset, 0},
                vmErr : [VMs -> Override], minSize : SUBSET VMs]

CfgTypes ==
    /\ vmCfg \in [VMs -> VMConfig] /\ inv \in {"unknown", "none", "some"} /\ alertCfg \in AlertConfig

LEMMA CfgStart ==
  ASSUME Init
  PROVE  CfgTypes
<1>1. /\ inv = IF \E v \in VMs : vmCfg[v].on THEN "some" ELSE "unknown"
      /\ alertCfg = [stale |-> "unset", swap |-> "unset", err |-> "unset", globalErr |-> TRUE,
                     disk |-> Unset, finish |-> Unset, vmErr |-> [v \in VMs |-> "unset"], minSize |-> VMs]
  BY DEF Init, PVEInit
<1>2. alertCfg \in AlertConfig
  <2>1. Unset \in Int /\ Unset \in {Unset, 0} /\ [v \in VMs |-> "unset"] \in [VMs -> Override]
    BY DEF Unset, Override
  <2> QED BY <1>1, <2>1 DEF AlertConfig, Override
<1>3. vmCfg \in [VMs -> VMConfig]
  <2>1. PICK c \in IF bound.kind = "pve" THEN bound.cfgs ELSE {[v \in VMs |-> "absent"]} : vmCfg = [v \in VMs |->
           CASE c[v] = "absent" -> Absent
             [] c[v] = "active" -> [on |-> TRUE, excl |-> FALSE, days |-> Default]
             [] c[v] = "excluded" -> [on |-> TRUE, excl |-> TRUE, days |-> Weekdays]]
    BY DEF Init, PVEInit
  <2>2. c \in [VMs -> {"absent", "active", "excluded"}]
    <3>1. bound \in Scenario
      BY HostsAssumption DEF Init, HostsInit
    <3> QED BY <2>1, <3>1 DEF Scenario
  <2>3. Absent \in VMConfig /\ [on |-> TRUE, excl |-> FALSE, days |-> Default] \in VMConfig
        /\ [on |-> TRUE, excl |-> TRUE, days |-> Weekdays] \in VMConfig
    BY DEF VMConfig, Absent, Default
  <2> QED BY <2>1, <2>2, <2>3
<1> QED BY <1>1, <1>2, <1>3 DEF CfgTypes

LEMMA CfgStep ==
  ASSUME CfgTypes, [Next]_vars
  PROVE  CfgTypes'
<1>1. CASE UNCHANGED <<vmCfg, inv, alertCfg>>
  BY <1>1 DEF CfgTypes
<1>2. CASE ~PVENext
  BY <1>1, <1>2 DEF Next, vars, pveVars
<1>3. CASE RunBackup
  BY <1>1, <1>3 DEF RunBackup, Vzdump
<1>4. CASE \E reads \in Reads, disk \in bound.disks, swap \in bound.swaps : InsertPVEReportData(reads, disk, swap)
  BY <1>1, <1>4 DEF InsertPVEReportData
<1>5. ASSUME NEW v \in VMs, NEW days \in SUBSET Weekdays, CreateVMConfig(v, days) \/ UpdateVMConfig(v, days)
      PROVE  CfgTypes'
  <2>1. [on |-> TRUE, excl |-> FALSE, days |-> days] \in VMConfig
    BY DEF VMConfig
  <2>2. vmCfg' \in [VMs -> VMConfig]
    BY <1>5, <2>1 DEF CfgTypes, VMConfig, CreateVMConfig, UpdateVMConfig, CreateVMBackupConfigForServer, UpdateVMBackupConfigForServer
  <2>3. inv' = "some" /\ UNCHANGED alertCfg
    BY <1>5 DEF CreateVMConfig, UpdateVMConfig
  <2> QED BY <2>2, <2>3 DEF CfgTypes
<1>6. ASSUME NEW v \in VMs, DeleteVMConfig(v) \/ ToggleVMExclude(v)
      PROVE  CfgTypes'
  <2>1. Absent \in VMConfig
    BY DEF VMConfig, Absent
  <2>2. vmCfg' \in [VMs -> VMConfig]
    <3>1. CASE DeleteVMConfig(v)
      BY <2>1, <3>1 DEF CfgTypes, DeleteVMConfig, DeleteVMBackupConfigForServer
    <3>2. CASE ToggleVMExclude(v)
      <4>1. vmCfg[v] \in VMConfig
        BY DEF CfgTypes
      <4>2. (~vmCfg[v].excl) \in BOOLEAN
        OBVIOUS
      <4>3. [vmCfg[v] EXCEPT !.excl = ~@] \in VMConfig
        BY <4>1, <4>2 DEF VMConfig
      <4>4. vmCfg' = IF vmCfg[v].on THEN [vmCfg EXCEPT ![v] = [vmCfg[v] EXCEPT !.excl = ~@]] ELSE vmCfg
        BY <3>2 DEF ToggleVMExclude, ToggleVMExcludeForServer
      <4> QED BY <4>3, <4>4 DEF CfgTypes
    <3> QED BY <1>6, <3>1, <3>2
  <2>3. UNCHANGED <<inv, alertCfg>>
    BY <1>6 DEF DeleteVMConfig, ToggleVMExclude
  <2> QED BY <2>2, <2>3 DEF CfgTypes
<1>7. ASSUME NEW has \in BOOLEAN, UpdateBackupInventory(has)
      PROVE  CfgTypes'
  BY <1>7 DEF CfgTypes, UpdateBackupInventory
<1>8. CASE EditBackupConfig
  BY <1>5, <1>6, <1>7, <1>8 DEF EditBackupConfig
<1>9. ASSUME NEW stale \in {"unset", "off"}, NEW swap \in {"unset", "off"}, NEW err \in Override, NEW disk \in {Unset, 0},
             NEW finish \in {Unset, 0}, PVEAlertConfigPost(stale, err, swap, disk, finish)
      PROVE  CfgTypes'
  <2>1. alertCfg' = [alertCfg EXCEPT !.stale = stale, !.err = err, !.swap = swap, !.disk = disk, !.finish = finish] /\ UNCHANGED <<vmCfg, inv>>
    BY <1>9 DEF PVEAlertConfigPost, UpsertPVEAlertConfig
  <2>2. disk \in Int
    BY DEF Unset
  <2>3. alertCfg' \in AlertConfig
    BY <2>1, <2>2 DEF CfgTypes, AlertConfig, Override
  <2> QED BY <2>1, <2>3 DEF CfgTypes
<1>10. ASSUME NEW v \in VMs, NEW err \in Override, NEW min \in BOOLEAN, PVEVMAlertConfigPost(v, err, min)
       PROVE  CfgTypes'
  <2>1. PICK e \in Override, m \in SUBSET VMs : alertCfg' = [alertCfg EXCEPT !.vmErr[v] = e, !.minSize = m]
    <3>1. alertCfg.minSize \cup {v} \in SUBSET VMs /\ alertCfg.minSize \ {v} \in SUBSET VMs /\ "unset" \in Override
      BY DEF CfgTypes, AlertConfig, Override
    <3>2. CASE err = "unset" /\ ~min
      BY <1>10, <3>1, <3>2 DEF PVEVMAlertConfigPost, DeletePVEVMAlertConfig
    <3>3. CASE ~(err = "unset" /\ ~min) /\ min
      BY <1>10, <3>1, <3>3 DEF PVEVMAlertConfigPost, UpsertPVEVMAlertConfig
    <3>4. CASE ~(err = "unset" /\ ~min) /\ ~min
      BY <1>10, <3>1, <3>4 DEF PVEVMAlertConfigPost, UpsertPVEVMAlertConfig
    <3> QED BY <3>2, <3>3, <3>4
  <2>2. alertCfg' \in AlertConfig
    BY <2>1 DEF CfgTypes, AlertConfig
  <2>3. UNCHANGED <<vmCfg, inv>>
    BY <1>10 DEF PVEVMAlertConfigPost
  <2> QED BY <2>2, <2>3 DEF CfgTypes
<1>11. ASSUME NEW on \in BOOLEAN, GlobalBackupErr(on)
       PROVE  CfgTypes'
  <2>1. alertCfg' \in AlertConfig
    BY <1>11 DEF CfgTypes, AlertConfig, GlobalBackupErr
  <2> QED BY <1>11, <2>1 DEF CfgTypes, GlobalBackupErr
<1>12. CASE EditAlertConfig
  BY <1>9, <1>10, <1>11, <1>12 DEF EditAlertConfig
<1> QED BY <1>2, <1>3, <1>4, <1>8, <1>12 DEF PVENext

-----------------------------------------------------------------------------
(***************************************************************************)
(* The arithmetic of days.  The schedule is read by going back from today  *)
(* one day at a time; what is needed is that a week of steps meets every   *)
(* weekday, that the window of a day has surely closed two days later, and *)
(* that a set of natural numbers has a least one.                          *)
(***************************************************************************)
LEMMA LeastNumber ==
  ASSUME NEW S \in SUBSET Nat, S # {}
  PROVE  Min(S) \in S /\ \A y \in S : Min(S) <= y
<1>1. \E x \in S : \A y \in S : ~(<<y, x>> \in OpToRel(<, Nat))
  BY NatLessThanWellFounded, WFMin
<1>2. \A x, y \in S : <<y, x>> \in OpToRel(<, Nat) <=> y < x
  BY DEF OpToRel
<1>3. \E x \in S : \A y \in S : ~(y < x)
  BY <1>1, <1>2, Zenon
<1>4. \E x \in S : \A y \in S : x <= y
  BY <1>3
<1> QED BY <1>4, Zenon DEF Min

LEMMA RemainderIs ==
  ASSUME NEW a \in Int, NEW w \in Nat \ {0}, NEW q \in Int, NEW r \in 0..(w - 1), a = w * q + r
  PROVE  a % w = r
<1>1. a % w \in 0..(w - 1) /\ (a \div w) \in Int /\ a = w * (a \div w) + (a % w)
  OBVIOUS
<1>2. PICK p \in Int : p = a \div w
  BY <1>1
<1>3. PICK m \in 0..(w - 1) : m = a % w
  BY <1>1
<1>4. w * q + r = w * p + m
  BY <1>1, <1>2, <1>3
<1>5. \A x, y \in Int : x >= y + 1 => w * x >= w * y + w
  OBVIOUS
<1>6. q = p
  <2>1. CASE q >= p + 1
    BY <2>1, <1>4, <1>5
  <2>2. CASE p >= q + 1
    BY <2>2, <1>4, <1>5
  <2> QED BY <2>1, <2>2
<1> QED BY <1>3, <1>4, <1>6

\* Going back from the day before yesterday, a week meets every weekday.
LEMMA WeekdayIsMet ==
  ASSUME NEW d \in Int, NEW w \in Weekdays
  PROVE  \E i \in 2..(Week + 1) : Weekday(d - i) = w
<1>1. Week \in Nat \ {0}
  BY PVEAssumption
<1>2. PICK a \in Int : a = d - 2 - w
  BY <1>1 DEF Weekdays
<1>3. a % Week \in 0..(Week - 1) /\ (a \div Week) \in Int /\ a = Week * (a \div Week) + (a % Week)
  BY <1>1
<1>4. PICK q \in Int, r \in 0..(Week - 1) : a = Week * q + r
  BY <1>3
<1>5. PICK p \in Int : p = Week * q
  BY <1>1
<1>6. d - (2 + r) = Week * q + w
  BY <1>1, <1>2, <1>4, <1>5 DEF Weekdays
<1>7. (d - (2 + r)) \in Int
  BY <1>1, <1>4
<1>8. (d - (2 + r)) % Week = w
  BY <1>1, <1>4, <1>6, <1>7, RemainderIs DEF Weekdays
<1>9. 2 + r \in 2..(Week + 1)
  BY <1>1, <1>4
<1> QED BY <1>8, <1>9 DEF Weekday

\* The window of a day has closed two days later, and not before its own end.
LEMMA WindowCloses ==
  ASSUME now \in Nat, CfgTypes
  PROVE  /\ Day(now) \in Nat
         /\ \A d \in Int : Start(d) \in Int /\ Cutoff(d) \in Int
         /\ \A d, e \in Int : d <= e => Start(d) <= Start(e)
         /\ \A d \in Int : d <= Day(now) - 2 => Cutoff(d) <= now
         /\ \A d \in Int : d >= Day(now) => Cutoff(d) > now
<1>1. SlotsPerDay \in Nat \ {0} /\ Finish \in 0..(SlotsPerDay - 1)
  BY PVEAssumption
<1>2. PICK f \in 0..(SlotsPerDay - 1) : f = expectedFinishFromAlertConfig
  BY <1>1 DEF expectedFinishFromAlertConfig, CfgTypes, AlertConfig
<1>3. now % SlotsPerDay \in 0..(SlotsPerDay - 1) /\ (now \div SlotsPerDay) \in Nat
      /\ now = SlotsPerDay * (now \div SlotsPerDay) + (now % SlotsPerDay)
  BY <1>1
<1>4. PICK D \in Nat, r \in 0..(SlotsPerDay - 1) : D = Day(now) /\ now = D * SlotsPerDay + r
  BY <1>1, <1>3 DEF Day
<1>5. \A d, e \in Int : d <= e => d * SlotsPerDay <= e * SlotsPerDay
  BY <1>1
<1>6. \A d \in Int : (d + 1) * SlotsPerDay = d * SlotsPerDay + SlotsPerDay /\ d * SlotsPerDay \in Int
  BY <1>1
<1>7. ASSUME NEW d \in Int
      PROVE  Start(d) \in Int /\ Cutoff(d) = Start(d) + SlotsPerDay + f /\ Cutoff(d) \in Int
  BY <1>1, <1>2, <1>6 DEF Start, Cutoff
<1>8. ASSUME NEW d \in Int, d <= D - 2
      PROVE  Cutoff(d) <= now
  <2>1. PICK s \in Int : s = d * SlotsPerDay
    BY <1>6
  <2>2. PICK t \in Int : t = D * SlotsPerDay
    BY <1>6
  <2>3. (d + 1) + 1 <= D /\ d + 1 \in Int /\ (d + 1) + 1 \in Int
    BY <1>8
  <2>4. ((d + 1) + 1) * SlotsPerDay = s + SlotsPerDay + SlotsPerDay
    BY <1>6, <2>1, <2>3
  <2>5. s + SlotsPerDay + SlotsPerDay <= t
    BY <1>5, <2>2, <2>3, <2>4
  <2> QED BY <1>1, <1>4, <1>7, <2>1, <2>2, <2>5 DEF Start
<1>9. ASSUME NEW d \in Int, d >= D
      PROVE  Cutoff(d) > now
  <2>1. PICK s \in Int : s = d * SlotsPerDay
    BY <1>6
  <2>2. PICK t \in Int : t = D * SlotsPerDay
    BY <1>6
  <2>3. t <= s
    BY <1>5, <1>9, <2>1, <2>2
  <2> QED BY <1>1, <1>4, <1>7, <2>1, <2>2, <2>3 DEF Start
<1> QED BY <1>4, <1>5, <1>7, <1>8, <1>9 DEF Start

\* Only the check of the last report raises "pve_stale".
LEMMA StaleOrigin ==
  ASSUME reported, ~PVEStaleSuppressed
  PROVE  (<<"pve_stale", Server>> \in pveAlerts) <=> isStaleForConfigsAt(rep.at)
<1>1. /\ <<"pve_stale", Server>> \notin evalPVEDisk
      /\ <<"pve_stale", Server>> \notin evalPVEBackupSize
      /\ <<"pve_stale", Server>> \notin evalPVEUnknownVM
      /\ <<"pve_stale", Server>> \notin evalPVEHeartbeat
      /\ <<"pve_stale", Server>> \notin evalHostSwap(alertCfg.swap, rep.swap, rep.at)
  BY DEF evalPVEDisk, evalPVEBackupSize, evalPVEUnknownVM, evalPVEHeartbeat, heartbeat, evalHostSwap
<1>2. <<"pve_stale", Server>> \notin evalPVEBackupErrors
  BY DEF evalPVEBackupErrors, serverStatusAlert
<1>3. <<"pve_stale", Server>> \notin evalPVEMissingVM
  BY DEF evalPVEMissingVM
<1>4. <<"pve_stale", Server>> \in evalPVEStale <=> isStaleForConfigsAt(rep.at)
  BY DEF evalPVEStale, IsStaleForLoadedPVEConfig
<1> QED BY <1>1, <1>2, <1>3, <1>4, Zenon DEF pveAlerts

\* "Sin reporte" is raised exactly when a scheduled day went by, its window
\* closed and nothing was reported since it began: looking back over two weeks
\* for the last such day finds it whenever there is one
\* (isStaleForConfigsAt, internal/service/report.go:245).
THEOREM StaleFollowsSchedule == Spec => []StaleMatchesSchedule
<1>1. SignalTypes /\ CfgTypes => StaleMatchesSchedule
  <2> SUFFICES ASSUME SignalTypes, CfgTypes, reported, expected # {}, ~PVEStaleSuppressed
               PROVE  isStaleForConfigsAt(rep.at) <=>
                        \E d \in (Day(now) - 3 * Week)..Day(now) :
                          /\ \E v \in configured : ~vmCfg[v].excl /\ VMScheduledForDay(vmCfg[v], d)
                          /\ Cutoff(d) <= now /\ rep.at < Start(d)
    BY StaleOrigin DEF StaleMatchesSchedule
  <2>1. now \in Nat /\ rep.at \in Int
    BY DEF SignalTypes
  <2>2. Week \in Nat \ {0}
    BY PVEAssumption
  <2>3. \A d : Weekday(d) \in expected <=> \E v \in configured : ~vmCfg[v].excl /\ VMScheduledForDay(vmCfg[v], d)
    BY DEF expected, configured, VMScheduledForDay
  <2>4. PICK D \in Nat : D = Day(now)
    BY <2>1, WindowCloses
  <2>5. /\ \A d \in Int : Start(d) \in Int /\ Cutoff(d) \in Int
        /\ \A d, e \in Int : d <= e => Start(d) <= Start(e)
        /\ \A d \in Int : d <= D - 2 => Cutoff(d) <= now
        /\ \A d \in Int : d >= D => Cutoff(d) > now
    BY <2>1, <2>4, WindowCloses
  <2>6. PICK closed \in SUBSET (1..Lookback) :
           closed = {i \in 1..Lookback : Weekday(D - i) \in expected /\ now >= Cutoff(D - i)}
    OBVIOUS
  <2>7. Lookback \in Nat /\ Week + 1 <= Lookback /\ Lookback <= 3 * Week /\ 3 * Week \in Nat
    BY <2>2 DEF Lookback
  <2>8. closed # {}
    <3>1. PICK w : w \in expected
      OBVIOUS
    <3>2. w \in Weekdays
      BY <3>1 DEF expected, configured, CfgTypes, VMConfig
    <3>3. PICK i \in 2..(Week + 1) : Weekday(D - i) = w
      <4>1. D \in Int
        OBVIOUS
      <4> QED BY <3>2, <4>1, WeekdayIsMet
    <3>4. i \in 1..Lookback /\ D - i \in Int /\ D - i <= D - 2
      BY <2>2, <2>7, <3>3
    <3>5. Cutoff(D - i) <= now /\ Cutoff(D - i) \in Int
      BY <2>5, <3>4
    <3> QED BY <2>1, <2>6, <3>1, <3>3, <3>4, <3>5
  <2>9. PICK m \in closed : m = Min(closed) /\ \A y \in closed : m <= y
    <3>1. closed \in SUBSET Nat
      BY <2>6, <2>7
    <3> QED BY <2>8, <3>1, LeastNumber
  <2>10. isStaleForConfigsAt(rep.at) <=> rep.at < Start(D - m)
    BY <2>4, <2>6, <2>8, <2>9 DEF isStaleForConfigsAt
  <2>11. m \in 1..Lookback /\ Weekday(D - m) \in expected /\ now >= Cutoff(D - m)
    BY <2>6, <2>9
  <2>12. D - m \in (D - 3 * Week)..D /\ D - m \in Int
    BY <2>7, <2>11
  <2>13. Cutoff(D - m) <= now
    BY <2>1, <2>5, <2>11, <2>12
  <2>14. ASSUME NEW d \in (D - 3 * Week)..D, Weekday(d) \in expected, Cutoff(d) <= now, rep.at < Start(d)
         PROVE  rep.at < Start(D - m)
    <3>1. d \in Int /\ D - d \in Int /\ D - (D - d) = d
      BY <2>7
    <3>2. D - d >= 1
      BY <2>1, <2>5, <2>14, <3>1
    <3>3. m <= D - d
      <4>1. CASE D - d > Lookback
        BY <2>7, <2>11, <3>1, <4>1
      <4>2. CASE D - d <= Lookback
        <5>1. D - d \in 1..Lookback
          BY <2>7, <3>1, <3>2, <4>2
        <5>2. now >= Cutoff(d)
          BY <2>1, <2>5, <2>14, <3>1
        <5>3. D - d \in closed
          BY <2>6, <2>14, <3>1, <5>1, <5>2
        <5> QED BY <2>9, <5>3
      <4> QED BY <2>7, <3>1, <4>1, <4>2
    <3>4. d <= D - m
      BY <2>11, <2>7, <3>1, <3>3
    <3> QED BY <2>1, <2>5, <2>12, <2>14, <3>1, <3>4
  <2> QED BY <2>3, <2>4, <2>10, <2>11, <2>12, <2>13, <2>14
<1>2. Spec => [](SignalTypes /\ CfgTypes)
  BY SignalsStart, SignalsTyped, CfgStart, CfgStep, PTL DEF Spec
<1> QED BY <1>1, <1>2, PTL

-----------------------------------------------------------------------------
(***************************************************************************)
(* Type correctness.  Most of it is in the invariants above; what is left  *)
(* is the clock, and the status of a report whatever could be read.        *)
(***************************************************************************)
Statuses == {"OK", "WARN", "GEN", "ERR", "ERROR", "stopped"}

LEMMA AnyTaskRead ==
  ASSUME NEW t \in VzTask, NEW reads
  PROVE  /\ taskStatus(t, reads) \in Statuses
         /\ aggregateTaskInfo(t, reads).vmids \subseteq VMs
         /\ \A v \in VMs : aggregateTaskInfo(t, reads).statuses[v] \in {"ERR", "OK", ""}
<1>1. taskStatus(t, reads) \in Statuses
  BY DEF taskStatus, VzTask, Statuses
<1> DEFINE log == IF reads.logs THEN t.log ELSE EmptyLog
           st == [v \in VMs |-> IF v \in log.failed THEN "ERR" ELSE IF v \in log.finished THEN "OK" ELSE ""]
           ids == log.started
           je == log.jobError
<1>2. ids \subseteq VMs
  <2>1. EmptyLog.started = {} /\ t.log.started \subseteq VMs
    BY DEF EmptyLog, VzTask, Log
  <2> QED BY <2>1
<1>3. \A v \in VMs : st[v] \in {"ERR", "OK", ""}
  OBVIOUS
<1>4. aggregateTaskInfo(t, reads) = [vmids |-> ids, statuses |-> st, jobError |-> je]
  BY DEF aggregateTaskInfo, parseBackupLog
<1> HIDE DEF ids, st, je
<1>5. aggregateTaskInfo(t, reads).vmids = ids /\ aggregateTaskInfo(t, reads).statuses = st
  BY <1>4
<1> QED BY <1>1, <1>2, <1>3, <1>5

\* What the lines of a log say of a VM, if anything.
Line(info, v) == info.statuses[v] \in {"ERR", "OK", ""}

LEMMA AnyResolved ==
  ASSUME NEW s, NEW v, NEW info, s \in Statuses, Line(info, v)
  PROVE  resolveBackupTaskStatus(s, v, info) \in Statuses
<1>0. info.statuses[v] \in {"ERR", "OK", ""}
  BY DEF Line
<1>1. CASE info.statuses[v] = ""
  BY <1>1 DEF resolveBackupTaskStatus, Statuses
<1>2. CASE info.statuses[v] = "ERR"
  BY <1>2 DEF resolveBackupTaskStatus, Statuses
<1>3. CASE info.statuses[v] = "OK"
  <2>1. CASE isBackupWarningStatus(s)
    BY <1>3, <2>1 DEF resolveBackupTaskStatus
  <2>2. CASE ~isBackupWarningStatus(s)
    BY <1>3, <2>2 DEF resolveBackupTaskStatus, Statuses
  <2> QED BY <2>1, <2>2
<1> QED BY <1>0, <1>1, <1>2, <1>3

LEMMA AnyRows ==
  ASSUME VzTypes, HasNewest(tasks), NEW reads
  PROVE  \A r \in backupJobTasks(reads) : r.vm \in VMs /\ r.status \in Statuses
<1>0. \A t \in tasks : t \in VzTask /\ t.vm \in VMs \cup {Server}
  BY DEF VzTypes, VzTask
<1>1. CASE ~reads.tasks \/ tasks = {}
  BY <1>1 DEF backupJobTasks
<1>2. CASE ~(~reads.tasks \/ tasks = {})
  <2>1. PICK job \in SUBSET tasks : job = LastJob(tasks) /\ job # {}
    BY <1>2, LastJobHasNewest
  <2>2. ASSUME NEW r \in perVMRows(job, reads)
        PROVE  r.vm \in VMs /\ r.status \in Statuses
    <3>1. PICK v \in {t.vm : t \in {u \in job : u.vm # Server}} :
             LET last == Newest({t \in {u \in job : u.vm # Server} : t.vm = v})
             IN  r = Row(v, last, resolveBackupTaskStatus(taskStatus(last, reads), v, aggregateTaskInfo(last, reads)), reads)
      BY <2>2 DEF perVMRows
    <3>2. PICK T \in SUBSET tasks : T = {t \in {u \in job : u.vm # Server} : t.vm = v} /\ T # {}
      BY <2>1, <3>1
    <3>3. PICK last \in T : last = Newest(T)
      BY <3>2, NewestOf
    <3>4. r = Row(v, last, resolveBackupTaskStatus(taskStatus(last, reads), v, aggregateTaskInfo(last, reads)), reads)
      BY <3>1, <3>2, <3>3
    <3>5. r.vm = v /\ r.status = resolveBackupTaskStatus(taskStatus(last, reads), v, aggregateTaskInfo(last, reads))
      BY <3>4, RowFields
    <3>6. v \in VMs /\ last \in VzTask
      BY <1>0, <2>1, <3>1, <3>2, <3>3
    <3>7. PICK st \in Statuses : st = taskStatus(last, reads)
      BY <3>6, AnyTaskRead
    <3>8. PICK info : info = aggregateTaskInfo(last, reads) /\ Line(info, v)
      BY <3>6, AnyTaskRead DEF Line
    <3>9. resolveBackupTaskStatus(st, v, info) \in Statuses
      BY <3>8, AnyResolved
    <3> QED BY <3>5, <3>6, <3>7, <3>8, <3>9
  <2>3. ASSUME NEW r \in aggregateRows(job, reads)
        PROVE  r.vm \in VMs /\ r.status \in Statuses
    <3>1. PICK agg \in job : agg = Newest(job)
      BY <2>1, NewestOf
    <3>2. agg \in VzTask
      BY <1>0, <2>1, <3>1
    <3>3. PICK s \in Statuses : s = taskStatus(agg, reads)
      BY <3>2, AnyTaskRead
    <3>4. PICK info : info = aggregateTaskInfo(agg, reads)
      OBVIOUS
    <3>5. info.vmids \subseteq VMs /\ \A v \in VMs : info.statuses[v] \in {"ERR", "OK", ""}
      BY <3>2, <3>4, AnyTaskRead
    <3>6. PICK v \in VMs : \E st \in {"OK", resolveBackupTaskStatus(s, v, info)} : r = Row(v, agg, st, reads)
      BY <2>3, <3>1, <3>3, <3>4, <3>5 DEF aggregateRows
    <3>7. r.vm = v /\ r.status \in {"OK", resolveBackupTaskStatus(s, v, info)}
      BY <3>6, RowFields
    <3>8. resolveBackupTaskStatus(s, v, info) \in Statuses
      <4>1. Line(info, v)
        BY <3>5 DEF Line
      <4> QED BY <4>1, AnyResolved
    <3> QED BY <3>7, <3>8 DEF Statuses
  <2>4. backupJobTasks(reads) = IF \E t \in job : t.vm # Server THEN perVMRows(job, reads) ELSE aggregateRows(job, reads)
    BY <1>2, <2>1 DEF backupJobTasks
  <2> QED BY <2>2, <2>3, <2>4
<1> QED BY <1>1, <1>2

LEMMA AnyReport ==
  ASSUME VzTypes, HasNewest(tasks), NEW reads
  PROVE  generateReport(reads).status \in Statuses
<1> DEFINE rows == backupJobTasks(reads)
<1>1. \A r \in rows : r.status \in Statuses
  BY AnyRows
<1>2. generateReport(reads).status = reportBackupStatus(rows, reads)
  BY DEF generateReport
<1>3. CASE rows # {}
  <2> DEFINE failed == {r.status : r \in rows} \ {"OK", "WARN"}
             err == jobErrorOf(reads)
  <2>1. failed \subseteq Statuses
    BY <1>1
  <2>2. reportBackupStatus(rows, reads) = jobBackupStatus(rows, err)
    BY <1>3 DEF reportBackupStatus
  <2> HIDE DEF rows, err
  <2>3. jobBackupStatus(rows, err) \in failed \cup {"OK", "WARN", "ERR"}
    <3>1. CASE err
      BY <3>1 DEF jobBackupStatus
    <3>2. CASE ~err /\ failed # {}
      <4>1. jobBackupStatus(rows, err) = CHOOSE x \in failed : TRUE
        BY <3>2 DEF jobBackupStatus
      <4> QED BY <3>2, <4>1
    <3>3. CASE ~err /\ failed = {}
      BY <3>3 DEF jobBackupStatus
    <3> QED BY <3>1, <3>2, <3>3
  <2> QED BY <1>2, <2>1, <2>2, <2>3 DEF Statuses
<1>4. CASE rows = {}
  <2>1. reportBackupStatus(rows, reads) = lastBackupStatus(reads)
    BY <1>4 DEF reportBackupStatus
  <2>2. lastBackupStatus(reads) \in Statuses
    <3>1. CASE ~reads.again \/ tasks = {}
      BY <3>1 DEF lastBackupStatus, Statuses
    <3>2. CASE ~(~reads.again \/ tasks = {})
      <4>1. PICK last \in tasks : last = Newest(tasks)
        BY <3>2, NewestOf
      <4>2. taskStatus(last, reads) \in Statuses
        BY <4>1 DEF VzTypes, VzTask, taskStatus, Statuses
      <4> QED BY <3>2, <4>1, <4>2 DEF lastBackupStatus, Statuses
    <3> QED BY <3>1, <3>2
  <2> QED BY <1>2, <2>1, <2>2
<1> QED BY <1>3, <1>4

\* The clock stays within the scenario, nothing was heard or stored at a time
\* that has not come, and a report has one of the statuses.
ClockTypes ==
    /\ bound \in Scenarios /\ now <= bound.time
    /\ heard = Unset \/ (0 <= heard /\ heard <= now)
    /\ hb = NoBeat \/ 0 <= hb.at
    /\ rep = NoReport \/ (0 <= rep.at /\ rep.at <= now /\ rep.status \in Statuses)
    /\ pbsRep.at = Unset \/ (0 <= pbsRep.at /\ pbsRep.at <= now)

LEMMA ClockMoves ==
  ASSUME [Next]_vars
  PROVE  bound' = bound /\ (now' = now \/ (now' = now + 1 /\ now < bound.time))
<1>1. CASE (Tick \/ \E swap \in {"unknown", "off", "on"} : Heartbeat(swap)) /\ UNCHANGED <<pveVars, pbsVars, winVars>>
  BY <1>1 DEF Tick, Heartbeat
<1>2. CASE PBSNext
  BY <1>2 DEF PBSNext, StartTask, EndTask, Verify, InsertPBSReportData, PBSAlertConfigPost, hostVars, Report, Edit
<1>3. CASE WindowsNext
  BY <1>3 DEF WindowsNext, ChangeDrives, runReport, WindowsAlertConfigPost, hostVars, Report, Edit
<1>4. CASE UNCHANGED vars
  BY <1>4 DEF vars, hostVars
<1>5. CASE RunBackup
  BY <1>5 DEF RunBackup, Vzdump, hostVars
<1>6. CASE EditBackupConfig
  BY <1>6 DEF EditBackupConfig, CreateVMConfig, UpdateVMConfig, DeleteVMConfig, ToggleVMExclude, UpdateBackupInventory, PVEEdit, Edit
<1>7. CASE EditAlertConfig
  BY <1>7 DEF EditAlertConfig, PVEAlertConfigPost, PVEVMAlertConfigPost, GlobalBackupErr, PVEEdit, Edit
<1>8. CASE \E reads \in Reads, disk \in bound.disks, swap \in bound.swaps : InsertPVEReportData(reads, disk, swap)
  BY <1>8 DEF InsertPVEReportData, Report
<1> QED BY <1>1, <1>2, <1>3, <1>4, <1>5, <1>6, <1>7, <1>8 DEF Next, PVENext

LEMMA StatusStep ==
  ASSUME VzInv, [Next]_vars
  PROVE  UNCHANGED rep \/ rep'.status \in Statuses
<1>1. CASE ~PVENext
  BY <1>1 DEF Next, vars, pveVars
<1>2. CASE RunBackup
  BY <1>2 DEF RunBackup, Vzdump
<1>3. CASE EditBackupConfig
  BY <1>3 DEF EditBackupConfig, CreateVMConfig, UpdateVMConfig, DeleteVMConfig, ToggleVMExclude, UpdateBackupInventory, PVEEdit
<1>4. CASE EditAlertConfig
  BY <1>4 DEF EditAlertConfig, PVEAlertConfigPost, PVEVMAlertConfigPost, GlobalBackupErr, PVEEdit
<1>5. ASSUME NEW reads, NEW disk, NEW swap, InsertPVEReportData(reads, disk, swap)
      PROVE  rep'.status \in Statuses
  BY <1>5, StoredPVE, AnyReport DEF VzInv
<1> QED BY <1>1, <1>2, <1>3, <1>4, <1>5 DEF PVENext

LEMMA ClockStep ==
  ASSUME SignalTypes, VzInv, ClockTypes, [Next]_vars
  PROVE  ClockTypes'
<1>0. now \in Nat /\ heard \in Int /\ rep.at \in Int /\ pbsRep.at \in Int /\ bound.time \in Nat
  BY DEF SignalTypes, Scenario
<1>1. bound' = bound /\ (now' = now \/ (now' = now + 1 /\ now < bound.time))
  BY ClockMoves
<1>2. now' \in Nat /\ now <= now' /\ now' <= bound'.time /\ bound' \in Scenarios
  BY <1>0, <1>1 DEF ClockTypes
<1>3. \A a \in Int : a <= now => a <= now'
  BY <1>0, <1>2
<1>4. (heard = Unset \/ (0 <= heard /\ heard <= now')) /\ (rep = NoReport \/ (0 <= rep.at /\ rep.at <= now'))
      /\ (pbsRep.at = Unset \/ (0 <= pbsRep.at /\ pbsRep.at <= now'))
  BY <1>0, <1>3, Zenon DEF ClockTypes
<1>5. 0 <= now /\ now <= now'
  BY <1>0, <1>2
<1>6. heard' = heard \/ heard' = now
  BY SignalSteps DEF Quiet, Beat, PVEArrives, PBSArrives, WindowsArrives
<1>7. hb' = hb \/ hb'.at = now
  BY SignalSteps DEF Quiet, Beat, PVEArrives, PBSArrives, WindowsArrives
<1>8. rep' = rep \/ rep'.at = now
  BY SignalSteps DEF Quiet, Beat, PVEArrives, PBSArrives, WindowsArrives
<1>9. pbsRep' = pbsRep \/ pbsRep'.at = now
  BY SignalSteps DEF Quiet, Beat, PVEArrives, PBSArrives, WindowsArrives
<1>10. heard' = Unset \/ (0 <= heard' /\ heard' <= now')
  BY <1>4, <1>5, <1>6, Zenon
<1>11. hb' = NoBeat \/ 0 <= hb'.at
  BY <1>5, <1>7, Zenon DEF ClockTypes
<1>12. rep' = NoReport \/ (0 <= rep'.at /\ rep'.at <= now' /\ rep'.status \in Statuses)
  BY <1>4, <1>5, <1>8, StatusStep, Zenon DEF ClockTypes
<1>13. pbsRep'.at = Unset \/ (0 <= pbsRep'.at /\ pbsRep'.at <= now')
  BY <1>4, <1>5, <1>9, Zenon
<1> QED BY <1>2, <1>10, <1>11, <1>12, <1>13 DEF ClockTypes

LEMMA ClockStart ==
  ASSUME Init
  PROVE  ClockTypes
<1>1. bound \in Scenarios /\ now = 0 /\ heard = Unset /\ hb = NoBeat /\ rep = NoReport /\ pbsRep = NoPBSReport
  BY DEF Init, HostsInit, PVEInit, PBSInit
<1>2. bound.time \in Nat
  BY <1>1, HostsAssumption DEF Scenario
<1>3. now <= bound.time /\ pbsRep.at = Unset
  BY <1>1, <1>2 DEF NoPBSReport
<1> QED BY <1>1, <1>3 DEF ClockTypes

\* Every variable of the monitored hosts keeps its type: in particular a
\* report has a status that the evaluators know, whichever of the node's
\* endpoints failed, no time lies in the future, and no report carries a token
\* that was not given out (client/pve.go:118, internal/store/windows.go).
THEOREM MonitorTypeCorrect == Spec => []TypeOK
<1> DEFINE Inv == /\ SignalTypes /\ WinTypes /\ TokenInv /\ TaskInv /\ GroupsReported /\ JobsReported
                  /\ VzInv /\ CfgTypes /\ ClockTypes
<1>1. Init => Inv
  BY SignalsStart, VolumesStart, TaskStart, VzStart, CfgStart, ClockStart
<1>2. Inv /\ [Next]_vars => Inv'
  BY SignalsTyped, VolumesStep, TaskStep, ReportedStep, VzStep, CfgStep, ClockStep
<1>3. Inv => TypeOK
  <2> SUFFICES ASSUME Inv
               PROVE  TypeOK
    OBVIOUS
  <2>0. now \in Nat /\ heard \in Int /\ hb.at \in Int /\ hb.at <= now /\ rep.at \in Int /\ pbsRep.at \in Int /\ bound.time \in Nat
    BY DEF SignalTypes, Scenario
  <2>1. now \in 0..bound.time /\ bound \in Scenarios
    BY <2>0 DEF ClockTypes
  <2>2. heard \in {Unset} \cup 0..now
    BY <2>0 DEF ClockTypes
  <2>3. hb = NoBeat \/ (hb.at \in 0..now /\ hb.swap \in {"unknown", "off", "on"})
    BY <2>0 DEF ClockTypes, SignalTypes
  <2>4. PVETypeOK
    <3>1. \A t \in tasks : t.start <= t.end /\ t.end <= now
      BY DEF VzInv, VzTypes
    <3>2. rep = NoReport \/ (rep.at \in 0..now /\ rep.status \in Statuses)
      BY <2>0 DEF ClockTypes
    <3>3. alertCfg \in [stale : Override, swap : Override, err : Override, globalErr : BOOLEAN, disk : Int, finish : Int,
                        vmErr : [VMs -> Override], minSize : SUBSET VMs]
      <4>1. {Unset, 0} \subseteq Int
        BY DEF Unset
      <4> QED BY <4>1 DEF CfgTypes, AlertConfig
    <3> QED BY <3>1, <3>2, <3>3 DEF PVETypeOK, CfgTypes, VMConfig, Statuses
  <2>5. PBSTypeOK
    <3>1. ASSUME NEW t \in pbsTasks
          PROVE  t.job \in PBSJobs /\ t.start <= now /\ (t.end = Unset \/ t.end \in t.start..now)
      <4>1. t.job \in PBSJobs /\ t.start \in Nat /\ t.end \in Int
        BY DEF TaskInv, TaskTypes, PBSTask
      <4>2. t.start <= now /\ (t.end = Unset \/ (t.start <= t.end /\ t.end <= now))
        BY DEF TaskInv, TaskTypes
      <4> QED BY <2>0, <4>1, <4>2
    <3>2. pbsRep.at \in {Unset} \cup 0..now
      BY <2>0 DEF ClockTypes
    <3>3. \A t \in pbsRep.tasks : t.job \in PBSJobs /\ t.status \in {"OK", "error", "other"}
      <4>1. CASE pbsRep = NoPBSReport
        BY <4>1 DEF NoPBSReport
      <4>2. CASE pbsRep # NoPBSReport
        BY <4>2 DEF JobsReported
      <4> QED BY <4>1, <4>2
    <3> QED BY <3>1, <3>2, <3>3 DEF PBSTypeOK, TaskInv, TaskTypes
  <2>6. WindowsTypeOK
    <3>1. DOMAIN drives \subseteq Volumes /\ winCfg \in Int /\ tokens \in Nat /\ pending \in Int
      BY DriveDomain DEF WinTypes
    <3>2. pending \in {Unset} \cup 0..(tokens - 1)
      <4>1. pending = Unset \/ (pending = tokens - 1 /\ tokens > 0)
        BY DEF TokenInv
      <4> QED BY <3>1, <4>1
    <3>3. ASSUME NEW i \in DOMAIN winReps
          PROVE  winReps[i].token \in 0..(tokens - 1) /\ winReps[i].at \in 0..now
      <4>1. i \in 1..Len(winReps)
        BY DEF WinTypes
      <4>2. winReps[i].token \in Nat /\ winReps[i].at \in Nat /\ winReps[i].token < tokens /\ winReps[i].at <= now
        BY <4>1, StoredFields DEF WinTypes, TokenInv
      <4> QED BY <2>0, <3>1, <4>2
    <3> QED BY <3>1, <3>2, <3>3 DEF WindowsTypeOK
  <2> QED BY <2>1, <2>2, <2>3, <2>4, <2>5, <2>6 DEF TypeOK
<1> QED BY <1>1, <1>2, <1>3, PTL DEF Spec
=============================================================================
