------------------------------- MODULE Monitor -------------------------------
(***************************************************************************)
(* The three kinds of monitored host side by side: the clock and the       *)
(* heartbeats are theirs together, the rest moves with the kind of host    *)
(* that the scenario is about.  RunAll is the set of alerts that           *)
(* SyncAlertStates of module AlertStates is then given.                    *)
(***************************************************************************)
EXTENDS PVEWatch, PBSWatch, WindowsWatch

vars == <<hostVars, pveVars, pbsVars, winVars>>

RunAll == CASE bound.kind = "pve" -> pveAlerts
            [] bound.kind = "pbs" -> pbsAlerts
            [] bound.kind = "windows" -> windowsAlerts

Init == HostsInit /\ PVEInit /\ PBSInit /\ WindowsInit

Next ==
    \/ (Tick \/ \E swap \in {"unknown", "off", "on"} : Heartbeat(swap)) /\ UNCHANGED <<pveVars, pbsVars, winVars>>
    \/ PVENext /\ UNCHANGED <<pbsVars, winVars>>
    \/ PBSNext /\ UNCHANGED <<pveVars, winVars>>
    \/ WindowsNext /\ UNCHANGED <<pveVars, pbsVars>>

Spec == Init /\ [][Next]_vars

-----------------------------------------------------------------------------
\* Every variable has its type.
TypeOK ==
    /\ bound \in Scenarios /\ now \in 0..bound.time /\ heard \in {Unset} \cup 0..now
    /\ hb = NoBeat \/ (hb.at \in 0..now /\ hb.swap \in {"unknown", "off", "on"})
    /\ PVETypeOK /\ PBSTypeOK /\ WindowsTypeOK

\* The swap alert follows what was received last, a report or a heartbeat
\* (currentHostSwap, internal/service/alertengine.go:728).
SwapFollowsNewest ==
    (bound.kind # "windows" /\ swapSeen.at # Unset /\ ~swapSeen.tie /\ alertCfg.swap # "off" /\ pbsCfg.swap # "off") =>
        ((<<"swap", Server>> \in RunAll) <=> swapSeen.on)

\* A backup server or Windows host that has been heard of and then stays silent
\* for longer than both limits has an alert, whichever of its signals were lost,
\* unless the alert is switched off with a limit of zero
\* (evalPBSReportStale, evalWindowsHeartbeat, internal/service/alertengine.go:735).
SilenceIsNoticed ==
    (/\ bound.kind # "pve" /\ heard # Unset /\ now - heard > HeartbeatMax /\ now - heard > StaleMax
     /\ (bound.kind = "pbs" => staleHours # 0) /\ (bound.kind = "windows" => HeartbeatMax # 0))
    => \E type \in {"pbs_heartbeat", "pbs_report_stale", "windows_heartbeat"} : <<type, Server>> \in RunAll
=============================================================================
