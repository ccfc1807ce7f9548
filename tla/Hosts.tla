-------------------------------- MODULE Hosts --------------------------------
(***************************************************************************)
(* What every monitored host shares, whatever runs on it: the clock, the   *)
(* heartbeat row that the server keeps (internal/store/heartbeat.go), and  *)
(* the alerts about the signal and the swap that are read from it          *)
(* (internal/service/alertengine.go).  The modules PVEWatch, PBSWatch and  *)
(* WindowsWatch add the three kinds of host, and Monitor puts them         *)
(* together.                                                               *)
(*                                                                         *)
(* An alert is a pair of its type and what it is about: Server, a VM, a    *)
(* datastore, a job or a volume.                                           *)
(***************************************************************************)
EXTENDS Integers, FiniteSetsExt, TLC

CONSTANTS VMs,          \* guest ids of a PVE node, positive numbers
          HeartbeatMax, \* slots without a signal (GlobalPVEHeartbeatMinutes)
          DiskPct,      \* the global disk threshold
          Scenarios     \* what happens to the host, one of them chosen at the start

\* The bounds of a scenario: the kind of host, the last slot, how many tasks,
\* reports, heartbeats and edits there are, what a disk and the swap can show,
\* whether a report may be built from incomplete reads, and the backup
\* configurations of a PVE host to start from.
Scenario == [kind : {"pve", "pbs", "windows"}, time : Nat, tasks : Nat, reports : Nat, beats : Nat, edits : Nat,
             disks : SUBSET Nat, swaps : SUBSET BOOLEAN, fails : BOOLEAN, cfgs : SUBSET [VMs -> {"absent", "active", "excluded"}]]

ASSUME HostsAssumption ==
    /\ VMs \subseteq Nat \ {0} /\ IsFiniteSet(VMs)
    /\ {HeartbeatMax, DiskPct} \subseteq Nat
    /\ \A s \in Scenarios : s \in Scenario

VARIABLES now,      \* the clock
          hb,       \* the heartbeat row
          heard,    \* history: when the host was last heard of
          swapSeen, \* history: what was received about swap, and when
          bound,    \* the scenario
          edits, reports, beats   \* how much of it is used

hostVars == <<now, hb, heard, swapSeen, bound, edits, reports, beats>>

Server == 0
Unset == -1      \* an override that is not set, a time that has not come
Override == {"unset", "off", "on"}
NoBeat == [at |-> Unset, swap |-> "unknown"]

HostsInit ==
    /\ bound \in Scenarios
    /\ now = 0 /\ hb = NoBeat /\ heard = Unset
    /\ swapSeen = [at |-> Unset, on |-> FALSE, tie |-> FALSE]
    /\ edits = 0 /\ reports = 0 /\ beats = 0

Tick ==
    /\ now < bound.time /\ now' = now + 1
    /\ UNCHANGED <<hb, heard, swapSeen, bound, edits, reports, beats>>

\* What was received about swap; two signals of one slot cannot be told apart.
Received(on) == swapSeen' = [at |-> now, on |-> on, tie |-> swapSeen.at = now]

\* UpsertServerHeartbeat: a signal without swap values keeps the stored ones.
UpsertServerHeartbeat(swap) == [at |-> now, swap |-> IF swap # "unknown" THEN swap ELSE hb.swap]

\* The Heartbeat handler.  Clients are only ever updated, so a signal without
\* swap values never follows one with them.
Heartbeat(swap) ==
    /\ beats < bound.beats /\ beats' = beats + 1
    /\ swap = "unknown" => hb.swap = "unknown"
    /\ swap # "unknown" => bound.kind # "windows"
    /\ hb' = UpsertServerHeartbeat(swap)
    /\ heard' = now
    /\ IF swap = "unknown" THEN UNCHANGED swapSeen ELSE Received(swap = "on")
    /\ UNCHANGED <<now, bound, edits, reports>>

\* A report is accepted, or an edit of the configuration made.
Report == /\ reports < bound.reports /\ reports' = reports + 1
          /\ UNCHANGED <<now, bound, edits, beats>>
Edit == /\ edits < bound.edits /\ edits' = edits + 1
        /\ UNCHANGED <<now, hb, heard, swapSeen, bound, reports, beats>>

-----------------------------------------------------------------------------
\* An override replaces the global threshold; zero switches the alert off.
Threshold(override) == IF override # Unset THEN override ELSE DiskPct

heartbeat(type) ==
    IF HeartbeatMax > 0 /\ hb # NoBeat /\ now - hb.at > HeartbeatMax THEN {<<type, Server>>} ELSE {}

\* The swap of a report that arrived at time at, Unset if there is none.
ReportSwapFirst(swap, at) == IF at # Unset THEN swap ELSE hb.swap = "on"   \* mutant: the report wins
currentHostSwap(swap, at) ==
    IF hb.swap # "unknown" /\ (at = Unset \/ hb.at >= at) THEN hb.swap = "on" ELSE at # Unset /\ swap
evalHostSwap(override, swap, at) ==
    IF override # "off" /\ currentHostSwap(swap, at) THEN {<<"swap", Server>>} ELSE {}
=============================================================================
