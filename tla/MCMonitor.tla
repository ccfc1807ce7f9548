------------------------------ MODULE MCMonitor ------------------------------
(***************************************************************************)
(* Instance of Monitor for TLC: two VMs, a week of two days, a day of      *)
(* three slots, one backup group, two maintenance jobs, two volumes.      *)
(* Each scenario lets one side of one host move far enough for its cases   *)
(* to happen.                                                              *)
(***************************************************************************)
EXTENDS Views

Cfg(a, b) == [v \in VMs |-> IF v = 1 THEN a ELSE b]
MCJobs == {<<"sync", "s">>, <<"gc", "g">>}

\* Jobs: two tasks of any shape, one report, every endpoint that can fail.
Jobs == [kind |-> "pve", time |-> 1, tasks |-> 2, reports |-> 1, beats |-> 0, edits |-> 0, disks |-> {50}, swaps |-> {FALSE},
         fails |-> TRUE, cfgs |-> {Cfg("absent", "active")}]
\* Settings: one task, one report and every edit of the configuration, in one slot.
Settings == [Jobs EXCEPT !.time = 0, !.tasks = 1, !.edits = 1, !.disks = {95},
                         !.cfgs = {Cfg("active", "excluded")}]
\* Days: reports over more days than are looked back on, without tasks.
Days == [Jobs EXCEPT !.time = 15, !.tasks = 0, !.reports = 2, !.edits = 1, !.fails = FALSE,
                     !.cfgs = {Cfg("absent", "active"), Cfg("active", "excluded")}]
\* Signals: reports and heartbeats in any order.
Signals == [Jobs EXCEPT !.time = 4, !.tasks = 0, !.reports = 2, !.beats = 3, !.swaps = BOOLEAN, !.fails = FALSE,
                        !.cfgs = {Cfg("absent", "absent")}]
\* Maintenance: tasks and verifications of a backup server, one report.
Maintenance == [Jobs EXCEPT !.kind = "pbs"]
\* Upkeep: reports, heartbeats and edits of a backup server, without tasks.
Upkeep == [Signals EXCEPT !.kind = "pbs", !.time = 4, !.beats = 1, !.reports = 1, !.edits = 1, !.disks = {95}]
\* Drives: three reports of a Windows host, each lost or unanswered or not.
Drives == [Jobs EXCEPT !.kind = "windows", !.time = 1, !.tasks = 1, !.reports = 3, !.beats = 1]
\* A Windows host over more time, with its threshold edited.
DriveEdits == [Drives EXCEPT !.time = 4, !.reports = 1, !.edits = 1]

MCScenarios == {Jobs, Settings, Days, Signals, Maintenance, Upkeep, Drives, DriveEdits}
OnlyMaintenance == {Maintenance}
=============================================================================
