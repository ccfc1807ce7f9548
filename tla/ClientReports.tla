---------------------------- MODULE ClientReports ----------------------------
(***************************************************************************)
(* How the report of a backup job gets from a PVE node to the server.      *)
(*                                                                         *)
(* The vzdump hook (client/install.go) writes a marker file when a job     *)
(* ends and starts a runner five seconds later; the runners hold a lock.   *)
(* The heartbeat timer sends a report too if it finds the marker           *)
(* (client/main.go) and holds no lock.  Both run sendReport                *)
(* (client/sender.go): collect the data, take the report id from the       *)
(* marker, post.  The server drops a report whose id it has                *)
(* (internal/store/pve.go).  Answers get lost, sends fail, the node may be *)
(* restarted.                                                              *)
(***************************************************************************)
EXTENDS Integers, Sequences

CONSTANTS
    MaxJobs,        \* backup jobs of the node
    MaxReboots      \* restarts of the node

ASSUME ReportsAssumption == MaxJobs \in Nat /\ MaxReboots \in Nat

Jobs == 1 .. MaxJobs
\* A runner has the number of its job.
Heartbeat == 0
Procs == {Heartbeat} \cup Jobs

NoMarker == 0
RandomId == 0       \* an id of reportid.New, which no other report has

VARIABLES
    ended,          \* jobs whose hook has run; they run one after the other
    published,      \* PVE lists the last of them with its end time and status
    marker,         \* contents of .report_pending
    stamp,          \* last time that was written to it
    proc,           \* the client processes
    stored,         \* rows of the server in order: report id, and the job they are about
    reboots,
    overlapped      \* history: two processes have been at work at a time, or
                    \* a heartbeat retried while the last job was unpublished

vars == <<ended, published, marker, stamp, proc, stored, reboots, overlapped>>

\* idle: not started, or killed; waiting: for the lock; client: started;
\* data: has collected it; ready: has its id; ok, failed: sendReport returned.
Steps == {"idle", "waiting", "client", "data", "ready", "ok", "failed", "done"}
At(p, s) == proc[p].pc = s
Active(p) == proc[p].pc \notin {"idle", "done"}
Quiet == \A p \in Procs : ~Active(p)

Idle == [pc |-> "idle", job |-> 0, id |-> RandomId]

TypeOK ==
    /\ ended \in 0 .. MaxJobs
    /\ published \in BOOLEAN
    /\ stamp \in Nat
    /\ marker \in 0 .. stamp
    /\ proc \in [Procs -> [pc : Steps, job : 0 .. MaxJobs, id : 0 .. stamp]]
    /\ stored \in Seq([id : 0 .. stamp, job : 0 .. MaxJobs])
    /\ reboots \in 0 .. MaxReboots
    /\ overlapped \in BOOLEAN

Init ==
    /\ ended = 0 /\ published = TRUE
    /\ marker = NoMarker /\ stamp = 0
    /\ proc = [p \in Procs |-> Idle]
    /\ stored = <<>>
    /\ reboots = 0
    /\ overlapped = FALSE

-----------------------------------------------------------------------------
(***************************************************************************)
(* The node.                                                               *)
(***************************************************************************)
Goto(p, s) == proc' = [proc EXCEPT ![p].pc = s]
WriteMarker == stamp' = stamp + 1 /\ marker' = stamp + 1

\* The hook's job-end: PVE publishes the result of the job after it returns.
JobEnd ==
    /\ ended < MaxJobs /\ published
    /\ ended' = ended + 1 /\ published' = FALSE
    /\ WriteMarker
    /\ Goto(ended + 1, "waiting")
    /\ overlapped' = (overlapped \/ ~Quiet)
    /\ UNCHANGED <<stored, reboots>>

PublishTask ==
    /\ ~published
    /\ published' = TRUE
    /\ UNCHANGED <<ended, marker, stamp, proc, stored, reboots, overlapped>>

\* All processes of the client are gone, the marker stays.
Reboot ==
    /\ reboots < MaxReboots /\ published
    /\ reboots' = reboots + 1
    /\ proc' = [p \in Procs |-> Idle]
    /\ UNCHANGED <<ended, published, marker, stamp, stored, overlapped>>

-----------------------------------------------------------------------------
(***************************************************************************)
(* The hook's run-report.                                                  *)
(***************************************************************************)
LockFree == \A j \in Jobs : proc[j].pc \in {"idle", "waiting", "done"}

\* The five seconds that the hook lets pass are enough for PVE to publish the job.
Started(j) == At(j, "waiting") /\ (published \/ j < ended)

AcquireLock(j) ==
    /\ Started(j)
    /\ LockFree
    /\ Goto(j, "client")
    /\ UNCHANGED <<ended, published, marker, stamp, stored, reboots, overlapped>>

\* flock -w 30 gives up: the report is left to the next heartbeat.
LockTimeout(j) ==
    /\ Started(j)
    /\ ~LockFree
    /\ WriteMarker
    /\ Goto(j, "done")
    /\ UNCHANGED <<ended, published, stored, reboots, overlapped>>

\* Mutant: a runner that fails writes the marker anew.
RewriteOnFailure(j) ==
    /\ \/ /\ At(j, "ok")
          /\ marker' = NoMarker /\ UNCHANGED stamp
       \/ /\ At(j, "failed")
          /\ WriteMarker
    /\ Goto(j, "done")
    /\ UNCHANGED <<ended, published, stored, reboots, overlapped>>

RunnerExit(j) ==
    /\ \/ /\ At(j, "ok")
          /\ marker' = NoMarker /\ UNCHANGED stamp
       \/ /\ At(j, "failed")
          /\ IF marker = NoMarker THEN WriteMarker ELSE UNCHANGED <<marker, stamp>>
    /\ Goto(j, "done")
    /\ UNCHANGED <<ended, published, stored, reboots, overlapped>>

-----------------------------------------------------------------------------
(***************************************************************************)
(* The heartbeat: retryPendingReport, after a heartbeat that succeeded.    *)
(***************************************************************************)

\* Mutant: only what a runner has given up is retried.
RetryGivenUp ==
    /\ ~Active(Heartbeat)
    /\ marker # NoMarker
    /\ At(ended, "done")
    /\ Goto(Heartbeat, "client")
    /\ overlapped' = (overlapped \/ ~Quiet \/ ~published)
    /\ UNCHANGED <<ended, published, marker, stamp, stored, reboots>>

HeartbeatRetry ==
    /\ ~Active(Heartbeat)
    /\ marker # NoMarker
    /\ Goto(Heartbeat, "client")
    /\ overlapped' = (overlapped \/ ~Quiet \/ ~published)
    /\ UNCHANGED <<ended, published, marker, stamp, stored, reboots>>

\* The marker is removed whatever is in it by now.
HeartbeatExit ==
    /\ \/ At(Heartbeat, "ok") /\ marker' = NoMarker
       \/ At(Heartbeat, "failed") /\ UNCHANGED marker
    /\ proc' = [proc EXCEPT ![Heartbeat] = Idle]
    /\ UNCHANGED <<ended, published, stamp, stored, reboots, overlapped>>

-----------------------------------------------------------------------------
(***************************************************************************)
(* sendReport, in either process.                                          *)
(***************************************************************************)

\* Tasks without an end time are left out: a report is about the last published
\* job.  If PVE fails to list the tasks it says ERROR instead of their result.
GenerateReport(p) ==
    /\ At(p, "client")
    /\ proc' = [proc EXCEPT ![p].pc = "data", ![p].job = IF published THEN ended ELSE ended - 1]
    /\ UNCHANGED <<ended, published, marker, stamp, stored, reboots, overlapped>>

\* Mutant: the id depends on the machine only.
SameIdAlways(p) ==
    /\ At(p, "data")
    /\ proc' = [proc EXCEPT ![p].pc = "ready", ![p].id = 1]
    /\ UNCHANGED <<ended, published, marker, stamp, stored, reboots, overlapped>>

\* The id is a hash of the marker's contents; without a marker it is random.
EnsureReportID(p) ==
    /\ At(p, "data")
    /\ proc' = [proc EXCEPT ![p].pc = "ready", ![p].id = marker]
    /\ UNCHANGED <<ended, published, marker, stamp, stored, reboots, overlapped>>

\* The transaction of the server ends without insertion if it has the id.
InsertPVEReportData(id, job) ==
    LET has == id # RandomId /\ \E i \in DOMAIN stored : stored[i].id = id
    IN  stored' = IF has THEN stored ELSE Append(stored, [id |-> id, job |-> job])

\* A repeated report is answered like a new one; the answer may get lost.
Post(p) ==
    /\ At(p, "ready")
    /\ InsertPVEReportData(proc[p].id, proc[p].job)
    /\ Goto(p, "ok") \/ Goto(p, "failed")
    /\ UNCHANGED <<ended, published, marker, stamp, reboots, overlapped>>

\* PVE does not answer, or the server refuses the report or is out of reach.
SendFails(p) ==
    /\ proc[p].pc \in {"client", "ready"}
    /\ Goto(p, "failed")
    /\ UNCHANGED <<ended, published, marker, stamp, stored, reboots, overlapped>>

-----------------------------------------------------------------------------
SendReport(p) == GenerateReport(p) \/ EnsureReportID(p) \/ Post(p) \/ SendFails(p)
Runner(j) == AcquireLock(j) \/ LockTimeout(j) \/ RunnerExit(j)

Next ==
    \/ JobEnd \/ PublishTask \/ Reboot
    \/ \E j \in Jobs : Runner(j)
    \/ HeartbeatRetry \/ HeartbeatExit
    \/ \E p \in Procs : SendReport(p)

Spec == Init /\ [][Next]_vars

\* Processes that were started go on, the timer fires, and heartbeats that
\* retry again and again are answered some day.
FairSpec ==
    /\ Spec
    /\ WF_vars(PublishTask)
    /\ \A j \in Jobs : WF_vars(Runner(j))
    /\ \A p \in Procs : WF_vars(SendReport(p))
    /\ WF_vars(HeartbeatRetry) /\ WF_vars(HeartbeatExit)
    /\ SF_vars(GenerateReport(Heartbeat))
    /\ SF_vars(Post(Heartbeat) /\ Goto(Heartbeat, "ok"))

-----------------------------------------------------------------------------
(***************************************************************************)
(* Properties.                                                             *)
(***************************************************************************)

\* The server has a report collected after the last job was published.
Covered == ended = 0 \/ \E i \in DOMAIN stored : stored[i].job = ended
Pending == marker # NoMarker \/ ~Quiet

\* No job has two rows: neither a runner whose answer was lost, nor the heartbeats
\* after it, nor what runs after a restart reports a job again under another id,
\* which is what makes the server store it.  So it needs a marker that keeps its
\* contents from the end of the job to the answer that removes it, and processes
\* that take turns: one that gives up on the lock writes the marker anew.
JobReportedOnce ==
    overlapped \/ \A i, k \in DOMAIN stored : stored[i].job = stored[k].job => i = k

\* The last job is on the server or somebody is still going to report it.
NeverForgotten == Covered \/ Pending

\* That holds, whatever fails and whenever the node is restarted, as long as the
\* processes of the client have taken turns.
NotForgottenInTurn == overlapped \/ NeverForgotten

\* And then the last job gets to the server.
EventuallyReported == <>[](overlapped \/ Covered)
=============================================================================
