------------------------ MODULE ClientReports_proofs ------------------------
(***************************************************************************)
(* What ClientReports promises for every number of jobs and restarts.      *)
(***************************************************************************)
EXTENDS ClientReports, SequenceTheorems, TLAPS

\* A job is published after it ended, so there is one before the last.
Typed == TypeOK /\ (published \/ ended > 0)

\* The values of the client's and of the server's state are what TypeOK says:
\* in particular an id in use was once written to the marker or is random.
LEMMA TypedInductive == Typed /\ [Next]_vars => Typed'
<1> SUFFICES ASSUME Typed, [Next]_vars PROVE Typed'
    OBVIOUS
<1> USE ReportsAssumption
<1>s. stamp \in Nat /\ 0 .. stamp \subseteq 0 .. (stamp + 1)
    BY DEF Typed, TypeOK
<1>m. ASSUME WriteMarker PROVE /\ stamp' \in Nat /\ marker' \in 0 .. stamp'
                               /\ 0 .. stamp \subseteq 0 .. stamp'
    BY <1>s, <1>m DEF WriteMarker
<1>g. ASSUME NEW p \in Procs, NEW s \in Steps, Goto(p, s), 0 .. stamp \subseteq 0 .. stamp'
      PROVE  proc' \in [Procs -> [pc : Steps, job : 0 .. MaxJobs, id : 0 .. stamp']]
    BY <1>g DEF Goto, Typed, TypeOK
<1>t. ASSUME 0 .. stamp \subseteq 0 .. stamp'
      PROVE  stored \in Seq([id : 0 .. stamp', job : 0 .. MaxJobs])
  <2> DEFINE S == [id : 0 .. stamp, job : 0 .. MaxJobs]
             T == [id : 0 .. stamp', job : 0 .. MaxJobs]
  <2>1. S \subseteq T
    BY <1>t
  <2>2. stored \in Seq(S)
    BY DEF Typed, TypeOK
  <2> HIDE DEF S, T
  <2>3. stored \in Seq(T)
    BY <2>1, <2>2, SeqMonotonic
  <2> QED BY <2>3 DEF T
<1>1. CASE JobEnd
  <2>1. ended + 1 \in Procs /\ ended' \in 0 .. MaxJobs /\ ended' > 0
    BY <1>1 DEF JobEnd, Typed, TypeOK, Procs, Jobs
  <2> QED BY <1>1, <2>1, <1>m, <1>g, <1>t DEF JobEnd, Typed, TypeOK, Steps
<1>2. CASE PublishTask
    BY <1>2 DEF PublishTask, Typed, TypeOK
<1>3. CASE Reboot
    BY <1>3, <1>s DEF Reboot, Typed, TypeOK, Idle, RandomId, Steps
<1>4. ASSUME NEW j \in Jobs, Runner(j) PROVE Typed'
  <2>j. j \in Procs
    BY DEF Procs
  <2>1. CASE AcquireLock(j)
    BY <2>1, <2>j, <1>g DEF AcquireLock, Typed, TypeOK, Steps
  <2>2. CASE LockTimeout(j)
    BY <2>2, <2>j, <1>g, <1>m, <1>t DEF LockTimeout, Typed, TypeOK, Steps
  <2>3. CASE RunnerExit(j)
    <3>1. stamp' \in Nat /\ marker' \in 0 .. stamp' /\ 0 .. stamp \subseteq 0 .. stamp'
      BY <2>3, <1>m DEF RunnerExit, NoMarker, Typed, TypeOK
    <3> QED BY <2>3, <3>1, <2>j, <1>g, <1>t DEF RunnerExit, Typed, TypeOK, Steps
  <2> QED BY <1>4, <2>1, <2>2, <2>3 DEF Runner
<1>5. CASE HeartbeatRetry
    BY <1>5, <1>g DEF HeartbeatRetry, Typed, TypeOK, Steps, Procs
<1>6. CASE HeartbeatExit
  <2>1. Idle \in [pc : Steps, job : 0 .. MaxJobs, id : 0 .. stamp]
    BY <1>s DEF Idle, RandomId, Steps
  <2>2. marker' \in 0 .. stamp
    BY <1>6, <1>s DEF HeartbeatExit, NoMarker, Typed, TypeOK
  <2> QED BY <1>6, <2>1, <2>2 DEF HeartbeatExit, Typed, TypeOK
<1>7. ASSUME NEW p \in Procs, SendReport(p) PROVE Typed'
  <2>1. CASE GenerateReport(p)
    <3>1. (IF published THEN ended ELSE ended - 1) \in 0 .. MaxJobs
      BY DEF Typed, TypeOK
    <3> QED BY <2>1, <3>1 DEF GenerateReport, Typed, TypeOK, Steps
  <2>2. CASE EnsureReportID(p)
    BY <2>2 DEF EnsureReportID, Typed, TypeOK, Steps
  <2>3. CASE Post(p)
    <3>1. stored' \in Seq([id : 0 .. stamp, job : 0 .. MaxJobs])
      <4> DEFINE S == [id : 0 .. stamp, job : 0 .. MaxJobs]
                 row == [id |-> proc[p].id, job |-> proc[p].job]
      <4>1. row \in S /\ stored \in Seq(S)
        BY DEF Typed, TypeOK
      <4>2. stored' = stored \/ stored' = Append(stored, row)
        BY <2>3 DEF Post, InsertPVEReportData
      <4> HIDE DEF S, row
      <4>3. stored' \in Seq(S)
        BY <4>1, <4>2, AppendProperties
      <4> QED BY <4>3 DEF S
    <3> QED BY <2>3, <3>1, <1>g DEF Post, Typed, TypeOK, Steps
  <2>4. CASE SendFails(p)
    BY <2>4, <1>g DEF SendFails, Typed, TypeOK, Steps
  <2> QED BY <1>7, <2>1, <2>2, <2>3, <2>4 DEF SendReport
<1>8. CASE UNCHANGED vars
    BY <1>8 DEF vars, Typed, TypeOK
<1> QED BY <1>1, <1>2, <1>3, <1>4, <1>5, <1>6, <1>7, <1>8 DEF Next

LEMMA TypedInitially == Init => Typed
<1> SUFFICES ASSUME Init PROVE Typed
    OBVIOUS
<1>1. Idle \in [pc : Steps, job : 0 .. MaxJobs, id : 0 .. stamp]
    BY ReportsAssumption DEF Init, Idle, RandomId, Steps
<1>2. published \in BOOLEAN /\ overlapped \in BOOLEAN /\ published
    BY DEF Init
<1>3. ended \in 0 .. MaxJobs /\ stamp \in Nat /\ marker \in 0 .. stamp /\ reboots \in 0 .. MaxReboots
    BY ReportsAssumption DEF Init, NoMarker
<1> QED BY <1>1, <1>2, <1>3 DEF Init, Typed, TypeOK

\* Every reachable state of client, node and server is well typed.
THEOREM ReportsTypeCorrect == Spec => []TypeOK
<1>1. Typed => TypeOK
    BY DEF Typed
<1> QED BY <1>1, TypedInitially, TypedInductive, PTL DEF Spec

-----------------------------------------------------------------------------
(***************************************************************************)
(* As long as the processes have taken turns, one of them is active at     *)
(* most.  It reports the last job, published before it starts, under the   *)
(* id of a marker that nobody else touches; so the rows with that id are   *)
(* those about this job.  In one direction a duplicate answered with       *)
(* success then says that the job is stored, in the other a job that is    *)
(* stored is never sent under another id.                                  *)
(***************************************************************************)
OneActive ==
    /\ \A p, q \in Procs : Active(p) /\ Active(q) => p = q
    /\ \A j \in Jobs : Active(j) => j = ended
    /\ ~published => ended \in Jobs /\ At(ended, "waiting")

SendsLastJob ==
    \A p \in Procs :
        /\ Active(p) => marker # NoMarker
        /\ At(p, "data") \/ At(p, "ready") => proc[p].job = ended
        /\ At(p, "ready") => proc[p].id = marker
        /\ At(p, "ok") => Covered

MarkerIsLastJob ==
    \A i \in DOMAIN stored :
        /\ stored[i].job =< ended
        /\ marker # NoMarker => (stored[i].id = marker <=> stored[i].job = ended)

OneRowPerJob == \A i, k \in DOMAIN stored : stored[i].job = stored[k].job => i = k

InTurn ==
    /\ OneActive
    /\ SendsLastJob
    /\ MarkerIsLastJob
    /\ OneRowPerJob
    /\ Covered \/ marker # NoMarker

\* The invariant of the processes that take turns.
LEMMA InTurnInductive ==
    Typed /\ (overlapped \/ InTurn) /\ [Next]_vars => (overlapped \/ InTurn)'
<1> SUFFICES ASSUME Typed, overlapped \/ InTurn, [Next]_vars, ~overlapped' PROVE InTurn'
    OBVIOUS
<1> USE ReportsAssumption
<1>o. ~overlapped
    BY DEF Next, JobEnd, PublishTask, Reboot, Runner, AcquireLock, LockTimeout, RunnerExit, HeartbeatRetry,
           HeartbeatExit, SendReport, GenerateReport, EnsureReportID, Post, SendFails, vars
<1>i. InTurn
    BY <1>o
<1>p. ended \in Nat /\ stamp \in Nat /\ marker \in Nat /\ 0 \notin Jobs /\ Jobs \subseteq Procs
      /\ Heartbeat \in Procs /\ Heartbeat \notin Jobs
    BY DEF Typed, TypeOK, Procs, Jobs, Heartbeat
<1>f. ASSUME NEW p \in Procs, NEW s, Goto(p, s)
      PROVE  /\ proc'[p].pc = s /\ proc'[p].job = proc[p].job /\ proc'[p].id = proc[p].id
             /\ \A q \in Procs : q # p => proc'[q] = proc[q]
    BY <1>f DEF Goto, Typed, TypeOK
\* A step of the one process p that is active, which stays active or ends.
<1>a. ASSUME NEW p \in Procs, Active(p), published, UNCHANGED <<ended, published>>,
             \A q \in Procs : q # p => proc'[q] = proc[q]
      PROVE  OneActive' /\ \A q \in Procs : Active(q)' => q = p
  <2>1. \A q \in Procs : Active(q)' => q = p
    BY <1>i, <1>a DEF InTurn, OneActive, Active
  <2>2. \A j \in Jobs : j = p => j = ended'
    BY <1>i, <1>a, <1>p DEF InTurn, OneActive
  <2> QED BY <1>a, <2>1, <2>2, <1>p DEF OneActive
<1>1. CASE JobEnd
  <2>0. Quiet
    BY <1>1 DEF JobEnd
  <2>1. Quiet /\ ended' = ended + 1 /\ ended + 1 \in Jobs /\ marker' = stamp + 1
    BY <1>1, <2>0 DEF JobEnd, WriteMarker, Typed, TypeOK, Jobs
  <2>2. proc'[ended + 1].pc = "waiting" /\ \A q \in Procs : q # ended + 1 => proc'[q] = proc[q]
    BY <1>1, <2>1, <1>p, <1>f DEF JobEnd
  <2>3. \A q \in Procs : q # ended + 1 => ~Active(q)'
    BY <2>1, <2>2 DEF Quiet, Active
  <2>4. OneActive'
    BY <1>p, <2>1, <2>2, <2>3 DEF OneActive, At
  <2>5. marker' # NoMarker
    BY <2>1, <1>p DEF NoMarker
  <2>6. SendsLastJob'
    BY <2>2, <2>3, <2>5 DEF SendsLastJob, At, Active
  <2>7. \A i \in DOMAIN stored : stored[i].id # stamp + 1 /\ stored[i].job # ended + 1 /\ stored[i].job =< ended + 1
    <3> SUFFICES ASSUME NEW i \in DOMAIN stored
                 PROVE  stored[i].id # stamp + 1 /\ stored[i].job # ended + 1 /\ stored[i].job =< ended + 1
      OBVIOUS
    <3>1. stored[i].id \in 0 .. stamp /\ stored[i].job \in 0 .. MaxJobs
      <4> DEFINE S == [id : 0 .. stamp, job : 0 .. MaxJobs]
      <4>1. stored \in Seq(S)
        BY DEF Typed, TypeOK
      <4>2. \A x \in S : x.id \in 0 .. stamp /\ x.job \in 0 .. MaxJobs
        OBVIOUS
      <4> HIDE DEF S
      <4>3. stored[i] \in S
        BY <4>1, LenProperties, ElementOfSeq
      <4> QED BY <4>2, <4>3
    <3>2. stored[i].job =< ended
      BY <1>i DEF InTurn, MarkerIsLastJob
    <3> QED BY <3>1, <3>2, <1>p
  <2> QED BY <1>1, <2>1, <2>4, <2>5, <2>6, <2>7 DEF InTurn, MarkerIsLastJob, OneRowPerJob, JobEnd
<1>2. CASE PublishTask
  <2>1. OneActive'
    BY <1>2, <1>i DEF PublishTask, InTurn, OneActive, Active, At
  <2> QED BY <1>2, <1>i, <2>1 DEF PublishTask, InTurn, SendsLastJob, MarkerIsLastJob, OneRowPerJob, Covered, Active, At
<1>3. CASE Reboot
  <2>1. \A p \in Procs : proc'[p] = Idle
    BY <1>3 DEF Reboot
  <2>2. \A p \in Procs : proc'[p].pc = "idle"
    BY <2>1 DEF Idle
  <2>3. OneActive' /\ SendsLastJob'
    BY <1>3, <2>2, <1>p DEF Reboot, OneActive, SendsLastJob, Active, At
  <2> QED BY <1>3, <1>i, <2>3 DEF Reboot, InTurn, MarkerIsLastJob, OneRowPerJob, Covered
<1>4. ASSUME NEW j \in Jobs, AcquireLock(j) PROVE InTurn'
  <2>1. /\ j \in Procs /\ Active(j) /\ proc'[j].pc = "client"
        /\ \A q \in Procs : q # j => proc'[q] = proc[q]
    BY <1>4, <1>p, <1>f DEF AcquireLock, Started, At, Active
  <2>2. j = ended
    BY <1>i, <2>1 DEF InTurn, OneActive
  <2>3. published
    BY <1>4, <2>2, <1>p DEF AcquireLock, Started
  <2>4. OneActive' /\ \A q \in Procs : Active(q)' => q = j
    BY <1>4, <2>1, <2>3, <1>a DEF AcquireLock
  <2>5. SendsLastJob'
    BY <1>4, <1>i, <2>1, <2>4 DEF AcquireLock, InTurn, SendsLastJob, At, Active
  <2> QED BY <1>4, <1>i, <2>4, <2>5 DEF AcquireLock, InTurn, MarkerIsLastJob, OneRowPerJob, Covered
<1>5. ASSUME NEW j \in Jobs, LockTimeout(j) PROVE FALSE
  <2>1. PICK k \in Jobs : Active(k) /\ ~At(k, "waiting")
    BY <1>5 DEF LockTimeout, LockFree, Active, At
  <2>2. Active(j) /\ At(j, "waiting")
    BY <1>5 DEF LockTimeout, Started, Active, At
  <2> QED BY <1>i, <1>p, <2>1, <2>2 DEF InTurn, OneActive
\* A process that is past the lock works on a published job.
<1>b. ASSUME NEW p \in Procs, Active(p), ~At(p, "waiting") PROVE published
  <2>1. ASSUME ~published PROVE FALSE
    <3>1. ended \in Procs /\ At(ended, "waiting")
      BY <2>1, <1>i, <1>p DEF InTurn, OneActive
    <3>2. ended = p
      BY <3>1, <1>b, <1>i DEF InTurn, OneActive, Active, At
    <3> QED BY <3>1, <3>2, <1>b
  <2> QED BY <2>1
<1>6. ASSUME NEW j \in Jobs, RunnerExit(j) PROVE InTurn'
  <2>1. /\ j \in Procs /\ Active(j) /\ ~At(j, "waiting") /\ proc'[j].pc = "done"
        /\ \A q \in Procs : q # j => proc'[q] = proc[q]
    BY <1>6, <1>p, <1>f DEF RunnerExit, At, Active
  <2>2. OneActive' /\ \A q \in Procs : Active(q)' => q = j
    BY <1>6, <2>1, <1>a, <1>b DEF RunnerExit
  <2>3. SendsLastJob'
    BY <2>1, <2>2 DEF SendsLastJob, At, Active
  <2>4. marker # NoMarker /\ (At(j, "ok") => Covered)
    BY <1>i, <2>1 DEF InTurn, SendsLastJob
  <2>5. \/ marker' = NoMarker /\ Covered'
        \/ marker' = marker
    BY <1>6, <2>4 DEF RunnerExit, Covered
  <2> QED BY <1>6, <1>i, <2>2, <2>3, <2>4, <2>5 DEF RunnerExit, InTurn, MarkerIsLastJob, OneRowPerJob, Covered
<1>7. CASE HeartbeatRetry
  <2>1. Quiet /\ published /\ marker # NoMarker
    BY <1>7, <1>o DEF HeartbeatRetry
  <2>2. /\ proc'[Heartbeat].pc = "client"
        /\ \A q \in Procs : q # Heartbeat => proc'[q] = proc[q]
    BY <1>7, <1>p, <1>f DEF HeartbeatRetry
  <2>3. \A q \in Procs : Active(q)' => q = Heartbeat
    BY <2>1, <2>2 DEF Quiet, Active
  <2>4. OneActive'
    BY <1>7, <2>1, <2>3, <1>p DEF HeartbeatRetry, OneActive
  <2>5. SendsLastJob'
    BY <1>7, <2>1, <2>2, <2>3 DEF HeartbeatRetry, SendsLastJob, At, Active
  <2> QED BY <1>7, <1>i, <2>4, <2>5 DEF HeartbeatRetry, InTurn, MarkerIsLastJob, OneRowPerJob, Covered
<1>8. CASE HeartbeatExit
  <2>1. /\ Active(Heartbeat) /\ ~At(Heartbeat, "waiting") /\ proc'[Heartbeat].pc = "idle"
        /\ \A q \in Procs : q # Heartbeat => proc'[q] = proc[q]
    BY <1>8, <1>p DEF HeartbeatExit, At, Active, Idle, Typed, TypeOK
  <2>2. OneActive' /\ \A q \in Procs : Active(q)' => q = Heartbeat
    BY <1>8, <2>1, <1>a, <1>b, <1>p DEF HeartbeatExit
  <2>3. SendsLastJob'
    BY <2>1, <2>2 DEF SendsLastJob, At, Active
  <2>4. At(Heartbeat, "ok") => Covered
    BY <1>i, <1>p DEF InTurn, SendsLastJob
  <2> QED BY <1>8, <1>i, <2>2, <2>3, <2>4 DEF HeartbeatExit, InTurn, MarkerIsLastJob, OneRowPerJob, Covered
<1>9. ASSUME NEW p \in Procs, SendReport(p) PROVE InTurn'
  <2>0. /\ Active(p) /\ ~At(p, "waiting") /\ published /\ UNCHANGED <<ended, published, marker>>
        /\ \A q \in Procs : q # p => proc'[q] = proc[q]
    <3>1. Active(p) /\ ~At(p, "waiting")
      BY <1>9 DEF SendReport, GenerateReport, EnsureReportID, Post, SendFails, At, Active
    <3>2. \A q \in Procs : q # p => proc'[q] = proc[q]
      BY <1>9, <1>f DEF SendReport, GenerateReport, EnsureReportID, Post, SendFails, Typed, TypeOK
    <3> QED BY <1>9, <3>1, <3>2, <1>b DEF SendReport, GenerateReport, EnsureReportID, Post, SendFails
  <2>a. OneActive' /\ \A q \in Procs : Active(q)' => q = p
    BY <2>0, <1>a
  <2>m. marker # NoMarker
    BY <1>i, <2>0 DEF InTurn, SendsLastJob
  <2>1. CASE GenerateReport(p)
    <3>1. proc'[p].pc = "data" /\ proc'[p].job = ended
      BY <2>1, <2>0 DEF GenerateReport, Typed, TypeOK
    <3>2. SendsLastJob'
      BY <3>1, <2>0, <2>a, <2>m DEF SendsLastJob, At, Active
    <3> QED BY <2>1, <1>i, <2>a, <3>2 DEF GenerateReport, InTurn, MarkerIsLastJob, OneRowPerJob, Covered
  <2>2. CASE EnsureReportID(p)
    <3>1. proc'[p].pc = "ready" /\ proc'[p].job = proc[p].job /\ proc'[p].id = marker
      BY <2>2 DEF EnsureReportID, Typed, TypeOK
    <3>2. proc[p].job = ended
      BY <2>2, <1>i DEF EnsureReportID, InTurn, SendsLastJob
    <3>3. SendsLastJob'
      BY <3>1, <3>2, <2>0, <2>a, <2>m DEF SendsLastJob, At, Active
    <3> QED BY <2>2, <1>i, <2>a, <3>3 DEF EnsureReportID, InTurn, MarkerIsLastJob, OneRowPerJob, Covered
  <2>3. CASE Post(p)
    <3>1. proc'[p].pc \in {"ok", "failed"}
      BY <2>3, <1>f DEF Post
    <3>2. proc[p].job = ended /\ proc[p].id = marker
      BY <2>3, <1>i DEF Post, InTurn, SendsLastJob
    <3>3. Covered' /\ MarkerIsLastJob' /\ OneRowPerJob'
      <4>1. CASE \E i \in DOMAIN stored : stored[i].id = marker
        <5>1. stored' = stored
          BY <4>1, <2>3, <3>2, <2>m DEF Post, InsertPVEReportData, RandomId, NoMarker
        <5> QED BY <4>1, <5>1, <2>0, <2>m, <1>i DEF InTurn, MarkerIsLastJob, OneRowPerJob, Covered
      <4>2. CASE ~\E i \in DOMAIN stored : stored[i].id = marker
        <5> DEFINE row == [id |-> marker, job |-> ended]
        <5>1. stored' = Append(stored, row)
          BY <4>2, <2>3, <3>2 DEF Post, InsertPVEReportData
        <5>2. row.id = marker /\ row.job = ended
          OBVIOUS
        <5> HIDE DEF row
        <5>3. /\ DOMAIN stored' = 1 .. (Len(stored) + 1) /\ DOMAIN stored = 1 .. Len(stored)
              /\ Len(stored) \in Nat
              /\ stored'[Len(stored) + 1] = row
              /\ \A i \in 1 .. Len(stored) : stored'[i] = stored[i]
          BY <5>1 DEF Typed, TypeOK
        <5>4. \A i \in DOMAIN stored : stored[i].job =< ended /\ stored[i].job # ended /\ stored[i].id # marker
          BY <4>2, <2>m, <1>i DEF InTurn, MarkerIsLastJob
        <5>5. Covered'
          BY <5>2, <5>3, <2>0 DEF Covered
        <5>6. MarkerIsLastJob'
          BY <5>2, <5>3, <5>4, <2>0, <1>p DEF MarkerIsLastJob
        <5>7. OneRowPerJob'
          BY <5>2, <5>3, <5>4, <1>i DEF InTurn, OneRowPerJob
        <5> QED BY <5>5, <5>6, <5>7
      <4> QED BY <4>1, <4>2
    <3>4. SendsLastJob'
      BY <3>1, <3>3, <2>0, <2>a, <2>m DEF SendsLastJob, At, Active
    <3> QED BY <2>a, <3>3, <3>4 DEF InTurn
  <2>4. CASE SendFails(p)
    <3>1. proc'[p].pc = "failed"
      BY <2>4, <1>f DEF SendFails
    <3>2. SendsLastJob'
      BY <3>1, <2>0, <2>a, <2>m DEF SendsLastJob, At, Active
    <3> QED BY <2>4, <1>i, <2>a, <3>2 DEF SendFails, InTurn, MarkerIsLastJob, OneRowPerJob, Covered
  <2> QED BY <1>9, <2>1, <2>2, <2>3, <2>4 DEF SendReport
<1>10. CASE UNCHANGED vars
    BY <1>10, <1>i DEF vars, InTurn, OneActive, SendsLastJob, MarkerIsLastJob, OneRowPerJob, Covered, Active, At
<1> QED BY <1>1, <1>2, <1>3, <1>4, <1>5, <1>6, <1>7, <1>8, <1>9, <1>10 DEF Next, Runner

LEMMA InTurnInitially == Init => InTurn
<1> SUFFICES ASSUME Init PROVE InTurn
    OBVIOUS
<1>1. \A p \in Procs : proc[p].pc = "idle"
    BY DEF Init, Idle
<1>2. published /\ stored = <<>> /\ ended = 0
    BY DEF Init
<1>3. Jobs \subseteq Procs /\ DOMAIN stored = {}
    BY <1>2 DEF Procs
<1>4. OneActive /\ SendsLastJob
    BY <1>1, <1>2, <1>3 DEF OneActive, SendsLastJob, Active, At
<1> QED BY <1>2, <1>3, <1>4 DEF InTurn, MarkerIsLastJob, OneRowPerJob, Covered

\* As long as the hook's runners and the heartbeat have taken turns, the last job
\* is on the server or is going to be reported, whatever fails in between.
THEOREM LastJobIsRemembered == Spec => []NotForgottenInTurn
<1>1. overlapped \/ InTurn => NotForgottenInTurn
    BY DEF InTurn, NotForgottenInTurn, NeverForgotten, Pending
<1> QED BY <1>1, InTurnInitially, TypedInitially, TypedInductive, InTurnInductive, PTL DEF Spec

\* And no job has two rows on the server, however often lost answers, failing
\* sends and restarts made the client report it again.
THEOREM JobsAreReportedOnce == Spec => []JobReportedOnce
<1>1. overlapped \/ InTurn => JobReportedOnce
    BY DEF InTurn, OneRowPerJob, JobReportedOnce
<1> QED BY <1>1, InTurnInitially, TypedInitially, TypedInductive, InTurnInductive, PTL DEF Spec
=============================================================================
