------------------------------ MODULE NASBackup ------------------------------
(***************************************************************************)
(* Copies of the database to a NAS (internal/service/nas_backup.go): once a*)
(* day and by hand, one at a time.  A copy is claimed in its row           *)
(* (internal/store/nas_backup.go) before it is uploaded, and its result    *)
(* recorded after; in between the settings may be edited                   *)
(* (internal/web/handlers/nas_backup.go) and the process may stop or crash.*)
(* A slot is an hour or more: a copy, at most ten minutes long, ends in the*)
(* slot it began in.                                                       *)
(***************************************************************************)
EXTENDS Lifecycle

CONSTANTS Dests,       \* host, port and user of a NAS
          Times,       \* times of day, as slots
          Keep,        \* age from which a copy is deleted
          MaxManual    \* bound on the copies by hand

ASSUME NASAssumption == Keep \in Nat \ {0} /\ Times \subseteq 0..(DayLen - 1) /\ MaxManual \in Nat /\ "nas" \in Loops

VARIABLES nas,         \* the row of nas_backup_config
          lock,        \* nasBackupLock
          job,         \* the copy of the scheduler and the one by hand
          forms,       \* settings posted, between the read of the row and its update
          archives,    \* complete copies on the NAS
          attempts, edits,      \* counters
          claims,      \* history: the claims of the scheduler
          steady,      \* history: since when the server is up with these settings and can claim a copy
          excused      \* history: a crash or a failed write lost the result of the last copy

nasVars == <<nas, lock, job, forms, archives, attempts, edits, claims, steady, excused>>

None == "none"
NoAttempt == [id |-> 0, at |-> Unset, dest |-> None]
NoJob == [pc |-> "idle", cfg |-> None, attempt |-> NoAttempt, done |-> FALSE, failure |-> ""]
Kinds == {"nas", "manual"}
Points == {"idle", "claim", "launch", "upload", "sending", "prune", "finish"}
Messages == {"", "running", "failed", "retention", "stopping"}
Idle(k) == job[k].pc = "idle"
Config(enabled, dest, password, time) == [enabled |-> enabled, dest |-> dest, password |-> password, time |-> time]
Row(c) == [enabled |-> c.enabled, dest |-> c.dest, password |-> c.password, time |-> c.time,
           attempt |-> NoAttempt, scheduled |-> NoAttempt, success |-> NoAttempt, error |-> ""]

NASInit(rows) ==
    /\ nas \in rows /\ lock = FALSE /\ job = [k \in Kinds |-> NoJob] /\ forms = {}
    /\ archives = {} /\ attempts = 0 /\ edits = 0
    /\ claims = {} /\ steady = 0 /\ excused = FALSE

ValidateNASBackupConfig(c) == c.dest # None /\ c.password # None
dueByAnyCopy(c, t) == c.enabled /\ t % DayLen >= c.time /\ Day(c.attempt.at) < Day(t)   \* mutant: a copy by hand counts
nasBackupDue(c, t) == c.enabled /\ t % DayLen >= c.time /\ Day(c.scheduled.at) < Day(t)

-----------------------------------------------------------------------------
Only(k, j) == job' = [job EXCEPT ![k] = j]
Release(k) == Only(k, NoJob) /\ lock' = FALSE

\* A round of the scheduler: TryLock and the read of the row.
runNASBackup ==
    /\ "nas" \in running /\ ~Cancelled /\ ~lock /\ nasBackupDue(nas, now)
    /\ lock' = TRUE /\ Only("nas", [NoJob EXCEPT !.pc = "claim", !.cfg = nas])
    /\ UNCHANGED <<nas, forms, archives, attempts, edits, claims, steady, excused, lifeVars>>
\* The button: the same, in a request.
StartManualNASBackup ==
    /\ ~lock /\ ValidateNASBackupConfig(nas) /\ attempts - Cardinality(claims) < MaxManual
    /\ BeginRequest(<<"manual", 0>>)
    /\ lock' = TRUE /\ Only("manual", [NoJob EXCEPT !.pc = "claim", !.cfg = nas])
    /\ UNCHANGED <<nas, forms, archives, attempts, edits, claims, steady, excused>>

\* The row after a claim.
claimLate(k, a) == [nas EXCEPT !.attempt = a, !.error = "running"]   \* mutant: the day is not claimed
claimRow(k, a) == [nas EXCEPT !.attempt = a, !.scheduled = IF k = "manual" THEN @ ELSE a, !.error = "running"]
claimNASBackup(k) ==
    LET j == job[k]
        a == [id |-> attempts + 1, at |-> now, dest |-> j.cfg.dest]
    IN  /\ j.pc = "claim" /\ stage # "closed" /\ (k = "nas" => ~Cancelled)
        /\ nas.attempt = j.cfg.attempt /\ (k = "nas" => nas.enabled)
        /\ nas' = claimRow(k, a) /\ attempts' = attempts + 1
        /\ claims' = IF k = "nas" THEN claims \cup {a} ELSE claims
        /\ excused' = FALSE
        /\ Only(k, [j EXCEPT !.pc = IF k = "nas" THEN "upload" ELSE "launch", !.attempt = a])
        /\ UNCHANGED <<lock, forms, archives, edits, steady, lifeVars>>
\* The claim finds the row changed, or it, or the read before it, fails: the
\* scheduler does not come to a copy in this slot.
notClaimed(k) ==
    /\ job[k].pc = "claim" /\ Release(k)
    /\ IF k = "manual" THEN EndRequest(<<"manual", 0>>) ELSE UNCHANGED lifeVars
    /\ steady' = IF k = "nas" THEN now + 1 ELSE steady
    /\ UNCHANGED <<nas, forms, archives, attempts, edits, claims, excused>>

\* The row after FinishNASBackupResult, which may fail to be written.
FinishNASBackupResult(j, saved) ==
    IF saved /\ nas.attempt = j.attempt
    THEN [nas EXCEPT !.error = j.failure, !.success = IF j.done THEN j.attempt ELSE @] ELSE nas
SilentlyDropped(j, saved) == nas   \* mutant: a refused copy records nothing
refusedRow(j, saved) == FinishNASBackupResult([j EXCEPT !.failure = "stopping"], saved)
\* Go takes the copy out of the request, or refuses it.
Launch(saved) ==
    LET j == job["manual"] IN
    /\ j.pc = "launch" /\ (stage = "closed" => ~saved) /\ (~closed => saved)
    /\ requests' = requests \ {<<"manual", 0>>} /\ running' = track("manual")
    /\ IF closed THEN nas' = refusedRow(j, saved) /\ Release("manual")
       ELSE Only("manual", [j EXCEPT !.pc = "upload"]) /\ UNCHANGED <<nas, lock>>
    /\ excused' = (excused \/ ~saved)
    /\ UNCHANGED <<stage, closed, overdue, boots, forms, archives, attempts, edits, claims, steady>>

\* uploadNASBackup: the file is sent under another name, renamed, and the old
\* copies are pruned.  Every step may fail, and the answer of the rename may be
\* lost.  A partial file, left behind or not, never counts as a copy.
beginUpload(k) ==
    /\ job[k].pc = "upload"
    /\ Only(k, [job[k] EXCEPT !.pc = "sending"])
    /\ UNCHANGED <<nas, lock, forms, archives, attempts, edits, claims, steady, excused, lifeVars>>
Failed(j) == [j EXCEPT !.pc = "finish", !.failure = "failed"]
uploadFails(k) ==
    /\ job[k].pc \in {"upload", "sending"}
    /\ Only(k, Failed(job[k]))
    /\ UNCHANGED <<nas, lock, forms, archives, attempts, edits, claims, steady, excused, lifeVars>>
rename(k, answered) ==
    /\ job[k].pc = "sending"
    /\ archives' = archives \cup {job[k].attempt}
    /\ Only(k, IF answered THEN [job[k] EXCEPT !.pc = "prune"] ELSE Failed(job[k]))
    /\ UNCHANGED <<nas, lock, forms, attempts, edits, claims, steady, excused, lifeVars>>
Old(dest) == {a \in archives : a.dest = dest /\ a.at < now - Keep}
pruneNASBackups(k, gone) ==
    /\ job[k].pc = "prune" /\ gone \subseteq Old(job[k].attempt.dest)
    /\ archives' = archives \ gone
    /\ Only(k, [job[k] EXCEPT !.pc = "finish", !.done = TRUE,
                              !.failure = IF gone = Old(job[k].attempt.dest) THEN "" ELSE "retention"])
    /\ UNCHANGED <<nas, lock, forms, attempts, edits, claims, steady, excused, lifeVars>>
performNASBackup(k, saved) ==   \* its end
    /\ job[k].pc = "finish" /\ (stage = "closed" => ~saved)
    /\ nas' = FinishNASBackupResult(job[k], saved) /\ Release(k)
    /\ excused' = (excused \/ ~saved)
    /\ running' = IF k = "manual" THEN running \ {"manual"} ELSE running
    /\ UNCHANGED <<stage, closed, requests, overdue, boots, forms, archives, attempts, edits, claims, steady>>

\* The settings form.  An empty password keeps the one of the same destination.
passwordAlways(f) == IF f.typed THEN f.dest ELSE nas.password   \* mutant: whatever the destination
password(f) ==
    IF f.typed THEN f.dest
    ELSE IF nas.password # None /\ f.dest = nas.dest THEN nas.password ELSE None
NASBackupSettingsPost(f) ==
    LET c == Config(f.enabled, f.dest, password(f), f.time) IN
    /\ edits < scene.edits /\ edits' = edits + 1
    /\ ~f.typed /\ nas.password # None /\ f.dest # nas.dest => ~f.enabled /\ ~f.test
    /\ f.enabled \/ f.test => ValidateNASBackupConfig(c)
    /\ BeginRequest(<<"form", edits>>)
    /\ forms' = forms \cup {[id |-> edits, c |-> c, test |-> f.test]}
    /\ UNCHANGED <<nas, lock, job, archives, attempts, claims, steady, excused>>
SaveNASBackupConfig(f) ==
    /\ f \in forms /\ ~f.test /\ stage # "closed"
    /\ nas' = [nas EXCEPT !.enabled = f.c.enabled, !.dest = f.c.dest, !.password = f.c.password, !.time = f.c.time]
    /\ steady' = now
    /\ forms' = forms \ {f} /\ EndRequest(<<"form", f.id>>)
    /\ UNCHANGED <<lock, job, archives, attempts, edits, claims, excused>>
TestNASBackup(f) ==   \* a file is made and removed; or the save fails
    /\ f \in forms /\ (f.test \/ stage = "closed")
    /\ forms' = forms \ {f} /\ EndRequest(<<"form", f.id>>)
    /\ UNCHANGED <<nas, lock, job, archives, attempts, edits, claims, steady, excused>>

\* The end of the process takes the copy under way with it.
Stop(from) ==
    /\ Exit(from)
    /\ lock' = FALSE /\ job' = [k \in Kinds |-> NoJob] /\ forms' = {}
    /\ excused' = (excused \/ \E k \in Kinds : job[k].attempt # NoAttempt)
    /\ UNCHANGED <<nas, archives, attempts, edits, claims, steady>>
BootNAS == Boot /\ steady' = now /\ UNCHANGED <<nas, lock, job, forms, archives, attempts, edits, claims, excused>>

Forms == [enabled : BOOLEAN, dest : Dests, typed : BOOLEAN, time : Times, test : BOOLEAN]
CopyStep ==
    \/ runNASBackup \/ StartManualNASBackup \/ \E saved \in BOOLEAN : Launch(saved)
    \/ \E k \in Kinds :
         \/ claimNASBackup(k) \/ notClaimed(k) \/ beginUpload(k) \/ uploadFails(k)
         \/ \E b \in BOOLEAN : rename(k, b) \/ performNASBackup(k, b)
         \/ \E gone \in SUBSET archives : pruneNASBackups(k, gone)
SettingsStep ==
    \/ \E f \in Forms : NASBackupSettingsPost(f)
    \/ \E f \in forms : SaveNASBackupConfig(f) \/ TestNASBackup(f)
NASNext ==
    \/ CopyStep \/ SettingsStep
    \/ ShutdownStep /\ UNCHANGED nasVars
    \/ (\E l \in Loops : LoopEnds(l) /\ (l = "nas" => Idle("nas"))) /\ UNCHANGED nasVars
    \/ Stop({"closed"}) \/ Stop({"up", "draining", "stopping", "waiting"}) \/ BootNAS

\* A slot does not end before the scheduler has looked, whether or not its
\* claim succeeded, nor within a copy.
NASTick ==
    /\ Tick /\ ~lock /\ forms = {} /\ stage \in {"up", "down"}
    /\ ~("nas" \in running /\ nasBackupDue(nas, now)) \/ steady > now

-----------------------------------------------------------------------------
NASTypeOK ==
    /\ nas.dest \in Dests \cup {None} /\ nas.error \in Messages
    /\ \A k \in Kinds : job[k].pc \in Points
    /\ lock = (\E k \in Kinds : ~Idle(k))

\* "Claim the day's run before uploading, so restarting cannot duplicate it"
\* (internal/store/nas_backup.go:40): the scheduler starts one copy a day.
OnceADay == \A a, b \in claims : Day(a.at) = Day(b.at) => a = b

\* "A missed run is caught up at startup" (internal/service/nas_backup.go:327):
\* an hour after it was due, with the server up and the settings left alone,
\* the copy of the day has been started, whatever was copied by hand.  A claim
\* that fails (:264) puts it off to the first slot in which one does not.
DailyCopy ==
    LET due == Day(now) * DayLen + nas.time IN
    stage = "up" /\ nas.enabled /\ due < now /\ steady < now => Day(nas.scheduled.at) = Day(now)

\* The settings page says that a copy is under way only while it is, unless a
\* crash, a wait that ran out or a failed write lost the result
\* (internal/service/nas_backup.go:296).
ResultRecorded ==
    nas.error = "running" => excused \/ \E k \in Kinds : job[k].attempt = nas.attempt

\* The NAS of the last success holds a complete copy at least as new
\* (internal/service/nas_backup.go:38, :311).
SuccessHasCopy ==
    nas.success # NoAttempt => \E a \in archives : a.dest = nas.success.dest /\ a.id >= nas.success.id

\* The page tells the truth about the last copy.
ResultIsTrue == ResultRecorded /\ SuccessHasCopy

\* "The saved password only applies to the saved destination"
\* (internal/web/handlers/nas_backup.go:60), whatever forms overlap.
PasswordStaysHome ==
    \A c \in {nas} \cup {f.c : f \in forms} \cup {job[k].cfg : k \in {x \in Kinds : ~Idle(x)}} :
        c.password \in {None, c.dest}
=============================================================================
