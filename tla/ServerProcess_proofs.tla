------------------------ MODULE ServerProcess_proofs ------------------------
(***************************************************************************)
(* Proofs about the server process.  The invariants of its parts are       *)
(* proved over the steps of all parts: a part leaves the others alone.     *)
(***************************************************************************)
EXTENDS ServerProcess, TLAPS, FiniteSetTheorems

-----------------------------------------------------------------------------
(* The shutdown.                                                           *)

\* What makes IdleWhenClosed inductive: the group is closed before the wait for
\* its tasks begins, and no request is left once the schedulers are stopped.
LifeInv ==
    /\ LifeTypeOK
    /\ stage \in {"waiting", "closed"} => closed
    /\ Cancelled /\ ~overdue => requests = {}
    /\ IdleWhenClosed

\* A part whose variables do not change keeps its invariant.
LEMMA LifeStays ==
    ASSUME LifeInv, UNCHANGED lifeVars
    PROVE  LifeInv'
BY DEF LifeInv, LifeTypeOK, IdleWhenClosed, Cancelled, lifeVars

\* Every step of the shutdown, of the tasks and of the copies keeps LifeInv.
LEMMA LifeStep ==
    ASSUME LifeInv, [Next]_vars
    PROVE  LifeInv'
<1> USE DEF LifeInv, LifeTypeOK, IdleWhenClosed, Cancelled
<1>1. CASE Accounts
  BY <1>1, LifeStays DEF Accounts
<1>2. CASE Mail
  BY <1>2, LifeStays DEF Mail
<1>3. CASE UNCHANGED vars
  BY <1>3, LifeStays DEF vars
<1>4. ASSUME ShutdownStep PROVE LifeInv'
  <2>1. CASE Signal
    BY <2>1 DEF Signal
  <2>2. CASE stopSchedulers
    BY <2>2 DEF stopSchedulers
  <2>3. CASE closeGroup
    BY <2>3 DEF closeGroup
  <2>4. CASE WaitBackground
    BY <2>4 DEF WaitBackground
  <2>5. QED
    BY <1>4, <2>1, <2>2, <2>3, <2>4 DEF ShutdownStep
<1>5. ASSUME NEW from, Exit(from) PROVE LifeInv'
  BY <1>5 DEF Exit
<1>6. ASSUME Boot PROVE LifeInv'
  <2>1. boots' \in Nat \ {0}
    BY <1>6, SMT DEF Boot
  <2>2. closed' \in BOOLEAN /\ overdue' \in BOOLEAN
    BY <1>6, Zenon DEF Boot
  <2>3. stage' = "up"
    BY <1>6 DEF Boot
  <2>4. QED
    BY <2>1, <2>2, <2>3
<1>7. ASSUME NEW r, BeginRequest(r) \/ EndRequest(r) PROVE LifeInv'
  BY <1>7 DEF BeginRequest, EndRequest
<1>8. ASSUME NEW l, LoopEnds(l) PROVE LifeInv'
  BY <1>8 DEF LoopEnds
<1>9. CASE Process
  <2>1. ASSUME NEW r, notifyAdminSecurity(r) PROVE LifeInv'
    BY <2>1 DEF notifyAdminSecurity, track
  <2>2. CASE runAlertQueue
    BY <2>2 DEF runAlertQueue, track
  <2>3. ASSUME NEW task, TaskEnds(task) PROVE LifeInv'
    BY <2>3 DEF TaskEnds
  <2>4. QED
    BY <1>9, <1>4, <1>5, <1>6, <1>7, <1>8, <2>1, <2>2, <2>3 DEF Process, TaskStep
<1>10. CASE Copies
  <2>1. CASE NASTick /\ UNCHANGED <<lifeVars, nasVars>>
    BY <2>1, LifeStays
  <2>2. CASE CopyStep
    <3>1. CASE runNASBackup
      BY <3>1, LifeStays DEF runNASBackup
    <3>2. CASE StartManualNASBackup
      BY <3>2, <1>7 DEF StartManualNASBackup
    <3>3. ASSUME NEW saved, Launch(saved) PROVE LifeInv'
      BY <3>3 DEF Launch, track
    <3>4. ASSUME NEW k, claimNASBackup(k) \/ beginUpload(k) \/ uploadFails(k) PROVE LifeInv'
      BY <3>4, LifeStays DEF claimNASBackup, beginUpload, uploadFails
    <3>5. ASSUME NEW k, notClaimed(k) PROVE LifeInv'
      BY <3>5, <1>7, LifeStays DEF notClaimed
    <3>6. ASSUME NEW k, NEW b, rename(k, b) \/ pruneNASBackups(k, b) PROVE LifeInv'
      BY <3>6, LifeStays DEF rename, pruneNASBackups
    <3>7. ASSUME NEW k, NEW b, performNASBackup(k, b) PROVE LifeInv'
      BY <3>7 DEF performNASBackup
    <3>8. QED
      BY <2>2, <3>1, <3>2, <3>3, <3>4, <3>5, <3>6, <3>7 DEF CopyStep
  <2>3. CASE SettingsStep
    BY <2>3, <1>7 DEF SettingsStep, NASBackupSettingsPost, SaveNASBackupConfig, TestNASBackup
  <2>4. CASE \E l \in Loops : LoopEnds(l)
    BY <2>4, <1>8
  <2>5. ASSUME NEW from, Stop(from) PROVE LifeInv'
    BY <2>5, <1>5 DEF Stop
  <2>6. CASE BootNAS
    BY <2>6, <1>6 DEF BootNAS
  <2>7. QED
    BY <1>10, <1>4, <2>1, <2>2, <2>3, <2>4, <2>5, <2>6 DEF Copies, NASNext
<1>11. QED
  BY <1>1, <1>2, <1>3, <1>9, <1>10 DEF Next

LEMMA LifeStart == Init => LifeInv
<1>1. Init => LifeInit
  BY DEF Init
<1>2. LifeInit => boots \in Nat \ {0}
  BY SMT DEF LifeInit
<1>3. LifeInit => closed \in BOOLEAN /\ overdue \in BOOLEAN
  BY Zenon DEF LifeInit
<1>4. LifeInit => ~Cancelled /\ stage = "up"
  BY DEF LifeInit, Cancelled
<1>5. QED
  BY <1>1, <1>2, <1>3, <1>4 DEF LifeInv, LifeTypeOK, IdleWhenClosed

\* Whatever tasks, loops and copies there are, the database is closed only when
\* nothing uses it, unless a wait of the shutdown ran out.
THEOREM ClosedWhenIdle == Spec => []IdleWhenClosed
<1>1. Init => LifeInv
  BY LifeStart
<1>2. LifeInv /\ [Next]_vars => LifeInv'
  BY LifeStep
<1>3. LifeInv => IdleWhenClosed
  BY DEF LifeInv
<1>4. QED
  BY <1>1, <1>2, <1>3, PTL DEF Spec

-----------------------------------------------------------------------------
(* The copies to the NAS.                                                  *)

Jobs == [pc : Points, cfg : Rows \cup {None}, attempt : Attempts, done : BOOLEAN, failure : Messages]
Posted == [enabled : BOOLEAN, dest : Dests \cup {None}, password : Dests \cup {None}, time : 0..(DayLen - 1)]

\* The lock is held exactly by the one copy under way, and only in the scene of
\* the copies; a copy works on a row it read.
LockInv ==
    /\ \A k \in Kinds : ~Idle(k) => lock /\ scene.part = "nas" /\ job[k].cfg \in Rows
    /\ \A k, l \in Kinds : ~Idle(k) /\ ~Idle(l) => k = l

\* The row knows the last day claimed, and the scheduler claims a later one.
DaysInv ==
    /\ \A a \in claims : a \in Attempts /\ Day(a.at) <= Day(nas.scheduled.at)
    /\ job["nas"].pc = "claim" => Day(nas.scheduled.at) < Day(now)

CopyTypes ==
    /\ now \in Nat /\ nas \in Rows /\ job \in [Kinds -> Jobs] /\ attempts \in Nat
    /\ \A f \in forms : f.c \in Posted

CopyInv == CopyTypes /\ LockInv /\ DaysInv /\ OnceADay /\ PasswordStaysHome

\* Days are numbers, before the first one too.
LEMMA DayIsInt == \A t \in Int : Day(t) \in Int
BY ClockAssumption DEF Day

\* The settings before anyone has saved any.
LEMMA InitialRow == Unconfigured \in Rows /\ Unconfigured.password \in {None, Unconfigured.dest} /\ NoAttempt \in Attempts
<1>1. 0 \in 0..(DayLen - 1) /\ 0 \in Nat /\ Unset \in Int
  BY ClockAssumption DEF Unset
<1>2. NoAttempt \in Attempts
  BY <1>1 DEF Attempts, NoAttempt
<1>3. Unconfigured = [enabled |-> FALSE, dest |-> None, password |-> None, time |-> 0,
                      attempt |-> NoAttempt, scheduled |-> NoAttempt, success |-> NoAttempt, error |-> ""]
  BY DEF Unconfigured, Row, Config
<1>4. FALSE \in BOOLEAN /\ "" \in Messages
  BY DEF Messages
<1>5. QED
  BY <1>1, <1>2, <1>3, <1>4 DEF Rows

\* The invariant of the copies holds at the start.
LEMMA CopyInit == Init => CopyInv
<1> SUFFICES ASSUME Init PROVE CopyInv
  OBVIOUS
<1>1. nas \in Rows /\ nas.password \in {None, nas.dest}
  BY SceneAssumption, InitialRow DEF Init, NASInit
<1>2. CopyTypes
  <2>1. NoJob \in Jobs
    BY InitialRow, FALSE \in BOOLEAN DEF Jobs, NoJob, Points, Messages
  <2>2. now \in Nat /\ attempts \in Nat
    BY DEF Init, NASInit
  <2>3. QED
    BY <1>1, <2>1, <2>2 DEF Init, NASInit, CopyTypes
<1>3. \A k \in Kinds : Idle(k) /\ job[k].pc = "idle"
  BY DEF Init, NASInit, Idle, NoJob
<1>4. LockInv /\ DaysInv /\ OnceADay
  BY <1>3 DEF Init, NASInit, LockInv, DaysInv, OnceADay, Kinds
<1>5. PasswordStaysHome
  BY <1>1, <1>3 DEF Init, NASInit, PasswordStaysHome
<1>6. QED
  BY <1>2, <1>4, <1>5 DEF CopyInv

\* The other parts leave the copies alone.
LEMMA CopyStays ==
    ASSUME CopyInv, UNCHANGED <<now, scene, nasVars>>
    PROVE  CopyInv'
BY DEF CopyInv, CopyTypes, LockInv, DaysInv, OnceADay, PasswordStaysHome, nasVars, Idle

\* Time passes only between copies.
LEMMA CopyTick ==
    ASSUME CopyInv, now' = now + 1, UNCHANGED <<scene, nasVars>>, \A k \in Kinds : Idle(k)
    PROVE  CopyInv'
BY DEF CopyInv, CopyTypes, LockInv, DaysInv, OnceADay, PasswordStaysHome, nasVars, Idle, Kinds

\* The copy k moves on, past its claim; the row stays.
LEMMA JobMoves ==
    ASSUME CopyInv, NEW k \in Kinds, ~Idle(k), NEW j \in Jobs, Only(k, j), j.cfg = job[k].cfg, j.pc # "claim",
           UNCHANGED <<now, scene, nas, lock, forms, attempts, claims>>
    PROVE  CopyInv'
<1>1. job' = [job EXCEPT ![k] = j] /\ job \in [Kinds -> Jobs]
  BY DEF Only, CopyInv, CopyTypes
<1>2. CopyTypes'
  BY <1>1 DEF CopyInv, CopyTypes
<1>3. \A x \in Kinds : (~Idle(x))' => ~Idle(x)
  BY <1>1 DEF Idle
<1>4. \A x \in Kinds : job'[x].cfg = job[x].cfg
  BY <1>1
<1>5. LockInv'
  BY <1>3, <1>4 DEF CopyInv, LockInv
<1>6. DaysInv'
  BY <1>1 DEF CopyInv, DaysInv, Kinds
<1>7. OnceADay'
  BY DEF CopyInv, OnceADay
<1>8. PasswordStaysHome'
  BY <1>3, <1>4 DEF CopyInv, PasswordStaysHome
<1>9. QED
  BY <1>2, <1>5, <1>6, <1>7, <1>8 DEF CopyInv

\* The copy k ends; the row keeps its destination and its last claim.
LEMMA JobEnds ==
    ASSUME CopyInv, NEW k \in Kinds, ~Idle(k), Release(k),
           nas' \in Rows, nas'.scheduled = nas.scheduled, nas'.dest = nas.dest, nas'.password = nas.password,
           UNCHANGED <<now, scene, forms, attempts, claims>>
    PROVE  CopyInv'
<1>1. job' = [job EXCEPT ![k] = NoJob] /\ job \in [Kinds -> Jobs] /\ NoJob.pc = "idle" /\ NoJob \in Jobs
  <2>1. NoJob \in Jobs
    BY InitialRow, FALSE \in BOOLEAN DEF Jobs, NoJob, Points, Messages
  <2>2. QED
    BY <2>1 DEF Release, Only, CopyInv, CopyTypes, NoJob
<1>2. CopyTypes'
  BY <1>1 DEF CopyInv, CopyTypes
<1>3. \A x \in Kinds : (Idle(x))'
  BY <1>1 DEF Idle, CopyInv, LockInv
<1>4. LockInv'
  BY <1>3 DEF LockInv
<1>5. DaysInv'
  BY <1>3 DEF CopyInv, DaysInv, Idle, Kinds
<1>6. OnceADay'
  BY DEF CopyInv, OnceADay
<1>7. PasswordStaysHome'
  BY <1>3 DEF CopyInv, PasswordStaysHome
<1>8. QED
  BY <1>2, <1>4, <1>5, <1>6, <1>7 DEF CopyInv

\* A copy begins, with the row as it is and nothing else under way.
LEMMA JobBegins ==
    ASSUME CopyInv, NEW k \in Kinds, \A x \in Kinds : Idle(x), scene.part = "nas", lock' = TRUE,
           Only(k, [NoJob EXCEPT !.pc = "claim", !.cfg = nas]), k = "nas" => nasBackupDue(nas, now),
           UNCHANGED <<now, scene, nas, forms, attempts, claims>>
    PROVE  CopyInv'
<1> DEFINE j == [NoJob EXCEPT !.pc = "claim", !.cfg = nas]
<1>1. j \in Jobs /\ j.cfg = nas /\ j.pc = "claim"
  BY InitialRow, FALSE \in BOOLEAN DEF Jobs, NoJob, Points, Messages, CopyInv, CopyTypes
<1>2. job' = [job EXCEPT ![k] = j] /\ job \in [Kinds -> Jobs] /\ nas \in Rows
  BY DEF Only, CopyInv, CopyTypes
<1> HIDE DEF j
<1>3. CopyTypes'
  BY <1>1, <1>2 DEF CopyInv, CopyTypes
<1>4. job'[k] = j /\ \A x \in Kinds : (~Idle(x))' => x = k
  BY <1>2 DEF Idle
<1>5. LockInv'
  BY <1>1, <1>2, <1>4 DEF LockInv
<1>6. DaysInv'
  <2>1. job'["nas"].pc = "claim" => Day(nas.scheduled.at) < Day(now)
    BY <1>4 DEF nasBackupDue, Idle, Kinds
  <2>2. QED
    BY <2>1 DEF CopyInv, DaysInv
<1>7. OnceADay'
  BY DEF CopyInv, OnceADay
<1>8. PasswordStaysHome'
  BY <1>1, <1>4 DEF CopyInv, PasswordStaysHome
<1>9. QED
  BY <1>3, <1>5, <1>6, <1>7, <1>8 DEF CopyInv

\* A claim is of a day later than every claim before it.
LEMMA ClaimStep ==
    ASSUME CopyInv, NEW k \in Kinds, claimNASBackup(k), UNCHANGED <<now, scene>>
    PROVE  CopyInv'
<1> DEFINE a == [id |-> attempts + 1, at |-> now, dest |-> job[k].cfg.dest]
           j == [job[k] EXCEPT !.pc = IF k = "nas" THEN "upload" ELSE "launch", !.attempt = a]
<1>1. /\ now \in Nat /\ nas \in Rows /\ job \in [Kinds -> Jobs] /\ attempts \in Nat
      /\ job[k].pc = "claim" /\ ~Idle(k) /\ job[k].cfg \in Rows
  BY DEF CopyInv, CopyTypes, LockInv, claimNASBackup, Idle
<1>2. a \in Attempts /\ a.at = now
  <2>1. attempts + 1 \in Nat /\ now \in Int
    BY <1>1
  <2>2. job[k].cfg.dest \in Dests \cup {None}
    BY <1>1 DEF Rows
  <2>3. QED
    BY <2>1, <2>2 DEF Attempts
<1>3. /\ nas' = claimRow(k, a) /\ attempts' = attempts + 1 /\ forms' = forms /\ lock' = lock
      /\ claims' = IF k = "nas" THEN claims \cup {a} ELSE claims
      /\ job' = [job EXCEPT ![k] = j]
  BY DEF claimNASBackup, Only
<1> HIDE DEF a
<1>4. j \in Jobs /\ j.pc # "claim" /\ j.pc # "idle" /\ j.cfg = job[k].cfg
  BY <1>1, <1>2 DEF Jobs, Points
<1> HIDE DEF j
<1>5. /\ nas' \in Rows /\ nas'.dest = nas.dest /\ nas'.password = nas.password
      /\ nas'.scheduled = IF k = "manual" THEN nas.scheduled ELSE a
  <2>1. nas' = [nas EXCEPT !.attempt = a, !.scheduled = IF k = "manual" THEN @ ELSE a, !.error = "running"]
    BY <1>3 DEF claimRow
  <2>2. QED
    BY <2>1, <1>1, <1>2 DEF Rows, Messages
<1>6. CopyTypes'
  <2>1. attempts + 1 \in Nat
    BY <1>1
  <2>2. QED
    BY <1>1, <1>3, <1>4, <1>5, <2>1 DEF CopyInv, CopyTypes
<1>7. job' \in [Kinds -> Jobs] /\ job'[k] = j /\ \A x \in Kinds : x # k => job'[x] = job[x]
  BY <1>1, <1>3, <1>4
<1>8. \A x \in Kinds : (~Idle(x))' => x = k
  BY <1>1, <1>7 DEF Idle, CopyInv, LockInv
<1>9. LockInv'
  BY <1>1, <1>3, <1>4, <1>7, <1>8 DEF CopyInv, LockInv
<1>10. DaysInv'
  <2>1. job'["nas"].pc # "claim"
    BY <1>4, <1>7, <1>8 DEF Idle, Kinds
  <2>2. CASE k = "manual"
    BY <2>1, <2>2, <1>3, <1>5 DEF CopyInv, DaysInv
  <2>3. CASE k = "nas"
    <3>1. nas'.scheduled = a /\ claims' = claims \cup {a} /\ Day(nas.scheduled.at) < Day(now)
      BY <2>3, <1>1, <1>3, <1>5 DEF CopyInv, DaysInv
    <3>2. \A b \in claims : b \in Attempts /\ Day(b.at) <= Day(nas.scheduled.at)
      BY DEF CopyInv, DaysInv
    <3>3. nas.scheduled.at \in Int /\ \A b \in Attempts : b.at \in Int
      BY <1>1 DEF Rows, Attempts
    <3>4. \A b \in claims : Day(b.at) <= Day(now)
      BY <3>1, <3>2, <3>3, <1>1, DayIsInt
    <3>5. QED
      BY <3>1, <3>2, <3>4, <2>1, <1>1, <1>2, DayIsInt DEF DaysInv
  <2>4. QED
    BY <2>2, <2>3 DEF Kinds
<1>11. OnceADay'
  <2>1. CASE k = "manual"
    BY <2>1, <1>3 DEF CopyInv, OnceADay
  <2>2. CASE k = "nas"
    <3>1. claims' = claims \cup {a} /\ Day(nas.scheduled.at) < Day(now)
      BY <2>2, <1>1, <1>3 DEF CopyInv, DaysInv
    <3>2. nas.scheduled.at \in Int /\ \A b \in Attempts : b.at \in Int
      BY <1>1 DEF Rows, Attempts
    <3>3. \A b \in claims : Day(b.at) < Day(a.at)
      BY <3>1, <3>2, <1>1, <1>2, DayIsInt DEF CopyInv, DaysInv
    <3>4. \A b \in claims : Day(b.at) # Day(a.at)
      BY <3>2, <3>3, <1>1, <1>2, DayIsInt DEF CopyInv, DaysInv
    <3>5. QED
      BY <3>1, <3>4 DEF CopyInv, OnceADay
  <2>3. QED
    BY <2>1, <2>2 DEF Kinds
<1>12. PasswordStaysHome'
  BY <1>1, <1>3, <1>4, <1>5, <1>7, <1>8 DEF CopyInv, PasswordStaysHome
<1>13. QED
  BY <1>6, <1>9, <1>10, <1>11, <1>12 DEF CopyInv

\* The forms: a password posted or kept is the one of its destination.
LEMMA FormStep ==
    ASSUME CopyInv, SettingsStep, UNCHANGED <<now, scene>>
    PROVE  CopyInv'
<1>1. ASSUME NEW f \in Forms, NASBackupSettingsPost(f) PROVE CopyInv'
  <2> DEFINE c == Config(f.enabled, f.dest, password(f), f.time)
             g == [id |-> edits, c |-> c, test |-> f.test]
  <2>1. f.dest \in Dests /\ f.time \in 0..(DayLen - 1) /\ f.enabled \in BOOLEAN
    BY NASAssumption DEF Forms
  <2>2. nas.password \in {None, nas.dest} /\ nas.password \in Dests \cup {None}
    BY DEF CopyInv, CopyTypes, PasswordStaysHome, Rows
  <2>3. password(f) \in {None, f.dest}
    BY <2>2 DEF password
  <2>4. c \in Posted /\ c.password \in {None, c.dest}
    BY <2>1, <2>3 DEF Posted, Config
  <2>5. /\ forms' = forms \cup {g} /\ g.c = c
        /\ UNCHANGED <<nas, lock, job, attempts, claims>>
    BY <1>1 DEF NASBackupSettingsPost
  <2> HIDE DEF c, g
  <2>6. CopyTypes'
    BY <2>4, <2>5 DEF CopyInv, CopyTypes
  <2>7. LockInv' /\ DaysInv' /\ OnceADay'
    BY <2>5 DEF CopyInv, LockInv, DaysInv, OnceADay, Idle
  <2>8. PasswordStaysHome'
    BY <2>4, <2>5 DEF CopyInv, PasswordStaysHome, Idle
  <2>9. QED
    BY <2>6, <2>7, <2>8 DEF CopyInv
<1>2. ASSUME NEW f \in forms, SaveNASBackupConfig(f) PROVE CopyInv'
  <2>1. f.c \in Posted /\ nas \in Rows /\ f.c.password \in {None, f.c.dest}
    BY DEF CopyInv, CopyTypes, PasswordStaysHome
  <2>2. nas' = [nas EXCEPT !.enabled = f.c.enabled, !.dest = f.c.dest, !.password = f.c.password, !.time = f.c.time]
    BY <1>2 DEF SaveNASBackupConfig
  <2>3. forms' \subseteq forms /\ UNCHANGED <<lock, job, attempts, claims>>
    BY <1>2 DEF SaveNASBackupConfig
  <2>4. nas' \in Rows
    BY <2>1, <2>2, Zenon DEF Rows, Posted
  <2>5. nas'.scheduled = nas.scheduled /\ nas'.password = f.c.password /\ nas'.dest = f.c.dest
    BY <2>1, <2>2 DEF Rows
  <2>6. CopyTypes'
    BY <2>3, <2>4 DEF CopyInv, CopyTypes
  <2>7. LockInv' /\ DaysInv' /\ OnceADay'
    BY <2>3, <2>5 DEF CopyInv, LockInv, DaysInv, OnceADay, Idle
  <2>8. PasswordStaysHome'
    BY <2>1, <2>3, <2>5 DEF CopyInv, PasswordStaysHome, Idle
  <2>9. QED
    BY <2>6, <2>7, <2>8 DEF CopyInv
<1>3. ASSUME NEW f \in forms, TestNASBackup(f) PROVE CopyInv'
  <2>1. forms' \subseteq forms /\ UNCHANGED <<nas, lock, job, attempts, claims>>
    BY <1>3 DEF TestNASBackup
  <2>2. QED
    BY <2>1 DEF CopyInv, CopyTypes, LockInv, DaysInv, OnceADay, PasswordStaysHome, Idle
<1>4. QED
  BY <1>1, <1>2, <1>3 DEF SettingsStep

\* What a copy does between its start and its end.
LEMMA JobStep ==
    ASSUME CopyInv, CopyStep, scene.part = "nas", UNCHANGED <<now, scene>>
    PROVE  CopyInv'
<1>1. nas \in Rows /\ job \in [Kinds -> Jobs] /\ "nas" \in Kinds /\ "manual" \in Kinds
  BY DEF CopyInv, CopyTypes, Kinds
<1>2. ASSUME ~lock PROVE \A x \in Kinds : Idle(x)
  BY <1>2 DEF CopyInv, LockInv
<1>3. \A k \in Kinds : job[k].pc # "idle" => ~Idle(k)
  BY DEF Idle
<1>4. ASSUME NEW j \in Jobs, NEW saved
      PROVE  LET row == FinishNASBackupResult(j, saved) IN
             row \in Rows /\ row.scheduled = nas.scheduled /\ row.dest = nas.dest /\ row.password = nas.password
  <2>1. j.failure \in Messages /\ j.attempt \in Attempts
    BY DEF Jobs
  <2>2. QED
    BY <1>1, <2>1 DEF FinishNASBackupResult, Rows
<1>5. CASE runNASBackup
  BY <1>1, <1>2, <1>5, JobBegins DEF runNASBackup
<1>6. CASE StartManualNASBackup
  BY <1>1, <1>2, <1>6, JobBegins DEF StartManualNASBackup
<1>7. ASSUME NEW saved \in BOOLEAN, Launch(saved) PROVE CopyInv'
  <2> DEFINE j == job["manual"]
  <2>1. j \in Jobs /\ ~Idle("manual") /\ UNCHANGED <<forms, attempts, claims>>
    BY <1>1, <1>3, <1>7 DEF Launch
  <2>2. CASE closed
    <3>1. [j EXCEPT !.failure = "stopping"] \in Jobs
      BY <2>1 DEF Jobs, Messages
    <3>2. nas' = FinishNASBackupResult([j EXCEPT !.failure = "stopping"], saved) /\ Release("manual")
      BY <2>2, <1>7 DEF Launch, refusedRow
    <3>3. QED
      BY <3>1, <3>2, <2>1, <1>1, <1>4, JobEnds
  <2>3. CASE ~closed
    <3>1. [j EXCEPT !.pc = "upload"] \in Jobs /\ [j EXCEPT !.pc = "upload"].cfg = j.cfg
          /\ [j EXCEPT !.pc = "upload"].pc = "upload"
      BY <2>1 DEF Jobs, Points
    <3>2. Only("manual", [j EXCEPT !.pc = "upload"]) /\ UNCHANGED <<nas, lock>>
      BY <2>3, <1>7 DEF Launch
    <3>3. QED
      BY <3>1, <3>2, <2>1, <1>1, JobMoves
  <2>4. QED
    BY <2>2, <2>3
<1>8. ASSUME NEW k \in Kinds, notClaimed(k) PROVE CopyInv'
  BY <1>1, <1>3, <1>8, JobEnds DEF notClaimed
<1>9. \A k \in Kinds : Failed(job[k]) \in Jobs /\ Failed(job[k]).cfg = job[k].cfg /\ Failed(job[k]).pc = "finish"
  BY <1>1 DEF Failed, Jobs, Points, Messages
<1>10. ASSUME NEW k \in Kinds, beginUpload(k) \/ uploadFails(k) PROVE CopyInv'
  <2>1. [job[k] EXCEPT !.pc = "sending"] \in Jobs /\ [job[k] EXCEPT !.pc = "sending"].cfg = job[k].cfg
        /\ [job[k] EXCEPT !.pc = "sending"].pc = "sending"
    BY <1>1 DEF Jobs, Points
  <2>2. QED
    BY <1>3, <1>9, <1>10, <2>1, JobMoves DEF beginUpload, uploadFails
<1>11. ASSUME NEW k \in Kinds, NEW b \in BOOLEAN, rename(k, b) PROVE CopyInv'
  <2>1. [job[k] EXCEPT !.pc = "prune"] \in Jobs /\ [job[k] EXCEPT !.pc = "prune"].cfg = job[k].cfg
        /\ [job[k] EXCEPT !.pc = "prune"].pc = "prune"
    BY <1>1 DEF Jobs, Points
  <2>2. Only(k, [job[k] EXCEPT !.pc = "prune"]) \/ Only(k, Failed(job[k]))
    BY <1>11 DEF rename
  <2>3. ~Idle(k) /\ UNCHANGED <<nas, lock, forms, attempts, claims>>
    BY <1>3, <1>11 DEF rename
  <2>4. QED
    BY <1>9, <2>1, <2>2, <2>3, JobMoves
<1>12. ASSUME NEW k \in Kinds, NEW gone, pruneNASBackups(k, gone) PROVE CopyInv'
  <2> DEFINE m == IF gone = Old(job[k].attempt.dest) THEN "" ELSE "retention"
             j == [job[k] EXCEPT !.pc = "finish", !.done = TRUE, !.failure = m]
  <2>1. m \in Messages
    BY DEF Messages
  <2>2. TRUE \in BOOLEAN /\ "finish" \in Points
    BY DEF Points
  <2>3. Only(k, j)
    BY <1>12 DEF pruneNASBackups
  <2> HIDE DEF m
  <2>4. j \in Jobs /\ j.cfg = job[k].cfg /\ j.pc = "finish"
    BY <1>1, <2>1, <2>2 DEF Jobs
  <2> HIDE DEF j
  <2>5. ~Idle(k) /\ UNCHANGED <<nas, lock, forms, attempts, claims>>
    BY <1>3, <1>12 DEF pruneNASBackups
  <2>6. QED
    BY <2>3, <2>4, <2>5, JobMoves
<1>13. ASSUME NEW k \in Kinds, NEW saved \in BOOLEAN, performNASBackup(k, saved) PROVE CopyInv'
  <2>1. nas' = FinishNASBackupResult(job[k], saved) /\ Release(k) /\ ~Idle(k) /\ UNCHANGED <<forms, attempts, claims>>
    BY <1>3, <1>13 DEF performNASBackup
  <2>2. QED
    BY <2>1, <1>1, <1>4, JobEnds
<1>14. QED
  BY <1>5, <1>6, <1>7, <1>8, <1>10, <1>11, <1>12, <1>13, ClaimStep DEF CopyStep

\* Every step of the process keeps the invariant of the copies.
LEMMA CopiesStep ==
    ASSUME CopyInv, [Next]_vars
    PROVE  CopyInv'
<1>1. ASSUME scene.part # "nas" \/ ~lock PROVE \A k \in Kinds : Idle(k)
  BY <1>1 DEF CopyInv, LockInv
<1>2. CASE Accounts
  <2>1. CASE Tick /\ scene.part \in {"bans", "limits"}
    BY <2>1, <1>1, <1>2, CopyTick DEF Tick, Accounts
  <2>2. CASE LimiterNext
    <3>1. UNCHANGED <<now, scene>>
      BY <2>2 DEF LimiterNext, BeginCheck, CompareWrong, CompareRight, cleanup
    <3>2. QED
      BY <3>1, <1>2, CopyStays DEF Accounts
  <2>3. CASE GateNext
    <3>1. UNCHANGED <<now, scene>>
      BY <2>3 DEF GateNext, LoginPost, loginFailed, notifyAdminLoginFailed, LoginPassed, handleTOTPEnforcement, Cleanup, UnbanIP, unbanIP, Restart
    <3>2. QED
      BY <3>1, <1>2, CopyStays DEF Accounts
  <2>4. QED
    BY <1>2, <2>1, <2>2, <2>3 DEF Accounts
<1>3. CASE Process
  BY <1>3, CopyStays DEF Process
<1>4. CASE Mail
  <2>1. CASE scene.part = "daily" /\ DailyTick
    BY <2>1, <1>1, <1>4, CopyTick DEF DailyTick, Tick, Mail
  <2>2. CASE scene.part = "pace" /\ PaceTick
    BY <2>2, <1>1, <1>4, CopyTick DEF PaceTick, Tick, Mail
  <2>3. CASE UNCHANGED <<now, scene>>
    BY <2>3, <1>4, CopyStays DEF Mail
  <2>4. QED
    BY <1>4, <2>1, <2>2, <2>3 DEF Mail
<1>5. CASE Copies
  <2>1. CASE NASTick /\ UNCHANGED nasVars
    BY <2>1, <1>1, CopyTick DEF NASTick, Tick
  <2>2. CASE CopyStep /\ UNCHANGED <<now, scene>>
    BY <2>2, <1>5, JobStep DEF Copies
  <2>3. CASE SettingsStep /\ UNCHANGED <<now, scene>>
    BY <2>3, FormStep
  <2>4. CASE UNCHANGED <<now, scene, nasVars>>
    BY <2>4, CopyStays
  <2>5. ASSUME NEW from, Stop(from), UNCHANGED <<now, scene>> PROVE CopyInv'
    <3>1. job' = [k \in Kinds |-> NoJob] /\ forms' = {} /\ UNCHANGED <<nas, attempts, claims>>
      BY <2>5 DEF Stop
    <3>2. NoJob \in Jobs /\ NoJob.pc = "idle"
      BY InitialRow, FALSE \in BOOLEAN DEF Jobs, NoJob, Points, Messages
    <3>3. \A k \in Kinds : Idle(k)' /\ job'[k].pc = "idle"
      BY <3>1, <3>2 DEF Idle
    <3>4. CopyTypes'
      BY <3>1, <3>2, <2>5 DEF CopyInv, CopyTypes
    <3>5. LockInv' /\ DaysInv' /\ OnceADay'
      BY <3>1, <3>3, <2>5 DEF CopyInv, LockInv, DaysInv, OnceADay, Kinds
    <3>6. PasswordStaysHome'
      BY <3>1, <3>3 DEF CopyInv, PasswordStaysHome
    <3>7. QED
      BY <3>4, <3>5, <3>6 DEF CopyInv
  <2>6. CASE BootNAS /\ UNCHANGED <<now, scene>>
    BY <2>6 DEF BootNAS, CopyInv, CopyTypes, LockInv, DaysInv, OnceADay, PasswordStaysHome, Idle
  <2>7. QED
    BY <1>5, <2>1, <2>2, <2>3, <2>4, <2>5, <2>6 DEF Copies, NASNext
<1>6. CASE UNCHANGED vars
  BY <1>6, CopyStays DEF vars
<1>7. QED
  BY <1>2, <1>3, <1>4, <1>5, <1>6 DEF Next

\* Whatever destinations, times and edits there are, and wherever the process
\* stops or crashes, the scheduler starts at most one copy a day.
THEOREM OneCopyADay == Spec => []OnceADay
<1>1. CopyInv => OnceADay
  BY DEF CopyInv
<1>2. CopyInv /\ [Next]_vars => CopyInv'
  BY CopiesStep
<1>3. QED
  BY CopyInit, <1>1, <1>2, PTL DEF Spec

\* And the password of one NAS is never used with, or saved for, another.
THEOREM PasswordsStayHome == Spec => []PasswordStaysHome
<1>1. CopyInv => PasswordStaysHome
  BY DEF CopyInv
<1>2. CopyInv /\ [Next]_vars => CopyInv'
  BY CopiesStep
<1>3. QED
  BY CopyInit, <1>1, <1>2, PTL DEF Spec

-----------------------------------------------------------------------------
(* The copy of the day, and what the page says of it.                      *)

\* What a step of the process can do to the copies.
LEMMA CopyMoves ==
    ASSUME [Next]_vars
    PROVE  /\ scene' = scene
           /\ \/ /\ UNCHANGED <<now, nasVars>>
                 /\ scene.part = "nas" /\ stage' = "up" => stage = "up" /\ running' = running
              \/ now' = now + 1 /\ UNCHANGED <<nasVars, lifeVars>> /\ (scene.part = "nas" => NASTick)
              \/ /\ scene.part = "nas" /\ now' = now
                 /\ CopyStep \/ SettingsStep \/ (\E from \in SUBSET {"up", "draining", "stopping", "waiting", "closed"} : Stop(from)) \/ BootNAS
<1>1. CASE UNCHANGED vars
  BY <1>1 DEF vars, lifeVars
<1>2. CASE Accounts
  <2>1. UNCHANGED <<lifeVars, nasVars>>
    BY <1>2 DEF Accounts
  <2>2. CASE Tick /\ scene.part \in {"bans", "limits"}
    BY <2>1, <2>2 DEF Tick
  <2>3. CASE LimiterNext
    BY <2>1, <2>3 DEF LimiterNext, BeginCheck, CompareWrong, CompareRight, cleanup, lifeVars
  <2>4. CASE GateNext
    BY <2>1, <2>4 DEF GateNext, LoginPost, loginFailed, notifyAdminLoginFailed, LoginPassed, handleTOTPEnforcement, Cleanup, unbanIP, UnbanIP, Restart, lifeVars
  <2>5. QED
    BY <1>2, <2>2, <2>3, <2>4 DEF Accounts
<1>3. CASE Process
  BY <1>3 DEF Process
<1>4. CASE Mail
  <2>1. CASE scene.part = "daily" /\ DailyTick
    BY <1>4, <2>1 DEF Mail, DailyTick, Tick
  <2>2. CASE scene.part = "pace" /\ PaceTick
    BY <1>4, <2>2 DEF Mail, PaceTick, Tick
  <2>3. CASE UNCHANGED <<now, scene>>
    BY <1>4, <2>3 DEF Mail, lifeVars
  <2>4. QED
    BY <1>4, <2>1, <2>2, <2>3 DEF Mail
<1>5. CASE Copies
  <2>1. CASE NASTick /\ UNCHANGED <<lifeVars, nasVars>>
    BY <2>1 DEF NASTick, Tick
  <2>2. CASE NASNext /\ UNCHANGED <<now, scene>>
    <3>1. CASE ShutdownStep /\ UNCHANGED nasVars
      BY <2>2, <3>1 DEF ShutdownStep, Signal, stopSchedulers, closeGroup, WaitBackground
    <3>2. CASE (\E l \in Loops : LoopEnds(l)) /\ UNCHANGED nasVars
      BY <2>2, <3>2 DEF LoopEnds, Cancelled
    <3>3. CASE Stop({"closed"}) \/ Stop({"up", "draining", "stopping", "waiting"})
      BY <1>5, <2>2, <3>3 DEF Copies
    <3>4. QED
      BY <1>5, <2>2, <3>1, <3>2, <3>3 DEF NASNext, Copies
  <2>3. QED
    BY <1>5, <2>1, <2>2 DEF Copies
<1>6. QED
  BY <1>1, <1>2, <1>3, <1>4, <1>5 DEF Next

\* A slot that begins after the time of a copy continues a day in which that
\* time had come.
LEMMA SameDaySlot ==
    ASSUME NEW t \in Nat, NEW time \in 0..(DayLen - 1), Day(t + 1) * DayLen + time < t + 1
    PROVE  Day(t + 1) = Day(t) /\ t % DayLen >= time
<1>1. DayLen \in Nat \ {0}
  BY ClockAssumption
<1>2. PICK q \in Int, r \in 0..(DayLen - 1) : q = Day(t) /\ r = t % DayLen /\ t = DayLen * q + r
  BY <1>1 DEF Day
<1>3. PICK p \in Int, s \in 0..(DayLen - 1) : p = Day(t + 1) /\ t + 1 = DayLen * p + s
  BY <1>1 DEF Day
<1>4. PICK x \in Int, y \in Int : x = DayLen * q /\ y = DayLen * p /\ y = p * DayLen
  BY <1>1, <1>2, <1>3
<1>5. t = x + r /\ t + 1 = y + s /\ y + time < t + 1
  BY <1>2, <1>3, <1>4
<1>6. \A m, n \in Int : m >= n + 1 => DayLen * m >= DayLen * n + DayLen
  BY <1>1
<1>7. ~(p >= q + 1)
  <2>1. ~(y >= x + DayLen)
    BY <1>1, <1>2, <1>3, <1>4, <1>5
  <2>2. QED
    BY <1>2, <1>3, <1>4, <1>6, <2>1
<1>8. ~(q >= p + 1)
  <2>1. ~(x >= y + DayLen)
    BY <1>1, <1>2, <1>3, <1>4, <1>5
  <2>2. QED
    BY <1>2, <1>3, <1>4, <1>6, <2>1
<1>9. p = q
  BY <1>2, <1>3, <1>7, <1>8
<1>10. x = y
  BY <1>4, <1>9
<1>11. r >= time
  BY <1>2, <1>4, <1>5, <1>10, <1>1
<1>12. QED
  BY <1>2, <1>3, <1>9, <1>11

LEMMA DaysInOrder == \A a, b \in Int : a <= b => Day(a) <= Day(b)
<1>1. DayLen \in Nat \ {0}
  BY ClockAssumption
<1> SUFFICES ASSUME NEW a \in Int, NEW b \in Int, a <= b PROVE Day(a) <= Day(b)
  OBVIOUS
<1>2. PICK q \in Int, r \in 0..(DayLen - 1) : q = Day(a) /\ a = DayLen * q + r
  BY <1>1 DEF Day
<1>3. PICK p \in Int, s \in 0..(DayLen - 1) : p = Day(b) /\ b = DayLen * p + s
  BY <1>1 DEF Day
<1>4. PICK x \in Int, y \in Int : x = DayLen * q /\ y = DayLen * p
  BY <1>1, <1>2, <1>3
<1>5. \A m, n \in Int : m >= n + 1 => DayLen * m >= DayLen * n + DayLen
  BY <1>1
<1>6. ~(x >= y + DayLen)
  BY <1>1, <1>2, <1>3, <1>4
<1>7. ~(q >= p + 1)
  BY <1>2, <1>3, <1>4, <1>5, <1>6
<1>8. QED
  BY <1>2, <1>3, <1>7

\* While the server is up its scheduler runs, and no copy is claimed ahead.
CatchUpInv ==
    /\ nas.scheduled.at <= now /\ steady \in Nat
    /\ scene.part # "nas" => ~nas.enabled
    /\ scene.part = "nas" /\ stage = "up" => "nas" \in running
    /\ DailyCopy

\* The settings and the claim of the day stay, or the scheduler makes one.
LEMMA CatchUpStays ==
    ASSUME CopyInv, CatchUpInv, scene' = scene, now' = now,
           nas'.enabled = nas.enabled, nas'.time = nas.time, nas'.scheduled = nas.scheduled \/ nas'.scheduled.at = now,
           stage' = "up" => stage = "up" /\ ("nas" \in running => "nas" \in running'),
           steady' = steady \/ steady' = now + 1
    PROVE  CatchUpInv'
<1>1. now \in Nat
  BY DEF CopyInv, CopyTypes
<1>2. nas'.scheduled.at <= now'
  BY <1>1 DEF CatchUpInv
<1>3. DailyCopy'
  <2>1. CASE steady' = steady
    BY <2>1 DEF CatchUpInv, DailyCopy
  <2>2. CASE steady' = now + 1
    <3>1. ~(steady' < now')
      BY <1>1, <2>2
    <3>2. QED
      BY <3>1 DEF DailyCopy
  <2>3. QED
    BY <2>1, <2>2
<1>4. steady' \in Nat
  BY <1>1 DEF CatchUpInv
<1>5. QED
  BY <1>2, <1>3, <1>4 DEF CatchUpInv

LEMMA CatchUpStep ==
    ASSUME CopyInv, CatchUpInv, [Next]_vars
    PROVE  CatchUpInv'
<1>0. now \in Nat /\ nas \in Rows /\ nas.scheduled.at \in Int /\ nas.time \in 0..(DayLen - 1) /\ nas.enabled \in BOOLEAN
      /\ nas.scheduled.at <= now
  BY DEF CopyInv, CopyTypes, CatchUpInv, Rows, Attempts
<1>1. scene' = scene
  BY CopyMoves
<1>2. CASE UNCHANGED <<now, nasVars>> /\ (scene.part = "nas" /\ stage' = "up" => stage = "up" /\ running' = running)
  <2>1. CASE scene.part = "nas"
    BY <1>1, <1>2, <2>1, CatchUpStays DEF nasVars
  <2>2. CASE scene.part # "nas"
    BY <1>1, <1>2, <2>2 DEF nasVars, CatchUpInv, DailyCopy
  <2>3. QED
    BY <2>1, <2>2
<1>3. CASE now' = now + 1 /\ UNCHANGED <<nasVars, lifeVars>> /\ (scene.part = "nas" => NASTick)
  <2>1. UNCHANGED <<nas, steady, stage, running>>
    BY <1>3 DEF nasVars, lifeVars
  <2>2. nas.scheduled.at <= now'
    BY <1>0, <1>3
  <2>3. DailyCopy'
    <3> SUFFICES ASSUME stage = "up", nas.enabled, Day(now + 1) * DayLen + nas.time < now + 1, steady < now + 1
                 PROVE  Day(nas.scheduled.at) = Day(now + 1)
      BY <1>3, <2>1 DEF DailyCopy
    <3>1. scene.part = "nas" /\ "nas" \in running
      BY DEF CatchUpInv
    <3>2. ~nasBackupDue(nas, now)
      <4>1. ~(steady > now)
        BY <1>0 DEF CatchUpInv
      <4>2. QED
        BY <1>3, <3>1, <4>1 DEF NASTick
    <3>3. Day(now + 1) = Day(now) /\ now % DayLen >= nas.time
      BY <1>0, SameDaySlot
    <3>4. ~(Day(nas.scheduled.at) < Day(now))
      BY <3>2, <3>3 DEF nasBackupDue
    <3>5. Day(nas.scheduled.at) <= Day(now) /\ Day(nas.scheduled.at) \in Int /\ Day(now) \in Int
      BY <1>0, DaysInOrder, DayIsInt
    <3>6. QED
      BY <3>3, <3>4, <3>5
  <2>4. QED
    BY <1>1, <2>1, <2>2, <2>3 DEF CatchUpInv
<1>4. CASE scene.part = "nas" /\ now' = now /\ CopyStep
  <2>1. ASSUME NEW j, NEW saved
        PROVE  LET row == FinishNASBackupResult(j, saved) IN
               row.enabled = nas.enabled /\ row.time = nas.time /\ row.scheduled = nas.scheduled
    BY <1>0 DEF FinishNASBackupResult, Rows
  <2>2. CASE runNASBackup
    BY <1>1, <1>4, <2>2, CatchUpStays DEF runNASBackup, lifeVars
  <2>3. CASE StartManualNASBackup
    BY <1>1, <1>4, <2>3, CatchUpStays DEF StartManualNASBackup, BeginRequest
  <2>4. ASSUME NEW saved \in BOOLEAN, Launch(saved) PROVE CatchUpInv'
    <3>1. stage' = stage /\ steady' = steady /\ ("nas" \in running => "nas" \in running')
      BY <2>4 DEF Launch, track
    <3>2. nas'.enabled = nas.enabled /\ nas'.time = nas.time /\ nas'.scheduled = nas.scheduled
      BY <2>1, <2>4 DEF Launch, refusedRow
    <3>3. QED
      BY <1>1, <1>4, <3>1, <3>2, CatchUpStays
  <2>5. ASSUME NEW k \in Kinds, claimNASBackup(k) PROVE CatchUpInv'
    <3> DEFINE a == [id |-> attempts + 1, at |-> now, dest |-> job[k].cfg.dest]
    <3>1. nas' = claimRow(k, a) /\ UNCHANGED <<stage, running, steady>>
      BY <2>5 DEF claimNASBackup, lifeVars
    <3>2. a.at = now
      OBVIOUS
    <3> HIDE DEF a
    <3>3. nas' = [nas EXCEPT !.attempt = a, !.scheduled = IF k = "manual" THEN nas.scheduled ELSE a, !.error = "running"]
      BY <3>1 DEF claimRow
    <3>4. nas'.enabled = nas.enabled /\ nas'.time = nas.time /\ nas'.scheduled = IF k = "manual" THEN nas.scheduled ELSE a
      BY <1>0, <3>3 DEF Rows
    <3>5. QED
      BY <1>1, <1>4, <3>1, <3>2, <3>4, CatchUpStays
  <2>6. ASSUME NEW k \in Kinds, notClaimed(k) PROVE CatchUpInv'
    <3>1. UNCHANGED <<nas, stage, running>> /\ (steady' = steady \/ steady' = now + 1)
      BY <2>6 DEF notClaimed, EndRequest, lifeVars
    <3>2. QED
      BY <1>1, <1>4, <3>1, CatchUpStays
  <2>7. ASSUME NEW k \in Kinds, NEW b, beginUpload(k) \/ uploadFails(k) \/ rename(k, b) \/ pruneNASBackups(k, b) PROVE CatchUpInv'
    <3>1. UNCHANGED <<nas, steady, stage, running>>
      BY <2>7 DEF beginUpload, uploadFails, rename, pruneNASBackups, lifeVars
    <3>2. QED
      BY <1>1, <1>4, <3>1, CatchUpStays
  <2>8. ASSUME NEW k \in Kinds, NEW saved \in BOOLEAN, performNASBackup(k, saved) PROVE CatchUpInv'
    <3>1. stage' = stage /\ steady' = steady /\ ("nas" \in running => "nas" \in running')
          /\ nas' = FinishNASBackupResult(job[k], saved)
      BY <2>8 DEF performNASBackup
    <3>2. QED
      BY <1>1, <1>4, <2>1, <3>1, CatchUpStays
  <2>9. QED
    BY <1>4, <2>2, <2>3, <2>4, <2>5, <2>6, <2>7, <2>8 DEF CopyStep
<1>5. CASE scene.part = "nas" /\ now' = now /\ SettingsStep
  <2>1. ASSUME NEW f \in Forms, NASBackupSettingsPost(f) PROVE CatchUpInv'
    BY <1>1, <1>5, <2>1, CatchUpStays DEF NASBackupSettingsPost, BeginRequest
  <2>2. ASSUME NEW f \in forms, TestNASBackup(f) PROVE CatchUpInv'
    BY <1>1, <1>5, <2>2, CatchUpStays DEF TestNASBackup, EndRequest
  <2>3. ASSUME NEW f \in forms, SaveNASBackupConfig(f) PROVE CatchUpInv'
    <3>1. nas' = [nas EXCEPT !.enabled = f.c.enabled, !.dest = f.c.dest, !.password = f.c.password, !.time = f.c.time]
          /\ steady' = now /\ UNCHANGED <<stage, running>>
      BY <2>3 DEF SaveNASBackupConfig, EndRequest
    <3>2. nas'.scheduled = nas.scheduled
      BY <1>0, <3>1 DEF Rows
    <3>3. ~(steady' < now')
      BY <1>0, <1>5, <3>1
    <3>4. QED
      BY <1>0, <1>1, <1>5, <3>1, <3>2, <3>3 DEF CatchUpInv, DailyCopy
  <2>4. QED
    BY <1>5, <2>1, <2>2, <2>3 DEF SettingsStep
<1>6. CASE now' = now /\ ((\E from : Stop(from)) \/ BootNAS)
  <2>1. CASE \E from : Stop(from)
    <3>1. stage' = "down" /\ nas' = nas /\ steady' = steady
      BY <2>1 DEF Stop, Exit
    <3>2. QED
      BY <1>1, <1>6, <3>1 DEF CatchUpInv, DailyCopy
  <2>2. CASE BootNAS
    <3>1. nas' = nas /\ steady' = now /\ "nas" \in running'
      BY <2>2, NASAssumption DEF BootNAS, Boot
    <3>2. ~(steady' < now')
      BY <1>0, <1>6, <3>1
    <3>3. QED
      BY <1>0, <1>1, <1>6, <3>1, <3>2 DEF CatchUpInv, DailyCopy
  <2>3. QED
    BY <1>6, <2>1, <2>2
<1>7. QED
  BY <1>2, <1>3, <1>4, <1>5, <1>6, CopyMoves

\* Whatever settings, edits, restarts and copies by hand there are, the copy of
\* a day has been started by the slot after its time, with the server up and
\* the settings left alone (internal/service/nas_backup.go:327).
THEOREM MissedRunsAreCaughtUp == Spec => []DailyCopy
<1>1. Init => CatchUpInv
  <2> SUFFICES ASSUME Init PROVE CatchUpInv
    OBVIOUS
  <2>1. nas \in IF scene.part = "nas" THEN SavedRows ELSE {Unconfigured}
    BY DEF Init, NASInit
  <2>2. Unconfigured.enabled = FALSE /\ Unconfigured.scheduled.at = -1
    BY DEF Unconfigured, Row, Config, NoAttempt, Unset
  <2>3. now = 0 /\ steady = 0 /\ running = Loops
    BY DEF Init, NASInit, LifeInit
  <2>4. nas.scheduled.at <= now
    BY <2>1, <2>2, <2>3, SceneAssumption
  <2>5. DailyCopy
    BY <2>3 DEF DailyCopy
  <2>6. QED
    BY <2>1, <2>2, <2>3, <2>4, <2>5, NASAssumption DEF CatchUpInv
<1>2. CopyInv /\ [Next]_vars => CopyInv'
  BY CopiesStep
<1>3. CopyInv /\ CatchUpInv /\ [Next]_vars => CatchUpInv'
  BY CatchUpStep
<1>4. CatchUpInv => DailyCopy
  BY DEF CatchUpInv
<1>5. QED
  BY CopyInit, <1>1, <1>2, <1>3, <1>4, PTL DEF Spec

\* The row tells of the copy under way; what a copy has uploaded is on the NAS,
\* and is the newest there.
AtWork(k) == job[k].pc \notin {"idle", "claim"}
ResultInv ==
    /\ \A k \in Kinds : ~AtWork(k) => job[k].attempt = NoAttempt /\ job[k].done = FALSE
    /\ \A k \in Kinds : AtWork(k) => job[k].attempt = nas.attempt /\ job[k].attempt.id = attempts /\ job[k].attempt.at = now
    /\ \A k \in Kinds : job[k].failure # "running" /\ (job[k].pc = "prune" \/ job[k].done => job[k].attempt \in archives)
    /\ \A a \in archives : a.id \in Nat /\ a.id <= attempts /\ a.at \in Int
    /\ nas.success.id <= attempts
    /\ ResultRecorded /\ SuccessHasCopy

LEMMA NoJobFields == NoJob.pc = "idle" /\ NoJob.attempt = NoAttempt /\ NoJob.done = FALSE /\ NoJob.failure = ""
BY DEF NoJob

\* One copy at a time: with one at work the other has nothing.
LEMMA OneAtWork ==
    ASSUME CopyInv, ResultInv, NEW k \in Kinds, ~Idle(k), NEW x \in Kinds, x # k
    PROVE  Idle(x) /\ ~AtWork(x) /\ job[x].attempt = NoAttempt /\ job[x].done = FALSE
BY DEF CopyInv, LockInv, ResultInv, AtWork, Idle

LEMMA ResultStays ==
    ASSUME ResultInv, UNCHANGED <<now, nas, job, archives, attempts, excused>>
    PROVE  ResultInv'
BY DEF ResultInv, AtWork, ResultRecorded, SuccessHasCopy

\* A copy moves on: the row, the attempt and the count stay.
LEMMA ResultMoves ==
    ASSUME CopyInv, ResultInv, NEW k \in Kinds, AtWork(k), NEW j \in Jobs, Only(k, j), j.pc \notin {"idle", "claim"},
           j.attempt = job[k].attempt, j.failure # "running", j.pc = "prune" \/ j.done => j.attempt \in archives',
           \A a \in archives' : a \in archives \/ a = job[k].attempt, SuccessHasCopy',
           excused => excused', UNCHANGED <<now, nas, attempts>>
    PROVE  ResultInv'
<1>1. job \in [Kinds -> Jobs] /\ job' = [job EXCEPT ![k] = j]
  BY DEF CopyInv, CopyTypes, Only
<1>2. job'[k] = j /\ \A x \in Kinds : x # k => job'[x] = job[x]
  BY <1>1
<1>3. ~Idle(k)
  BY DEF AtWork, Idle
<1>4. \A x \in Kinds : x # k => job[x].pc = "idle" /\ job[x].attempt = NoAttempt /\ job[x].done = FALSE
  BY <1>3, OneAtWork DEF Idle
<1>5. \A x \in Kinds : job'[x].attempt = job[x].attempt
  BY <1>2
<1>6. job[k].attempt \in Attempts /\ attempts \in Nat
  BY <1>1 DEF Jobs, CopyInv, CopyTypes
<1>7. job[k].attempt.id \in Nat /\ job[k].attempt.at \in Int /\ job[k].attempt.id = attempts
  BY <1>6 DEF Attempts, ResultInv
<1>8. \A a \in archives' : a.id \in Nat /\ a.id <= attempts' /\ a.at \in Int
  BY <1>6, <1>7 DEF ResultInv
<1>9. ResultRecorded'
  BY <1>5 DEF ResultInv, ResultRecorded
<1>10. \A x \in Kinds : (AtWork(x)' <=> x = k) /\ (AtWork(x) <=> x = k)
  BY <1>2, <1>4 DEF AtWork
<1>11. \A x \in Kinds : job'[x].failure # "running" /\ (job'[x].pc = "prune" \/ job'[x].done => job'[x].attempt \in archives')
  BY <1>2, <1>4 DEF ResultInv
<1>12. \A x \in Kinds : x # k => job'[x].attempt = NoAttempt /\ job'[x].done = FALSE
  BY <1>2, <1>4
<1>13. job'[k].attempt = nas'.attempt /\ job'[k].attempt.id = attempts' /\ job'[k].attempt.at = now'
  BY <1>2 DEF ResultInv
<1>14. nas'.success.id <= attempts'
  BY DEF ResultInv
<1>15. QED
  BY <1>8, <1>9, <1>10, <1>11, <1>12, <1>13, <1>14 DEF ResultInv

\* A copy ends: its result is in the row, or its loss is excused.
LEMMA ResultEnds ==
    ASSUME CopyInv, ResultInv, NEW k \in Kinds, AtWork(k), Release(k), NEW saved \in BOOLEAN,
           NEW j \in Jobs, j.attempt = job[k].attempt, j.done = job[k].done, j.failure # "running",
           nas' = FinishNASBackupResult(j, saved), excused' = (excused \/ ~saved),
           UNCHANGED <<now, archives, attempts>>
    PROVE  ResultInv'
<1>1. job \in [Kinds -> Jobs] /\ job' = [job EXCEPT ![k] = NoJob] /\ nas \in Rows /\ attempts \in Nat
  BY DEF CopyInv, CopyTypes, Only, Release
<1>2. ~Idle(k)
  BY DEF AtWork, Idle
<1>3. \A x \in Kinds : x # k => job[x].pc = "idle" /\ job[x].attempt = NoAttempt /\ job[x].done = FALSE /\ job[x].failure # "running"
  BY <1>2, OneAtWork DEF Idle, ResultInv
<1>4. \A x \in Kinds : job'[x].pc = "idle" /\ job'[x].attempt = NoAttempt /\ job'[x].done = FALSE /\ job'[x].failure # "running"
  <2>1. job'[k] = NoJob /\ \A x \in Kinds : x # k => job'[x] = job[x]
    BY <1>1
  <2>2. QED
    BY <1>3, <2>1, NoJobFields
<1>5. j.attempt = nas.attempt /\ j.attempt.id = attempts /\ (j.done => j.attempt \in archives)
  BY DEF ResultInv
<1>6. ASSUME saved
      PROVE  nas'.error = j.failure /\ nas'.success = IF j.done THEN j.attempt ELSE nas.success
  <2>1. nas' = [nas EXCEPT !.error = j.failure, !.success = IF j.done THEN j.attempt ELSE nas.success]
    BY <1>5, <1>6 DEF FinishNASBackupResult
  <2>2. QED
    BY <1>1, <2>1 DEF Rows
<1>7. ~saved => nas' = nas
  BY DEF FinishNASBackupResult
<1>8. ResultRecorded'
  BY <1>6, <1>7 DEF ResultRecorded
<1>9. nas'.success.id <= attempts' /\ SuccessHasCopy'
  <2>1. CASE nas'.success = nas.success
    BY <2>1 DEF ResultInv, SuccessHasCopy
  <2>2. CASE nas'.success = j.attempt /\ j.done
    <3>1. j.attempt.id <= attempts /\ j.attempt.id >= j.attempt.id
      BY <1>1, <1>5
    <3>2. QED
      BY <1>5, <2>2, <3>1 DEF SuccessHasCopy
  <2>3. QED
    BY <1>6, <1>7, <2>1, <2>2
<1>10. QED
  BY <1>4, <1>8, <1>9 DEF ResultInv, AtWork

\* A copy begins or gives up before its claim: nothing was said of it.
LEMMA ResultQuiet ==
    ASSUME CopyInv, ResultInv, NEW k \in Kinds, ~AtWork(k), NEW j \in Jobs, Only(k, j), j.pc \in {"idle", "claim"},
           j.attempt = NoAttempt, j.done = FALSE, j.failure # "running",
           UNCHANGED <<now, nas, archives, attempts, excused>>
    PROVE  ResultInv'
<1>1. job \in [Kinds -> Jobs] /\ job' = [job EXCEPT ![k] = j]
  BY DEF CopyInv, CopyTypes, Only
<1>2. job'[k] = j /\ \A x \in Kinds : x # k => job'[x] = job[x]
  BY <1>1
<1>3. \A x \in Kinds : job'[x].attempt = job[x].attempt /\ job'[x].done = job[x].done /\ AtWork(x)' = AtWork(x)
  BY <1>2 DEF ResultInv, AtWork
<1>4. ResultRecorded' /\ SuccessHasCopy'
  BY <1>3 DEF ResultInv, ResultRecorded, SuccessHasCopy
<1>5. \A x \in Kinds : job'[x].failure # "running" /\ (job'[x].pc = "prune" \/ job'[x].done => job'[x].attempt \in archives')
  BY <1>2 DEF ResultInv
<1>6. QED
  BY <1>3, <1>4, <1>5 DEF ResultInv

LEMMA ResultClaim ==
    ASSUME CopyInv, ResultInv, NEW k \in Kinds, claimNASBackup(k), now' = now
    PROVE  ResultInv'
<1> DEFINE a == [id |-> attempts + 1, at |-> now, dest |-> job[k].cfg.dest]
           j == [job[k] EXCEPT !.pc = IF k = "nas" THEN "upload" ELSE "launch", !.attempt = a]
<1>1. /\ nas \in Rows /\ job \in [Kinds -> Jobs] /\ attempts \in Nat /\ job[k].pc = "claim" /\ ~Idle(k)
  BY DEF CopyInv, CopyTypes, claimNASBackup, Idle
<1>2. a.id = attempts + 1 /\ a.at = now
  OBVIOUS
<1>3. /\ nas' = claimRow(k, a) /\ attempts' = attempts + 1 /\ archives' = archives /\ job' = [job EXCEPT ![k] = j]
  BY DEF claimNASBackup, Only
<1> HIDE DEF a
<1>4. job[k].done = FALSE /\ job[k].failure # "running"
  BY <1>1 DEF ResultInv, AtWork
<1>5. j.pc \in {"upload", "launch"} /\ j.attempt = a /\ j.done = FALSE /\ j.failure # "running"
  BY <1>1, <1>4 DEF Jobs
<1> HIDE DEF j
<1>6. job'[k] = j /\ \A x \in Kinds : x # k => job'[x] = job[x]
  BY <1>1, <1>3
<1>7. \A x \in Kinds : x # k => job[x].pc = "idle" /\ job[x].attempt = NoAttempt /\ job[x].done = FALSE /\ job[x].failure # "running"
  BY <1>1, OneAtWork DEF Idle, ResultInv
<1>8. nas'.attempt = a /\ nas'.success = nas.success
  <2>1. nas' = [nas EXCEPT !.attempt = a, !.scheduled = IF k = "manual" THEN nas.scheduled ELSE a, !.error = "running"]
    BY <1>3 DEF claimRow
  <2>2. QED
    BY <1>1, <2>1 DEF Rows
<1>9. nas.success.id \in Nat /\ nas.success.id <= attempts /\ \A b \in archives : b.id \in Nat /\ b.id <= attempts
  BY <1>1 DEF Rows, Attempts, ResultInv
<1>10. nas'.success.id <= attempts' /\ \A b \in archives' : b.id <= attempts'
  BY <1>1, <1>3, <1>8, <1>9
<1>11. ResultRecorded' /\ SuccessHasCopy'
  BY <1>3, <1>5, <1>6, <1>8 DEF ResultInv, ResultRecorded, SuccessHasCopy
<1>12. \A x \in Kinds : AtWork(x)' <=> x = k
  BY <1>5, <1>6, <1>7 DEF AtWork
<1>13. QED
  BY <1>2, <1>3, <1>5, <1>6, <1>7, <1>8, <1>10, <1>11, <1>12 DEF ResultInv

\* An old copy is removed, never the one just made, which is the newest.
LEMMA ResultPrune ==
    ASSUME CopyInv, ResultInv, NEW k \in Kinds, NEW gone, pruneNASBackups(k, gone), now' = now
    PROVE  ResultInv'
<1> DEFINE m == IF gone = Old(job[k].attempt.dest) THEN "" ELSE "retention"
           j == [job[k] EXCEPT !.pc = "finish", !.done = TRUE, !.failure = m]
           b == job[k].attempt
<1>1. now \in Nat /\ job[k] \in Jobs /\ job[k].pc = "prune" /\ AtWork(k) /\ nas \in Rows /\ attempts \in Nat
  BY DEF CopyInv, CopyTypes, pruneNASBackups, AtWork
<1>2. b \in archives /\ b.id = attempts /\ b.at = now
  BY <1>1 DEF ResultInv
<1>3. gone \subseteq Old(b.dest) /\ archives' = archives \ gone /\ UNCHANGED <<nas, attempts, excused>> /\ Only(k, j)
  BY DEF pruneNASBackups
<1>4. b \in archives'
  <2>1. ~(b.at < now - Keep)
    BY <1>1, <1>2, NASAssumption
  <2>2. QED
    BY <1>2, <1>3, <2>1 DEF Old
<1>5. SuccessHasCopy'
  <2> SUFFICES ASSUME nas.success # NoAttempt PROVE \E a \in archives' : a.dest = nas.success.dest /\ a.id >= nas.success.id
    BY <1>3 DEF SuccessHasCopy
  <2>1. PICK a \in archives : a.dest = nas.success.dest /\ a.id >= nas.success.id
    BY DEF ResultInv, SuccessHasCopy
  <2>2. CASE a \in archives'
    BY <2>1, <2>2
  <2>3. CASE a \notin archives'
    <3>1. b.dest = nas.success.dest
      BY <1>3, <2>1, <2>3 DEF Old
    <3>2. nas.success.id \in Int /\ nas.success.id <= attempts
      BY <1>1 DEF Rows, Attempts, ResultInv
    <3>3. b.id >= nas.success.id
      BY <1>1, <1>2, <3>2
    <3>4. QED
      BY <1>4, <3>1, <3>3
  <2>4. QED
    BY <2>2, <2>3
<1>6. m \in Messages /\ m # "running" /\ TRUE \in BOOLEAN /\ "finish" \in Points
  BY DEF Messages, Points
<1> HIDE DEF m
<1>7. j \in Jobs /\ j.pc = "finish" /\ j.attempt = b /\ j.failure = m
  BY <1>1, <1>6 DEF Jobs
<1> HIDE DEF j
<1>8. QED
  BY <1>1, <1>3, <1>4, <1>5, <1>6, <1>7, ResultMoves

LEMMA ResultStep ==
    ASSUME CopyInv, ResultInv, [Next]_vars
    PROVE  ResultInv'
<1>0. /\ now \in Nat /\ nas \in Rows /\ job \in [Kinds -> Jobs] /\ attempts \in Nat
      /\ "nas" \in Kinds /\ "manual" \in Kinds /\ SuccessHasCopy
  BY DEF CopyInv, CopyTypes, Kinds, ResultInv
<1>1. CASE UNCHANGED <<now, nasVars>>
  BY <1>1, ResultStays DEF nasVars
<1>2. CASE now' = now + 1 /\ UNCHANGED nasVars /\ (scene.part = "nas" => NASTick)
  <2>1. \A k \in Kinds : job[k].pc = "idle"
    BY <1>2 DEF CopyInv, LockInv, NASTick, Idle
  <2>2. \A k \in Kinds : ~AtWork(k) /\ ~AtWork(k)'
    BY <1>2, <2>1 DEF AtWork, nasVars
  <2>3. QED
    BY <1>2, <2>2 DEF nasVars, ResultInv, ResultRecorded, SuccessHasCopy
<1>3. CASE now' = now /\ CopyStep
  <2>1. NoJob \in Jobs /\ [NoJob EXCEPT !.pc = "claim", !.cfg = nas] \in Jobs
    BY <1>0, InitialRow, FALSE \in BOOLEAN DEF Jobs, NoJob, Points, Messages
  <2>2. CASE runNASBackup \/ StartManualNASBackup
    <3> DEFINE j == [NoJob EXCEPT !.pc = "claim", !.cfg = nas]
    <3>1. PICK k \in Kinds : Only(k, j) /\ UNCHANGED <<nas, archives, attempts, excused>>
      BY <1>0, <2>2 DEF runNASBackup, StartManualNASBackup
    <3>2. j.pc = "claim" /\ j.attempt = NoAttempt /\ j.done = FALSE /\ j.failure = ""
      BY DEF NoJob
    <3>3. ~AtWork(k)
      BY <2>2 DEF runNASBackup, StartManualNASBackup, CopyInv, LockInv, AtWork, Idle
    <3> HIDE DEF j
    <3>4. QED
      BY <1>3, <2>1, <3>1, <3>2, <3>3, ResultQuiet DEF j
  <2>3. ASSUME NEW k \in Kinds, notClaimed(k) PROVE ResultInv'
    <3>1. ~AtWork(k) /\ Only(k, NoJob) /\ UNCHANGED <<nas, archives, attempts, excused>>
      BY <2>3 DEF notClaimed, Release, AtWork
    <3>2. QED
      BY <1>3, <2>1, <3>1, NoJobFields, ResultQuiet
  <2>4. ASSUME NEW k \in Kinds, claimNASBackup(k) PROVE ResultInv'
    BY <1>3, <2>4, ResultClaim
  <2>5. ASSUME NEW k \in Kinds, job[k].pc \in {"upload", "sending"}
        PROVE  /\ AtWork(k) /\ Failed(job[k]) \in Jobs /\ Failed(job[k]).pc = "finish" /\ Failed(job[k]).attempt = job[k].attempt
               /\ Failed(job[k]).done = job[k].done /\ Failed(job[k]).failure = "failed"
    BY <1>0, <2>5 DEF Failed, Jobs, Points, Messages, AtWork
  <2>6. ASSUME NEW k \in Kinds, NEW pc \in Points
        PROVE  LET j == [job[k] EXCEPT !.pc = pc] IN
               j \in Jobs /\ j.pc = pc /\ j.attempt = job[k].attempt /\ j.done = job[k].done /\ j.failure = job[k].failure
    BY <1>0 DEF Jobs
  <2>7. \A k \in Kinds : job[k].failure # "running" /\ (job[k].done => job[k].attempt \in archives)
    BY DEF ResultInv
  <2>8. ASSUME NEW k \in Kinds, beginUpload(k) \/ uploadFails(k) PROVE ResultInv'
    <3>1. "sending" \in Points /\ job[k].pc \in {"upload", "sending"} /\ UNCHANGED <<nas, archives, attempts, excused>>
      BY <2>8 DEF beginUpload, uploadFails, Points
    <3>2. Only(k, [job[k] EXCEPT !.pc = "sending"]) \/ Only(k, Failed(job[k]))
      BY <2>8 DEF beginUpload, uploadFails
    <3>3. SuccessHasCopy'
      BY <1>0, <3>1 DEF SuccessHasCopy
    <3>4. CASE Only(k, Failed(job[k]))
      BY <1>3, <2>5, <2>7, <3>1, <3>3, <3>4, ResultMoves
    <3>5. CASE Only(k, [job[k] EXCEPT !.pc = "sending"])
      <4> DEFINE j == [job[k] EXCEPT !.pc = "sending"]
      <4>1. j \in Jobs /\ j.pc = "sending" /\ j.attempt = job[k].attempt /\ j.done = job[k].done /\ j.failure = job[k].failure
        BY <2>6, <3>1
      <4>2. Only(k, j) /\ AtWork(k)
        BY <2>5, <3>1, <3>5
      <4> HIDE DEF j
      <4>3. QED
        BY <1>3, <2>7, <3>1, <3>3, <4>1, <4>2, ResultMoves
    <3>6. QED
      BY <3>2, <3>4, <3>5
  <2>9. ASSUME NEW k \in Kinds, NEW b \in BOOLEAN, rename(k, b) PROVE ResultInv'
    <3>1. "prune" \in Points /\ job[k].pc = "sending" /\ UNCHANGED <<nas, attempts, excused>>
          /\ archives' = archives \cup {job[k].attempt}
      BY <2>9 DEF rename, Points
    <3>2. Only(k, [job[k] EXCEPT !.pc = "prune"]) \/ Only(k, Failed(job[k]))
      BY <2>9 DEF rename
    <3>3. SuccessHasCopy'
      BY <1>0, <3>1 DEF SuccessHasCopy
    <3>4. CASE Only(k, Failed(job[k]))
      BY <1>3, <2>5, <2>7, <3>1, <3>3, <3>4, ResultMoves
    <3>5. CASE Only(k, [job[k] EXCEPT !.pc = "prune"])
      <4> DEFINE j == [job[k] EXCEPT !.pc = "prune"]
      <4>1. j \in Jobs /\ j.pc = "prune" /\ j.attempt = job[k].attempt /\ j.done = job[k].done /\ j.failure = job[k].failure
        BY <2>6, <3>1
      <4>2. Only(k, j) /\ AtWork(k)
        BY <2>5, <3>1, <3>5
      <4> HIDE DEF j
      <4>3. QED
        BY <1>3, <2>7, <3>1, <3>3, <4>1, <4>2, ResultMoves
    <3>6. QED
      BY <3>2, <3>4, <3>5
  <2>10. ASSUME NEW k \in Kinds, NEW saved \in BOOLEAN, performNASBackup(k, saved) PROVE ResultInv'
    <3>1. job[k].pc = "finish" /\ nas' = FinishNASBackupResult(job[k], saved) /\ Release(k) /\ excused' = (excused \/ ~saved)
          /\ UNCHANGED <<archives, attempts>>
      BY <2>10 DEF performNASBackup
    <3>2. AtWork(k) /\ job[k] \in Jobs
      BY <1>0, <3>1 DEF AtWork
    <3>3. QED
      BY <1>3, <2>7, <3>1, <3>2, ResultEnds
  <2>11. ASSUME NEW saved \in BOOLEAN, Launch(saved) PROVE ResultInv'
    <3> DEFINE j == job["manual"]
    <3>1. j.pc = "launch" /\ j \in Jobs /\ UNCHANGED <<archives, attempts>> /\ excused' = (excused \/ ~saved) /\ (~closed => saved)
      BY <1>0, <2>11 DEF Launch
    <3>2. AtWork("manual")
      BY <3>1 DEF AtWork
    <3>3. CASE closed
      <4> DEFINE r == [j EXCEPT !.failure = "stopping"]
      <4>1. r \in Jobs /\ r.attempt = j.attempt /\ r.done = j.done /\ r.failure = "stopping"
        BY <3>1 DEF Jobs, Messages
      <4>2. nas' = FinishNASBackupResult(r, saved) /\ Release("manual")
        BY <2>11, <3>3 DEF Launch, refusedRow
      <4> HIDE DEF r
      <4>3. QED
        BY <1>0, <1>3, <3>1, <3>2, <4>1, <4>2, ResultEnds
    <3>4. CASE ~closed
      <4>1. "upload" \in Points
        BY DEF Points
      <4> DEFINE u == [j EXCEPT !.pc = "upload"]
      <4>2. u \in Jobs /\ u.pc = "upload" /\ u.attempt = j.attempt /\ u.done = j.done /\ u.failure = j.failure
        BY <1>0, <2>6, <4>1
      <4>3. Only("manual", u) /\ nas' = nas
        BY <2>11, <3>4 DEF Launch
      <4>4. (excused => excused') /\ SuccessHasCopy'
        BY <1>0, <3>1, <4>3 DEF SuccessHasCopy
      <4> HIDE DEF u
      <4>5. QED
        BY <1>0, <1>3, <2>7, <3>1, <3>2, <4>2, <4>3, <4>4, ResultMoves
    <3>5. QED
      BY <3>3, <3>4
  <2>12. ASSUME NEW k \in Kinds, NEW gone, pruneNASBackups(k, gone) PROVE ResultInv'
    BY <1>3, <2>12, ResultPrune
  <2>13. QED
    BY <1>3, <2>2, <2>3, <2>4, <2>8, <2>9, <2>10, <2>11, <2>12 DEF CopyStep
<1>4. CASE now' = now /\ SettingsStep
  <2>1. UNCHANGED <<job, archives, attempts, excused>>
    BY <1>4 DEF SettingsStep, NASBackupSettingsPost, SaveNASBackupConfig, TestNASBackup
  <2>2. nas'.attempt = nas.attempt /\ nas'.success = nas.success /\ nas'.error = nas.error
    BY <1>0, <1>4 DEF SettingsStep, NASBackupSettingsPost, SaveNASBackupConfig, TestNASBackup, Rows
  <2>3. QED
    BY <1>4, <2>1, <2>2 DEF ResultInv, AtWork, ResultRecorded, SuccessHasCopy
<1>5. CASE now' = now /\ \E from : Stop(from)
  <2>1. /\ job' = [k \in Kinds |-> NoJob] /\ UNCHANGED <<nas, archives, attempts>>
        /\ excused' = (excused \/ \E k \in Kinds : job[k].attempt # NoAttempt)
    BY <1>5 DEF Stop
  <2>2. \A k \in Kinds : job'[k].pc = "idle" /\ job'[k].attempt = NoAttempt /\ job'[k].done = FALSE /\ job'[k].failure = ""
    BY <2>1, NoJobFields
  <2>3. ResultRecorded'
    BY <2>1, <2>2 DEF ResultInv, ResultRecorded
  <2>4. SuccessHasCopy'
    BY <2>1 DEF ResultInv, SuccessHasCopy
  <2>5. QED
    BY <2>1, <2>2, <2>3, <2>4 DEF ResultInv, AtWork
<1>6. CASE now' = now /\ BootNAS
  BY <1>6, ResultStays DEF BootNAS
<1>7. QED
  BY <1>1, <1>2, <1>3, <1>4, <1>5, <1>6, CopyMoves

\* Wherever a copy fails, is refused or overlaps with edits, the page says that
\* one is under way only while it is, and the NAS of the last success holds a
\* copy at least as new (internal/service/nas_backup.go:296, :311).
THEOREM ResultsAreTrue == Spec => []ResultIsTrue
<1>1. Init => ResultInv
  <2> SUFFICES ASSUME Init PROVE ResultInv
    OBVIOUS
  <2>1. nas.success = NoAttempt /\ nas.error # "running"
    <3>1. nas \in IF scene.part = "nas" THEN SavedRows ELSE {Unconfigured}
      BY DEF Init, NASInit
    <3>2. Unconfigured.success = NoAttempt /\ Unconfigured.error = ""
      BY DEF Unconfigured, Row, Config
    <3>3. QED
      BY <3>1, <3>2, SceneAssumption
  <2>2. job = [k \in Kinds |-> NoJob] /\ archives = {} /\ attempts = 0 /\ NoAttempt.id = 0
    BY DEF Init, NASInit, NoAttempt
  <2>3. \A k \in Kinds : job[k].pc = "idle" /\ job[k].attempt = NoAttempt /\ job[k].done = FALSE /\ job[k].failure = ""
    BY <2>2, NoJobFields
  <2>4. nas.success.id <= attempts
    BY <2>1, <2>2
  <2>5. ResultRecorded /\ SuccessHasCopy
    BY <2>1 DEF ResultRecorded, SuccessHasCopy
  <2>6. QED
    BY <2>2, <2>3, <2>4, <2>5 DEF ResultInv, AtWork
<1>2. CopyInv /\ [Next]_vars => CopyInv'
  BY CopiesStep
<1>3. CopyInv /\ ResultInv /\ [Next]_vars => ResultInv'
  BY ResultStep
<1>4. ResultInv => ResultIsTrue
  BY DEF ResultInv, ResultIsTrue
<1>5. QED
  BY CopyInit, <1>1, <1>2, <1>3, <1>4, PTL DEF Spec

-----------------------------------------------------------------------------
(* The password checks.                                                    *)

InWindow(t, reset) == reset - LimitWindow <= t /\ t < reset
Compared(reset) == {i \in DOMAIN wrong : InWindow(wrong[i], reset)}
Underway(reset) == {c \in checking : InWindow(c.at, reset)}

LimitTypes ==
    /\ now \in Nat /\ wrong \in Seq(Nat)
    /\ \A c \in checking : c.req \in Requests /\ c.at \in Nat /\ c.at <= now
    /\ \A c, d \in checking : c.req = d.req => c = d
    /\ bucket # NoBucket => /\ bucket = [count |-> bucket.count, reset |-> bucket.reset]
                            /\ bucket.count \in Nat \ {0} /\ bucket.reset \in Nat

\* What was compared before the bucket counted is out of its window.
LimitPast ==
    IF bucket = NoBucket THEN \A i \in DOMAIN wrong : wrong[i] < now ELSE \A i \in DOMAIN wrong : wrong[i] <= bucket.reset

\* The bucket counts every wrong password of its window; once it is full the
\* checks that are still under way can only be compared.
LimitCounted ==
    bucket # NoBucket =>
        /\ bucket.count < LimitMax => Cardinality(Compared(bucket.reset)) <= bucket.count
        /\ bucket.count >= LimitMax =>
               Cardinality(Compared(bucket.reset)) + Cardinality(Underway(bucket.reset)) <= LimitMax - 1 + Cardinality(Requests)

LimitInv == LimitTypes /\ LimitPast /\ LimitCounted

\* There is one check for each slot of a request.
LEMMA ChecksFit ==
    ASSUME LimitTypes
    PROVE  /\ IsFiniteSet(checking) /\ Cardinality(checking) \in Nat /\ Cardinality(Requests) \in Nat
           /\ Cardinality(checking) <= Cardinality(Requests)
<1>1. IsFiniteSet(Requests)
  BY LimiterAssumption
<1> DEFINE f == [c \in checking |-> c.req]
<1>2. f \in [checking -> Requests]
  BY DEF LimitTypes
<1>3. \A c, d \in checking : f[c] = f[d] => c = d
  BY DEF LimitTypes
<1>4. f \in Injection(checking, Requests)
  BY <1>2, <1>3 DEF Injection, IsInjective
<1>5. IsFiniteSet(checking) /\ Cardinality(checking) <= Cardinality(Requests)
  BY <1>1, <1>4, FS_Injection
<1>6. QED
  BY <1>1, <1>5, FS_CardinalityType

\* The parts of a window are finite.
LEMMA WindowFinite ==
    ASSUME LimitTypes, NEW r
    PROVE  /\ IsFiniteSet(Compared(r)) /\ Cardinality(Compared(r)) \in Nat
           /\ IsFiniteSet(Underway(r)) /\ Cardinality(Underway(r)) \in Nat /\ Cardinality(Underway(r)) <= Cardinality(checking)
<1>1. Len(wrong) \in Nat /\ DOMAIN wrong = 1..Len(wrong)
  BY DEF LimitTypes
<1>2. IsFiniteSet(DOMAIN wrong)
  BY <1>1, FS_Interval
<1>3. Compared(r) \in SUBSET (DOMAIN wrong) /\ Underway(r) \in SUBSET checking
  BY DEF Compared, Underway
<1>4. QED
  BY <1>2, <1>3, ChecksFit, FS_Subset, FS_CardinalityType

LEMMA LimitStays ==
    ASSUME LimitInv, UNCHANGED limiterVars, now' \in {now, now + 1}
    PROVE  LimitInv'
<1>1. now \in Nat /\ UNCHANGED <<bucket, checking, wrong>>
  BY DEF LimitInv, LimitTypes, limiterVars
<1>2. now' \in Nat /\ \A t \in Nat : (t <= now => t <= now') /\ (t < now => t < now')
  BY <1>1
<1>3. LimitTypes'
  BY <1>1, <1>2 DEF LimitInv, LimitTypes
<1>4. \A i \in DOMAIN wrong : wrong[i] \in Nat
  BY DEF LimitInv, LimitTypes
<1>5. LimitPast'
  BY <1>1, <1>2, <1>4 DEF LimitInv, LimitPast
<1>6. LimitCounted'
  BY <1>1 DEF LimitInv, LimitCounted, Compared, Underway
<1>7. QED
  BY <1>3, <1>5, <1>6 DEF LimitInv

\* A check begins only while the bucket is not full, or outside its window.
LEMMA BeginStep ==
    ASSUME LimitInv, NEW q \in Requests, BeginCheck(q)
    PROVE  LimitInv'
<1> DEFINE n == [req |-> q, at |-> now]
<1>1. /\ now \in Nat /\ checking' = checking \cup {n} /\ UNCHANGED <<now, bucket, wrong>> /\ ~Blocked(bucket)
      /\ \A c \in checking : c.req # q
  BY DEF BeginCheck, LimitInv, LimitTypes
<1>2. n.req = q /\ n.at = now
  OBVIOUS
<1> HIDE DEF n
<1>3. LimitTypes'
  <2>1. \A c \in checking' : c.req \in Requests /\ c.at \in Nat /\ c.at <= now
    BY <1>1, <1>2 DEF LimitInv, LimitTypes
  <2>2. \A c, d \in checking' : c.req = d.req => c = d
    BY <1>1, <1>2 DEF LimitInv, LimitTypes
  <2>3. QED
    BY <1>1, <2>1, <2>2 DEF LimitInv, LimitTypes
<1>4. LimitPast'
  BY <1>1 DEF LimitInv, LimitPast
<1>5. LimitCounted'
  <2> SUFFICES ASSUME bucket # NoBucket, bucket.count >= LimitMax
               PROVE  Underway(bucket.reset)' = Underway(bucket.reset)
    BY <1>1 DEF LimitInv, LimitCounted, Compared
  <2>1. ~(now < bucket.reset)
    BY <1>1 DEF Blocked
  <2>2. QED
    BY <1>1, <1>2, <2>1 DEF Underway, InWindow
<1>6. QED
  BY <1>3, <1>4, <1>5 DEF LimitInv

\* A wrong password is counted, in a new bucket when the old one has passed.
LEMMA WrongStep ==
    ASSUME LimitInv, NEW c \in checking, CompareWrong(c)
    PROVE  LimitInv'
<1>1. /\ now \in Nat /\ wrong \in Seq(Nat) /\ c.at \in Nat /\ c.at <= now
      /\ checking' = checking \ {c} /\ bucket' = allow(bucket) /\ wrong' = Append(wrong, c.at) /\ now' = now
  BY DEF CompareWrong, LimitInv, LimitTypes
<1>2. LimitMax \in Nat \ {0} /\ LimitWindow \in Nat \ {0}
  BY LimiterAssumption
<1>3. PICK n \in Nat : n = Len(wrong)
  BY <1>1
<1>4. /\ DOMAIN wrong = 1..n /\ DOMAIN wrong' = 1..(n + 1) /\ wrong' \in Seq(Nat)
      /\ wrong'[n + 1] = c.at /\ \A i \in 1..n : wrong'[i] = wrong[i]
  BY <1>1, <1>3
<1>5. (\A i \in 1..(n + 1) : i \in 1..n \/ i = n + 1) /\ n + 1 \in 1..(n + 1) /\ 1..n \subseteq 1..(n + 1) /\ n + 1 \notin 1..n
  BY <1>3
<1>6. ASSUME NEW r \in Int
      PROVE  /\ InWindow(c.at, r) => /\ Cardinality(Compared(r)') = Cardinality(Compared(r)) + 1
                                     /\ Cardinality(Underway(r)') = Cardinality(Underway(r)) - 1
             /\ ~InWindow(c.at, r) => Compared(r)' = Compared(r) /\ Underway(r)' = Underway(r)
  <2>1. Compared(r)' = IF InWindow(c.at, r) THEN Compared(r) \cup {n + 1} ELSE Compared(r)
    BY <1>4, <1>5 DEF Compared, InWindow
  <2>2. Underway(r)' = Underway(r) \ {c} /\ (c \in Underway(r) <=> InWindow(c.at, r))
    BY <1>1 DEF Underway, InWindow
  <2>3. n + 1 \notin Compared(r)
    BY <1>4, <1>5 DEF Compared
  <2>4. IsFiniteSet(Compared(r)) /\ IsFiniteSet(Underway(r))
    BY WindowFinite DEF LimitInv
  <2>5. Cardinality(Compared(r) \cup {n + 1}) = Cardinality(Compared(r)) + 1
    BY <2>3, <2>4, FS_AddElement
  <2>6. InWindow(c.at, r) => Cardinality(Underway(r) \ {c}) = Cardinality(Underway(r)) - 1
    BY <2>2, <2>4, FS_RemoveElement
  <2>7. ~InWindow(c.at, r) => Underway(r) \ {c} = Underway(r)
    BY <2>2
  <2>8. QED
    BY <2>1, <2>2, <2>5, <2>6, <2>7
<1>7. /\ \A d \in checking' : d.req \in Requests /\ d.at \in Nat /\ d.at <= now'
      /\ \A d, e \in checking' : d.req = e.req => d = e
  BY <1>1 DEF LimitInv, LimitTypes
<1>8. CASE bucket = NoBucket \/ now > bucket.reset
  <2>1. bucket' = [count |-> 1, reset |-> now + LimitWindow]
    BY <1>1, <1>8 DEF allow
  <2>2. PICK r \in Nat : r = now + LimitWindow
    BY <1>1, <1>2
  <2>3. bucket'.count = 1 /\ bucket'.reset = r /\ bucket' = [count |-> bucket'.count, reset |-> bucket'.reset] /\ 1 \in Nat \ {0}
    BY <2>1, <2>2
  <2>4. bucket' # NoBucket
    BY <2>3 DEF NoBucket
  <2>5. LimitTypes'
    BY <1>1, <1>4, <1>7, <2>2, <2>3 DEF LimitTypes
  <2>6. \A i \in 1..n : wrong[i] \in Nat /\ wrong[i] < now
    <3>1. \A i \in 1..n : wrong[i] \in Nat
      BY <1>1, <1>4
    <3>2. CASE bucket = NoBucket
      BY <1>4, <3>1, <3>2 DEF LimitInv, LimitPast
    <3>3. CASE bucket # NoBucket /\ now > bucket.reset
      <4>1. bucket.reset \in Nat /\ \A i \in 1..n : wrong[i] <= bucket.reset
        BY <1>4, <3>3 DEF LimitInv, LimitPast, LimitTypes
      <4>2. QED
        BY <1>1, <3>1, <3>3, <4>1
    <3>4. QED
      BY <1>8, <3>2, <3>3
  <2>7. LimitPast'
    <3>1. \A i \in 1..(n + 1) : wrong'[i] <= r
      BY <1>1, <1>2, <1>4, <1>5, <2>2, <2>6
    <3>2. QED
      BY <1>4, <2>3, <2>4, <3>1 DEF LimitPast
  <2>8. Compared(r) = {}
    BY <1>1, <1>2, <1>4, <2>2, <2>6 DEF Compared, InWindow
  <2>9. PICK k \in Nat : k = Cardinality(Compared(r)') /\ k <= 1
    <3>0. Cardinality({}) = 0
      BY FS_EmptySet, Zenon
    <3>1. r \in Int /\ Cardinality(Compared(r)) = 0
      <4>1. r \in Int
        BY <2>2
      <4>2. Cardinality(Compared(r)) = 0
        BY <2>8, <3>0, Zenon
      <4>3. QED
        BY <4>1, <4>2
    <3>2. CASE InWindow(c.at, r)
      <4>1. Cardinality(Compared(r)') = Cardinality(Compared(r)) + 1
        BY <1>6, <3>1, <3>2
      <4>2. QED
        BY <3>1, <4>1
    <3>3. CASE ~InWindow(c.at, r)
      <4>1. Compared(r)' = Compared(r)
        BY <1>6, <3>1, <3>3
      <4>2. QED
        BY <3>1, <4>1
    <3>4. QED
      BY <3>2, <3>3
  <2>10. Cardinality(Underway(r)') <= Cardinality(checking') /\ Cardinality(Underway(r)') \in Nat
    <3>1. (IsFiniteSet(Underway(r)) /\ Cardinality(Underway(r)) <= Cardinality(checking) /\ Cardinality(Underway(r)) \in Nat)'
      BY <2>5, <2>2, WindowFinite, PTL
    <3>2. QED
      BY <3>1
  <2>11. Cardinality(checking') = Cardinality(checking) - 1 /\ Cardinality(checking) \in Nat /\ Cardinality(Requests) \in Nat
         /\ Cardinality(checking) <= Cardinality(Requests)
    BY <1>1, ChecksFit, FS_RemoveElement DEF LimitInv
  <2>12. LimitCounted'
    BY <1>2, <2>3, <2>9, <2>10, <2>11 DEF LimitCounted, Compared, Underway
  <2>13. QED
    BY <2>5, <2>7, <2>12 DEF LimitInv
<1>9. CASE bucket # NoBucket /\ ~(now > bucket.reset)
  <2>1. /\ bucket = [count |-> bucket.count, reset |-> bucket.reset] /\ bucket.count \in Nat \ {0} /\ bucket.reset \in Nat
    BY <1>9 DEF LimitInv, LimitTypes
  <2>2. PICK r \in Nat, k \in Nat \ {0} : r = bucket.reset /\ k = bucket.count
    BY <2>1
  <2>3. bucket' = [count |-> k + 1, reset |-> r]
    BY <1>1, <1>9, <2>1, <2>2 DEF allow
  <2>4. bucket'.count = k + 1 /\ bucket'.reset = r /\ bucket' = [count |-> bucket'.count, reset |-> bucket'.reset]
        /\ k + 1 \in Nat \ {0} /\ bucket' # NoBucket
    BY <2>2, <2>3 DEF NoBucket
  <2>5. LimitTypes'
    BY <1>1, <1>4, <1>7, <2>2, <2>4 DEF LimitTypes
  <2>6. LimitPast'
    <3>1. \A i \in 1..n : wrong[i] <= r
      BY <1>4, <1>9, <2>2 DEF LimitInv, LimitPast
    <3>2. c.at <= r
      BY <1>1, <1>9, <2>2
    <3>3. QED
      BY <1>4, <1>5, <2>4, <3>1, <3>2 DEF LimitPast
  <2>7. PICK a \in Nat, u \in Nat : a = Cardinality(Compared(r)) /\ u = Cardinality(Underway(r)) /\ u <= Cardinality(checking)
    BY WindowFinite DEF LimitInv
  <2>8. PICK b \in Int, v \in Int : b = Cardinality(Compared(r)') /\ v = Cardinality(Underway(r)') /\ b + v = a + u /\ b <= a + 1
    <3>1. r \in Int
      BY <2>2
    <3>2. CASE InWindow(c.at, r)
      <4>1. Cardinality(Compared(r)') = a + 1 /\ Cardinality(Underway(r)') = u - 1
        BY <1>6, <2>7, <3>1, <3>2
      <4>2. a + 1 \in Int /\ u - 1 \in Int /\ (a + 1) + (u - 1) = a + u
        BY <2>7
      <4>3. QED
        BY <2>7, <4>1, <4>2
    <3>3. CASE ~InWindow(c.at, r)
      <4>1. Compared(r)' = Compared(r) /\ Underway(r)' = Underway(r)
        BY <1>6, <3>1, <3>3
      <4>2. QED
        BY <2>7, <4>1
    <3>4. QED
      BY <3>2, <3>3
  <2>9. PICK m \in Nat : m = Cardinality(Requests) /\ u <= m
    BY <2>7, ChecksFit DEF LimitInv
  <2>10. (k < LimitMax => a <= k) /\ (k >= LimitMax => a + u <= LimitMax - 1 + m)
    BY <1>9, <2>2, <2>7, <2>9 DEF LimitInv, LimitCounted
  <2>11. (k + 1 < LimitMax => b <= k + 1) /\ (k + 1 >= LimitMax => b + v <= LimitMax - 1 + m)
    BY <1>2, <2>2, <2>7, <2>8, <2>9, <2>10
  <2>12. LimitCounted'
    BY <2>4, <2>8, <2>9, <2>11 DEF LimitCounted, Compared, Underway
  <2>13. QED
    BY <2>5, <2>6, <2>12 DEF LimitInv
<1>10. QED
  BY <1>8, <1>9

\* A right password, and the cleanup of a bucket that has passed.
LEMMA OtherLimitStep ==
    ASSUME LimitInv, (\E c \in checking : CompareRight(c)) \/ cleanup
    PROVE  LimitInv'
<1>1. now \in Nat /\ now' = now /\ wrong' = wrong /\ checking' \subseteq checking /\ \A i \in DOMAIN wrong : wrong[i] \in Nat
  BY DEF CompareRight, cleanup, LimitInv, LimitTypes
<1>2. CASE bucket' = bucket
  <2>1. LimitTypes' /\ LimitPast'
    BY <1>1, <1>2 DEF LimitInv, LimitTypes, LimitPast
  <2>2. ASSUME bucket # NoBucket
        PROVE  Cardinality(Underway(bucket.reset)') <= Cardinality(Underway(bucket.reset))
    <3>1. Underway(bucket.reset)' \in SUBSET Underway(bucket.reset)
      BY <1>1, <1>2 DEF Underway
    <3>2. IsFiniteSet(Underway(bucket.reset))
      BY WindowFinite DEF LimitInv
    <3>3. QED
      BY <3>1, <3>2, FS_Subset
  <2>3. ASSUME bucket # NoBucket
        PROVE  /\ Cardinality(Underway(bucket.reset)') \in Nat /\ Cardinality(Underway(bucket.reset)) \in Nat
               /\ Cardinality(Compared(bucket.reset)) \in Nat
    <3>1. Underway(bucket.reset)' \in SUBSET Underway(bucket.reset)
      BY <1>1, <1>2 DEF Underway
    <3>2. IsFiniteSet(Underway(bucket.reset)')
      BY <3>1, FS_Subset, WindowFinite DEF LimitInv
    <3>3. QED
      BY <3>2, WindowFinite, FS_CardinalityType DEF LimitInv
  <2>4. Compared(bucket.reset)' = Compared(bucket.reset)
    BY <1>1, <1>2 DEF Compared
  <2>5. LimitCounted'
    <3>1. LimitMax \in Nat \ {0} /\ Cardinality(Requests) \in Nat
      BY LimiterAssumption, ChecksFit DEF LimitInv
    <3>2. QED
      BY <1>2, <2>2, <2>3, <2>4, <3>1 DEF LimitInv, LimitCounted
  <2>6. QED
    BY <2>1, <2>5 DEF LimitInv
<1>3. CASE cleanup
  <2>1. bucket' = NoBucket /\ bucket # NoBucket /\ now > bucket.reset
    BY <1>3 DEF cleanup
  <2>2. bucket.reset \in Nat /\ \A i \in DOMAIN wrong : wrong[i] <= bucket.reset
    BY <2>1 DEF LimitInv, LimitTypes, LimitPast
  <2>3. \A i \in DOMAIN wrong : wrong[i] < now
    BY <1>1, <2>1, <2>2
  <2>4. QED
    BY <1>1, <2>1, <2>3 DEF LimitInv, LimitTypes, LimitPast, LimitCounted
<1>4. QED
  BY <1>2, <1>3 DEF CompareRight

LEMMA LimitStep ==
    ASSUME LimitInv, [Next]_vars
    PROVE  LimitInv'
<1>1. CASE LimiterNext
  BY <1>1, BeginStep, WrongStep, OtherLimitStep DEF LimiterNext
<1>2. CASE UNCHANGED limiterVars /\ now' \in {now, now + 1}
  BY <1>2, LimitStays
<1>3. CASE Accounts
  <2>1. CASE Tick /\ UNCHANGED limiterVars
    BY <1>2, <2>1 DEF Tick
  <2>2. CASE GateNext /\ UNCHANGED limiterVars
    <3>1. now' = now
      BY <2>2 DEF GateNext, LoginPost, loginFailed, notifyAdminLoginFailed, LoginPassed, handleTOTPEnforcement, Cleanup, unbanIP, UnbanIP, Restart
    <3>2. QED
      BY <1>2, <2>2, <3>1
  <2>3. QED
    BY <1>1, <1>3, <2>1, <2>2 DEF Accounts
<1>4. CASE Process
  BY <1>2, <1>4 DEF Process
<1>5. CASE Copies
  BY <1>2, <1>5 DEF Copies, NASTick, Tick
<1>6. CASE Mail
  BY <1>2, <1>6 DEF Mail, DailyTick, PaceTick, Tick
<1>7. CASE UNCHANGED vars
  BY <1>2, <1>7 DEF vars
<1>8. QED
  BY <1>3, <1>4, <1>5, <1>6, <1>7 DEF Next

LEMMA LimitInvariant == Spec => []LimitInv
<1>1. Init => LimitInv
  <2> SUFFICES ASSUME Init PROVE LimitInv
    OBVIOUS
  <2>1. now = 0 /\ bucket = NoBucket /\ checking = {} /\ wrong = <<>>
    BY DEF Init, LimiterInit
  <2>2. QED
    BY <2>1 DEF LimitInv, LimitTypes, LimitPast, LimitCounted
<1>2. LimitInv /\ [Next]_vars => LimitInv'
  BY LimitStep
<1>3. QED
  BY <1>1, <1>2, PTL DEF Spec

\* However requests interleave with the window, its wrong passwords are never
\* more than the limit and the requests under way when it was reached
\* (checkCurrentPassword looks before it counts, internal/ratelimit/ratelimit.go:67).
THEOREM ChecksAreBounded == Spec => []PasswordChecksBounded
<1>1. LimitInv => PasswordChecksBounded
  <2> SUFFICES ASSUME LimitInv, bucket # NoBucket
               PROVE  Cardinality(Compared(bucket.reset)) <= LimitMax - 1 + Cardinality(Requests)
    BY DEF PasswordChecksBounded, Compared, InWindow
  <2>1. LimitMax \in Nat \ {0} /\ bucket.count \in Nat /\ Cardinality(Requests) \in Nat
    BY LimiterAssumption, ChecksFit DEF LimitInv, LimitTypes
  <2>2. Cardinality(Compared(bucket.reset)) \in Nat /\ Cardinality(Underway(bucket.reset)) \in Nat
    BY WindowFinite DEF LimitInv
  <2>3. QED
    BY <2>1, <2>2 DEF LimitInv, LimitCounted
<1>2. QED
  BY <1>1, LimitInvariant, PTL

-----------------------------------------------------------------------------
(* The bans implement the book of bans.                                    *)

\* The fields of a record, one by one: what a failure is does not matter.
IsState(s) ==
    /\ s = [failures |-> s.failures, expiry |-> s.expiry, count |-> s.count]
    /\ s.expiry \in Nat /\ s.count \in Nat
IsLogin(r) ==
    /\ r = [req |-> r.req, client |-> r.client, at |-> r.at, pc |-> r.pc, banned |-> r.banned]
    /\ r.client \in Clients

\* What the refinement needs to know of a state.
GateInv ==
    /\ now \in Nat /\ scene \in Scenes
    /\ states = [k \in Names |-> states[k]] /\ \A k \in Names : IsState(states[k])
    /\ stored \in [Names -> [count : Nat, expiry : Nat]]
    /\ \A r \in logins : IsLogin(r)

Until(s, t) == IF s.expiry > t THEN s.expiry ELSE 0

\* Durations are numbers, and the book computes the same ones.
LEMMA SameExpiry ==
    ASSUME now \in Nat, NEW s, IsState(s)
    PROVE  Expiry(s) \in Nat /\ Expiry(s) = Book!ExpiryOf(s.count, now)
<1>1. banDurFor(s.count) = Book!DurationOf(s.count)
  BY DEF banDurFor, Book!DurationOf
<1>2. banDurFor(s.count) \in Nat
  <2>1. BanDurs \in Seq(Nat) /\ BanDurs # <<>> /\ s.count \in Nat
    BY GateAssumption DEF IsState
  <2>2. QED
    BY <2>1 DEF banDurFor
<1>3. Forever \in Nat
  BY GateAssumption
<1>4. QED
  BY <1>1, <1>2, <1>3 DEF Expiry, Book!ExpiryOf

\* A look at a ban, a cleared list of failures and the cleanup change no ban.
LEMMA SameBan ==
    ASSUME now \in Nat, NEW s, IsState(s)
    PROVE  \A x \in {AfterLook(s), ClearFailures(s), cleanupAt(s)} :
               IsState(x) /\ x.count = s.count /\ Until(x, now) = Until(s, now)
<1>1. IsState(AfterLook(s)) /\ AfterLook(s).count = s.count /\ Until(AfterLook(s), now) = Until(s, now)
  <2>1. CASE s.expiry # 0 /\ s.expiry <= now
    <3>1. AfterLook(s) = [failures |-> {}, expiry |-> 0, count |-> s.count]
      BY <2>1 DEF IsState, AfterLook
    <3>2. Until(s, now) = 0
      BY <2>1 DEF IsState, Until
    <3>3. QED
      BY <3>1, <3>2 DEF IsState, Until
  <2>2. CASE ~(s.expiry # 0 /\ s.expiry <= now)
    BY <2>2 DEF AfterLook
  <2>3. QED
    BY <2>1, <2>2
<1>2. IsState(ClearFailures(s)) /\ ClearFailures(s).count = s.count /\ Until(ClearFailures(s), now) = Until(s, now)
  BY DEF IsState, ClearFailures, Until
<1>3. IsState(cleanupAt(s)) /\ cleanupAt(s).count = s.count /\ Until(cleanupAt(s), now) = Until(s, now)
  <2>1. CASE cleanupAt(s) = s
    BY <2>1
  <2>2. CASE cleanupAt(s) = ClearFailures(s)
    BY <1>2, <2>2
  <2>3. CASE ~Active(s) /\ s.count = 0 /\ cleanupAt(s) = Fresh
    BY <2>3 DEF IsState, Fresh, Until, Active
  <2>4. QED
    BY <2>1, <2>2, <2>3 DEF cleanupAt
<1>4. QED
  BY <1>1, <1>2, <1>3

\* A failure that does not ban changes no ban, and one that does imposes the next.
LEMMA FailureCounts ==
    ASSUME now \in Nat, NEW s, IsState(s)
    PROVE  /\ IsState(RecordFailure(s))
           /\ ~Bans(s) => RecordFailure(s).count = s.count /\ Until(RecordFailure(s), now) = Until(s, now)
           /\ Bans(s) => /\ Until(s, now) = 0 /\ RecordFailure(s).count = s.count + 1
                         /\ Until(RecordFailure(s), now) = Book!StillOn(Book!ExpiryOf(s.count, now), now)
<1>1. CASE Active(s)
  BY <1>1 DEF RecordFailure, Bans
<1>2. CASE ~Active(s) /\ Bans(s)
  <2>1. RecordFailure(s) = [failures |-> {}, expiry |-> Expiry(s), count |-> s.count + 1]
    BY <1>2 DEF RecordFailure, Imposed
  <2>2. Until(s, now) = 0 /\ s.count + 1 \in Nat
    BY <1>2 DEF Active, Until, IsState
  <2>3. IsState(RecordFailure(s))
    BY <2>1, <2>2, SameExpiry DEF IsState
  <2>4. QED
    BY <1>2, <2>1, <2>2, <2>3, SameExpiry DEF Until, Book!StillOn
<1>3. CASE ~Active(s) /\ ~Bans(s)
  <2>1. RecordFailure(s) = [s EXCEPT !.failures = Valid(s) \cup {Entry(Valid(s))}]
    BY <1>3 DEF RecordFailure
  <2>2. QED
    BY <1>3, <2>1 DEF IsState, Until
<1>4. QED
  BY <1>1, <1>2, <1>3

\* The keys of an address.
LEMMA KeysAreNames == \A c \in Clients : Key[c] \in Names /\ UnbanKeys(c) \subseteq Names
BY GateAssumption DEF Names, UnbanKeys

\* Steps that change no ban are stutters of the book.
LEMMA BookStays ==
    ASSUME now' = now, stored' = stored,
           \A k \in Names : states'[k].count = states[k].count /\ Until(states'[k], now) = Until(states[k], now)
    PROVE  UNCHANGED Book!bookVars
BY DEF Book!bookVars, Until

\* The state of one key changes, and what is left of it is a state.
LEMMA OneKey ==
    ASSUME GateInv, NEW k \in Names, NEW s, IsState(s), states' = [states EXCEPT ![k] = s]
    PROVE  /\ states' = [x \in Names |-> states'[x]] /\ \A x \in Names : IsState(states'[x])
           /\ states'[k] = s /\ \A x \in Names : x # k => states'[x] = states[x]
BY DEF GateInv

\* The end of a failed login counts it, and may ban its key.
\* A login that is about to be told of.
LEMMA ToBeTold ==
    ASSUME NEW r, IsLogin(r), NEW b
    PROVE  [r EXCEPT !.pc = "notify", !.banned = b]
           = [req |-> r.req, client |-> r.client, at |-> r.at, pc |-> "notify", banned |-> b]
<1>1. [r EXCEPT !.pc = "notify"]
      = [req |-> r.req, client |-> r.client, at |-> r.at, pc |-> "notify", banned |-> r.banned]
  BY DEF IsLogin
<1>2. [[req |-> r.req, client |-> r.client, at |-> r.at, pc |-> "notify", banned |-> r.banned] EXCEPT !.banned = b]
      = [req |-> r.req, client |-> r.client, at |-> r.at, pc |-> "notify", banned |-> b]
  OBVIOUS
<1>3. [r EXCEPT !.pc = "notify", !.banned = b] = [[r EXCEPT !.pc = "notify"] EXCEPT !.banned = b]
  OBVIOUS
<1> QED BY <1>1, <1>2, <1>3

LEMMA EnforcedLogin ==
    ASSUME GateInv, NEW r, handleTOTPEnforcement(r)
    PROVE  GateInv' /\ UNCHANGED Book!bookVars
<1>1. IsLogin(r) /\ UNCHANGED <<now, scene, states, stored>>
      /\ logins' = (logins \ {r}) \cup {[r EXCEPT !.pc = "notify", !.banned = FALSE]}
  BY DEF handleTOTPEnforcement, GateInv
<1>2. IsLogin([r EXCEPT !.pc = "notify", !.banned = FALSE])
  <2>1. IsLogin([req |-> r.req, client |-> r.client, at |-> r.at, pc |-> "notify", banned |-> FALSE])
    BY <1>1 DEF IsLogin
  <2> QED BY <1>1, <2>1, ToBeTold
<1>3. \A l \in logins' : IsLogin(l)
  BY <1>1, <1>2 DEF GateInv
<1>4. GateInv'
  BY <1>1, <1>3 DEF GateInv
<1>5. UNCHANGED Book!bookVars
  BY <1>1 DEF Book!bookVars
<1> QED BY <1>4, <1>5

LEMMA FailedLogin ==
    ASSUME GateInv, NEW r, NEW kept \in BOOLEAN, loginFailed(r, kept)
    PROVE  GateInv' /\ (UNCHANGED Book!bookVars \/ \E k \in Names : Book!Impose(k, kept))
<1> DEFINE k == Key[r.client]
           s == states[k]
           bans == ~isTrusted(r.client) /\ Bans(s)
           row == [count |-> s.count + 1, expiry |-> Expiry(s)]
<1>1. IsLogin(r) /\ k \in Names /\ IsState(s) /\ now \in Nat
  BY KeysAreNames DEF GateInv, loginFailed, IsLogin
<1>2. /\ UNCHANGED <<now, scene>>
      /\ states' = IF isTrusted(r.client) THEN states ELSE [states EXCEPT ![k] = RecordFailure(s)]
      /\ stored' = IF bans /\ kept THEN [stored EXCEPT ![k] = row] ELSE stored
      /\ logins' = (logins \ {r}) \cup {[r EXCEPT !.pc = "notify", !.banned = bans]}
  BY <1>1 DEF loginFailed, GateInv
<1>3. \A l \in logins' : IsLogin(l)
  <2>1. ASSUME NEW b PROVE IsLogin([r EXCEPT !.pc = "notify", !.banned = b])
    <3>1. [r EXCEPT !.pc = "notify", !.banned = b]
          = [req |-> r.req, client |-> r.client, at |-> r.at, pc |-> "notify", banned |-> b]
      BY <1>1, ToBeTold
    <3>2. QED
      BY <1>1, <3>1 DEF IsLogin
  <2>2. IsLogin([r EXCEPT !.pc = "notify", !.banned = bans])
    BY <2>1
  <2>3. QED
    BY <1>2, <2>2 DEF GateInv
<1>4. row \in [count : Nat, expiry : Nat]
  <2>1. s.count + 1 \in Nat
    BY <1>1 DEF IsState
  <2>2. QED
    BY <1>1, <2>1, SameExpiry
<1>5. stored' \in [Names -> [count : Nat, expiry : Nat]]
  BY <1>1, <1>2, <1>4 DEF GateInv
<1>6. CASE isTrusted(r.client)
  <2>1. states' = states /\ stored' = stored
    BY <1>2, <1>6
  <2>2. GateInv'
    BY <2>1, <1>2, <1>3 DEF GateInv
  <2>3. QED
    BY <2>1, <2>2, <1>2, BookStays
<1>7. CASE ~isTrusted(r.client)
  <2>1. states' = [states EXCEPT ![k] = RecordFailure(s)] /\ IsState(RecordFailure(s))
    BY <1>1, <1>2, <1>7, FailureCounts
  <2>2. /\ states' = [x \in Names |-> states'[x]] /\ \A x \in Names : IsState(states'[x])
        /\ states'[k] = RecordFailure(s) /\ \A x \in Names : x # k => states'[x] = states[x]
    BY <2>1, <1>1, OneKey
  <2>3. GateInv'
    BY <2>2, <1>2, <1>3, <1>5 DEF GateInv
  <2>4. CASE ~Bans(s)
    <3>1. stored' = stored
      BY <2>4, <1>2
    <3>2. QED
      BY <3>1, <2>2, <2>3, <2>4, <1>1, <1>2, FailureCounts, BookStays
  <2>5. CASE Bans(s)
    <3>1. /\ Until(s, now) = 0 /\ states'[k].count = s.count + 1
          /\ Until(states'[k], now) = Book!StillOn(Book!ExpiryOf(s.count, now), now)
      BY <2>2, <2>5, <1>1, FailureCounts
    <3>2. stored' = IF kept THEN [stored EXCEPT ![k] = [count |-> s.count + 1, expiry |-> Book!ExpiryOf(s.count, now)]]
                    ELSE stored
      BY <2>5, <1>1, <1>2, <1>7, SameExpiry
    <3>3. Book!Impose(k, kept)
      BY <3>1, <3>2, <2>2, <1>1, <1>2 DEF Book!Impose, Until
    <3>4. QED
      BY <3>3, <2>3, <1>1
  <2>6. QED
    BY <2>4, <2>5
<1>8. QED
  BY <1>6, <1>7

\* What the administrators and a restart do to the bans.
LEMMA LiftAndReload ==
    ASSUME GateInv,
           \/ \E c \in Clients : unbanIP(c) \/ \E kept \in BOOLEAN : UnbanIP(c, kept)
           \/ \E loaded \in BOOLEAN : Restart(loaded)
    PROVE  GateInv' /\ Book!Next
<1>1. IsState(Fresh) /\ NoRow \in [count : Nat, expiry : Nat] /\ NoRow = Book!NoRow /\ Until(Fresh, now) = 0
      /\ Fresh.count = 0
  BY DEF IsState, Fresh, NoRow, Book!NoRow, Until, GateInv
<1>2. ASSUME NEW c \in Clients, unbanIP(c) PROVE GateInv' /\ Book!Next
  <2>1. GateInv'
    BY <1>1, <1>2 DEF GateInv, unbanIP
  <2>2. Book!Lift({}, UnbanKeys(c))
    BY <1>1, <1>2 DEF Book!Lift, unbanIP
  <2>3. QED
    BY <2>1, <2>2, KeysAreNames DEF Book!Next
<1>3. ASSUME NEW c \in Clients, NEW kept \in BOOLEAN, UnbanIP(c, kept) PROVE GateInv' /\ Book!Next
  <2>1. GateInv'
    <3>1. \A k \in Names : IsState(states'[k])
      BY <1>1, <1>3 DEF GateInv, UnbanIP
    <3>2. stored' \in [Names -> [count : Nat, expiry : Nat]]
      BY <1>1, <1>3 DEF GateInv, UnbanIP
    <3>3. QED
      BY <3>1, <3>2, <1>3 DEF GateInv, UnbanIP
  <2>2. \A k \in Names : /\ states'[k].count = IF k \in UnbanKeys(c) THEN 0 ELSE states[k].count
                         /\ Until(states'[k], now) = IF k \in UnbanKeys(c) THEN 0 ELSE Until(states[k], now)
    BY <1>1, <1>3 DEF UnbanIP
  <2>3. now' = now
    BY <1>3 DEF UnbanIP
  <2>4. CASE kept
    <3>1. stored' = [k \in Names |-> stored[k]]
      BY <1>3, <2>4 DEF UnbanIP, GateInv
    <3>2. Book!Lift(UnbanKeys(c), {})
      BY <3>1, <2>2, <2>3 DEF Book!Lift, Until
    <3>3. QED
      BY <2>1, <3>2, KeysAreNames DEF Book!Next
  <2>5. CASE ~kept
    <3>1. stored' = [k \in Names |-> IF k \in UnbanKeys(c) THEN Book!NoRow ELSE stored[k]]
      BY <1>1, <1>3, <2>5 DEF UnbanIP
    <3>2. Book!Lift(UnbanKeys(c), UnbanKeys(c))
      BY <3>1, <2>2, <2>3 DEF Book!Lift, Until
    <3>3. QED
      BY <2>1, <3>2, KeysAreNames DEF Book!Next
  <2>6. QED
    BY <2>4, <2>5
<1>4. ASSUME NEW loaded \in BOOLEAN, Restart(loaded) PROVE GateInv' /\ Book!Next
  <2>1. /\ states' = [k \in Names |-> IF loaded THEN Load(stored[k]) ELSE Fresh]
        /\ UNCHANGED <<now, scene, stored>> /\ logins' = {}
    BY <1>4 DEF Restart
  <2>2. \A k \in Names : stored[k] \in [count : Nat, expiry : Nat]
    BY DEF GateInv
  <2>3. \A k \in Names : Load(stored[k]) = [failures |-> {}, expiry |-> Until(stored[k], now), count |-> stored[k].count]
    <3>1. \A n, e : [Fresh EXCEPT !.count = n, !.expiry = e] = [failures |-> {}, expiry |-> e, count |-> n]
      <4>1. SUFFICES ASSUME NEW n, NEW e
            PROVE  [Fresh EXCEPT !.count = n, !.expiry = e] = [failures |-> {}, expiry |-> e, count |-> n]
        OBVIOUS
      <4>2. [Fresh EXCEPT !.count = n] = [failures |-> {}, expiry |-> 0, count |-> n]
        BY DEF Fresh
      <4>3. [[failures |-> {}, expiry |-> 0, count |-> n] EXCEPT !.expiry = e] = [failures |-> {}, expiry |-> e, count |-> n]
        OBVIOUS
      <4>4. [Fresh EXCEPT !.count = n, !.expiry = e] = [[Fresh EXCEPT !.count = n] EXCEPT !.expiry = e]
        OBVIOUS
      <4>5. QED
        BY <4>2, <4>3, <4>4
    <3>2. QED
      BY <3>1 DEF Load, Until
  <2>4. \A k \in Names : Until(stored[k], now) \in Nat /\ stored[k].count \in Nat
    BY <2>2 DEF Until
  <2>5. \A k \in Names : IsState(Load(stored[k]))
    <3>1. \A n, e \in Nat : IsState([failures |-> {}, expiry |-> e, count |-> n])
      BY DEF IsState
    <3>2. QED
      BY <2>3, <2>4, <3>1
  <2>6. GateInv'
    BY <1>1, <2>1, <2>5 DEF GateInv
  <2>7. \A k \in Names : /\ states'[k].count = IF loaded THEN stored[k].count ELSE 0
                         /\ Until(states'[k], now) = IF loaded THEN Book!StillOn(stored[k].expiry, now) ELSE 0
    <3>1. CASE loaded
      BY <3>1, <2>1, <2>2, <2>3 DEF Until, Book!StillOn, GateInv
    <3>2. CASE ~loaded
      BY <3>2, <2>1, <1>1
    <3>3. QED
      BY <3>1, <3>2
  <2>8. Book!Reload(loaded)
    BY <2>1, <2>7 DEF Book!Reload, Until
  <2>9. QED
    BY <2>6, <2>8 DEF Book!Next
<1>5. QED
  BY <1>2, <1>3, <1>4

\* Every step keeps the invariant, and is a step of the book or changes no ban.
LEMMA GateStep ==
    ASSUME GateInv, [Next]_vars
    PROVE  GateInv' /\ [Book!Next]_(Book!bookVars)
<1> USE DEF GateInv
<1>1. ASSUME Tick, UNCHANGED gateVars PROVE GateInv' /\ Book!Next
  <2>1. now' = now + 1 /\ now < scene.time /\ UNCHANGED <<scene, states, stored, logins>>
    BY <1>1 DEF Tick, gateVars
  <2>2. now < MaxTime
    <3>1. scene.time \in 0..MaxTime
      BY SceneAssumption
    <3>2. QED
      BY <2>1, <3>1, ClockAssumption
  <2>3. GateInv'
    BY <2>1
  <2>4. \A k \in Names : Until(states'[k], now') = Book!StillOn(Until(states[k], now), now')
    BY <2>1 DEF Until, Book!StillOn, IsState
  <2>5. Book!Pass
    BY <2>1, <2>2, <2>4 DEF Book!Pass, Until
  <2>6. QED
    BY <2>3, <2>5 DEF Book!Next
<1>2. ASSUME UNCHANGED <<now, scene, gateVars>> PROVE GateInv' /\ UNCHANGED Book!bookVars
  BY <1>2 DEF gateVars, Book!bookVars
<1>3. CASE GateNext
  <2>1. ASSUME NEW q \in Requests, NEW c \in Clients, LoginPost(q, c) PROVE GateInv' /\ UNCHANGED Book!bookVars
    <3> DEFINE k == Key[c]
               l == [req |-> q, client |-> c, at |-> now, pc |-> "compare", banned |-> FALSE]
    <3>1. k \in Names /\ IsState(states[k]) /\ UNCHANGED <<now, scene, stored>>
      BY <2>1, KeysAreNames DEF LoginPost
    <3>2. IsLogin(l)
      BY DEF IsLogin
    <3>3. \A r \in logins' : IsLogin(r)
      BY <2>1, <3>2 DEF LoginPost
    <3>4. CASE states' = states
      BY <3>1, <3>3, <3>4, BookStays
    <3>5. CASE states' = [states EXCEPT ![k] = AfterLook(states[k])]
      BY <3>1, <3>3, <3>5, OneKey, SameBan, BookStays
    <3>6. QED
      BY <2>1, <3>1, <3>4, <3>5 DEF LoginPost
  <2>2. ASSUME NEW r \in logins, notifyAdminLoginFailed(r) PROVE GateInv' /\ UNCHANGED Book!bookVars
    BY <2>2 DEF notifyAdminLoginFailed, Book!bookVars
  <2>3. ASSUME NEW r \in logins, NEW last \in BOOLEAN, LoginPassed(r, last) PROVE GateInv' /\ UNCHANGED Book!bookVars
    <3> DEFINE k == Key[r.client]
    <3>1. k \in Names /\ IsState(states[k]) /\ UNCHANGED <<now, scene, stored>> /\ logins' \subseteq logins
      BY <2>3, KeysAreNames DEF LoginPassed, IsLogin
    <3>2. CASE states' = states
      BY <3>1, <3>2, BookStays
    <3>3. CASE states' = [states EXCEPT ![k] = ClearFailures(states[k])]
      BY <3>1, <3>3, OneKey, SameBan, BookStays
    <3>4. QED
      BY <2>3, <3>1, <3>2, <3>3 DEF LoginPassed
  <2>4. ASSUME Cleanup PROVE GateInv' /\ UNCHANGED Book!bookVars
    <3>1. states' = [k \in Names |-> cleanupAt(states[k])] /\ UNCHANGED <<now, scene, stored, logins>>
      BY <2>4 DEF Cleanup
    <3>2. QED
      BY <3>1, SameBan, BookStays
  <2>5. QED
    BY <1>3, <2>1, <2>2, <2>3, <2>4, EnforcedLogin, FailedLogin, LiftAndReload DEF GateNext, Book!Next
<1>4. CASE Accounts
  <2>1. CASE LimiterNext /\ UNCHANGED gateVars
    <3>1. UNCHANGED <<now, scene>>
      BY <2>1 DEF LimiterNext, BeginCheck, CompareWrong, CompareRight, cleanup
    <3>2. QED
      BY <2>1, <3>1, <1>2
  <2>2. QED
    BY <1>4, <1>1, <1>3, <2>1 DEF Accounts
<1>5. CASE Process
  BY <1>5, <1>2 DEF Process
<1>6. CASE Copies
  <2>1. CASE NASTick /\ UNCHANGED gateVars
    BY <2>1, <1>1 DEF NASTick
  <2>2. CASE UNCHANGED <<now, scene, gateVars>>
    BY <2>2, <1>2
  <2>3. QED
    BY <1>6, <2>1, <2>2 DEF Copies
<1>7. CASE Mail
  <2>1. CASE DailyTick /\ UNCHANGED gateVars
    BY <2>1, <1>1 DEF DailyTick
  <2>2. CASE PaceTick /\ UNCHANGED gateVars
    BY <2>2, <1>1 DEF PaceTick
  <2>3. CASE UNCHANGED <<now, scene, gateVars>>
    BY <2>3, <1>2
  <2>4. QED
    BY <1>7, <2>1, <2>2, <2>3 DEF Mail
<1>8. CASE UNCHANGED vars
  BY <1>8, <1>2 DEF vars
<1>9. QED
  BY <1>4, <1>5, <1>6, <1>7, <1>8 DEF Next

\* Whatever addresses, keys, limits and durations there are, the bans in memory
\* and in the table together behave like the book of bans.
THEOREM GateKeepsTheBook == Spec => ImplementsBanBook
<1>1. Init => GateInv /\ Book!Init
  <2> SUFFICES ASSUME Init PROVE GateInv /\ Book!Init
    OBVIOUS
  <2>1. IsState(Fresh) /\ Fresh.expiry = 0 /\ Fresh.count = 0
    BY DEF IsState, Fresh
  <2>2. NoRow \in [count : Nat, expiry : Nat] /\ NoRow = Book!NoRow
    BY DEF NoRow, Book!NoRow
  <2>3. now = 0 /\ scene \in Scenes /\ states = [k \in Names |-> Fresh] /\ stored = [k \in Names |-> NoRow] /\ logins = {}
    BY DEF Init, GateInit
  <2>4. GateInv
    BY <2>1, <2>2, <2>3 DEF GateInv
  <2>5. Book!Init
    BY <2>1, <2>2, <2>3 DEF Book!Init
  <2>6. QED
    BY <2>4, <2>5
<1>2. GateInv /\ [Next]_vars => GateInv' /\ [Book!Next]_(Book!bookVars)
  BY GateStep
<1>3. QED
  BY <1>1, <1>2, PTL DEF Spec, ImplementsBanBook, Book!Spec

-----------------------------------------------------------------------------
(* What is counted: the entries of a list, and those of a history.         *)

Later(c) == {x \in Int : x > c}
Span(t, w) == {x \in Int : t - w < x /\ x <= t}
Hits(h, S) == {i \in DOMAIN h : h[i] \in S}
After(list, c) == {e \in list : e[1] > c}

\* The entries of an instant are numbered from zero.
IsList(list, n) ==
    /\ IsFiniteSet(list)
    /\ \A e \in list : /\ e = <<e[1], e[2]>> /\ e[1] \in Nat /\ e[1] <= n /\ e[2] \in Nat
                       /\ e[2] < Cardinality({d \in list : d[1] = e[1]})

LEMMA HitsFinite ==
    ASSUME NEW h \in Seq(Nat), NEW S
    PROVE  IsFiniteSet(Hits(h, S)) /\ Cardinality(Hits(h, S)) \in Nat
<1>1. Len(h) \in Nat /\ DOMAIN h = 1..Len(h)
  OBVIOUS
<1>2. IsFiniteSet(DOMAIN h)
  BY <1>1, FS_Interval
<1>3. Hits(h, S) \in SUBSET (DOMAIN h)
  BY DEF Hits
<1>4. QED
  BY <1>2, <1>3, FS_Subset, FS_CardinalityType

\* Fewer times have fewer hits.
LEMMA HitsWithin ==
    ASSUME NEW h \in Seq(Nat), NEW S, NEW T, \A i \in DOMAIN h : h[i] \in S => h[i] \in T
    PROVE  Cardinality(Hits(h, S)) <= Cardinality(Hits(h, T))
<1>1. Hits(h, S) \in SUBSET Hits(h, T)
  BY DEF Hits
<1>2. QED
  BY <1>1, HitsFinite, FS_Subset

\* One more time is one more hit, or none.
LEMMA HitsAppend ==
    ASSUME NEW h \in Seq(Nat), NEW x \in Nat, NEW S
    PROVE  /\ Append(h, x) \in Seq(Nat)
           /\ x \in S => Cardinality(Hits(Append(h, x), S)) = Cardinality(Hits(h, S)) + 1
           /\ x \notin S => Hits(Append(h, x), S) = Hits(h, S)
<1>1. PICK n \in Nat : n = Len(h)
  OBVIOUS
<1>2. /\ DOMAIN h = 1..n /\ DOMAIN Append(h, x) = 1..(n + 1) /\ Append(h, x) \in Seq(Nat)
      /\ Append(h, x)[n + 1] = x /\ \A i \in 1..n : Append(h, x)[i] = h[i]
  BY <1>1
<1>3. (\A i \in 1..(n + 1) : i \in 1..n \/ i = n + 1) /\ n + 1 \in 1..(n + 1) /\ 1..n \subseteq 1..(n + 1) /\ n + 1 \notin 1..n
  OBVIOUS
<1>4. Hits(Append(h, x), S) = IF x \in S THEN Hits(h, S) \cup {n + 1} ELSE Hits(h, S)
  BY <1>2, <1>3 DEF Hits
<1>5. n + 1 \notin Hits(h, S)
  BY <1>2, <1>3 DEF Hits
<1>6. Cardinality(Hits(h, S) \cup {n + 1}) = Cardinality(Hits(h, S)) + 1
  BY <1>5, HitsFinite, FS_AddElement
<1>7. QED
  BY <1>2, <1>4, <1>6

LEMMA NoHits ==
    ASSUME NEW S
    PROVE  <<>> \in Seq(Nat) /\ Hits(<<>>, S) = {} /\ Cardinality(Hits(<<>>, S)) = 0
<1>1. <<>> \in Seq(Nat) /\ Hits(<<>>, S) = {}
  BY DEF Hits
<1>2. Cardinality({}) = 0
  BY FS_EmptySet, Zenon
<1>3. QED
  BY <1>1, <1>2

LEMMA AfterFinite ==
    ASSUME NEW n, NEW list, IsList(list, n), NEW c
    PROVE  /\ IsFiniteSet(After(list, c)) /\ Cardinality(After(list, c)) \in Nat /\ Cardinality(list) \in Nat
           /\ Cardinality(After(list, c)) <= Cardinality(list)
<1>1. After(list, c) \in SUBSET list /\ IsFiniteSet(list)
  BY DEF After, IsList
<1>2. QED
  BY <1>1, FS_Subset, FS_CardinalityType

\* Old entries are dropped and one of this instant is added.
LEMMA ListAppend ==
    ASSUME now \in Nat, NEW list, IsList(list, now), NEW c \in Int
    PROVE  LET kept == After(list, c)
               new == kept \cup {Entry(kept)}
           IN  /\ IsList(kept, now) /\ IsList(new, now) /\ Cardinality(new) = Cardinality(kept) + 1
               /\ \A b \in Int : b >= c /\ b < now => Cardinality(After(new, b)) = Cardinality(After(list, b)) + 1
               /\ \A b \in Int : b >= c /\ b >= now => Cardinality(After(new, b)) = Cardinality(After(list, b))
<1> DEFINE kept == After(list, c)
           same == {e \in kept : e[1] = now}
<1>1. IsFiniteSet(kept) /\ kept \subseteq list
  BY AfterFinite DEF After
<1>2. IsList(kept, now)
  <2>1. ASSUME NEW e \in kept PROVE {d \in kept : d[1] = e[1]} = {d \in list : d[1] = e[1]}
    BY <2>1 DEF After
  <2>2. ASSUME NEW e \in kept
        PROVE  e = <<e[1], e[2]>> /\ e[1] \in Nat /\ e[1] <= now /\ e[2] \in Nat /\ e[2] < Cardinality({d \in kept : d[1] = e[1]})
    <3>1. e \in list
      BY <1>1
    <3>2. e = <<e[1], e[2]>> /\ e[1] \in Nat /\ e[1] <= now /\ e[2] \in Nat /\ e[2] < Cardinality({d \in list : d[1] = e[1]})
      BY <3>1 DEF IsList
    <3>3. Cardinality({d \in kept : d[1] = e[1]}) = Cardinality({d \in list : d[1] = e[1]})
      BY <2>1, Zenon
    <3>4. QED
      BY <3>2, <3>3
  <2>3. QED
    BY <1>1, <2>2 DEF IsList
<1>3. IsFiniteSet(same)
  <2>1. same \in SUBSET kept
    OBVIOUS
  <2>2. QED
    BY <1>1, <2>1, FS_Subset
<1>4. PICK m \in Nat : m = Cardinality(same)
  BY <1>3, FS_CardinalityType
<1>5. Entry(kept) = <<now, m>>
  BY <1>4 DEF Entry
<1>6. PICK x : x = <<now, m>> /\ x = Entry(kept)
  BY <1>5
<1>7. x[1] = now /\ x[2] = m /\ x = <<x[1], x[2]>>
  BY <1>6
<1>8. x \notin kept
  <2> SUFFICES ASSUME x \in kept PROVE FALSE
    OBVIOUS
  <2>1. x[2] < Cardinality({d \in kept : d[1] = x[1]})
    BY <1>2 DEF IsList
  <2>2. {d \in kept : d[1] = x[1]} = same
    BY <1>7
  <2>3. Cardinality({d \in kept : d[1] = x[1]}) = m
    BY <1>4, <2>2, Zenon
  <2>4. QED
    BY <1>4, <1>7, <2>1, <2>3
<1>9. PICK new : new = kept \cup {x}
  OBVIOUS
<1>10. IsFiniteSet(new) /\ Cardinality(new) = Cardinality(kept) + 1
  BY <1>1, <1>8, <1>9, FS_AddElement
<1>11. Cardinality({d \in new : d[1] = now}) = m + 1
  <2>1. {d \in new : d[1] = now} = same \cup {x}
    BY <1>7, <1>9
  <2>2. x \notin same
    BY <1>8
  <2>3. Cardinality(same \cup {x}) = m + 1
    BY <1>3, <1>4, <2>2, FS_AddElement
  <2>4. QED
    BY <2>1, <2>3, Zenon
<1>12. IsList(new, now)
  <2>1. ASSUME NEW e \in new
        PROVE  e = <<e[1], e[2]>> /\ e[1] \in Nat /\ e[1] <= now /\ e[2] \in Nat /\ e[2] < Cardinality({d \in new : d[1] = e[1]})
    <3>1. CASE e = x
      <4>1. Cardinality({d \in new : d[1] = e[1]}) = m + 1
        BY <1>7, <1>11, <3>1, Zenon
      <4>2. QED
        BY <1>4, <1>7, <3>1, <4>1
    <3>2. CASE e \in kept
      <4>1. e = <<e[1], e[2]>> /\ e[1] \in Nat /\ e[1] <= now /\ e[2] \in Nat /\ e[2] < Cardinality({d \in kept : d[1] = e[1]})
        BY <1>2, <3>2 DEF IsList
      <4>2. CASE e[1] = now
        <5>1. Cardinality({d \in kept : d[1] = e[1]}) = m
          BY <1>4, <4>2, Zenon
        <5>2. Cardinality({d \in new : d[1] = e[1]}) = m + 1
          BY <1>11, <4>2, Zenon
        <5>3. QED
          BY <1>4, <4>1, <5>1, <5>2
      <4>3. CASE e[1] # now
        <5>1. {d \in kept : d[1] = e[1]} = {d \in new : d[1] = e[1]}
          BY <1>7, <1>9, <4>3
        <5>2. Cardinality({d \in kept : d[1] = e[1]}) = Cardinality({d \in new : d[1] = e[1]})
          BY <5>1, Zenon
        <5>3. QED
          BY <4>1, <5>2
      <4>4. QED
        BY <4>2, <4>3
    <3>3. QED
      BY <1>9, <3>1, <3>2
  <2>2. QED
    BY <1>10, <2>1 DEF IsList
<1>13. ASSUME NEW b \in Int, b >= c
       PROVE  /\ b < now => Cardinality(After(new, b)) = Cardinality(After(list, b)) + 1
              /\ b >= now => Cardinality(After(new, b)) = Cardinality(After(list, b))
  <2>0. \A e \in list : e[1] \in Nat
    BY DEF IsList
  <2>1. After(kept, b) = After(list, b)
    BY <1>13, <2>0 DEF After
  <2>2. CASE b < now
    <3>1. After(new, b) = After(list, b) \cup {x}
      BY <1>7, <1>9, <2>1, <2>2 DEF After
    <3>2. x \notin After(list, b)
      BY <1>8, <2>1 DEF After
    <3>3. Cardinality(After(list, b) \cup {x}) = Cardinality(After(list, b)) + 1
      BY <3>2, AfterFinite, FS_AddElement
    <3>4. QED
      BY <2>2, <3>1, <3>3
  <2>3. CASE b >= now
    <3>1. After(new, b) = After(list, b)
      BY <1>7, <1>9, <2>1, <2>3 DEF After
    <3>2. QED
      BY <2>3, <3>1
  <2>4. QED
    BY <2>2, <2>3
<1>14. kept \cup {Entry(kept)} = new
  BY <1>6, <1>9
<1> HIDE DEF kept
<1>15. QED
  BY <1>2, <1>10, <1>12, <1>13, <1>14 DEF kept
-----------------------------------------------------------------------------
(* The guesses at the passwords behind one key.                            *)

\* Of a key: its guesses g, the logins L being compared and the state s at
\* time n.  The windows that have passed are settled; the one that ends now is
\* counted by the failures while the key is free, and while it is banned
\* nothing new begins.
Bound == MaxFails - 1 + Cardinality(Requests)
Under(L, t) == {r \in L : r.at \in Span(t, Window)}
Fits(g, L, t) == Cardinality(Hits(g, Span(t, Window))) + Cardinality(Under(L, t)) <= Bound
KeyTypes(g, L, s, n) ==
    /\ g \in Seq(Nat) /\ \A i \in DOMAIN g : g[i] <= n
    /\ IsFiniteSet(L) /\ Cardinality(L) <= Cardinality(Requests) /\ \A r \in L : r.at \in Nat /\ r.at <= n
    /\ IsState(s) /\ IsList(s.failures, n) /\ Cardinality(s.failures) < MaxFails
KeySettled(g, L, n) == \A t \in Nat : t < n => Fits(g, L, t)
KeyFree(g, s, n) ==
    s.expiry = 0 => \A c \in Int : c >= n - Window => Cardinality(Hits(g, Later(c))) <= Cardinality(After(s.failures, c))
KeyHeld(g, L, s, n) ==
    /\ s.expiry \notin {0, Forever} => /\ \A i \in DOMAIN g : g[i] + Window <= s.expiry
                                       /\ \A r \in L : r.at + Window <= s.expiry
    /\ s.expiry > n => Fits(g, L, n)
KeyInv(g, L, s, n) == KeyTypes(g, L, s, n) /\ KeySettled(g, L, n) /\ KeyFree(g, s, n) /\ KeyHeld(g, L, s, n)

LEMMA GateNumbers ==
    /\ MaxFails \in Nat \ {0} /\ Window \in Nat \ {0} /\ Forever \in Nat /\ Forever > MaxTime /\ MaxTime \in Nat \ {0}
    /\ IsFiniteSet(Requests) /\ Cardinality(Requests) \in Nat /\ Bound \in Nat /\ Bound >= Cardinality(Requests)
<1>1. MaxFails \in Nat \ {0} /\ Window \in Nat \ {0} /\ Forever \in Nat /\ Forever > MaxTime
  BY GateAssumption
<1>2. MaxTime \in Nat \ {0} /\ IsFiniteSet(Requests)
  BY ClockAssumption, LimiterAssumption
<1>3. Cardinality(Requests) \in Nat
  BY <1>2, FS_CardinalityType
<1>4. QED
  BY <1>1, <1>2, <1>3 DEF Bound

LEMMA UnderFinite ==
    ASSUME NEW L, IsFiniteSet(L), NEW t
    PROVE  IsFiniteSet(Under(L, t)) /\ Cardinality(Under(L, t)) \in Nat /\ Cardinality(Under(L, t)) <= Cardinality(L)
           /\ Cardinality(L) \in Nat
<1>1. Under(L, t) \in SUBSET L
  BY DEF Under
<1>2. QED
  BY <1>1, FS_Subset, FS_CardinalityType

\* The window that ends now is bounded, too.
LEMMA KeyFits ==
    ASSUME NEW g, NEW L, NEW s, NEW n \in Nat, n <= MaxTime, KeyInv(g, L, s, n)
    PROVE  \A t \in Nat : t <= n => Fits(g, L, t)
<1> USE GateNumbers
<1>1. g \in Seq(Nat) /\ IsFiniteSet(L) /\ s.expiry \in Nat /\ IsList(s.failures, n)
  BY DEF KeyInv, KeyTypes, IsState
<1>2. PICK a \in Nat : a = Cardinality(Hits(g, Span(n, Window)))
  BY <1>1, HitsFinite
<1>3. PICK u \in Nat : u = Cardinality(Under(L, n)) /\ u <= Cardinality(Requests)
  <2>1. Cardinality(L) <= Cardinality(Requests)
    BY DEF KeyInv, KeyTypes
  <2>2. QED
    BY <1>1, <2>1, UnderFinite
<1>4. \A i \in DOMAIN g : g[i] \in Nat /\ g[i] <= n
  BY <1>1 DEF KeyInv, KeyTypes
<1>5. ASSUME ~(s.expiry > n) PROVE a <= MaxFails - 1
  <2>1. CASE s.expiry = 0
    <3>1. Cardinality(Hits(g, Later(n - Window))) <= Cardinality(After(s.failures, n - Window))
      BY <2>1 DEF KeyInv, KeyFree
    <3>2. Cardinality(After(s.failures, n - Window)) <= Cardinality(s.failures) /\ Cardinality(s.failures) \in Nat
          /\ Cardinality(After(s.failures, n - Window)) \in Nat
      BY <1>1, AfterFinite
    <3>3. Cardinality(s.failures) < MaxFails
      BY DEF KeyInv, KeyTypes
    <3>4. a <= Cardinality(Hits(g, Later(n - Window)))
      <4>1. \A i \in DOMAIN g : g[i] \in Span(n, Window) => g[i] \in Later(n - Window)
        BY DEF Span, Later
      <4>2. QED
        BY <1>1, <1>2, <4>1, HitsWithin
    <3>5. Cardinality(Hits(g, Later(n - Window))) \in Nat
      BY <1>1, HitsFinite
    <3>6. QED
      BY <1>2, <3>1, <3>2, <3>3, <3>4, <3>5
  <2>2. CASE s.expiry # 0
    <3>1. s.expiry <= n /\ s.expiry # Forever
      BY <1>1, <1>5
    <3>2. \A i \in DOMAIN g : g[i] + Window <= s.expiry
      BY <2>2, <3>1 DEF KeyInv, KeyHeld
    <3>3. Hits(g, Span(n, Window)) = {}
      BY <1>1, <1>4, <3>1, <3>2 DEF Hits, Span
    <3>4. a = 0
      <4>1. Cardinality({}) = 0
        BY FS_EmptySet, Zenon
      <4>2. QED
        BY <1>2, <3>3, <4>1
    <3>5. QED
      BY <3>4
  <2>3. QED
    BY <2>1, <2>2
<1>6. Fits(g, L, n)
  <2>1. CASE s.expiry > n
    BY <2>1 DEF KeyInv, KeyHeld
  <2>2. CASE ~(s.expiry > n)
    <3>1. a + u <= MaxFails - 1 + Cardinality(Requests)
      BY <1>2, <1>3, <1>5, <2>2
    <3>2. QED
      BY <1>2, <1>3, <3>1 DEF Fits, Bound
  <2>3. QED
    BY <2>1, <2>2
<1>7. QED
  BY <1>6 DEF KeyInv, KeySettled

\* Fewer logins, or another state that counts as many failures.
LEMMA KeyFewer ==
    ASSUME NEW g, NEW L, NEW s, NEW n \in Nat, KeyInv(g, L, s, n), NEW M, M \subseteq L
    PROVE  KeyInv(g, M, s, n)
<1>1. g \in Seq(Nat) /\ IsFiniteSet(L) /\ M \in SUBSET L
  BY DEF KeyInv, KeyTypes
<1>2. IsFiniteSet(M) /\ Cardinality(M) <= Cardinality(L) /\ Cardinality(M) \in Nat /\ Cardinality(L) \in Nat
  BY <1>1, FS_Subset, FS_CardinalityType
<1>3. ASSUME NEW t, Fits(g, L, t) PROVE Fits(g, M, t)
  <2>1. Under(M, t) \in SUBSET Under(L, t)
    BY DEF Under
  <2>2. Cardinality(Under(M, t)) <= Cardinality(Under(L, t)) /\ Cardinality(Under(M, t)) \in Nat /\ Cardinality(Under(L, t)) \in Nat
    BY <1>1, <1>2, <2>1, UnderFinite, FS_Subset
  <2>3. Cardinality(Hits(g, Span(t, Window))) \in Nat
    BY <1>1, HitsFinite
  <2>4. QED
    BY <1>3, <2>2, <2>3, GateNumbers DEF Fits
<1>4. KeyTypes(g, M, s, n)
  <2>1. Cardinality(M) <= Cardinality(Requests)
    BY <1>2, GateNumbers DEF KeyInv, KeyTypes
  <2>2. QED
    BY <1>2, <2>1 DEF KeyInv, KeyTypes
<1>5. KeySettled(g, M, n)
  BY <1>3 DEF KeyInv, KeySettled
<1>6. KeyHeld(g, M, s, n)
  BY <1>3 DEF KeyInv, KeyHeld
<1>7. QED
  BY <1>4, <1>5, <1>6 DEF KeyInv

\* A ban that has run out, or no recent failure: nothing is left to count.
LEMMA KeyFresh ==
    ASSUME NEW g, NEW L, NEW s, NEW n \in Nat, n <= MaxTime, KeyInv(g, L, s, n),
           ~(s.expiry > n), s.expiry # 0 \/ After(s.failures, n - Window) = {},
           NEW z, IsState(z), z.failures = {}, z.expiry \in {0, s.expiry}
    PROVE  KeyInv(g, L, z, n)
<1> USE GateNumbers
<1>1. g \in Seq(Nat) /\ s.expiry \in Nat /\ \A i \in DOMAIN g : g[i] \in Nat
  BY DEF KeyInv, KeyTypes, IsState
<1>2. Cardinality({}) = 0 /\ IsFiniteSet({})
  BY FS_EmptySet, Zenon
<1>3. KeyTypes(g, L, z, n)
  <2>1. IsList(z.failures, n) /\ Cardinality(z.failures) = 0
    BY <1>2 DEF IsList
  <2>2. QED
    BY <2>1 DEF KeyInv, KeyTypes
<1>4. KeyFree(g, z, n)
  <2> SUFFICES ASSUME NEW c \in Int, c >= n - Window
               PROVE  Cardinality(Hits(g, Later(c))) <= Cardinality(After(z.failures, c))
    BY DEF KeyFree
  <2>0. After(z.failures, c) = {} /\ Cardinality(After(z.failures, c)) = 0
    BY <1>2 DEF After
  <2>1. CASE s.expiry # 0
    <3>1. \A i \in DOMAIN g : g[i] + Window <= s.expiry
      BY <1>1, <2>1 DEF KeyInv, KeyHeld
    <3>2. Hits(g, Later(c)) = {}
      BY <1>1, <3>1 DEF Hits, Later
    <3>3. QED
      BY <1>2, <2>0, <3>2
  <2>2. CASE s.expiry = 0 /\ After(s.failures, n - Window) = {}
    <3>1. Cardinality(Hits(g, Later(c))) <= Cardinality(After(s.failures, c))
      BY <2>2 DEF KeyInv, KeyFree
    <3>2. \A e \in s.failures : e[1] \in Nat
      BY DEF KeyInv, KeyTypes, IsList
    <3>3. After(s.failures, c) = {}
      BY <2>2, <3>2 DEF After
    <3>4. Cardinality(After(s.failures, c)) = 0
      BY <1>2, <3>3
    <3>5. QED
      BY <2>0, <3>1, <3>4
  <2>3. QED
    BY <2>1, <2>2
<1>5. KeyHeld(g, L, z, n)
  BY <1>1 DEF KeyInv, KeyHeld
<1>6. QED
  BY <1>3, <1>4, <1>5 DEF KeyInv

\* The guesses are forgotten, and the failures with them.
LEMMA KeyCleared ==
    ASSUME NEW L, NEW s, NEW n \in Nat, IsState(s), s.failures = {},
           IsFiniteSet(L), Cardinality(L) <= Cardinality(Requests), \A r \in L : r.at \in Nat /\ r.at <= n,
           s.expiry \notin {0, Forever} => \A r \in L : r.at + Window <= s.expiry
    PROVE  KeyInv(<<>>, L, s, n)
<1> USE GateNumbers
<1>1. Cardinality({}) = 0 /\ IsFiniteSet({})
  BY FS_EmptySet, Zenon
<1>2. ASSUME NEW t PROVE Fits(<<>>, L, t)
  <2>1. Cardinality(Hits(<<>>, Span(t, Window))) = 0
    BY NoHits
  <2>2. Cardinality(Under(L, t)) \in Nat /\ Cardinality(Under(L, t)) <= Cardinality(L) /\ Cardinality(L) \in Nat
    BY UnderFinite
  <2>3. QED
    BY <2>1, <2>2 DEF Fits
<1>3. KeyTypes(<<>>, L, s, n)
  <2>1. IsList(s.failures, n) /\ Cardinality(s.failures) = 0
    BY <1>1 DEF IsList
  <2>2. <<>> \in Seq(Nat) /\ DOMAIN <<>> = {}
    BY NoHits
  <2>3. QED
    BY <2>1, <2>2 DEF KeyTypes
<1>4. KeyFree(<<>>, s, n)
  <2> SUFFICES ASSUME NEW c \in Int
               PROVE  Cardinality(Hits(<<>>, Later(c))) <= Cardinality(After(s.failures, c))
    BY DEF KeyFree
  <2>1. After(s.failures, c) = {}
    BY DEF After
  <2>2. Cardinality(After(s.failures, c)) = 0
    BY <1>1, <2>1
  <2>3. Cardinality(Hits(<<>>, Later(c))) = 0
    BY NoHits
  <2>4. QED
    BY <2>2, <2>3
<1>5. KeyHeld(<<>>, L, s, n)
  <2>1. DOMAIN <<>> = {}
    OBVIOUS
  <2>2. QED
    BY <1>2, <2>1 DEF KeyHeld
<1>6. QED
  BY <1>2, <1>3, <1>4, <1>5 DEF KeyInv, KeySettled

\* A login begins at a key that is free.
LEMMA KeyBegins ==
    ASSUME NEW g, NEW L, NEW s, NEW n \in Nat, KeyInv(g, L, s, n), s.expiry = 0,
           NEW r, r.at = n, IsFiniteSet(L \cup {r}), Cardinality(L \cup {r}) <= Cardinality(Requests)
    PROVE  KeyInv(g, L \cup {r}, s, n)
<1>1. KeyTypes(g, L \cup {r}, s, n)
  BY DEF KeyInv, KeyTypes
<1>2. ASSUME NEW t \in Nat, t < n PROVE Under(L \cup {r}, t) = Under(L, t)
  BY <1>2 DEF Under, Span
<1>3. KeySettled(g, L \cup {r}, n)
  BY <1>2 DEF KeyInv, KeySettled, Fits
<1>4. KeyHeld(g, L \cup {r}, s, n)
  BY DEF KeyInv, KeyHeld
<1>5. QED
  BY <1>1, <1>3, <1>4 DEF KeyInv

\* Time passes.
LEMMA KeyTicks ==
    ASSUME NEW g, NEW L, NEW s, NEW n \in Nat, n + 1 <= MaxTime, KeyInv(g, L, s, n)
    PROVE  KeyInv(g, L, s, n + 1)
<1> USE GateNumbers
<1>1. g \in Seq(Nat) /\ IsFiniteSet(L) /\ s.expiry \in Nat /\ n <= MaxTime
  BY DEF KeyInv, KeyTypes, IsState
<1>2. /\ \A i \in DOMAIN g : g[i] \in Nat /\ g[i] <= n
      /\ \A r \in L : r.at \in Nat /\ r.at <= n
  BY <1>1 DEF KeyInv, KeyTypes
<1>3. KeyTypes(g, L, s, n + 1)
  <2>1. IsList(s.failures, n + 1)
    <3>1. \A x \in Nat : x <= n => x <= n + 1
      OBVIOUS
    <3>2. QED
      BY <3>1 DEF KeyInv, KeyTypes, IsList
  <2>2. QED
    BY <1>2, <2>1 DEF KeyInv, KeyTypes
<1>4. \A t \in Nat : t <= n => Fits(g, L, t)
  BY <1>1, KeyFits
<1>5. KeySettled(g, L, n + 1)
  BY <1>4 DEF KeySettled
<1>6. KeyFree(g, s, n + 1)
  BY DEF KeyInv, KeyFree
<1>7. KeyHeld(g, L, s, n + 1)
  <2>1. Fits(g, L, n + 1)
    <3>1. Cardinality(Hits(g, Span(n + 1, Window))) <= Cardinality(Hits(g, Span(n, Window)))
      <4>1. \A i \in DOMAIN g : g[i] \in Span(n + 1, Window) => g[i] \in Span(n, Window)
        BY <1>2 DEF Span
      <4>2. QED
        BY <1>1, <4>1, HitsWithin
    <3>2. Cardinality(Under(L, n + 1)) <= Cardinality(Under(L, n))
      <4>1. Under(L, n + 1) \in SUBSET Under(L, n)
        BY <1>2 DEF Under, Span
      <4>2. QED
        BY <1>1, <4>1, UnderFinite, FS_Subset
    <3>3. /\ Cardinality(Hits(g, Span(n + 1, Window))) \in Nat /\ Cardinality(Hits(g, Span(n, Window))) \in Nat
          /\ Cardinality(Under(L, n + 1)) \in Nat /\ Cardinality(Under(L, n)) \in Nat
      BY <1>1, HitsFinite, UnderFinite
    <3>4. Fits(g, L, n)
      BY <1>4
    <3>5. QED
      BY <3>1, <3>2, <3>3, <3>4 DEF Fits
  <2>2. QED
    BY <2>1 DEF KeyInv, KeyHeld
<1>8. QED
  BY <1>3, <1>5, <1>6, <1>7 DEF KeyInv

\* A login fails: it moves from those under way to the guesses, and counts.
LEMMA KeyFails ==
    ASSUME now \in Nat, now <= MaxTime, NEW g, NEW L, NEW s, KeyInv(g, L, s, now), NEW r \in L
    PROVE  KeyInv(Append(g, r.at), L \ {r}, RecordFailure(s), now)
<1> USE GateNumbers
<1>1. /\ g \in Seq(Nat) /\ IsFiniteSet(L) /\ r.at \in Nat /\ r.at <= now /\ IsState(s) /\ s.expiry \in Nat /\ s.count \in Nat
      /\ IsList(s.failures, now) /\ Cardinality(L) <= Cardinality(Requests)
  BY DEF KeyInv, KeyTypes, IsState
<1>2. PICK h \in Seq(Nat) : h = Append(g, r.at)
  <2>1. \A x \in Nat : Append(g, x) \in Seq(Nat)
    BY <1>1
  <2>2. QED
    BY <1>1, <2>1
<1>3. PICK M : M = L \ {r}
  OBVIOUS
<1>4. IsFiniteSet(M) /\ Cardinality(M) <= Cardinality(Requests) /\ M \subseteq L
  <2>1. IsFiniteSet(M) /\ Cardinality(M) = Cardinality(L) - 1 /\ Cardinality(L) \in Nat
    BY <1>1, <1>3, FS_RemoveElement, FS_CardinalityType
  <2>2. QED
    BY <1>1, <1>3, <2>1
<1>5. \A i \in DOMAIN h : h[i] \in Nat /\ h[i] <= now /\ (h[i] = r.at \/ \E j \in DOMAIN g : h[i] = g[j])
  <2>1. \A i \in DOMAIN g : g[i] \in Nat /\ g[i] <= now
    BY <1>1 DEF KeyInv, KeyTypes
  <2>2. QED
    BY <1>1, <1>2, <2>1
<1>6. ASSUME NEW t, Fits(g, L, t) PROVE Fits(h, M, t)
  <2>1. PICK a \in Nat, u \in Nat : a = Cardinality(Hits(g, Span(t, Window))) /\ u = Cardinality(Under(L, t))
    BY <1>1, HitsFinite, UnderFinite
  <2>2. CASE r.at \in Span(t, Window)
    <3>1. Cardinality(Hits(h, Span(t, Window))) = a + 1
      BY <1>1, <1>2, <2>1, <2>2, HitsAppend
    <3>2. Under(M, t) = Under(L, t) \ {r} /\ r \in Under(L, t)
      BY <1>3, <2>2 DEF Under
    <3>3. IsFiniteSet(Under(L, t))
      BY <1>1, UnderFinite
    <3>4. Cardinality(Under(M, t)) = u - 1
      <4>1. Cardinality(Under(L, t) \ {r}) = Cardinality(Under(L, t)) - 1
        BY <3>2, <3>3, FS_RemoveElement
      <4>2. QED
        BY <2>1, <3>2, <4>1
    <3>5. QED
      BY <1>6, <2>1, <3>1, <3>4 DEF Fits
  <2>3. CASE r.at \notin Span(t, Window)
    <3>1. Hits(h, Span(t, Window)) = Hits(g, Span(t, Window))
      BY <1>1, <1>2, <2>3, HitsAppend
    <3>2. Under(M, t) = Under(L, t)
      BY <1>3, <2>3 DEF Under
    <3>3. QED
      BY <1>6, <3>1, <3>2 DEF Fits
  <2>4. QED
    BY <2>2, <2>3
<1>7. KeySettled(h, M, now) /\ Fits(h, M, now)
  <2>1. \A t \in Nat : t <= now => Fits(g, L, t)
    BY KeyFits
  <2>2. QED
    BY <1>6, <2>1 DEF KeySettled
<1>8. ASSUME NEW z, IsState(z), IsList(z.failures, now), Cardinality(z.failures) < MaxFails
      PROVE  KeyTypes(h, M, z, now)
  <2>1. \A x \in M : x.at \in Nat /\ x.at <= now
    BY <1>3 DEF KeyInv, KeyTypes
  <2>2. QED
    BY <1>2, <1>4, <1>5, <1>8, <2>1 DEF KeyTypes
<1>9. ASSUME NEW z, z.expiry = s.expiry PROVE KeyHeld(h, M, z, now)
  <2>1. s.expiry \notin {0, Forever} => /\ \A i \in DOMAIN g : g[i] + Window <= s.expiry
                                        /\ \A x \in L : x.at + Window <= s.expiry
    BY DEF KeyInv, KeyHeld
  <2>2. s.expiry \notin {0, Forever} => \A i \in DOMAIN h : h[i] + Window <= s.expiry
    BY <1>5, <2>1
  <2>3. QED
    BY <1>4, <1>7, <1>9, <2>1, <2>2 DEF KeyHeld
<1>10. CASE Active(s)
  <2>1. RecordFailure(s) = s
    BY <1>10 DEF RecordFailure
  <2>2. KeyTypes(h, M, s, now)
    BY <1>1, <1>8 DEF KeyInv, KeyTypes
  <2>3. KeyFree(h, s, now)
    BY <1>1, <1>10 DEF Active, KeyFree
  <2>4. KeyHeld(h, M, s, now)
    BY <1>9
  <2>5. KeyInv(h, M, s, now)
    BY <1>7, <2>2, <2>3, <2>4 DEF KeyInv
  <2>6. QED
    BY <1>2, <1>3, <2>1, <2>5
<1>11. CASE ~Active(s) /\ Bans(s)
  <2>1. PICK z : z = RecordFailure(s)
    OBVIOUS
  <2>2. z = [failures |-> {}, expiry |-> Expiry(s), count |-> s.count + 1]
    BY <1>11, <2>1 DEF RecordFailure, Imposed
  <2>3. z.failures = {} /\ z.expiry = Expiry(s)
    BY <2>2
  <2>4. IsState(z)
    BY <1>1, <2>1, FailureCounts
  <2>5. Expiry(s) = Forever \/ (Expiry(s) \in Nat /\ Expiry(s) >= now + Window)
    <3>1. BanDurs \in Seq(Nat) /\ BanDurs # <<>> /\ \A i \in DOMAIN BanDurs : BanDurs[i] = 0 \/ BanDurs[i] >= Window
      BY GateAssumption
    <3>2. PICK d : d = banDurFor(s.count)
      OBVIOUS
    <3>3. \E i \in DOMAIN BanDurs : d = BanDurs[i]
      BY <1>1, <3>1, <3>2 DEF banDurFor
    <3>4. d \in Nat /\ (d = 0 \/ d >= Window)
      BY <3>1, <3>3
    <3>5. Expiry(s) = IF d = 0 THEN Forever ELSE now + d
      BY <3>2 DEF Expiry
    <3>6. QED
      BY <3>4, <3>5
  <2>6. Cardinality({}) = 0 /\ IsFiniteSet({})
    BY FS_EmptySet, Zenon
  <2>7. IsList(z.failures, now) /\ Cardinality(z.failures) < MaxFails
    BY <2>3, <2>6 DEF IsList
  <2>8. KeyTypes(h, M, z, now)
    BY <1>8, <2>4, <2>7
  <2>9. KeyFree(h, z, now)
    BY <2>3, <2>5 DEF KeyFree
  <2>10. KeyHeld(h, M, z, now)
    <3>1. \A x \in M : x.at \in Nat /\ x.at <= now
      BY <1>3 DEF KeyInv, KeyTypes
    <3>2. z.expiry # Forever => \A x \in Nat : x <= now => x + Window <= z.expiry
      BY <2>3, <2>5
    <3>3. z.expiry \notin {0, Forever} => (\A i \in DOMAIN h : h[i] + Window <= z.expiry) /\ (\A x \in M : x.at + Window <= z.expiry)
      BY <1>5, <3>1, <3>2
    <3>4. QED
      BY <1>7, <3>3 DEF KeyHeld
  <2>11. KeyInv(h, M, z, now)
    BY <1>7, <2>8, <2>9, <2>10 DEF KeyInv
  <2>12. QED
    BY <1>2, <1>3, <2>1, <2>11
<1>12. CASE ~Active(s) /\ ~Bans(s)
  <2>1. PICK z : z = RecordFailure(s)
    OBVIOUS
  <2>2. now - Window \in Int
    OBVIOUS
  <2>3. PICK kept : kept = After(s.failures, now - Window) /\ kept = Valid(s)
    BY DEF After, Valid, Recent
  <2>4. PICK new : new = kept \cup {Entry(kept)}
    OBVIOUS
  <2>5. z = [s EXCEPT !.failures = new]
    BY <1>12, <2>1, <2>3, <2>4 DEF RecordFailure
  <2>6. z.failures = new /\ z.expiry = s.expiry
    BY <1>1, <2>5 DEF IsState
  <2>7. IsState(z)
    BY <1>1, <2>1, FailureCounts
  <2>8. /\ IsList(kept, now) /\ IsList(new, now) /\ Cardinality(new) = Cardinality(kept) + 1
        /\ \A b \in Int : b >= now - Window /\ b < now => Cardinality(After(new, b)) = Cardinality(After(s.failures, b)) + 1
        /\ \A b \in Int : b >= now - Window /\ b >= now => Cardinality(After(new, b)) = Cardinality(After(s.failures, b))
    <3>1. PICK list : list = s.failures
      OBVIOUS
    <3>2. IsList(list, now)
      BY <1>1, <3>1
    <3>3. PICK c \in Int : c = now - Window
      BY <2>2
    <3>4. kept = After(list, c)
      BY <2>3, <3>1, <3>3
    <3>5. /\ IsList(kept, now) /\ IsList(new, now) /\ Cardinality(new) = Cardinality(kept) + 1
          /\ \A b \in Int : b >= c /\ b < now => Cardinality(After(new, b)) = Cardinality(After(list, b)) + 1
          /\ \A b \in Int : b >= c /\ b >= now => Cardinality(After(new, b)) = Cardinality(After(list, b))
      BY <2>4, <3>2, <3>4, ListAppend
    <3>6. QED
      BY <3>1, <3>3, <3>5
  <2>9. Cardinality(new) < MaxFails
    <3>1. ~(Cardinality(kept) + 1 >= MaxFails)
      BY <1>12, <2>3 DEF Bans
    <3>2. Cardinality(kept) \in Nat
      BY <2>8, AfterFinite
    <3>3. QED
      BY <2>8, <3>1, <3>2
  <2>10. KeyTypes(h, M, z, now)
    BY <1>8, <2>6, <2>7, <2>8, <2>9
  <2>11. KeyFree(h, z, now)
    <3> SUFFICES ASSUME s.expiry = 0, NEW c \in Int, c >= now - Window
                 PROVE  Cardinality(Hits(h, Later(c))) <= Cardinality(After(new, c))
      BY <2>6 DEF KeyFree
    <3>1. PICK a \in Nat, b \in Nat : a = Cardinality(Hits(g, Later(c))) /\ b = Cardinality(After(s.failures, c)) /\ a <= b
      BY <1>1, HitsFinite, AfterFinite DEF KeyInv, KeyFree
    <3>2. CASE r.at > c
      <4>1. r.at \in Later(c) /\ c < now
        BY <1>1, <3>2 DEF Later
      <4>2. Cardinality(Hits(h, Later(c))) = a + 1
        BY <1>1, <1>2, <3>1, <4>1, HitsAppend
      <4>3. Cardinality(After(new, c)) = b + 1
        BY <2>8, <3>1, <4>1
      <4>4. QED
        BY <3>1, <4>2, <4>3
    <3>3. CASE ~(r.at > c)
      <4>1. r.at \notin Later(c)
        BY <1>1, <3>3 DEF Later
      <4>2. Hits(h, Later(c)) = Hits(g, Later(c))
        BY <1>1, <1>2, <4>1, HitsAppend
      <4>3. Cardinality(Hits(h, Later(c))) = a
        BY <3>1, <4>2
      <4>4. Cardinality(After(new, c)) = b \/ Cardinality(After(new, c)) = b + 1
        BY <2>8, <3>1
      <4>5. QED
        BY <3>1, <4>3, <4>4
    <3>4. QED
      BY <3>2, <3>3
  <2>12. KeyHeld(h, M, z, now)
    BY <1>9, <2>6
  <2>13. KeyInv(h, M, z, now)
    BY <1>7, <2>10, <2>11, <2>12 DEF KeyInv
  <2>14. QED
    BY <1>2, <1>3, <2>1, <2>13
<1>13. QED
  BY <1>10, <1>11, <1>12

\* The logins of a key that are counted, between the look at its ban and the
\* comparison.
Comparing(k) == {r \in logins : r.pc = "compare" /\ r.client \notin Trusted /\ Key[r.client] = k}
LoginTypes ==
    /\ \A r \in logins : r.req \in Requests /\ r.at \in Nat /\ r.at <= now
    /\ \A r, q \in logins : r.req = q.req => r = q
GuessInv ==
    /\ GateInv /\ now <= scene.time /\ LoginTypes
    /\ guesses = [k \in Names |-> guesses[k]]
    /\ \A k \in Names : KeyInv(guesses[k], Comparing(k), states[k], now)

\* There is one login for each slot of a request.
LEMMA LoginsFit ==
    ASSUME NEW Q, \A r \in Q : r.req \in Requests, \A r, q \in Q : r.req = q.req => r = q, NEW M, M \subseteq Q
    PROVE  IsFiniteSet(M) /\ Cardinality(M) <= Cardinality(Requests)
<1> DEFINE f == [r \in M |-> r.req]
<1>1. f \in [M -> Requests] /\ \A r, q \in M : f[r] = f[q] => r = q
  OBVIOUS
<1>2. f \in Injection(M, Requests)
  BY <1>1 DEF Injection, IsInjective
<1>3. QED
  BY <1>2, GateNumbers, FS_Injection

\* What the operations leave of the failures and the ban of a key.
LEMMA StateAfter ==
    ASSUME now \in Nat, NEW s, IsState(s)
    PROVE  /\ IsState(AfterLook(s)) /\ IsState(ClearFailures(s)) /\ IsState(Fresh) /\ IsState(cleanupAt(s))
           /\ Fresh.failures = {} /\ Fresh.expiry = 0
           /\ ClearFailures(s).failures = {} /\ ClearFailures(s).expiry = s.expiry
           /\ s.expiry = 0 \/ Active(s) => AfterLook(s) = s
           /\ s.expiry # 0 /\ ~Active(s) => AfterLook(s).failures = {} /\ AfterLook(s).expiry = 0
<1>1. IsState(Fresh) /\ Fresh.failures = {} /\ Fresh.expiry = 0
  BY DEF IsState, Fresh
<1>2. ClearFailures(s).failures = {} /\ ClearFailures(s).expiry = s.expiry
  BY DEF IsState, ClearFailures
<1>3. s.expiry = 0 \/ Active(s) => AfterLook(s) = s
  BY DEF IsState, AfterLook, Active
<1>4. ASSUME s.expiry # 0, ~Active(s) PROVE AfterLook(s).failures = {} /\ AfterLook(s).expiry = 0
  <2>1. s.expiry # 0 /\ s.expiry <= now
    BY <1>4 DEF IsState, Active
  <2>2. AfterLook(s) = [failures |-> {}, expiry |-> 0, count |-> s.count]
    BY <2>1 DEF IsState, AfterLook
  <2>3. QED
    BY <2>2
<1>5. QED
  BY <1>1, <1>2, <1>3, <1>4, SameBan

\* A look, and the cleanup.
LEMMA KeyLooked ==
    ASSUME now \in Nat, now <= MaxTime, NEW g, NEW L, NEW s, KeyInv(g, L, s, now)
    PROVE  KeyInv(g, L, AfterLook(s), now) /\ KeyInv(g, L, cleanupAt(s), now)
<1>1. IsState(s) /\ s.expiry \in Nat
  BY DEF KeyInv, KeyTypes, IsState
<1>2. KeyInv(g, L, AfterLook(s), now)
  <2>1. CASE s.expiry = 0 \/ Active(s)
    BY <1>1, <2>1, StateAfter
  <2>2. CASE s.expiry # 0 /\ ~Active(s)
    <3>1. PICK z : z = AfterLook(s)
      OBVIOUS
    <3>2. IsState(z) /\ z.failures = {} /\ z.expiry = 0
      BY <1>1, <2>2, <3>1, StateAfter
    <3>3. ~(s.expiry > now)
      BY <2>2 DEF Active
    <3>4. KeyInv(g, L, z, now)
      BY <2>2, <3>2, <3>3, KeyFresh
    <3>5. QED
      BY <3>1, <3>4
  <2>3. QED
    BY <2>1, <2>2
<1>3. KeyInv(g, L, cleanupAt(s), now)
  <2>1. CASE cleanupAt(s) = s
    BY <2>1
  <2>2. CASE ~Active(s) /\ Recent(s) = {} /\ cleanupAt(s) \in {Fresh, ClearFailures(s)}
    <3>1. PICK z : z = cleanupAt(s)
      OBVIOUS
    <3>2. IsState(z) /\ z.failures = {} /\ z.expiry \in {0, s.expiry}
      BY <1>1, <2>2, <3>1, StateAfter
    <3>3. ~(s.expiry > now) /\ After(s.failures, now - Window) = {}
      BY <2>2 DEF Active, Recent, After
    <3>4. KeyInv(g, L, z, now)
      BY <3>2, <3>3, KeyFresh
    <3>5. QED
      BY <3>1, <3>4
  <2>3. QED
    BY <2>1, <2>2 DEF cleanupAt
<1>4. QED
  BY <1>2, <1>3

\* The facts that the steps use.
LEMMA GuessFacts ==
    ASSUME GuessInv
    PROVE  /\ now \in Nat /\ scene \in Scenes /\ now <= MaxTime /\ LoginTypes
           /\ states = [k \in Names |-> states[k]] /\ \A k \in Names : IsState(states[k])
           /\ \A k \in Names : IsFiniteSet(Comparing(k)) /\ Cardinality(Comparing(k)) <= Cardinality(Requests)
           /\ \A r \in logins : IsLogin(r) /\ r.client \in Clients /\ Key[r.client] \in Names
<1>1. now \in Nat /\ scene \in Scenes /\ scene.time \in 0..MaxTime /\ LoginTypes
  BY SceneAssumption DEF GuessInv, GateInv
<1>2. now <= MaxTime
  BY <1>1, GateNumbers DEF GuessInv
<1>3. states = [k \in Names |-> states[k]] /\ \A k \in Names : IsState(states[k])
  BY DEF GuessInv, GateInv
<1>4. \A r \in logins : IsLogin(r) /\ r.client \in Clients /\ Key[r.client] \in Names
  BY KeysAreNames DEF GuessInv, GateInv, IsLogin
<1>5. \A k \in Names : IsFiniteSet(Comparing(k)) /\ Cardinality(Comparing(k)) <= Cardinality(Requests)
  BY DEF GuessInv, KeyInv, KeyTypes
<1>6. QED
  BY <1>1, <1>2, <1>3, <1>4, <1>5

\* Logins that go, or change their place in the handler.
LEMMA LoginsGo ==
    ASSUME GuessInv, now' = now, logins' \subseteq logins
    PROVE  LoginTypes' /\ \A k \in Names : Comparing(k)' \subseteq Comparing(k)
BY DEF GuessInv, LoginTypes, Comparing

LEMMA GuessBegins ==
    ASSUME GuessInv, GateInv', NEW q \in Requests, NEW c \in Clients, LoginPost(q, c)
    PROVE  GuessInv'
<1> DEFINE k == Key[c]
<1>1. PICK l : l = [req |-> q, client |-> c, at |-> now, pc |-> "compare", banned |-> FALSE]
  OBVIOUS
<1>2. l.req = q /\ l.client = c /\ l.at = now /\ l.pc = "compare"
  BY <1>1
<1>3. /\ UNCHANGED <<now, scene, guesses>> /\ \A r \in logins : r.req # q
      /\ states' = IF c \in Trusted THEN states ELSE [states EXCEPT ![k] = AfterLook(@)]
      /\ logins' = IF c \notin Trusted /\ Active(states[k]) THEN logins ELSE logins \cup {l}
  BY <1>1 DEF LoginPost, isTrusted, IsBanned
<1>4. k \in Names /\ now \in Nat /\ now <= MaxTime /\ IsState(states[k]) /\ states[k].expiry \in Nat
  BY KeysAreNames, GuessFacts DEF IsState
<1>5. LoginTypes'
  <2>1. \A r \in logins' : r.req \in Requests /\ r.at \in Nat /\ r.at <= now
    BY <1>2, <1>3, <1>4 DEF GuessInv, LoginTypes
  <2>2. \A r, p \in logins' : r.req = p.req => r = p
    BY <1>2, <1>3 DEF GuessInv, LoginTypes
  <2>3. QED
    BY <1>3, <2>1, <2>2 DEF LoginTypes
<1>6. ASSUME NEW x \in Names, ~(x = k /\ c \notin Trusted /\ ~Active(states[k]))
      PROVE  KeyInv(guesses'[x], Comparing(x)', states'[x], now')
  <2>1. Comparing(x)' = Comparing(x)
    BY <1>2, <1>3, <1>6 DEF Comparing
  <2>2. states'[x] = states[x] \/ (states'[x] = AfterLook(states[x]))
    BY <1>3, <1>4, GuessFacts
  <2>3. KeyInv(guesses[x], Comparing(x), states[x], now)
    BY DEF GuessInv
  <2>4. QED
    BY <1>3, <1>4, <2>1, <2>2, <2>3, KeyLooked
<1>7. ASSUME c \notin Trusted, ~Active(states[k])
      PROVE  KeyInv(guesses'[k], Comparing(k)', states'[k], now')
  <2>1. PICK z : z = AfterLook(states[k])
    OBVIOUS
  <2>2. states'[k] = z
    BY <1>3, <1>4, <1>7, <2>1, GuessFacts
  <2>3. z.expiry = 0
    BY <1>4, <1>7, <2>1, StateAfter
  <2>4. KeyInv(guesses[k], Comparing(k), z, now)
    BY <1>4, <2>1, KeyLooked DEF GuessInv
  <2>5. Comparing(k)' = Comparing(k) \cup {l}
    BY <1>2, <1>3, <1>7 DEF Comparing
  <2>6. IsFiniteSet(Comparing(k)') /\ Cardinality(Comparing(k)') <= Cardinality(Requests)
    <3>1. Comparing(k)' \subseteq logins'
      BY DEF Comparing
    <3>2. (\A r \in logins' : r.req \in Requests) /\ (\A r, p \in logins' : r.req = p.req => r = p)
      BY <1>5 DEF LoginTypes
    <3>3. QED
      BY <3>1, <3>2, LoginsFit
  <2>7. KeyInv(guesses[k], Comparing(k) \cup {l}, z, now)
    BY <1>2, <1>4, <2>3, <2>4, <2>5, <2>6, KeyBegins
  <2>8. QED
    BY <1>3, <2>2, <2>5, <2>7
<1>8. QED
  <2>1. \A x \in Names : KeyInv(guesses'[x], Comparing(x)', states'[x], now')
    BY <1>6, <1>7
  <2>2. guesses' = [x \in Names |-> guesses'[x]] /\ now' <= scene'.time
    BY <1>3 DEF GuessInv
  <2>3. QED
    BY <1>5, <2>1, <2>2 DEF GuessInv

LEMMA GuessFails ==
    ASSUME GuessInv, GateInv', NEW r \in logins, NEW kept \in BOOLEAN, loginFailed(r, kept)
    PROVE  GuessInv'
<1> DEFINE k == Key[r.client]
<1>1. k \in Names /\ now \in Nat /\ now <= MaxTime /\ IsLogin(r) /\ r.pc = "compare"
  BY GuessFacts DEF loginFailed
<1>2. PICK b : b = (~isTrusted(r.client) /\ Bans(states[k]))
  OBVIOUS
<1>3. PICK l : l = [r EXCEPT !.pc = "notify", !.banned = b]
  OBVIOUS
<1>4. l.req = r.req /\ l.at = r.at /\ l.pc = "notify"
  <2>1. [r EXCEPT !.pc = "notify", !.banned = b] = [[r EXCEPT !.pc = "notify"] EXCEPT !.banned = b]
    OBVIOUS
  <2>2. [r EXCEPT !.pc = "notify"]
        = [req |-> r.req, client |-> r.client, at |-> r.at, pc |-> "notify", banned |-> r.banned]
    BY <1>1 DEF IsLogin
  <2>3. QED
    BY <1>3, <2>1, <2>2
<1>5. /\ UNCHANGED <<now, scene>> /\ logins' = (logins \ {r}) \cup {l}
      /\ states' = IF r.client \in Trusted THEN states ELSE [states EXCEPT ![k] = RecordFailure(@)]
      /\ guesses' = IF r.client \in Trusted THEN guesses ELSE [guesses EXCEPT ![k] = Append(@, r.at)]
  BY <1>2, <1>3 DEF loginFailed, isTrusted
<1>6. LoginTypes'
  <2>1. \A x \in logins' : x.req \in Requests /\ x.at \in Nat /\ x.at <= now
    BY <1>4, <1>5 DEF GuessInv, LoginTypes
  <2>2. \A x, p \in logins' : x.req = p.req => x = p
    BY <1>4, <1>5 DEF GuessInv, LoginTypes
  <2>3. QED
    BY <1>5, <2>1, <2>2 DEF LoginTypes
<1>7. ASSUME NEW x \in Names PROVE Comparing(x)' = Comparing(x) \ {r}
  BY <1>4, <1>5 DEF Comparing
<1>8. ASSUME NEW x \in Names, x # k \/ r.client \in Trusted
      PROVE  KeyInv(guesses'[x], Comparing(x)', states'[x], now')
  <2>1. Comparing(x)' = Comparing(x)
    BY <1>7, <1>8 DEF Comparing
  <2>2. states'[x] = states[x] /\ guesses'[x] = guesses[x]
    BY <1>1, <1>5, <1>8, GuessFacts DEF GuessInv
  <2>3. QED
    BY <1>5, <2>1, <2>2 DEF GuessInv
<1>9. ASSUME r.client \notin Trusted
      PROVE  KeyInv(guesses'[k], Comparing(k)', states'[k], now')
  <2>1. r \in Comparing(k)
    BY <1>1, <1>9 DEF Comparing
  <2>2. states'[k] = RecordFailure(states[k]) /\ guesses'[k] = Append(guesses[k], r.at)
    <3>1. states = [x \in Names |-> states[x]] /\ guesses = [x \in Names |-> guesses[x]]
      BY GuessFacts DEF GuessInv
    <3>2. QED
      BY <1>1, <1>5, <1>9, <3>1
  <2>3. KeyInv(guesses[k], Comparing(k), states[k], now)
    BY <1>1 DEF GuessInv
  <2>4. KeyInv(Append(guesses[k], r.at), Comparing(k) \ {r}, RecordFailure(states[k]), now)
    BY <1>1, <2>1, <2>3, KeyFails
  <2>5. QED
    BY <1>1, <1>5, <1>7, <2>2, <2>4
<1>10. \A x \in Names : KeyInv(guesses'[x], Comparing(x)', states'[x], now')
  BY <1>8, <1>9
<1>11. guesses' = [x \in Names |-> guesses'[x]] /\ now' <= scene'.time
  BY <1>1, <1>5 DEF GuessInv
<1>12. QED
  BY <1>6, <1>10, <1>11 DEF GuessInv

\* A login turned away for want of a second factor compares no more passwords.
LEMMA GuessEnforced ==
    ASSUME GuessInv, GateInv', NEW r, handleTOTPEnforcement(r)
    PROVE  GuessInv'
<1>1. r \in logins /\ IsLogin(r)
  BY DEF handleTOTPEnforcement, GuessInv, GateInv
<1>2. PICK l : l = [r EXCEPT !.pc = "notify", !.banned = FALSE]
  OBVIOUS
<1>3. l.req = r.req /\ l.at = r.at /\ l.pc = "notify"
  BY <1>1, <1>2, ToBeTold
<1>4. UNCHANGED <<now, scene, states, guesses>> /\ logins' = (logins \ {r}) \cup {l}
  BY <1>2 DEF handleTOTPEnforcement
<1>5. LoginTypes'
  <2>1. \A x \in logins' : x.req \in Requests /\ x.at \in Nat /\ x.at <= now
    BY <1>1, <1>3, <1>4 DEF GuessInv, LoginTypes
  <2>2. \A x, p \in logins' : x.req = p.req => x = p
    BY <1>1, <1>3, <1>4 DEF GuessInv, LoginTypes
  <2> QED BY <1>4, <2>1, <2>2 DEF LoginTypes
<1>6. ASSUME NEW k \in Names
      PROVE  KeyInv(guesses'[k], Comparing(k)', states'[k], now')
  <2>1. Comparing(k)' \subseteq Comparing(k)
    BY <1>3, <1>4 DEF Comparing
  <2>2. KeyInv(guesses[k], Comparing(k), states[k], now) /\ now \in Nat /\ now <= MaxTime
    BY GuessFacts DEF GuessInv
  <2>3. KeyInv(guesses[k], Comparing(k)', states[k], now)
    BY <2>1, <2>2, KeyFewer
  <2> QED BY <1>4, <2>3
<1> QED BY <1>4, <1>5, <1>6 DEF GuessInv

\* The other steps of the gate.
LEMMA GuessOthers ==
    ASSUME GuessInv, GateInv',
           \/ \E r \in logins : notifyAdminLoginFailed(r) \/ \E last \in BOOLEAN : LoginPassed(r, last)
           \/ Cleanup
           \/ \E c \in Clients : unbanIP(c) \/ \E kept \in BOOLEAN : UnbanIP(c, kept)
           \/ \E loaded \in BOOLEAN : Restart(loaded)
    PROVE  GuessInv'
<1>1. UNCHANGED <<now, scene>> /\ logins' \subseteq logins
  BY DEF notifyAdminLoginFailed, LoginPassed, Cleanup, unbanIP, UnbanIP, Restart
<1>2. LoginTypes' /\ \A k \in Names : Comparing(k)' \subseteq Comparing(k)
  BY <1>1, LoginsGo
<1>3. now \in Nat /\ now <= MaxTime
  BY GuessFacts
<1>4. \A k \in Names : KeyInv(guesses[k], Comparing(k), states[k], now)
  BY DEF GuessInv
<1>5. ASSUME NEW k \in Names, guesses'[k] = guesses[k], states'[k] \in {states[k], cleanupAt(states[k])}
      PROVE  KeyInv(guesses'[k], Comparing(k)', states'[k], now')
  <2>1. KeyInv(guesses[k], Comparing(k), states'[k], now)
    BY <1>3, <1>4, <1>5, KeyLooked
  <2>2. KeyInv(guesses[k], Comparing(k)', states'[k], now)
    BY <1>2, <1>3, <2>1, KeyFewer
  <2>3. QED
    BY <1>1, <1>5, <2>2
<1>6. ASSUME NEW k \in Names, guesses'[k] = <<>>, states'[k].failures = {},
             Comparing(k)' = {} \/ states'[k].expiry \in {0, states[k].expiry}
      PROVE  KeyInv(guesses'[k], Comparing(k)', states'[k], now')
  <2>1. PICK L : L = Comparing(k)' /\ L \subseteq Comparing(k)
    BY <1>2
  <2>2. IsFiniteSet(L) /\ Cardinality(L) <= Cardinality(Requests) /\ \A r \in L : r.at \in Nat /\ r.at <= now
    <3>1. KeyInv(guesses[k], L, states[k], now)
      BY <1>3, <1>4, <2>1, KeyFewer
    <3>2. QED
      BY <3>1 DEF KeyInv, KeyTypes
  <2>3. PICK s : s = states'[k]
    OBVIOUS
  <2>4. IsState(s)
    BY <2>3 DEF GateInv
  <2>5. s.expiry \notin {0, Forever} => \A r \in L : r.at + Window <= s.expiry
    BY <1>4, <1>6, <2>1, <2>3 DEF KeyInv, KeyHeld
  <2>6. KeyInv(<<>>, L, s, now)
    BY <1>3, <1>6, <2>2, <2>3, <2>4, <2>5, KeyCleared
  <2>7. QED
    BY <1>1, <1>6, <2>1, <2>3, <2>6
<1>7. /\ states = [k \in Names |-> states[k]] /\ guesses = [k \in Names |-> guesses[k]]
      /\ \A k \in Names : IsState(states[k])
  BY GuessFacts DEF GuessInv
<1>8. /\ guesses' = [k \in Names |-> guesses'[k]]
      /\ \A k \in Names : KeyInv(guesses'[k], Comparing(k)', states'[k], now')
  <2>1. CASE UNCHANGED <<guesses, states>>
    BY <1>5, <1>7, <2>1
  <2>2. ASSUME NEW r \in logins, LoginPassed(r, TRUE)
        PROVE  /\ guesses' = [k \in Names |-> guesses'[k]]
               /\ \A k \in Names : KeyInv(guesses'[k], Comparing(k)', states'[k], now')
    <3> DEFINE x == Key[r.client]
    <3>1. x \in Names /\ states' = [states EXCEPT ![x] = ClearFailures(states[x])] /\ guesses' = [guesses EXCEPT ![x] = <<>>]
      BY <1>7, <2>2, GuessFacts DEF LoginPassed
    <3>2. \A k \in Names : k # x => states'[k] = states[k] /\ guesses'[k] = guesses[k]
      BY <1>7, <3>1
    <3>3. states'[x] = ClearFailures(states[x]) /\ guesses'[x] = <<>>
      BY <1>7, <3>1
    <3>4. states'[x].failures = {} /\ states'[x].expiry = states[x].expiry
      BY <1>3, <1>7, <3>1, <3>3, StateAfter
    <3>5. KeyInv(guesses'[x], Comparing(x)', states'[x], now')
      BY <1>6, <3>1, <3>3, <3>4
    <3>6. \A k \in Names : KeyInv(guesses'[k], Comparing(k)', states'[k], now')
      BY <1>5, <3>2, <3>5
    <3>7. QED
      BY <1>7, <3>1, <3>6
  <2>3. CASE Cleanup
    <3>1. guesses' = guesses /\ \A k \in Names : states'[k] = cleanupAt(states[k])
      BY <2>3 DEF Cleanup
    <3>2. QED
      BY <1>5, <1>7, <3>1
  <2>4. ASSUME NEW c \in Clients, NEW kept \in BOOLEAN, UnbanIP(c, kept)
        PROVE  /\ guesses' = [k \in Names |-> guesses'[k]]
               /\ \A k \in Names : KeyInv(guesses'[k], Comparing(k)', states'[k], now')
    <3>1. /\ guesses' = [k \in Names |-> IF k \in UnbanKeys(c) THEN <<>> ELSE guesses[k]]
          /\ states' = [k \in Names |-> IF k \in UnbanKeys(c) THEN Fresh ELSE states[k]]
      BY <2>4 DEF UnbanIP
    <3>2. Fresh.failures = {} /\ Fresh.expiry = 0
      BY DEF Fresh
    <3>3. QED
      BY <1>5, <1>6, <3>1, <3>2
  <2>5. ASSUME NEW loaded \in BOOLEAN, Restart(loaded)
        PROVE  /\ guesses' = [k \in Names |-> guesses'[k]]
               /\ \A k \in Names : KeyInv(guesses'[k], Comparing(k)', states'[k], now')
    <3>1. /\ guesses' = [k \in Names |-> <<>>] /\ logins' = {}
          /\ states' = [k \in Names |-> IF loaded THEN Load(stored[k]) ELSE Fresh]
      BY <2>5 DEF Restart
    <3>2. Fresh.failures = {}
      BY DEF Fresh
    <3>3. \A k \in Names : Load(stored[k]).failures = {}
      BY DEF Load, Fresh
    <3>4. \A k \in Names : Comparing(k)' = {}
      BY <3>1 DEF Comparing
    <3>5. QED
      BY <1>6, <3>1, <3>2, <3>3, <3>4
  <2>6. ASSUME NEW r \in logins, NEW last \in BOOLEAN, LoginPassed(r, last), ~last PROVE UNCHANGED <<guesses, states>>
    BY <2>6 DEF LoginPassed
  <2>7. QED
    BY <2>1, <2>2, <2>3, <2>4, <2>5, <2>6 DEF notifyAdminLoginFailed, unbanIP
<1>9. QED
  BY <1>1, <1>2, <1>8 DEF GuessInv

LEMMA GuessTicks ==
    ASSUME GuessInv, GateInv', UNCHANGED gateVars, Tick \/ UNCHANGED <<now, scene>>
    PROVE  GuessInv'
<1>1. now \in Nat /\ scene.time \in 0..MaxTime /\ UNCHANGED <<scene, states, logins, guesses>>
  BY SceneAssumption, GuessFacts DEF Tick, gateVars
<1>2. \A k \in Names : KeyInv(guesses[k], Comparing(k), states[k], now) /\ Comparing(k)' = Comparing(k)
  BY <1>1 DEF GuessInv, Comparing
<1>3. CASE now' = now
  BY <1>1, <1>2, <1>3 DEF GuessInv, LoginTypes
<1>4. CASE Tick
  <2>1. now' = now + 1 /\ now + 1 <= scene.time /\ now + 1 <= MaxTime
    BY <1>1, <1>4, GateNumbers DEF Tick
  <2>2. LoginTypes'
    BY <1>1, <2>1 DEF GuessInv, LoginTypes
  <2>3. \A k \in Names : KeyInv(guesses'[k], Comparing(k)', states'[k], now')
    BY <1>1, <1>2, <2>1, KeyTicks
  <2>4. QED
    BY <1>1, <2>1, <2>2, <2>3 DEF GuessInv
<1>5. QED
  BY <1>3, <1>4

\* The steps that leave the gate alone.
LEMMA GateMoves ==
    ASSUME [Next]_vars
    PROVE  \/ GateNext
           \/ UNCHANGED gateVars /\ (Tick \/ UNCHANGED <<now, scene>>)
<1>1. CASE Accounts
  <2>1. CASE LimiterNext /\ UNCHANGED gateVars
    BY <2>1 DEF LimiterNext, BeginCheck, CompareWrong, CompareRight, cleanup
  <2>2. QED
    BY <1>1, <2>1 DEF Accounts
<1>2. CASE Process
  BY <1>2 DEF Process
<1>3. CASE Copies
  BY <1>3 DEF Copies, NASTick
<1>4. CASE Mail
  BY <1>4 DEF Mail, DailyTick, PaceTick
<1>5. CASE UNCHANGED vars
  BY <1>5 DEF vars
<1>6. QED
  BY <1>1, <1>2, <1>3, <1>4, <1>5 DEF Next

LEMMA GuessStart == Init => GuessInv
<1> SUFFICES ASSUME Init PROVE GuessInv
  OBVIOUS
<1>1. /\ now = 0 /\ scene \in Scenes /\ states = [k \in Names |-> Fresh] /\ stored = [k \in Names |-> NoRow] /\ logins = {}
      /\ guesses = [k \in Names |-> <<>>]
  BY DEF Init, GateInit
<1>2. IsState(Fresh) /\ Fresh.failures = {} /\ Fresh.expiry = 0
  BY DEF IsState, Fresh
<1>3. GateInv
  BY <1>1, <1>2 DEF GateInv, NoRow
<1>4. scene.time \in 0..MaxTime
  BY <1>1, SceneAssumption
<1>5. now <= scene.time /\ LoginTypes
  BY <1>1, <1>4, GateNumbers DEF LoginTypes
<1>6. ASSUME NEW k \in Names PROVE KeyInv(guesses[k], Comparing(k), states[k], now)
  <2>1. guesses[k] = <<>> /\ Comparing(k) = {} /\ states[k] = Fresh /\ now \in Nat
    BY <1>1 DEF Comparing
  <2>2. IsFiniteSet({}) /\ Cardinality({}) = 0
    BY FS_EmptySet, Zenon
  <2>3. Cardinality({}) <= Cardinality(Requests)
    BY <2>2, GateNumbers
  <2>4. KeyInv(<<>>, {}, Fresh, now)
    BY <1>2, <2>1, <2>2, <2>3, KeyCleared
  <2>5. QED
    BY <2>1, <2>4
<1>7. QED
  BY <1>1, <1>3, <1>5, <1>6 DEF GuessInv

LEMMA GuessStep ==
    ASSUME GuessInv, [Next]_vars
    PROVE  GuessInv'
<1>1. GateInv'
  BY GateStep DEF GuessInv
<1>2. CASE GateNext
  BY <1>1, <1>2, GuessBegins, GuessFails, GuessEnforced, GuessOthers DEF GateNext
<1>3. CASE UNCHANGED gateVars /\ (Tick \/ UNCHANGED <<now, scene>>)
  BY <1>1, <1>3, GuessTicks
<1>4. QED
  BY <1>2, <1>3, GateMoves

\* However logins overlap with failures, bans, cleanups and their lifting, no
\* window of a key holds more guesses than the limit and the requests that were
\* under way when it was reached (RecordFailure, internal/ratelimit/banhammer.go:213).
THEOREM GuessesAreBounded == Spec => []GuessesBounded
<1>1. GuessInv => GuessesBounded
  <2> SUFFICES ASSUME GuessInv, NEW k \in Names, NEW t \in 0..now
               PROVE  Cardinality({i \in DOMAIN guesses[k] : t - Window < guesses[k][i] /\ guesses[k][i] <= t})
                          <= MaxFails - 1 + Cardinality(Requests)
    BY DEF GuessesBounded
  <2>1. now \in Nat /\ now <= MaxTime /\ t \in Nat /\ t <= now
    BY GuessFacts
  <2>2. KeyInv(guesses[k], Comparing(k), states[k], now)
    BY DEF GuessInv
  <2>3. Fits(guesses[k], Comparing(k), t)
    BY <2>1, <2>2, KeyFits
  <2>4. guesses[k] \in Seq(Nat) /\ IsFiniteSet(Comparing(k))
    BY <2>2 DEF KeyInv, KeyTypes
  <2>5. {i \in DOMAIN guesses[k] : t - Window < guesses[k][i] /\ guesses[k][i] <= t} = Hits(guesses[k], Span(t, Window))
    BY <2>4 DEF Hits, Span
  <2>6. Cardinality(Hits(guesses[k], Span(t, Window))) \in Nat /\ Cardinality(Under(Comparing(k), t)) \in Nat
    BY <2>4, HitsFinite, UnderFinite
  <2>7. Cardinality(Hits(guesses[k], Span(t, Window))) <= MaxFails - 1 + Cardinality(Requests)
    BY <2>3, <2>6, GateNumbers DEF Fits, Bound
  <2>8. QED
    BY <2>5, <2>7, Zenon
<1>2. GuessInv /\ [Next]_vars => GuessInv'
  BY GuessStep
<1>3. QED
  BY <1>1, <1>2, GuessStart, PTL DEF Spec

-----------------------------------------------------------------------------
(* The notices to the administrators.                                      *)

\* The throttle remembers the notices of the window that ends now.
NoticeInv ==
    /\ sentLog \in Seq(Nat) /\ \A i \in DOMAIN sentLog : sentLog[i] <= now
    /\ IsList(notices.sent, now) /\ Cardinality(notices.sent) <= NoticeLimit
    /\ notices.suppressed \in Nat
    /\ \A r \in logins : r.banned \in BOOLEAN
    /\ \A t \in Nat : t < now => Cardinality(Hits(sentLog, Span(t, NoticeWindow))) <= NoticeLimit
    /\ \A c \in Int : c >= now - NoticeWindow => Cardinality(Hits(sentLog, Later(c))) = Cardinality(After(notices.sent, c))
    /\ untold = {}

LEMMA NoticeNumbers == NoticeWindow \in Nat \ {0} /\ NoticeLimit \in Nat \ {0}
BY GateAssumption

\* The window that ends now.
LEMMA NoticesFit ==
    ASSUME now \in Nat, NoticeInv
    PROVE  \A t \in Nat : t <= now => Cardinality(Hits(sentLog, Span(t, NoticeWindow))) <= NoticeLimit
<1> USE NoticeNumbers
<1>1. sentLog \in Seq(Nat) /\ IsList(notices.sent, now)
  BY DEF NoticeInv
<1>2. PICK c \in Int : c = now - NoticeWindow
  OBVIOUS
<1>3. Cardinality(Hits(sentLog, Span(now, NoticeWindow))) <= Cardinality(Hits(sentLog, Later(c)))
  <2>1. \A i \in DOMAIN sentLog : sentLog[i] \in Span(now, NoticeWindow) => sentLog[i] \in Later(c)
    BY <1>2 DEF Span, Later
  <2>2. QED
    BY <1>1, <2>1, HitsWithin
<1>4. Cardinality(Hits(sentLog, Later(c))) = Cardinality(After(notices.sent, c)) /\ Cardinality(notices.sent) <= NoticeLimit
  BY <1>2 DEF NoticeInv
<1>5. /\ Cardinality(After(notices.sent, c)) <= Cardinality(notices.sent) /\ Cardinality(notices.sent) \in Nat
      /\ Cardinality(After(notices.sent, c)) \in Nat
  BY <1>1, AfterFinite
<1>6. Cardinality(Hits(sentLog, Span(now, NoticeWindow))) \in Nat
  BY <1>1, HitsFinite
<1>7. Cardinality(Hits(sentLog, Span(now, NoticeWindow))) <= NoticeLimit
  BY <1>3, <1>4, <1>5, <1>6
<1>8. QED
  BY <1>7 DEF NoticeInv

\* Time passes.
LEMMA NoticeTicks ==
    ASSUME now \in Nat, NoticeInv, UNCHANGED gateVars, now' \in {now, now + 1}
    PROVE  NoticeInv'
<1> USE NoticeNumbers
<1>1. UNCHANGED <<sentLog, notices, logins, untold>>
  BY DEF gateVars
<1>2. CASE now' = now
  BY <1>1, <1>2 DEF NoticeInv
<1>3. CASE now' = now + 1
  <2>1. \A x \in Nat : x <= now => x <= now'
    BY <1>3
  <2>2. \A i \in DOMAIN sentLog : sentLog[i] \in Nat /\ sentLog[i] <= now'
    BY <2>1 DEF NoticeInv
  <2>3. IsList(notices.sent, now')
    BY <2>1 DEF NoticeInv, IsList
  <2>4. \A t \in Nat : t < now' => Cardinality(Hits(sentLog, Span(t, NoticeWindow))) <= NoticeLimit
    <3>1. \A t \in Nat : t < now' => t <= now
      BY <1>3
    <3>2. QED
      BY <3>1, NoticesFit
  <2>5. \A c \in Int : c >= now' - NoticeWindow => Cardinality(Hits(sentLog, Later(c))) = Cardinality(After(notices.sent, c))
    <3>1. \A c \in Int : c >= now' - NoticeWindow => c >= now - NoticeWindow
      BY <1>3
    <3>2. QED
      BY <3>1 DEF NoticeInv
  <2>6. QED
    BY <1>1, <2>2, <2>3, <2>4, <2>5 DEF NoticeInv
<1>4. QED
  BY <1>2, <1>3

\* The steps that neither send nor forget.
LEMMA NoticeStays ==
    ASSUME NoticeInv, UNCHANGED <<now, notices, sentLog, untold>>, \A r \in logins' : r.banned \in BOOLEAN
    PROVE  NoticeInv'
BY DEF NoticeInv

\* A notice is sent, or left out.
LEMMA NoticeSent ==
    ASSUME GateInv, NoticeInv, NEW r \in logins, notifyAdminLoginFailed(r)
    PROVE  NoticeInv'
<1> USE NoticeNumbers
<1>1. now \in Nat /\ r.client \in Clients /\ r.banned \in BOOLEAN
  BY DEF GateInv, IsLogin, NoticeInv
<1>2. PICK x : x = noticeKey(r.client, r.banned)
  OBVIOUS
<1>3. PICK c \in Int : c = now - NoticeWindow
  BY <1>1
<1>4. PICK list : list = notices.sent /\ IsList(list, now) /\ Cardinality(list) <= NoticeLimit
  BY DEF NoticeInv
<1>5. PICK kept : kept = After(list, c) /\ kept = Pruned(notices.sent)
  <2>1. \A e \in list : e[1] \in Nat
    BY <1>4 DEF IsList
  <2>2. After(list, c) = Pruned(notices.sent)
    BY <1>1, <1>3, <1>4, <2>1 DEF After, Pruned
  <2>3. QED
    BY <2>2
<1>6. PICK new : new = kept \cup {Entry(kept)}
  OBVIOUS
<1>7. /\ IsList(kept, now) /\ IsList(new, now) /\ Cardinality(new) = Cardinality(kept) + 1
      /\ \A b \in Int : b >= c /\ b < now => Cardinality(After(new, b)) = Cardinality(After(list, b)) + 1
      /\ \A b \in Int : b >= c /\ b >= now => Cardinality(After(new, b)) = Cardinality(After(list, b))
  <2>1. now \in Nat /\ IsList(list, now)
    BY <1>1, <1>4
  <2>2. kept = After(list, c)
    BY <1>5
  <2>3. QED
    BY <1>6, <2>1, <2>2, ListAppend
<1>8. Cardinality(kept) \in Nat /\ Cardinality(list) \in Nat /\ Cardinality(kept) <= Cardinality(list)
  BY <1>4, <1>5, AfterFinite
<1>9. PICK last : last = Purged(notices.last)
  OBVIOUS
<1>10. IsSent(x) <=> MaySend(x, last, kept)
  BY <1>5, <1>9 DEF IsSent
<1>11. /\ UNCHANGED <<now>> /\ logins' \subseteq logins
       /\ IsSent(x) => notices'.sent = new /\ notices'.suppressed = 0
       /\ ~IsSent(x) => notices'.sent = kept /\ notices'.suppressed = notices.suppressed + 1
       /\ sentLog' = IF IsSent(x) THEN Append(sentLog, now) ELSE sentLog
       /\ untold' = IF r.banned /\ ~IsSent(x) /\ RoomFor(r.client) THEN untold \cup {r.client} ELSE untold
  <2>1. /\ notices' = throttle(x) /\ now' = now /\ logins' = logins \ {r}
        /\ sentLog' = IF IsSent(x) THEN Append(sentLog, now) ELSE sentLog
        /\ untold' = IF r.banned /\ ~IsSent(x) /\ RoomFor(r.client) THEN untold \cup {r.client} ELSE untold
    BY <1>2 DEF notifyAdminLoginFailed
  <2>2. throttle(x) = IF MaySend(x, last, kept)
                      THEN [last |-> [last EXCEPT ![x] = now], sent |-> new, suppressed |-> 0]
                      ELSE [last |-> last, sent |-> kept, suppressed |-> notices.suppressed + 1]
    BY <1>5, <1>6, <1>9 DEF throttle
  <2>3. QED
    BY <1>10, <2>1, <2>2
<1>12. sentLog \in Seq(Nat) /\ untold = {} /\ notices.suppressed \in Nat
  BY DEF NoticeInv
<1>13. \A b \in Int : b >= c => Cardinality(Hits(sentLog, Later(b))) = Cardinality(After(list, b))
  BY <1>3, <1>4 DEF NoticeInv
<1>14. untold' = {}
  <2> SUFFICES ASSUME r.banned, RoomFor(r.client) PROVE MaySend(x, last, kept)
    BY <1>10, <1>11, <1>12
  <2>1. x = <<r.client, TRUE>>
    BY <1>1, <1>2 DEF noticeKey
  <2>2. /\ Cardinality({i \in DOMAIN sentLog : now - sentLog[i] < NoticeWindow}) < NoticeLimit
        /\ Cardinality(Listed(notices.last)) < NoticeMaxIPs
        /\ notices.last[x] = Unset \/ now - notices.last[x] >= NoticeInterval
    BY <2>1 DEF RoomFor
  <2>3. last = notices.last
    BY <1>9, <2>2 DEF Purged
  <2>4. {i \in DOMAIN sentLog : now - sentLog[i] < NoticeWindow} = Hits(sentLog, Later(c))
    BY <1>1, <1>3, <1>12 DEF Hits, Later
  <2>5. Cardinality({i \in DOMAIN sentLog : now - sentLog[i] < NoticeWindow}) = Cardinality(Hits(sentLog, Later(c)))
    BY <2>4, Zenon
  <2>6. Cardinality(Hits(sentLog, Later(c))) = Cardinality(kept)
    BY <1>3, <1>5, <1>13
  <2>7. Cardinality(kept) < NoticeLimit
    BY <2>2, <2>5, <2>6
  <2>8. QED
    BY <2>2, <2>3, <2>7 DEF MaySend
<1>15. CASE IsSent(x)
  <2>1. notices'.sent = new /\ notices'.suppressed = 0 /\ sentLog' = Append(sentLog, now)
    BY <1>11, <1>15
  <2>2. Cardinality(new) <= NoticeLimit
    <3>1. Cardinality(kept) < NoticeLimit
      BY <1>10, <1>15 DEF MaySend
    <3>2. QED
      BY <1>7, <1>8, <3>1
  <2>3. sentLog' \in Seq(Nat) /\ \A i \in DOMAIN sentLog' : sentLog'[i] <= now
    BY <1>1, <1>12, <2>1 DEF NoticeInv
  <2>4. ASSUME NEW b \in Int, b >= c
        PROVE  Cardinality(Hits(sentLog', Later(b))) = Cardinality(After(new, b))
    <3>1. Cardinality(Hits(sentLog, Later(b))) = Cardinality(After(list, b))
      BY <1>13, <2>4
    <3>2. CASE b < now
      <4>1. now \in Later(b)
        BY <1>1, <3>2 DEF Later
      <4>2. Cardinality(Hits(sentLog', Later(b))) = Cardinality(Hits(sentLog, Later(b))) + 1
        BY <1>1, <1>12, <2>1, <4>1, HitsAppend
      <4>3. Cardinality(After(new, b)) = Cardinality(After(list, b)) + 1
        BY <1>7, <2>4, <3>2
      <4>4. QED
        BY <3>1, <4>2, <4>3
    <3>3. CASE ~(b < now)
      <4>1. now \notin Later(b) /\ b >= now
        BY <1>1, <3>3 DEF Later
      <4>2. Hits(sentLog', Later(b)) = Hits(sentLog, Later(b))
        BY <1>1, <1>12, <2>1, <4>1, HitsAppend
      <4>3. Cardinality(After(new, b)) = Cardinality(After(list, b))
        BY <1>7, <2>4, <4>1
      <4>4. QED
        BY <3>1, <4>2, <4>3
    <3>4. QED
      BY <3>2, <3>3
  <2>5. ASSUME NEW t \in Nat, t < now
        PROVE  Cardinality(Hits(sentLog', Span(t, NoticeWindow))) <= NoticeLimit
    <3>1. now \notin Span(t, NoticeWindow)
      BY <1>1, <2>5 DEF Span
    <3>2. Hits(sentLog', Span(t, NoticeWindow)) = Hits(sentLog, Span(t, NoticeWindow))
      BY <1>1, <1>12, <2>1, <3>1, HitsAppend
    <3>3. QED
      BY <2>5, <3>2 DEF NoticeInv
  <2>6. QED
    BY <1>3, <1>7, <1>11, <1>14, <2>1, <2>2, <2>3, <2>4, <2>5 DEF NoticeInv
<1>16. CASE ~IsSent(x)
  <2>1. notices'.sent = kept /\ notices'.suppressed = notices.suppressed + 1 /\ sentLog' = sentLog
    BY <1>11, <1>16
  <2>2. Cardinality(kept) <= NoticeLimit /\ notices'.suppressed \in Nat
    BY <1>4, <1>8, <1>12, <2>1
  <2>3. \A b \in Int : b >= c => After(kept, b) = After(list, b)
    <3>1. \A e \in list : e[1] \in Nat
      BY <1>4 DEF IsList
    <3>2. QED
      BY <1>5, <3>1 DEF After
  <2>4. \A b \in Int : b >= c => Cardinality(Hits(sentLog, Later(b))) = Cardinality(After(kept, b))
    BY <1>13, <2>3
  <2>5. QED
    BY <1>3, <1>7, <1>11, <1>14, <2>1, <2>2, <2>4 DEF NoticeInv
<1>17. QED
  BY <1>15, <1>16

\* Nothing has been sent.
LEMMA NothingSent ==
    ASSUME NEW n \in Nat
    PROVE  /\ IsList(NoNotices.sent, n) /\ Cardinality(NoNotices.sent) = 0 /\ NoNotices.suppressed = 0
           /\ \A c : Cardinality(After(NoNotices.sent, c)) = 0
           /\ \A S : Cardinality(Hits(<<>>, S)) = 0
           /\ <<>> \in Seq(Nat) /\ DOMAIN <<>> = {}
<1>1. Cardinality({}) = 0 /\ IsFiniteSet({})
  BY FS_EmptySet, Zenon
<1>2. NoNotices.sent = {} /\ NoNotices.suppressed = 0
  BY DEF NoNotices
<1>3. IsList(NoNotices.sent, n) /\ Cardinality(NoNotices.sent) = 0
  BY <1>1, <1>2 DEF IsList
<1>4. \A c : After(NoNotices.sent, c) = {} /\ Cardinality(After(NoNotices.sent, c)) = 0
  BY <1>1, <1>2 DEF After
<1>5. \A S : Cardinality(Hits(<<>>, S)) = 0
  BY NoHits
<1>6. QED
  BY <1>2, <1>3, <1>4, <1>5

LEMMA NoticeFresh ==
    ASSUME now \in Nat, notices = NoNotices, sentLog = <<>>, logins = {}, untold = {}
    PROVE  NoticeInv
BY NoticeNumbers, NothingSent DEF NoticeInv

LEMMA NoticeStep ==
    ASSUME GateInv, GateInv', NoticeInv, [Next]_vars
    PROVE  NoticeInv'
<1>1. now \in Nat
  BY DEF GateInv
<1>2. CASE UNCHANGED gateVars /\ (Tick \/ UNCHANGED <<now, scene>>)
  BY <1>1, <1>2, NoticeTicks DEF Tick
<1>3. ASSUME NEW q \in Requests, NEW c \in Clients, LoginPost(q, c) PROVE NoticeInv'
  <2>1. UNCHANGED <<now, notices, sentLog, untold>>
    BY <1>3 DEF LoginPost
  <2>2. \A r \in logins' : r.banned \in BOOLEAN
    <3>1. PICK l : l = [req |-> q, client |-> c, at |-> now, pc |-> "compare", banned |-> FALSE]
      OBVIOUS
    <3>2. l.banned = FALSE
      BY <3>1
    <3>3. logins' \subseteq logins \cup {l}
      BY <1>3, <3>1 DEF LoginPost
    <3>4. QED
      BY <3>2, <3>3 DEF NoticeInv
  <2>3. QED
    BY <2>1, <2>2, NoticeStays
<1>4. ASSUME NEW r \in logins, NEW kept \in BOOLEAN, loginFailed(r, kept) PROVE NoticeInv'
  <2>1. UNCHANGED <<now, notices, sentLog, untold>>
    BY <1>4 DEF loginFailed
  <2>2. \A l \in logins' : l.banned \in BOOLEAN
    <3>1. PICK b \in BOOLEAN : b = (~isTrusted(r.client) /\ Bans(states[Key[r.client]]))
      OBVIOUS
    <3>2. PICK l : l = [r EXCEPT !.pc = "notify", !.banned = b]
      OBVIOUS
    <3>3. l.banned = b
      <4>1. [r EXCEPT !.pc = "notify", !.banned = b] = [[r EXCEPT !.pc = "notify"] EXCEPT !.banned = b]
        OBVIOUS
      <4>2. [r EXCEPT !.pc = "notify"]
            = [req |-> r.req, client |-> r.client, at |-> r.at, pc |-> "notify", banned |-> r.banned]
        BY DEF GateInv, IsLogin
      <4>3. QED
        BY <3>2, <4>1, <4>2
    <3>4. logins' = (logins \ {r}) \cup {l}
      BY <1>4, <3>1, <3>2 DEF loginFailed
    <3>5. QED
      BY <3>1, <3>3, <3>4 DEF NoticeInv
  <2>3. QED
    BY <2>1, <2>2, NoticeStays
<1>5. ASSUME UNCHANGED <<now, notices, sentLog, untold>>, logins' \subseteq logins PROVE NoticeInv'
  <2>1. \A r \in logins' : r.banned \in BOOLEAN
    BY <1>5 DEF NoticeInv
  <2>2. QED
    BY <1>5, <2>1, NoticeStays
<1>6. ASSUME NEW loaded \in BOOLEAN, Restart(loaded) PROVE NoticeInv'
  <2>1. now' \in Nat /\ notices' = NoNotices /\ sentLog' = <<>> /\ logins' = {} /\ untold' = {}
    BY <1>1, <1>6 DEF Restart, NoticeInv
  <2>2. QED
    <3>1. /\ IsList(notices'.sent, now') /\ Cardinality(notices'.sent) = 0 /\ notices'.suppressed = 0
          /\ \A c : Cardinality(After(notices'.sent, c)) = 0
          /\ \A S : Cardinality(Hits(sentLog', S)) = 0
          /\ sentLog' \in Seq(Nat) /\ DOMAIN sentLog' = {}
      BY <2>1, NothingSent
    <3>2. \A t \in Nat : t < now' => Cardinality(Hits(sentLog', Span(t, NoticeWindow))) <= NoticeLimit
      BY <3>1, NoticeNumbers
    <3>3. \A c \in Int : c >= now' - NoticeWindow => Cardinality(Hits(sentLog', Later(c))) = Cardinality(After(notices'.sent, c))
      BY <3>1
    <3>4. Cardinality(notices'.sent) <= NoticeLimit /\ notices'.suppressed \in Nat
      BY <3>1, NoticeNumbers
    <3>5. \A r \in logins' : r.banned \in BOOLEAN
      BY <2>1
    <3>6. QED
      BY <2>1, <3>1, <3>2, <3>3, <3>4, <3>5 DEF NoticeInv
<1>9. ASSUME NEW r \in logins, handleTOTPEnforcement(r) PROVE NoticeInv'
  <2>1. UNCHANGED <<now, notices, sentLog, untold>>
        /\ logins' = (logins \ {r}) \cup {[r EXCEPT !.pc = "notify", !.banned = FALSE]}
    BY <1>9 DEF handleTOTPEnforcement
  <2>2. [r EXCEPT !.pc = "notify", !.banned = FALSE].banned = FALSE
    <3>1. IsLogin(r)
      BY <1>9 DEF GateInv
    <3>2. [r EXCEPT !.pc = "notify", !.banned = FALSE]
          = [req |-> r.req, client |-> r.client, at |-> r.at, pc |-> "notify", banned |-> FALSE]
      BY <3>1, ToBeTold
    <3>3. QED
      BY <3>2
  <2>3. \A l \in logins' : l.banned \in BOOLEAN
    BY <2>1, <2>2 DEF NoticeInv
  <2>4. QED
    BY <2>1, <2>3, NoticeStays
<1>7. CASE GateNext
  BY <1>3, <1>4, <1>5, <1>6, <1>7, <1>9, NoticeSent DEF GateNext, LoginPassed, Cleanup, unbanIP, UnbanIP
<1>8. QED
  BY <1>2, <1>7, GateMoves

LEMMA GateAlways == Spec => [](GuessInv /\ NoticeInv)
<1>1. Init => NoticeInv
  <2> SUFFICES ASSUME Init PROVE NoticeInv
    OBVIOUS
  <2>1. now = 0 /\ notices = NoNotices /\ sentLog = <<>> /\ logins = {} /\ untold = {}
    BY DEF Init, GateInit
  <2>2. QED
    BY <2>1, NoticeFresh
<1>2. GuessInv /\ NoticeInv /\ [Next]_vars => GuessInv' /\ NoticeInv'
  <2> SUFFICES ASSUME GuessInv, NoticeInv, [Next]_vars PROVE GuessInv' /\ NoticeInv'
    OBVIOUS
  <2>1. GuessInv' /\ GateInv /\ GateInv'
    BY GuessStep DEF GuessInv
  <2>2. QED
    BY <2>1, NoticeStep
<1>3. QED
  BY <1>1, <1>2, GuessStart, PTL DEF Spec

\* In every window there are at most NoticeLimit notices, and a ban for which
\* there is room is told, whatever was sent before (loginNoticeThrottle.allow,
\* internal/web/handlers/security_notifications.go:43).
THEOREM NoticesAreKept == Spec => []NoticesKept
<1>1. GuessInv /\ NoticeInv => NoticesKept
  <2> SUFFICES ASSUME GuessInv, NoticeInv, NEW t \in 0..now
               PROVE  Cardinality({i \in DOMAIN sentLog : t - NoticeWindow < sentLog[i] /\ sentLog[i] <= t}) <= NoticeLimit
    BY DEF NoticesKept, NoticesBounded, BansAreTold, NoticeInv
  <2>1. now \in Nat /\ t \in Nat /\ t <= now /\ sentLog \in Seq(Nat)
    BY GuessFacts DEF NoticeInv
  <2>2. {i \in DOMAIN sentLog : t - NoticeWindow < sentLog[i] /\ sentLog[i] <= t} = Hits(sentLog, Span(t, NoticeWindow))
    BY <2>1 DEF Hits, Span
  <2>3. Cardinality(Hits(sentLog, Span(t, NoticeWindow))) <= NoticeLimit
    BY <2>1, NoticesFit
  <2>4. QED
    BY <2>2, <2>3, Zenon
<1>2. QED
  BY <1>1, GateAlways, PTL

-----------------------------------------------------------------------------
(* The types.                                                              *)

\* The lock is released when its copy ends.
LockHeld == lock \in BOOLEAN /\ (lock => \E k \in Kinds : ~Idle(k))

LEMMA LockStep ==
    ASSUME CopyInv, LockHeld, [Next]_vars
    PROVE  LockHeld'
<1>1. job \in [Kinds -> Jobs] /\ "nas" \in Kinds /\ "manual" \in Kinds
  BY DEF CopyInv, CopyTypes, Kinds
<1>2. CASE UNCHANGED <<lock, job>>
  BY <1>2 DEF LockHeld, Idle
<1>3. CASE lock' = FALSE
  BY <1>3 DEF LockHeld
<1>4. ASSUME lock' \in {lock, TRUE}, NEW k \in Kinds, NEW j, j.pc # "idle", Only(k, j) PROVE LockHeld'
  <2>1. job'[k] = j /\ lock' \in BOOLEAN
    BY <1>1, <1>4 DEF Only, LockHeld
  <2>2. QED
    BY <1>4, <2>1 DEF LockHeld, Idle
<1>5. CASE runNASBackup \/ StartManualNASBackup
  <2>1. PICK j : j = [NoJob EXCEPT !.pc = "claim", !.cfg = nas]
    OBVIOUS
  <2>2. j.pc = "claim"
    BY <2>1 DEF NoJob
  <2>3. QED
    BY <1>1, <1>4, <1>5, <2>1, <2>2 DEF runNASBackup, StartManualNASBackup
<1>6. ASSUME NEW saved \in BOOLEAN, Launch(saved) PROVE LockHeld'
  <2>1. CASE closed
    BY <1>3, <1>6, <2>1 DEF Launch, Release
  <2>2. CASE ~closed
    <3>1. [job["manual"] EXCEPT !.pc = "upload"].pc = "upload"
      BY <1>1 DEF Jobs
    <3>2. lock' = lock /\ Only("manual", [job["manual"] EXCEPT !.pc = "upload"])
      BY <1>6, <2>2 DEF Launch
    <3>3. QED
      BY <1>1, <1>4, <3>1, <3>2
  <2>3. QED
    BY <2>1, <2>2
<1>7. ASSUME NEW k \in Kinds, claimNASBackup(k) PROVE LockHeld'
  <2>1. PICK a, p : /\ p \in {"upload", "launch"} /\ lock' = lock
                    /\ Only(k, [job[k] EXCEPT !.pc = p, !.attempt = a])
    BY <1>7 DEF claimNASBackup
  <2>2. [job[k] EXCEPT !.pc = p, !.attempt = a].pc = p
    BY <1>1 DEF Jobs
  <2>3. QED
    BY <1>4, <2>1, <2>2
<1>8. ASSUME NEW k \in Kinds, notClaimed(k) \/ \E saved \in BOOLEAN : performNASBackup(k, saved) PROVE LockHeld'
  BY <1>3, <1>8 DEF notClaimed, performNASBackup, Release
<1>9. ASSUME NEW k \in Kinds, NEW b \in BOOLEAN, beginUpload(k) \/ uploadFails(k) \/ rename(k, b) PROVE LockHeld'
  <2>1. Failed(job[k]).pc = "finish" /\ [job[k] EXCEPT !.pc = "sending"].pc = "sending" /\ [job[k] EXCEPT !.pc = "prune"].pc = "prune"
    BY <1>1 DEF Failed, Jobs
  <2>2. /\ lock' = lock
        /\ Only(k, Failed(job[k])) \/ Only(k, [job[k] EXCEPT !.pc = "sending"]) \/ Only(k, [job[k] EXCEPT !.pc = "prune"])
    BY <1>9 DEF beginUpload, uploadFails, rename
  <2>3. QED
    BY <1>4, <2>1, <2>2
<1>10. ASSUME NEW k \in Kinds, NEW gone, pruneNASBackups(k, gone) PROVE LockHeld'
  <2>1. PICK m : lock' = lock /\ Only(k, [job[k] EXCEPT !.pc = "finish", !.done = TRUE, !.failure = m])
    BY <1>10 DEF pruneNASBackups
  <2>2. [job[k] EXCEPT !.pc = "finish", !.done = TRUE, !.failure = m].pc = "finish"
    BY <1>1 DEF Jobs
  <2>3. QED
    BY <1>4, <2>1, <2>2
<1>11. CASE CopyStep
  BY <1>5, <1>6, <1>7, <1>8, <1>9, <1>10, <1>11 DEF CopyStep
<1>12. CASE SettingsStep \/ BootNAS
  BY <1>2, <1>12 DEF SettingsStep, NASBackupSettingsPost, SaveNASBackupConfig, TestNASBackup, BootNAS
<1>13. CASE UNCHANGED nasVars
  BY <1>2, <1>13 DEF nasVars
<1>14. ASSUME NEW from, Stop(from) PROVE LockHeld'
  BY <1>3, <1>14 DEF Stop
<1>15. QED
  BY <1>11, <1>12, <1>13, <1>14, CopyMoves

\* The mail.
MailTypes ==
    /\ now \in Nat /\ daily.pc \in {"read", "poll", "sleep", "send", "sending", "pause"}
    /\ batch = Unset \/ (batch \in Nat /\ batch <= now)
    /\ backoff.delay \in 0..BackoffMax /\ pending \subseteq {"new", "resolved"} /\ immediate \in BOOLEAN

LEMMA MailerMoves ==
    ASSUME [Next]_vars
    PROVE  \/ MailNext /\ now' = now
           \/ UNCHANGED mailVars /\ now' \in {now, now + 1}
<1>1. CASE Accounts
  <2>1. CASE LimiterNext
    BY <1>1, <2>1 DEF Accounts, LimiterNext, BeginCheck, CompareWrong, CompareRight, cleanup
  <2>2. CASE GateNext
    BY <1>1, <2>2 DEF Accounts, GateNext, LoginPost, loginFailed, notifyAdminLoginFailed, LoginPassed, handleTOTPEnforcement, Cleanup, unbanIP, UnbanIP, Restart
  <2>3. QED
    BY <1>1, <2>1, <2>2 DEF Accounts, Tick
<1>2. CASE Process
  BY <1>2 DEF Process
<1>3. CASE Copies
  BY <1>3 DEF Copies, NASTick, Tick
<1>4. CASE Mail
  BY <1>4 DEF Mail, DailyTick, PaceTick, Tick
<1>5. CASE UNCHANGED vars
  BY <1>5 DEF vars
<1>6. QED
  BY <1>1, <1>2, <1>3, <1>4, <1>5 DEF Next

LEMMA MailTypesStep ==
    ASSUME MailTypes, [Next]_vars
    PROVE  MailTypes'
<1> USE MailerAssumption
<1>1. now \in Nat /\ backoff.delay \in Nat /\ backoff.delay <= BackoffMax /\ {BackoffMin, BackoffMax} \subseteq Nat
  BY DEF MailTypes
<1>2. CASE UNCHANGED mailVars /\ now' \in {now, now + 1}
  BY <1>1, <1>2 DEF MailTypes, mailVars, dailyVars, paceVars
<1>3. CASE MailNext /\ now' = now
  <2>1. ASSUME daily'.pc \in {"read", "poll", "sleep", "send", "sending", "pause"}, UNCHANGED <<batch, backoff, pending, immediate>>
        PROVE  MailTypes'
    BY <1>3, <2>1 DEF MailTypes
  <2>2. CASE \/ StartEmailScheduler \/ Fires \/ sendDailyReport \/ sendSMTP \/ SettingsUnread
    <3>1. UNCHANGED <<batch, backoff, pending, immediate>>
      BY <2>2 DEF StartEmailScheduler, Fires, sendDailyReport, sendSMTP, SettingsUnread, paceVars
    <3>2. PICK pc, wake : Timer(pc, wake) /\ pc \in {"read", "poll", "sleep", "send", "sending", "pause"}
      BY <2>2 DEF StartEmailScheduler, Fires, sendDailyReport, sendSMTP, SettingsUnread
    <3>3. QED
      BY <2>1, <3>1, <3>2 DEF Timer
  <2>3. ASSUME NEW c, EditSendTime(c) PROVE MailTypes'
    BY <2>1, <2>3 DEF EditSendTime, paceVars, MailTypes
  <2>4. ASSUME NEW m, EditWindow(m) PROVE MailTypes'
    BY <2>1, <2>4 DEF EditWindow, MailTypes
  <2>5. CASE dispatchImmediateEmail
    <3>1. UNCHANGED <<backoff, pending, immediate, daily>> /\ batch' \in {Unset, now, batch}
      BY <2>5 DEF dispatchImmediateEmail, since, dailyVars
    <3>2. QED
      BY <1>1, <1>3, <3>1 DEF MailTypes
  <2>6. ASSUME NEW o, deliver(o) PROVE MailTypes'
    <3>1. UNCHANGED <<daily, immediate>> /\ batch' \in {Unset, batch} /\ pending' \subseteq pending /\ backoff' \in {NoBackoff, failed(backoff, now)}
      BY <2>6 DEF deliver, ClearAlertEmailBatch, dailyVars, record
    <3>2. NoBackoff.delay = 0
      BY DEF NoBackoff
    <3>3. failed(backoff, now).delay \in 0..BackoffMax
      BY <1>1 DEF failed, least, most
    <3>4. backoff'.delay \in 0..BackoffMax
      BY <3>1, <3>2, <3>3
    <3>5. QED
      BY <1>3, <3>1, <3>4 DEF MailTypes
  <2>7. ASSUME NEW x \in {"new", "resolved"}, Update(x) PROVE MailTypes'
    <3>1. UNCHANGED <<batch, backoff, immediate, daily>> /\ pending' \subseteq pending \cup {x}
      BY <2>7 DEF Update, dailyVars
    <3>2. QED
      BY <1>3, <3>1 DEF MailTypes
  <2>8. CASE MailRestart
    <3>1. UNCHANGED <<batch, pending, immediate>> /\ daily'.pc = "read" /\ backoff'.delay = 0
      BY <2>8 DEF MailRestart, NoBackoff
    <3>2. QED
      BY <1>1, <1>3, <3>1 DEF MailTypes
  <2>10. CASE EvaluationSkips
    BY <1>3, <2>10 DEF EvaluationSkips, dailyVars, MailTypes
  <2>11. CASE SwitchMails
    BY <1>3, <2>11 DEF SwitchMails, MailTypes
  <2>9. QED
    BY <1>3, <2>2, <2>3, <2>4, <2>5, <2>6, <2>7, <2>8, <2>10, <2>11 DEF MailNext
<1>4. QED
  BY <1>2, <1>3, MailerMoves

\* In every scene the parts of the process keep their shape: the lists of a
\* key hold times that have been, the lock on copies is held exactly while one
\* is under way, and the backoff of the mail never exceeds its limit.
THEOREM ProcessTypeCorrect == Spec => []TypeOK
<1>1. Init => LifeInv /\ CopyInv /\ LockHeld /\ LimitInv /\ MailTypes
  <2> SUFFICES ASSUME Init PROVE LifeInv /\ LockHeld /\ MailTypes /\ LimitInv
    BY CopyInit
  <2>1. LifeInv
    BY LifeStart
  <2>2. LockHeld
    BY DEF Init, NASInit, LockHeld
  <2>3. now = 0 /\ daily.pc = "read" /\ batch = Unset /\ backoff.delay = 0 /\ pending = {} /\ immediate = TRUE
    BY DEF Init, MailInit, NoBackoff
  <2>4. MailTypes
    BY <2>3, MailerAssumption DEF MailTypes
  <2>5. LimitInv
    BY DEF Init, LimiterInit, LimitInv, LimitTypes, LimitPast, LimitCounted, NoBucket
  <2>6. QED
    BY <2>1, <2>2, <2>4, <2>5
<1>2. LifeInv /\ CopyInv /\ LockHeld /\ LimitInv /\ MailTypes /\ [Next]_vars
        => LifeInv' /\ CopyInv' /\ LockHeld' /\ LimitInv' /\ MailTypes'
  BY LifeStep, CopiesStep, LockStep, LimitStep, MailTypesStep
<1>3. LifeInv /\ CopyInv /\ LockHeld /\ LimitInv /\ MailTypes /\ GuessInv /\ NoticeInv => TypeOK
  <2> SUFFICES ASSUME LifeInv, CopyInv, LockHeld, LimitInv, MailTypes, GuessInv, NoticeInv PROVE TypeOK
    OBVIOUS
  <2>1. now \in Nat /\ MaxTime \in Nat /\ now <= MaxTime
    BY GuessFacts, ClockAssumption
  <2>2. LimiterTypeOK
    BY <2>1 DEF LimitInv, LimitTypes, LimiterTypeOK
  <2>3. GateTypeOK
    <3>1. ASSUME NEW k \in Names
          PROVE  states[k] \in [failures : SUBSET ((0..MaxTime) \X Nat), expiry : Nat, count : Nat]
      <4>1. IsState(states[k]) /\ IsList(states[k].failures, now)
        BY DEF GuessInv, KeyInv, KeyTypes
      <4>2. ASSUME NEW e \in states[k].failures PROVE e \in (0..MaxTime) \X Nat
        <5>1. e = <<e[1], e[2]>> /\ e[1] \in Nat /\ e[1] <= now /\ e[2] \in Nat
          BY <4>1 DEF IsList
        <5>2. e[1] \in 0..MaxTime
          BY <2>1, <5>1
        <5>3. QED
          BY <5>1, <5>2, Zenon
      <4>3. QED
        BY <4>1, <4>2 DEF IsState
    <3>2. states \in [Names -> [failures : SUBSET ((0..MaxTime) \X Nat), expiry : Nat, count : Nat]]
      BY <3>1, GuessFacts
    <3>3. \A r \in logins : r.client \in Clients /\ r.at \in 0..now
      BY <2>1, GuessFacts DEF LoginTypes
    <3>4. stored \in [Names -> [count : Nat, expiry : Nat]] /\ notices.suppressed \in Nat
      BY DEF GuessInv, GateInv, NoticeInv
    <3>5. QED
      BY <3>2, <3>3, <3>4 DEF GateTypeOK
  <2>4. LifeTypeOK
    BY DEF LifeInv
  <2>5. NASTypeOK
    <3>1. nas \in Rows /\ job \in [Kinds -> Jobs]
      BY DEF CopyInv, CopyTypes
    <3>2. nas.dest \in Dests \cup {None} /\ nas.error \in Messages /\ \A k \in Kinds : job[k].pc \in Points
      BY <3>1 DEF Rows, Jobs
    <3>3. lock \in BOOLEAN /\ (lock <=> \E k \in Kinds : ~Idle(k))
      BY DEF LockHeld, CopyInv, LockInv
    <3>4. QED
      BY <3>2, <3>3, Zenon DEF NASTypeOK
  <2>6. MailTypeOK
    BY <2>1 DEF MailTypes, MailTypeOK
  <2>7. QED
    BY <2>2, <2>3, <2>4, <2>5, <2>6 DEF TypeOK
<1>4. QED
  BY <1>1, <1>2, <1>3, GateAlways, PTL DEF Spec
=============================================================================
