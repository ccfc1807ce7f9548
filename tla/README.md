# A formal model of ProBakGo

ProBakGo is a central server that collects backup reports and heartbeats from
Proxmox VE, Proxmox Backup Server and Windows machines, turns them into alerts
and tells people about the critical ones by email, Web Push and Telegram. This
directory holds TLA+ modules that model its core logic, TLC configurations that
check them on small instances, and proofs checked by TLAPS.

All paths below are relative to the repository root `src/`.

## 1. Inventory

One Go process holds an HTTP server (JSON API for the clients, HTML pages for
people), a few background goroutines and one SQLite database opened with a single
connection (`internal/db/db.go`). A statement outside a transaction, and a whole
transaction, are therefore atomic; anything that takes two statements is not.

| Component | State | Operations | Used by / talks to |
|---|---|---|---|
| Alert state tables (`store/alert_state.go`, `store/telegram.go`) | `alert_states`, `telegram_alert_deliveries`, `telegram_destinations` | sync an evaluation, list pending, mark sent, prune | notifications, web pages, cleanup, reset |
| Immediate notifications (`service/immediate_notifications.go`, `alert_scheduler.go`, `api/handlers/handlers.go`) | `notificationMu`, alert queue of capacity 1, batch window, SMTP backoff | one run: evaluate, sync, filter, Telegram, email, with Web Push in a second goroutine | evaluators, tables, three transports |
| Alert evaluators (`service/alertengine.go`, `service/report.go`) | none (read reports, heartbeats, settings) | `RunAll`, `SyncAlertStatesFor`, filters | notifications, web pages |
| Transports (`telegramsender.go`, `pushsender.go`, `email.go`) | Telegram configuration, push subscriptions, SMTP configuration | send, verify, prune dead subscriptions | notifications |
| Daily report email (`service/email.go`) | its settings, the timer of its loop | scheduler, one row per host, send | evaluators, reports |
| Task group and shutdown (`service/background.go`, `main.go`) | wait group, closed flag, cancel function | start, refuse, wait, close the database last | everything |
| API keys and server identity (`service/auth.go`, `store/apikey.go`, `api/handlers/authz.go`) | key row: active, bound machine id, bound server name | validate and bind at first use, unbind, toggle, delete | every API request |
| Report and heartbeat ingestion (`api/handlers/report.go`, `heartbeat.go`, `store/pve.go`, `pbs.go`, `windows.go`) | server rows, report rows, heartbeats | create or rename the server of a key, insert a report once, request an evaluation | clients, alert queue |
| Login, sessions, 2FA (`web/handlers/auth.go`, `session/`, `totp/`) | challenges, session versions, revoked sessions, last TOTP step | password step, code step, logout, revoke | every page |
| User accounts (`store/user.go`, `web/middleware.go`) | role, active flag, 2FA grace period | create, deactivate, delete, enforce 2FA | login, Telegram destinations |
| IP bans and rate limits (`ratelimit/`) | windows per address, strikes, bans | count, ban, unban, persist, restore | login, API |
| Suppressions, maintenance (`store/suppressions.go`, `maintenance.go`) | rows with an expiry date | add, remove | notifications, web pages |
| Cleanup, reset (`service/cleanup.go`, `store/reset.go`) | – | delete old rows, delete everything | all tables |
| NAS backup (`service/nas_backup.go`, `store/nas_backup.go`, `web/handlers/nas_backup.go`) | one row of settings and results, a lock, files on the NAS | claim, upload, rename, prune, record; edit and test the settings | task group |
| Web pages (`web/handlers/servers.go`, `dashboard.go`, `alerts.go`) | none | work the state of each host out from reports and alerts | evaluators, alert table |
| Linux and Windows clients (`client/`, `client-windows/`) | configuration file, marker or token of a pending report | collect, send, retry | ingestion |
| Self-update, migrations, secrets at rest | binaries, schema version, encrypted columns | see section 6 | – |

### What is hard here

* **Two writers of the alert table.** A notification run holds `notificationMu`,
  but the dashboard, alerts and detail pages also evaluate and sync
  (`web/handlers/alerts.go`, `runRawAlerts(ctx, true)`) and take no lock. An alert
  may be resolved, or resolved and revived, between the moment a notice is sent and
  the moment it is marked as sent.
* **Send and mark are two steps**, with the network in between: a crash, a failing
  statement or a lost answer can separate them.
* **Partial evaluations**: an evaluator that fails makes its alerts disappear from
  the evaluation without being over.
* **Dropped wake-ups**: a request that meets a taken mutex or a full queue is
  forgotten; only the next tick of the scheduler makes up for it.
* **Configuration read twice**: whether a channel is ready is asked when the run
  begins, and the Telegram sender asks again before each message.
* **Check-then-act over two statements** outside the notifier: first-use binding of
  API keys, the last-administrator rule, single-use login challenges, the look at a
  ban or a rate limit before the password is compared.
* **Reports built from endpoints that may fail**, one by one: what a node could not be
  asked must not look like what went well, nor like a failure that did not happen.
* **The same question answered three times**: alerts, pages and daily mail each work
  out from the reports whether a host is well.
* **Work that outlives its cause**: a copy to the NAS claimed before a stop or a crash,
  a timer set before an edit of the settings, a task started while the server stops.
* **A report has two senders.** The vzdump hook's runner and the heartbeat timer both
  send the report that a marker file asks for and both remove the marker; only the
  runners hold a lock. Answers get lost, and the node may restart in between.

`PROJECT.json` lists every hazard with its line and the properties that watch it.

## 2. The modules

* **`AlertStates`** is the store: one set of alert ids per flag or nullable
  timestamp of `alert_states`, one set per destination for the Telegram delivery
  rows and one for their `resolution_sent_at`. Its operators are the SQL functions of
  `store/alert_state.go` and `store/telegram.go`, each as one action. The guards on
  `is_present` differ between the email, push and Telegram marks in the code, and they
  differ in the model in the same way.
* **`AlertDelivery`** extends it with the processes. `BeginRun` .. `RunEnds` is one
  call of `sendImmediateCriticalAlerts`; `pc` is where its main goroutine stands and
  `ppc` where the push goroutine stands. Every statement and every send is an action of
  its own. `SchedulerTick` and `WorkerTakes` start runs; `WebEvaluate` and `WebSync`
  are a web page; `ReportStored`, `TimePasses`, `ToggleMuted`, `ToggleChannel`,
  `AdminResets`, `TelegramLink`, `Cleanup` and `Crash` are the rest of the world.
* **`AlertDelivery_proofs`** holds the theorems.
* **`MCAlertDelivery`** is the module TLC runs; one `.cfg` per question.

* **`KeyBinding`** is the way of an API request up to the row of its server, for one
  key. `req[r].pc` is the next statement of request `r`: `Lookup`,
  `BindAPIKeyMachineID` and `RereadMachine` are `ValidateServerKey`; `CheckName`,
  `BindAPIKeyServerName` and `RereadName` are `requireKeyServer`; `SelectServer` to
  `InsertServer` are `UpsertPVEServerForAPIKey` and its twins. `MayOwn` are the constraints
  of the server table. The administrators' actions are the handlers of
  `web/handlers/apikeys.go`; deleting a key takes three of them. `MCKeyBinding` adds the
  symmetry set, **`KeyBinding_proofs`** the theorems.
* **`ClientReports`** is the PVE client and the server's side of a repeated report.
  Process 0 is the heartbeat, process *j* the hook's runner for job *j*; both go through
  `GenerateReport`, `EnsureReportID` and `Post`. **`ClientReports_proofs`** holds the
  theorems.

* **`WebAccess`** is the accounts of the web interface. `req[r]` stands between two
  statements of a request with the user row it has read: the password and the code step of
  a login, the middleware with its 2FA enforcement, the handlers that change the own or
  another account, and the recovery commands. Challenges, cookies, revoked sessions and
  the claimed TOTP steps are its tables. `MCWebAccess` adds the symmetry of requests,
  **`WebAccess_proofs`** the theorems.
* **`Hosts`, `PVEWatch`, `PBSWatch`, `WindowsWatch`, `Monitor`** are what the evaluators
  compute, and from what. A Watch module holds the machine (tasks, snapshots, volumes), the
  report its client builds from endpoints that answer or fail, the rows the server keeps of
  it, the settings, and the alerts as a set computed by operators named after the
  evaluators. `Hosts` has the clock and the heartbeats; `Monitor` puts the three together;
  **`Monitor_proofs`** holds the theorems.
* **`Views`** extends `Monitor` with what people are shown: `buildEmailData` for the daily
  mail, and the rows and counters of the lists and of the dashboard. It has no
  variables: its operators are compared with `RunAll` in every state. **`Views_proofs`** holds
  the theorems.
* **`Clock`, `Limiter`, `LoginGate`, `Lifecycle`, `NASBackup`, `Mailer`** are the parts of
  the server process beside the alerts, each on the shared clock: the fixed-window
  limiter with the check of the current password; the progressive bans, their table and the
  throttled notices; start, tasks, shutdown and crash; the copies to the NAS with
  their settings form; the loop of the daily mail, the batch window and the SMTP backoff.
  **`ServerProcess`** composes them. `NASBackup` really runs inside `Lifecycle` (a copy is a
  task of the group, started by a loop or a request); the others only share the clock.
* **`BanBook`** is the abstract specification of the bans: who is banned until when, for
  the how-manieth time, and what of it a restart brings back. `LoginGate` instantiates it with
  a ban as the expiry that is still ahead, so bans that have run out but are still in the
  map, failures, cleanups and notices are invisible to it.
* **`ServerProcess_proofs`** holds the theorems about these parts, **`Mailer_proofs`** those about
  the mail.

The modules meet where the code does: a request that `KeyBinding` lets through stores a
report (`InsertPVEReportData` in `ClientReports`, and the same for each kind of host in the Watch modules), a
stored report makes the queue ask for an evaluation (`ReportStored` in `AlertDelivery`),
the evaluation is the `RunAll` of `Monitor`, and its result is what `SyncAlertStates` of
`AlertStates` is given; the run's email is due or put off (`EmailDue`, `EmailDeferred`) as
`Mailer` says.

### What is abstracted

* An alert is an identifier with a severity. What the evaluators compute from
  reports is an arbitrary choice per alert (`cond`), changed by a stored report or by
  the passing of time. The `Immediate` constant stands for the alert types that may be
  sent at once, `muted` for suppression and maintenance together.
* Messages are recorded as their recipients see them: `told[r]` are the alerts whose
  last message to `r` said *active*, `cleared[r]` those whose last message said
  *resolved*, `announced[r]` those sent since the alert last appeared. These three and
  `wasClear` are history variables: no action reads them.
* The batch window and the SMTP backoff need a clock, which `Mailer` has. In `AlertDelivery`
  a run either finds the email due (`EmailDue`) or puts it off (`EmailDeferred`); both are
  always possible.
  `BatchEmail` chooses between one digest and two separate emails.
* A failing statement, a crash and a send that is delivered but reports an error
  are possible when `Faults` is true. `RunAborts` is the early return of a run whose
  evaluation, sync or email selection fails.
* The configuration of the channels is read in one step at the beginning of a run; the
  code reads it in three statements, none of which another process separates in a
  way these properties can see, because the configuration only changes between runs
  unless `ReconfigMidRun` is set.
* `KeyBinding`: columns that a request refreshes on a row that exists, `last_used`, the
  label and the encryption of the key are left out. A request without a machine id, with an
  unknown key or with a malformed body has no effect and is not started, or ends in
  `RequestFails`. Proxmox's two server tables are one type, since only the Windows table
  refers to `api_keys` by a foreign key. A decision counts for `trusted` and `named` at the
  statement that it rests on: a request admitted on the name read before an edit belongs to
  the time before the edit.
* `ClientReports`: a report is its id and the last job that PVE had published when its data
  was collected. If PVE fails to list its tasks the report says ERROR instead of the
  result; both count as a report of the job. A marker is the number of the write, as the times
  written to it are at least seconds apart. The five seconds that the hook waits are taken
  to be enough for PVE to publish the job, and jobs end one after the other. A report that
  a user sends by hand, and files deleted by uninstalling, are left out.
* `WebAccess`: a password is the version it was set at, a secret the version it was
  enabled at, a code the step it belongs to. User names are left out (a renaming only raises
  the version). A code is validated with the row read before and claimed by a statement of its own, as in
  the code (`Validated`, `ClaimCode`, `ClaimSetup`). Cookies do not expire within the horizon. The middleware reads the user row and
  the revocation in one step, as nothing happens between the two that another order
  could not produce. A restart drops the requests under way and the challenges, which are in memory.
  Bans are `LoginGate`'s.
* The Watch modules: a status is one of the classes that the code tells apart, a size is
  normal or small, a disk a percentage from a small set, a week and a day have few days and slots.
  Each scenario lets one side of one kind of host move, so the state spaces add up instead
  of multiplying.
* `Views`: the silenced alerts and the maintenance are arguments, taken from all sets.
  Rows are classes ("issue", "ok", left out), never text.
* `LoginGate` and `Limiter`: time is in slots, and any number of steps fits in a slot, so the
  ends of windows and bans coincide with other steps. An address has a key, and a ban may be
  lifted under either (`UnbanKeys`), banned or not. The enforcement of 2FA at a login ends in a notice too
  (`handleTOTPEnforcement`). Database errors of the ban table are ignored by the code
  and are possible here. A list of times of which the code reads only the length (the failures
  of a key, the notices sent) is the set of its entries, a time and a number that tells the entries
  of one instant apart (`Entry`). The limiter serves several users of the code; one bucket is modelled.
* `Lifecycle`: a task is a name in the group. The second wait of the shutdown may run out at
  any time, the first whenever a request is left; `overdue` remembers that it did.
* `NASBackup`: a slot is an hour or more, so that a copy (at most ten minutes) ends in the slot
  in which it began. A file under its temporary name is no copy, whether it was removed or not.
  A password is the destination that it was typed for.
* `Mailer`: a slot is a minute. A marked digest may be marked in part, the new ones but not the
  resolved ones, and the mails may be switched off and on (`SwitchMails`). Updates are of two kinds, new and resolved, since the mails are.
* The alert event log, the status rows shown on the
  settings page and all wording are left out.

## 3. Runs

| Run | Instance | Shows |
|---|---|---|
| `push_web` | Web Push, one web page, faults | `PushMarkTruthful` |
| `faults` | email and Telegram in one notifier, no web page, faults | `EmailMarkTruthful`, `TelegramMarkTruthful`, `NoFalseResolution` |
| `email_push` | email digests and push together, fair | `OncePerAppearance`, `ResolutionOwed`, `CriticalAnnounced` |
| `telegram_live` | one destination, one web page, fair | `TelegramServed` |
| `email_web` | email, one web page | **violates** `EmailMarkTruthful` |
| `key_binding` | two requests, machines, names and server ids, all interchangeable | `ExclusiveBinding`, `ExclusiveOwnership` |
| `client_reports` | two jobs, one restart, fair | `JobReportedOnce`, `NotForgottenInTurn`, `EventuallyReported` |
| `web_access` | two accounts, two interchangeable requests, two sessions, one challenge | `TypeOK`, `LoginsAreCurrent`, `ChallengesHold`, `CodeWorksOnce` |
| `last_admin` | the same accounts | **violates** `EnforcementSparesLastAdmin` |
| `monitor` | eight scenarios of the three kinds of host | `TypeOK`, `FailureReachesAlert`, `AlarmsAreFounded`, `StaleMatchesSchedule`, `SwapFollowsNewest`, `PBSAlertsMatch`, `LostVolumeSurvivesRetry`, `SilenceIsNoticed`, `MailAgrees`, `PagesAgree` |
| `pbs_running` | one of them | **violates** `LatestCompletedIsReported` |
| `server_process` | nine scenes of the parts of the process | `TypeOK`, `GuessesBounded`, `NoticesKept`, `PasswordChecksBounded`, `ImplementsBanBook`, `IdleWhenClosed`, `OnceADay`, `DailyCopy`, `ResultIsTrue`, `PasswordStaysHome`, `MailEachDay`, `RetriesSpaced`, `BatchOnTime` |

A property that has several parts (`ResolutionOwed`, `PagesAgree` ...) is a conjunction of
named ones, each with its comment in the module. All type invariants are proved (section 4);
those of `WebAccess`, `Monitor` and `ServerProcess` are checked as well. The largest runs are
`web_access` (3.4 million distinct states) and `server_process` (one million), which take
between two and three minutes each.

### Bounds

*`AlertDelivery`*: one alert, because the tables treat alerts independently; the
exceptions (a mark that covers several alerts in one transaction) are covered for any
number of alerts by the theorems. One alert already has two severities, may be
resolved and revived any number of times, and meets every interleaving of one run
with one web page. State spaces are finite without any artificial bound: every
variable is a set, a flag or a program counter.

*`KeyBinding`*: two requests are what a race for the first use of a key or for its first
server row takes; a second machine, name and id are what it takes to see the wrong one win.
Slots and keys are reused, so requests come without end; server ids are used up
(AUTOINCREMENT), which ends insertions after two rows and is the only bound. A deleted key
refuses every request, so deadlock is not checked.

*`ClientReports`*: `MaxJobs` and `MaxReboots`; a second job is what makes a marker or an id
stale. Nothing goes on once all jobs have been reported.

*`WebAccess`*: `MaxServed` requests in all, two at a time, bound the length of a behaviour;
three are enough for a login, a change of its account in the middle of it, and a use of
its session. `MaxVer` changes of one account, `MaxNow` steps of the clock with a challenge,
a grace period and a fresh code of one step each, so that all of them run out.

*`Monitor`*: two VMs (one excluded or absent, one active), two tasks, a week of two days, a
day of three slots of which one is the hour at which backups must be finished. Each
scenario of `MCMonitor` says what it lets happen: two tasks and a report with every endpoint
that can fail, within one day; edits after one task, in one slot; more days than the code looks back on; reports and heartbeats in any
order; the same for a backup server; three reports of a Windows host of which any
answer may be lost.

*`ServerProcess`*: a scene for each part, chosen at the start. Two requests at a time against
limits of two, so that the limit is crossed by overlapping requests; ban durations of two
slots and for ever, a window for notices of two, and a clock that runs long enough for each of
them to end; one restart. Two days of four slots for the copies with a crash or a
stop, and fewer slots with edits, where two forms overlap; fourteen slots, three and a half
days, for the daily mail with two edits, restarts or failed reads; seven minutes for a window of
two and a backoff of one to four with three updates, edits or restarts.

### The properties in words

* *A mark is truthful* (`PushMarkTruthful`, `TelegramMarkTruthful`,
  `EmailMarkTruthful`): a present alert whose row says "sent" is one whose recipient
  was last told that it is active. If this fails, the alert is never announced again
  while people believe it is over.
* `ResolutionOwed`: between runs, an alert that was announced by email or push and is now
  resolved has had its resolution or is queued for it.
* `OncePerAppearance`: no recipient that is still linked gets an alert twice in one appearance (without
  lost answers and crashes, after which the code repeats the notice on purpose).
* `NoFalseResolution`: a row is only resolved if the condition really was clear since
  it was last found, whatever evaluators failed (`ResolvedWhenClear`), and a recipient is told that an
  alert is over only if it was last told that it is active, or of that same end (`OverOnlyIfTold`).
* `CriticalAnnounced`, `TelegramServed`: in the end people are told; by Telegram also that
  it is over. The latter speaks of the alert's last appearance: an alert that was sent,
  resolved and reappears as a warning or silenced before the resolution was delivered
  drops the debt, because the sync that revives it deletes the delivery row.
* `ExclusiveBinding`: between two unbinds (edits) all requests that are let through come
  from one machine and bear one name, the stored one.
* `ExclusiveOwnership`: racing first reports leave one server row, and requests that outlive
  the deletion of their key cannot create a Windows row for it. The Proxmox tables
  have no foreign key and such a row can remain; migration 018 deletes them.
* `JobReportedOnce`, `NotForgottenInTurn`, `EventuallyReported`: while the client's processes take
  turns, no job has two rows on the server, and the last job is on the server or pending, and
  gets there. The first rests on the id, which the client has from the marker: it must
  not change between the first attempt and the answer that is heard.
* `LoginsAreCurrent`: a session that the middleware accepts was opened with the password, the
  second factor and the role that the account has now, also when the change fell into the login.
* `ChallengesHold`, `CodeWorksOnce`: requests that share a challenge or a code open one
  session, try a few codes, and use a code once: at a login, for a sensitive action or to
  confirm the set-up of 2FA, as long as the account keeps the secret (see the known limits).
* `FailureReachesAlert`, `AlarmsAreFounded`, `PBSAlertsMatch`, `LostVolumeSurvivesRetry`: what
  happened on the node is compared with the alerts at the other end, through the
  report, the rows and the evaluators, in both directions.
* `StaleMatchesSchedule`: the late-report alert agrees with a definition over the days of the
  schedule that does not use the code's backward search.
* `SwapFollowsNewest`: the swap alert follows the newest of two kinds of signals, in whatever
  order they come. `SilenceIsNoticed`: a host that is silent for longer than the limits has an alert
  that says so, unless the limit is zero, which switches it off.
* `MailAgrees`, `PagesAgree`: mail, lists and dashboard agree with the alerts. In maintenance the
  mail is green; with all alerts silenced it is green too, unless a missing VM is in it: a PVE
  host is then an issue exactly in that case (see the known limits).
* `GuessesBounded`, `PasswordChecksBounded`: within one window there are at most as many
  failures as the limit allows and requests were under way when it was reached.
* `NoticesKept`: in no window are there more notices than the limit, and a ban is told when
  there is room.
* `ImplementsBanBook`: the refinement of `BanBook`.
* `IdleWhenClosed`: the database is closed when nothing uses it, unless a wait ran out.
* `OnceADay`, `DailyCopy`: at most one scheduled copy a day, and one, wherever the process stopped.
* `ResultIsTrue`: "running" is shown while a copy runs or its result was lost by a crash
  or a failed write; after a success there is a copy at least as new on its NAS.
* `PasswordStaysHome`: a password is used with, and stored for, the NAS it was typed for.
* `MailEachDay`: once nothing has been edited for a day, each day has one report, in its minute.
* `RetriesSpaced`: after failures in a row no evaluation of this process sends before a wait that
  each of them doubled, up to the limit.
* `BatchOnTime`: a batched mail waits for the whole window of its first update, and once the
  evaluation of a minute has ended no update that still waits is as old as the window.

### Findings

1. `email_web`: `MarkAlertCriticalEmailsSent` lacks the `is_present` guard that the
   push mark has. A run finds an announced alert still there and syncs; a web page then syncs
   the evaluation that it made while the condition was clear, which resolves the row, clears its
   mark and queues the resolution; the run, which still holds the alert, emails it as
   active and marks the absent row, and after that sends the queued resolution. When the
   alert comes back, its row is present and marked, so nothing is emailed, although the last
   email says resolved. (A page that resolves the alert between the email and its mark does no harm by
   itself: its recipient was told last that it is active.)
2. `last_admin`: the middleware asks whether the user is the last active administrator in one
   statement and deactivates in another. Two administrators whose grace period is over, each
   with a request at the same time, deactivate each other's last companion.
3. `pbs_running`: the client keeps the newest task of a PBS job even if it is still running and
   then drops it for having no result, so the failure before it disappears from the
   report and its alert resolves while the next task runs.

### Known limits of the code

Met while modelling, and excluded from the properties by a condition that names them:

* A resolution email is queued only if the severity stored last is critical: an alert that
  falls to warning before it ends gets none (`store/alert_state.go:141`).
* An alert resolved by a web page between its push and the mark is neither marked nor queued;
  the toast stays (`email_push` has no web page).
* `SendAlerts` answers success without sending when Telegram was disabled during the run, and
  the alert is marked as delivered (`~ReconfigMidRun`).
* Email alerts may be switched off while a batch row is pending: runs then return or skip the
  mail before they look at it (`service/immediate_notifications.go:74`, `:103`), and the first mail
  after they are switched on again goes at once, in the name of the old `pending_since`.
  `BatchOnTime` leaves the updates of that window out (`unclean`).
* Who pairs a Telegram chat in place of a linked one keeps the destination and its delivery rows
  (`store/telegram.go:147`): the new chat counts as told what the old one was. The properties
  speak of destinations.
* A heartbeat that retries beside the hook's runner may remove the marker that the
  runner relies on: the job is neither on the server nor pending (`NeverForgotten` fails as soon
  as the processes overlap).
* PBS task failures whose text has neither "error" nor "fail" raise no alert. The alert about a
  missing volume compares the last two reports only. A Windows retry sends the data of the
  new run under the token of the old one, and the server keeps the old data.
* A vzdump job recorded partly as one task and partly per VM can hide a failure (`OneKind`). If
  the first listing of tasks fails and the second works, only the newest task speaks for the
  host. A report just after midnight counts for the new day.
* The mail leaves out a configured PVE host whose late-report alert is off, with its missing
  VMs. Its PBS row is late by calendar day, the alert by hours. Disk, heartbeat and verification alerts do
  not colour it. A whole-job failure beside VM rows that are all well shows as well on the list.
* A silenced missing VM turns the daily mail red: its rows do not ask for suppressions
  (`missingVMRows`, `service/email.go:432`), as those of the other alerts do.
* The code of a 2FA secret works once as long as the account keeps the secret. A request that has
  validated a code (`web/middleware.go:130`, `web/handlers/auth.go:170`) and claims it (`:133`, `:173`)
  after 2FA was switched off, which resets `totp_last_step` (`store/user.go:115`), has it accepted
  although it was used before. A login gains nothing by it, since switching off raised the
  session version (`LoginsAreCurrent`); a sensitive action passes. The code that confirms
  the set-up is claimed after 2FA is on (`web/handlers/profile.go:194`, `:200`): in between it
  still works for a login, and a failure of that claim is only logged.
* At the very instant a window ends the limiter still counts into it but no longer blocks
  (`PasswordChecksBounded` leaves that instant out). A restart forgets failures and notices.
* As long as the settings row cannot be read or claimed (`service/nas_backup.go:253`, `:263`), nothing
  is copied and time goes on, for days if need be; `DailyCopy` speaks of the days on which
  the loop's read and claim worked in the end (`steady`).
* A copy uses the settings read before its claim: an edit in between still copies to the old NAS.
  A rename whose answer is lost is recorded as a failure though the archive is there.
* An edit of the daily mail takes effect when the old time has fired; a report that was just
  enabled within the polling interval of its time skips the day; a failed read of the
  settings gives the day up. A batch row whose deletion failed makes the next update go out early,
  and a restart forgets the backoff.

### Fairness

`SchedulerTick` is weakly fair: the ticker of `alert_scheduler.go` never stops while
the process lives, and a free mutex stays free until somebody takes it. The goroutines
of a run (`MainStep`, `PushStep`) are weakly fair: every call they make has a timeout.
`EmailSendOK`, `PushSendOK`, `TelegramSendOK` and `EmailDue` are strongly fair: this is an
assumption on the environment, that a transport tried again and again works in the end,
and on the clock, that neither the batch window nor the backoff (30 minutes at
most) lasts for ever; `BatchOnTime` and `RetriesSpaced` show the latter. Nothing is assumed of
the worker, of web pages or of reports: alerts are announced by the scheduler alone.

In `ClientReports` every process that was started goes on (all its calls have timeouts),
PVE publishes an ended job, and the systemd timer fires while there is a marker. Strong fairness
of `GenerateReport` and of an answered `Post` of the heartbeat says that Proxmox and the server
are not out of reach in all retries for ever. The node restarts `MaxReboots` times at most.

The liveness runs of `AlertDelivery` exclude crashes and lost statements (`Faults` is false): a process
that crashes in every run never delivers anything.

`ServerProcess` states its deadlines as invariants instead (`DailyCopy`, `MailEachDay`,
`BatchOnTime`). The ticks of its scenes are urgent: a slot ends only when the timers that fire in it
have fired and the loops have had their round, which is what Go's timers and the limits on each
call guarantee at the length of a slot. A round of the loop of the copies may fail to read or to claim
its row: time then goes on, for as many slots as that repeats, and `DailyCopy` asks for the copy of
the day from the first round that does not fail (`steady`).

## 4. Proofs

`AlertDelivery_proofs` proves for any sets of alerts, destinations and web pages:

* **`TypeCorrect`**: `Spec => []TypeOK`.
* **`PushMarksAreTruthful`**: `Spec => []PushMarkTruthful`. The property alone is not
  inductive: between send and mark the table does not yet say what the subscribers
  know. `PushInv` adds that what is about to be marked has been sent, and that what is
  about to be reported as resolved is not marked. The second part survives syncs of
  web pages because only the push goroutine sets the mark, and it does one thing at a time.
* **`TelegramMarksAreTruthful`**, assuming `~ReconfigMidRun`. Needs two layers:
  `TelegramStaysReady` (a run that found Telegram ready finds it enabled at every
  send) and `TelegramTable` (a resolution listed before the alert was revived no longer
  has a delivery row, since the reviving sync deleted it). The known limit above is why
  the assumption cannot be dropped.
* **`EmailMarksAreTruthful`**, assuming `WebPages = {}`. `EmailInv` says that what the run
  found stays present and what it reports as resolved stays absent until it ends.
  `email_web` shows that the assumption cannot be dropped.

* **`TelegramOncePerAppearance`**, assuming `~Faults` and `~ReconfigMidRun`: no linked destination
  gets an alert twice in one appearance, whatever web pages sync in between. `TelegramOnce` says
  that what has been sent is in the delivery table, unless it is the message being marked.
* **`AnnouncedOnce`** (`Spec => []OncePerAppearance`, all recipients) and
  **`ResolutionsAreOwed`** (`Spec => []ResolutionOwed`), assuming `WebPages = {}` too. `OnceInv` joins
  the three channels: what is about to be sent has not been announced, what is selected is present
  until the run ends (`StillPresent`), and a resolution that is owed is queued, being sent, or
  out. Each assumption is a behaviour of the code: a send that fails after it was delivered
  is repeated on purpose; a page that syncs an older evaluation between the sync and the selection
  of a run takes the alert, and with it its mark, away under the run; a channel that is reconfigured
  within a run is taken for having delivered.
* **`RowsResolvedWhenClear`**: `Spec => [][ResolvedWhenClear]_vars`, assuming `WebPages = {}`, faults
  and changes of the configuration included. `SeenClear` follows an evaluation from the look at the
  conditions to its sync: an alert that it leaves out although its evaluators worked was clear when
  they looked.
* **`EndsAreToldAfterBeginnings`**: `Spec => [][OverOnlyIfTold]_vars`, assuming `~ReconfigMidRun`, faults and
  web pages included. `AllKnown`, a part per channel: whatever the tables record for a recipient as sent
  or as owed, and whatever a run holds between listing and sending or between sending and
  marking, is something the recipient has had a message about. What a recipient knows never
  shrinks (`Learns`), and only send steps change it, so a sync, a deletion or a crash between two
  steps can make the tables forget but never make them claim more. A send that succeeds without
  sending, the known limit above, is what the assumption excludes.
* **`ResolutionsAreReal`**: `Spec => NoFalseResolution`, from the two before, under the assumptions of both.

Each of these proofs shows that its invariant holds initially, that the steps of the channel
keep it, that a sync and a deletion of rows keep it, and that all other steps leave its
variables alone. The constants are only assumed to have their types
(`ConstantsAssumption`); destinations differ from the names of the other recipients.

`KeyBinding_proofs` proves for any machines, names, server ids and number of requests:

* **`BindingTypeCorrect`**: `Spec => []TypeOK`.
* **`BindingIsExclusive`**: `Spec => []ExclusiveBinding`. With the
  type invariant it is inductive: a conditional update binds only a key whose history is empty,
  because "unbound" is no machine and no name (`BindingAssumption`).
* **`OwnershipIsExclusive`**: `Spec => []ExclusiveOwnership`.

`ClientReports_proofs` proves for any number of jobs and restarts:

* **`ReportsTypeCorrect`**.
* **`JobsAreReportedOnce`**: `Spec => []JobReportedOnce`, from `InTurn` below: no job has two
  rows (`OneRowPerJob`), and while there is a marker a row bears its id exactly if it is about the last
  job, so the job that is stored is never sent under another id.
* **`LastJobIsRemembered`**: `Spec => []NotForgottenInTurn`. `InTurn` is the strengthening: one
  process is active at most (`OneActive`), it carries the last job under the id of the present
  marker (`SendsLastJob`), and the stored reports with that id are those about the last job
  (`MarkerIsLastJob`). The last part is what makes a report that the server ignores
  as a repetition, and answers with success, a report of the job.

`WebAccess_proofs` proves for any users, requests, sessions and limits:

* **`AccessTypeCorrect`**: `Spec => []TypeOK`.
* **`LoginsStayCurrent`** (`LoginsAreCurrent`), **`ChallengesAreHeld`** (`ChallengesHold`) and
  **`CodesWorkOnce`** (`CodeWorksOnce`), from one inductive invariant, `AccessInv`. `Copies`: a row that
  a request or a cookie carries and that has the version of the account now still has its
  password, secret and role, because every statement that changes one of them raises the version
  (`Evolves`). `Used`: a challenge that opened a session is gone, and its token is not drawn again.
  `Counted`: the codes tried and the requests that are allowed to try one are together no more
  than the attempts recorded. `Passed`: the codes accepted with the present secret are not ahead of the
  last claimed step, and none was accepted twice.

`Monitor_proofs` proves for any VMs, volumes, jobs, settings and scenarios:

* **`SwapIsFollowed`** and **`SilenceIsHeard`**: what a step can do to the signals is one of five moves
  (`Quiet`, `Beat`, and an arriving report of each kind). `SwapInv` relates the stored report and
  heartbeat to the newest signal, `HeardInv` the last sign of life to both.
  The proof of the second showed that `SilenceIsNoticed` had to leave out the Windows limit zero.
* **`LostVolumesAreNamed`**: `TokenInv` says that the server's rows are in the order of the client's
  tokens, and that the pending token is the newest, so a repeated report is compared with the one
  before it and not with itself.
* **`BackupServerAlertsMatch`**: `GroupsReported` and `JobsReported` say that the rows of a stored
  report agree with the tasks and snapshots of the node when it was built. The
  newest task of a job exists because every nonempty set of tasks has a last one: `HasLast` is
  kept as a part of the invariant, since induction over a set is out of reach.
* **`FailuresReachAlerts`** and **`AlarmsHaveCauses`**: `VzInv` carries what each task did (`VzAgree`)
  through the client's reading of statuses and logs (`Resolved`) to the stored rows
  (`VzReported`). The status of a task was read off its text by overlapping cases; the proof asked
  for disjoint ones, as the order of the code's tests makes them.
* **`StaleFollowsSchedule`**: the code's backward search over the days finds the day that the
  schedule defines. It uses that a week meets every weekday, and the least number of days back
  (`WFMin` on the naturals).
* **`MonitorTypeCorrect`**: `Spec => []TypeOK`.

`Views_proofs` proves on top of it, for the same constants:

* **`PagesTellTheAlerts`**: `Spec => []PagesAgree`, and **`MailTellsTheAlerts`**: `Spec => []MailAgrees`. Both
  compare two computations over one state, so the inductive part, `Shown`, is the invariants
  of `Monitor_proofs` with two additions: stored rows name VMs and have a status the code knows
  (`RowsKnown`; the list takes every status but OK and WARN for a failure, the alert those it knows), and the
  list of tasks is finite (`TasksFinite`).
  The lemmas on origins (`PVEOrigins`, `PBSOrigins`, `WindowsOrigins`) say which alerts a host can
  have and from which rows each comes; then one lemma per column shows that a list finds
  the same (`MissingListed` to `WindowsSignalListed`).
* A counter is zero exactly when nothing is counted only if what is counted is finite
  (`RunAllFinite`). The groups of a backup server and the volumes of a Windows host are therefore assumed
  to be finitely many (`PBSAssumption`, `WindowsAssumption`): the code has them from the lists of
  one report. Tasks, VMs and jobs are finite by the other assumptions or by the invariant.

`Mailer_proofs` proves for any limits, windows and settings (`MailerAssumption`):

* **`RetriesAreSpaced`** and **`BatchesAreOnTime`**, from `PaceInv`. `RetryInv` relates the backoff to the
  history of failures: its delay is the doubled wait or the limit. `BatchInv` relates the row
  of the batch to the first evaluation that saw the update; `RunShape` says which mails are left.
* **`ReportsComeDaily`**: `Spec => []MailEachDay`. `DailyInv` says where the timer of the loop points: until
  the limit that the property waits for the loop may follow an old time (`Early`), from then on it
  sleeps until the next time of the settings or is at work at it (`Aligned`), and every day
  between has its one report (`Reported`).

`ServerProcess_proofs` proves, over the steps of all parts:

* **`ClosedWhenIdle`**: `Spec => []IdleWhenClosed`, for any loops. `LifeInv` adds that the group is
  closed before the wait for it begins, and that no request is left once the
  schedulers are stopped, unless `overdue`.
* **`OneCopyADay`**: `Spec => []OnceADay`, and **`PasswordsStayHome`**: `Spec =>
  []PasswordStaysHome`, for any destinations, times, saved rows (`SceneAssumption`) and bounds.
  `CopyInv` is the strengthening: at most one copy is under way and holds the lock (`LockInv`), so
  that time does not pass and the row is not claimed between its look at the row and its claim; the
  row knows the last day claimed, and a copy about to claim has found it to be earlier
  (`DaysInv`). A crash drops the lock and the copy but not the row.
* **`MissedRunsAreCaughtUp`**: `Spec => []DailyCopy`. `CatchUpInv`: while the server is up and the
  settings are left alone its loop runs, and a slot in which a copy is due does not end before the
  day is claimed; `SameDaySlot` is the arithmetic of days.
* **`ResultsAreTrue`**: `Spec => []ResultIsTrue`. `ResultInv` ties the row to the copy at work: the attempt
  shown as running is its own, what it will record as done is on the NAS, and the archives it
  may prune are older than its own. The NAS is empty at the start, so saved rows are assumed
  to show no success and no copy under way (`SceneAssumption`).
* **`ChecksAreBounded`**: `Spec => []PasswordChecksBounded`. `LimitInv`: a bucket that is not full has
  counted every wrong password of its window; from the moment it is full, those compared and those
  under way are together within the bound, and nothing begins.
* **`GuessesAreBounded`**: `Spec => []GuessesBounded`, for any limits and for ban durations of at least the
  window (`GateAssumption`; `internal/web/router.go` gives a day and a week for half an hour). `KeyInv`, for each
  key: windows that have passed are settled (`KeySettled`), the failures of a free key count its
  guesses (`KeyFree`), and a banned one fits with what is under way, while nothing that began
  before the ban shares a window with what begins after it (`KeyHeld`).
* **`NoticesAreKept`**: `Spec => []NoticesKept`. `NoticeInv`: the throttle's list counts every notice of the
  window that ends now, so a notice refused for the limit really had no room.
* **`ProcessTypeCorrect`**: `Spec => []TypeOK`. Besides the invariants above it takes `LockHeld` (the
  lock of the copies is released with its copy) and `MailTypes`.
* **`GateKeepsTheBook`**: `Spec => ImplementsBanBook`, the refinement, for any addresses, keys, limits
  and durations. `GateInv` is little more than the shape of the state; the argument is in
  the lemmas: looks, cleared failures and cleanups change no ban (`SameBan`), a failure changes none
  or imposes the next one (`FailureCounts`), and every operation of an administrator or
  restart is a `Lift` or a `Reload` (`LiftAndReload`). A tick is a `Pass` because every scene
  ends by `MaxTime`.

Only model-checked:

* the liveness properties `CriticalAnnounced`, `TelegramServed` and `EventuallyReported`: fairness and
  `ENABLED` are beyond the prover;
* the three violations, which are facts about one behaviour.

No module with a theorem has a RECURSIVE operator. Where an argument is by induction over data (a
finite set has a newest element, a doubled wait is a power of two) the invariant carries the fact
from step to step instead.

## 5. Plan

What is worth adding next, in this order:

1. Several keys in `KeyBinding`, and the configuration requests of the clients on top of it.
2. The expiry dates of suppressions and maintenance.
3. `PagesAgree` in maintenance, where the pages show a host and the counters leave it out.

## 6. Not modelled

* *Installation and removal* of server and clients (`client/install.go`, the Windows installer,
  the service files): sequential scripts whose outcome depends on files and systemd, without state
  shared with the rest, except for the hook and its marker, which are in `ClientReports`.
* *Self-update*: downloads, verifies and replaces the binary; sequential, network and file calls.
* *Database and migrations*: one connection, so each statement or transaction is atomic, is the
  consequence used everywhere. Migrations are a fixed list run once before anything else.
* *Secrets at rest, cookie and CSRF encoding, TOTP arithmetic*: cryptography. Their results are used
  as given.
* *The sync of the backup configuration* (`client/backup_config.go`): a read of the node's job
  files that refreshes what `PVEWatch` treats as an edit of the settings.
* *Parsing of Proxmox and Windows answers, field validation, exports, rendering, wording*: data without
  control that the properties depend on.
* *Resetting and pruning* of tables other than the alert tables: plain deletions.

`PROJECT.json` gives the reason for each component.
