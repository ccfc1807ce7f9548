-------------------------------- MODULE Mailer --------------------------------
(***************************************************************************)
(* When the server sends mail: the daily report, by a loop that sleeps     *)
(* until the time it read in the settings (internal/service/email.go), and *)
(* the immediate mail, held back for the updates that follow the first     *)
(* (internal/store/email_batch.go) and after an SMTP failure (smtpBackoff, *)
(* internal/service/immediate_notifications.go).  A slot is a minute.      *)
(***************************************************************************)
EXTENDS Clock

CONSTANTS Poll,        \* minutes between two looks at disabled settings
          SendLimit,   \* minutes that a daily report may take
          BackoffMin, BackoffMax, Batches   \* the settings of the batch window

ASSUME MailerAssumption ==
    /\ {Poll, SendLimit, BackoffMin, BackoffMax} \subseteq Nat \ {0} /\ SendLimit + 1 < DayLen /\ Poll <= DayLen
    /\ Batches \subseteq Nat

VARIABLES daily,       \* the loop of the daily report: pc and when its timer fires
          mailCfg,     \* is_enabled and send_time
          sentAt,      \* history: when daily reports began
          settled,     \* history: the last edit, restart or failed read
          batch,       \* alert_email_batch: pending_since, or Unset
          backoff,     \* immediateEmailBackoff
          pending,     \* kinds of updates not mailed yet: "new", "resolved"
          minutes,     \* alert_email_batch_minutes
          immediate,   \* critical_alerts_enabled: whether there are immediate mails
          run,         \* the immediate mails of an evaluation: when it began, whether batched, what is left to send
          looked,      \* the minute of the last evaluation
          changes,
          firstSeen,   \* history: the first evaluation that saw what is pending, with a window
          fails,       \* history: after SMTP failures in a row in this process, the last one and the wait, doubled by each
          unclean      \* history: the row is not the one of what is pending: a mark or its deletion failed,
                       \* or the mails were switched off with a row there

dailyVars == <<daily, mailCfg, sentAt, settled>>
paceVars == <<batch, backoff, pending, minutes, immediate, run, looked, firstSeen, fails, unclean>>
mailVars == <<dailyVars, paceVars, changes>>

NoBackoff == [until |-> Unset, delay |-> 0]
NoRun == [at |-> Unset, batched |-> FALSE, todo |-> <<>>]
NoFails == [wait |-> 0, at |-> Unset]

MailInit(cfgs, windows) ==
    /\ daily = [pc |-> "read", wake |-> 0] /\ mailCfg \in cfgs
    /\ sentAt = <<>> /\ settled = 0
    /\ batch = Unset /\ backoff = NoBackoff /\ pending = {} /\ minutes \in windows /\ immediate = TRUE
    /\ run = NoRun /\ looked = Unset /\ changes = 0
    /\ firstSeen = Unset /\ fails = NoFails /\ unclean = FALSE
Changed == changes < scene.edits /\ changes' = changes + 1

-----------------------------------------------------------------------------
\* The daily report.
sameDay(time, t) == Day(t) * DayLen + time   \* mutant: the time of today, even when it has passed
nextRunTimeAt(time, t) ==
    LET next == Day(t) * DayLen + time IN IF next > t THEN next ELSE next + DayLen

Timer(pc, wake) == daily' = [pc |-> pc, wake |-> wake]
\* A round of the loop begins with a read of the settings.
StartEmailScheduler ==
    /\ scene.part = "daily" /\ daily.pc = "read"
    /\ IF mailCfg.enabled THEN Timer("sleep", nextRunTimeAt(mailCfg.time, now)) ELSE Timer("poll", now + Poll)
    /\ UNCHANGED <<mailCfg, sentAt, settled, paceVars, changes>>
Fires ==
    /\ daily.pc \in {"sleep", "poll", "pause"} /\ daily.wake <= now
    /\ Timer(IF daily.pc = "sleep" THEN "send" ELSE "read", 0)
    /\ UNCHANGED <<mailCfg, sentAt, settled, paceVars, changes>>
\* The settings are read again: the report may have been disabled meanwhile.
sendDailyReport ==
    /\ daily.pc = "send"
    /\ IF mailCfg.enabled THEN Timer("sending", now) /\ sentAt' = Append(sentAt, now)
       ELSE Timer("pause", now + 1) /\ UNCHANGED sentAt
    /\ UNCHANGED <<mailCfg, settled, paceVars, changes>>
\* Sent or not, within its two minutes; a minute's pause follows.
sendSMTP ==
    /\ daily.pc = "sending" /\ Timer("pause", now + 1)
    /\ UNCHANGED <<mailCfg, sentAt, settled, paceVars, changes>>
\* The settings cannot be read: the loop takes them for disabled, and a report
\* that was due is given up.
SettingsUnread ==
    /\ scene.part = "daily" /\ daily.pc \in {"read", "send"} /\ Changed /\ settled' = now
    /\ IF daily.pc = "read" THEN Timer("poll", now + Poll) ELSE Timer("pause", now + 1)
    /\ UNCHANGED <<mailCfg, sentAt, paceVars>>
EditSendTime(c) ==
    /\ scene.part = "daily" /\ Changed /\ c # mailCfg /\ mailCfg' = c /\ settled' = now
    /\ UNCHANGED <<daily, sentAt, paceVars>>

-----------------------------------------------------------------------------
\* The immediate mail.
active(t) == t < backoff.until
least(a, b) == IF a < b THEN a ELSE b
most(a, b) == IF a > b THEN a ELSE b
fixedDelay(b, t) == [delay |-> BackoffMin, until |-> t + BackoffMin]   \* mutant: the wait does not grow
failed(b, t) ==
    LET delay == least(most(2 * b.delay, BackoffMin), BackoffMax) IN [delay |-> delay, until |-> t + delay]
record(ok) == IF ok THEN NoBackoff ELSE failed(backoff, now)

\* AlertEmailBatchDue: the row it leaves, and its answer.
latest(t) == IF pending = {} \/ minutes = 0 THEN Unset ELSE t   \* mutant: every update starts the window anew
since(t) == IF pending = {} \/ minutes = 0 THEN Unset ELSE IF batch = Unset THEN t ELSE batch
AlertEmailBatchDue(t) == pending # {} /\ (minutes = 0 \/ t >= since(t) + minutes)

\* The mails of an evaluation: one for all, or one for each kind.
Mails == IF minutes > 0 THEN <<pending>> ELSE SelectSeq(<<{"new"}, {"resolved"}>>, LAMBDA m : m \subseteq pending)
dispatchImmediateEmail ==
    /\ scene.part = "pace" /\ run = NoRun /\ immediate
    /\ batch' = since(now)
    /\ run' = IF AlertEmailBatchDue(now) /\ ~active(now) THEN [at |-> now, batched |-> minutes > 0, todo |-> Mails] ELSE run
    /\ looked' = now
    /\ firstSeen' = IF pending = {} \/ minutes = 0 THEN Unset ELSE IF firstSeen = Unset THEN now ELSE firstSeen
    /\ unclean' = (unclean /\ pending # {} /\ minutes > 0)
    /\ UNCHANGED <<backoff, pending, minutes, immediate, fails, changes, dailyVars>>
\* The mails are switched off: an evaluation ends before it comes to them, and
\* leaves the row as it is.
EvaluationSkips ==
    /\ scene.part = "pace" /\ run = NoRun /\ ~immediate /\ looked' = now
    /\ UNCHANGED <<batch, backoff, pending, minutes, immediate, run, firstSeen, fails, unclean, changes, dailyVars>>
\* A mail is delivered or not, and its alerts marked; after the last mail the
\* row is deleted.  A mark or the deletion may fail, and so may the second mark
\* of a mail for all.
ClearAlertEmailBatch(outcome) == IF outcome = "done" THEN Unset ELSE batch
deliver(outcome) ==
    LET ok == outcome # "failed"
        last == outcome # "more"
        marked == outcome \in {"more", "done", "uncleared"}
    IN  /\ run # NoRun /\ (outcome = "partial" => run.batched) /\ (outcome = "more" => Len(run.todo) > 1) /\ (outcome \in {"done", "uncleared"} => Len(run.todo) = 1)
        /\ backoff' = record(ok)
        /\ fails' = IF ok THEN NoFails ELSE [wait |-> IF fails.wait = 0 THEN BackoffMin ELSE 2 * fails.wait, at |-> now]
        /\ pending' = IF marked THEN pending \ Head(run.todo) ELSE IF outcome = "partial" THEN pending \ {"new"} ELSE pending
        /\ run' = IF last THEN NoRun ELSE [run EXCEPT !.todo = Tail(@)]
        /\ batch' = IF marked /\ last THEN ClearAlertEmailBatch(outcome) ELSE batch
        /\ firstSeen' = IF marked /\ last THEN Unset ELSE firstSeen
        /\ unclean' = (unclean \/ outcome \in {"unmarked", "partial", "uncleared"})
        /\ UNCHANGED <<minutes, immediate, looked, changes, dailyVars>>
\* Alerts arise and subside; the window is edited, the mails are switched off
\* and on; the process restarts.
Update(x) ==
    /\ scene.part = "pace" /\ run = NoRun /\ Changed
    /\ pending' = IF x \in pending THEN pending \ {x} ELSE pending \cup {x}
    /\ UNCHANGED <<batch, backoff, minutes, immediate, run, looked, firstSeen, fails, unclean, dailyVars>>
EditWindow(m) ==
    /\ scene.part = "pace" /\ run = NoRun /\ Changed /\ m # minutes /\ minutes' = m /\ settled' = now
    /\ UNCHANGED <<batch, backoff, pending, immediate, run, looked, firstSeen, fails, unclean, daily, mailCfg, sentAt>>
SwitchMails ==
    /\ scene.part = "pace" /\ run = NoRun /\ Changed /\ immediate' = ~immediate /\ settled' = now
    /\ unclean' = (unclean \/ batch # Unset)
    /\ UNCHANGED <<batch, backoff, pending, minutes, run, looked, firstSeen, fails, daily, mailCfg, sentAt>>
MailRestart ==
    /\ scene.part \in {"daily", "pace"} /\ Changed
    /\ daily' = [pc |-> "read", wake |-> 0] /\ settled' = now
    /\ backoff' = NoBackoff /\ fails' = NoFails /\ run' = NoRun
    /\ UNCHANGED <<mailCfg, sentAt, batch, pending, minutes, immediate, looked, firstSeen, unclean>>

MailNext ==
    \/ StartEmailScheduler \/ Fires \/ sendDailyReport \/ sendSMTP \/ SettingsUnread
    \/ \E c \in [enabled : BOOLEAN, time : 0..(DayLen - 1)] : EditSendTime(c)
    \/ dispatchImmediateEmail \/ EvaluationSkips
    \/ \E o \in {"failed", "unmarked", "partial", "more", "done", "uncleared"} : deliver(o)
    \/ \E x \in {"new", "resolved"} : Update(x)
    \/ \E m \in Batches : EditWindow(m)
    \/ SwitchMails \/ MailRestart

\* Timers fire on time, a report ends within its limit, and an evaluation runs
\* every minute and ends within the next.
DailyTick ==
    /\ Tick
    /\ \/ daily.pc = "sending" /\ now < daily.wake + SendLimit
       \/ daily.pc \in {"sleep", "poll", "pause"} /\ daily.wake > now
PaceTick == Tick /\ (IF run = NoRun THEN looked = now ELSE run.at = now)

-----------------------------------------------------------------------------
MailTypeOK ==
    /\ daily.pc \in {"read", "poll", "sleep", "send", "sending", "pause"}
    /\ batch \in {Unset} \cup 0..MaxTime /\ backoff.delay \in 0..BackoffMax /\ immediate \in BOOLEAN
    /\ pending \subseteq {"new", "resolved"}

\* Once the settings have been left alone, and readable, for a day, each day has one report,
\* begun in its minute (StartEmailScheduler, internal/service/email.go:849).
MailEachDay ==
    \A d \in 0..(now - 1) :
        d % DayLen = mailCfg.time /\ mailCfg.enabled /\ settled + DayLen + SendLimit + 1 < d =>
            {sentAt[i] : i \in {j \in DOMAIN sentAt : d <= sentAt[j] /\ sentAt[j] < d + DayLen}} = {d}
            /\ Cardinality({i \in DOMAIN sentAt : sentAt[i] = d}) = 1

\* "record doubles the wait after each consecutive failure, up to
\* smtpBackoffMax" (internal/service/immediate_notifications.go:224): after
\* failures in a row no evaluation of this process sends before that wait.
RetriesSpaced ==
    run # NoRun /\ fails # NoFails => run.at >= fails.at + least(fails.wait, BackoffMax)

\* A batched mail gathers the updates of a whole window, restarts included
\* (AlertEmailBatchDue, internal/store/email_batch.go:9).  Not so once the mails
\* were switched off while updates waited: the row stays, and the first mail
\* after they are on again may go at once, with what arose in between
\* (internal/service/immediate_notifications.go:74, :103).
BatchWaits == run.batched /\ ~unclean => run.at >= firstSeen + minutes

\* While mail and its marks work and nothing is edited or restarted, an update
\* that still waits after the evaluation of this minute is younger than the
\* window, however many follow it (internal/store/email_batch.go:14).
BatchInTime ==
    pending # {} /\ firstSeen # Unset /\ fails = NoFails /\ ~unclean /\ run = NoRun /\ looked = now /\ settled < now =>
        now < firstSeen + minutes

\* The window is neither cut short nor drawn out.
BatchOnTime == BatchWaits /\ BatchInTime
=============================================================================
