---------------------------- MODULE AlertDelivery ----------------------------
(***************************************************************************)
(* The immediate notification of critical alerts                           *)
(* (internal/service/immediate_notifications.go) with everything that runs *)
(* beside it: the API worker and the minute scheduler that start runs, the *)
(* web pages that evaluate and sync alerts without the notification mutex, *)
(* the history cleanup and the administrators.                             *)
(*                                                                         *)
(* A run holds notificationMu.  Its main goroutine serves Telegram and     *)
(* then email; Web Push is served by a second goroutine that the run waits *)
(* for before it unlocks.  Every database statement and every send is a    *)
(* step of its own, so other processes interleave between any two.         *)
(***************************************************************************)
EXTENDS AlertStates

CONSTANTS
    Immediate,      \* alerts whose type may be sent immediately
    Silenceable,    \* alerts that may be suppressed or put in maintenance
    Enabled,        \* channels the deployment may configure
    WebPages,       \* web requests that evaluate and sync outside the mutex
    BatchEmail,     \* alert_email_batch_minutes > 0: one digest per delivery
    Faults,         \* crashes, failing statements, sends that fail after delivery
    ReconfigMidRun  \* the configuration may change while a run is in progress

Channels == {"email", "push", "telegram"}

ASSUME ConstantsAssumption ==
    /\ Enabled \subseteq Channels
    /\ Immediate \subseteq Alerts /\ Silenceable \subseteq Alerts
    /\ BatchEmail \in BOOLEAN /\ Faults \in BOOLEAN /\ ReconfigMidRun \in BOOLEAN
    /\ Destinations \cap {"email", "push"} = {}

VARIABLES
    cond,       \* what the evaluators would find now, per alert
    muted,      \* alerts silenced or on a server in maintenance
    config,     \* channels that are configured and enabled
    queued,     \* alertQueue (capacity 1) holds a request
    holder,     \* who holds notificationMu
    pc,         \* main goroutine of the run
    ev,         \* the run's evaluation
    ready,      \* the channels found ready when the run began
    cand,       \* the run's critical alerts that may be sent
    todo, dest, \* Telegram destinations left, and the one being served
    sel, res,   \* alerts selected as new / as resolved by the main goroutine
    ppc,        \* push goroutine
    psel, pres, \* alerts selected as new / as resolved by the push goroutine
    web,        \* per web request: its evaluation once made
    told,       \* history: per recipient, alerts whose last message was "active"
    cleared,    \* history: per recipient, alerts whose last message was "resolved"
    announced,  \* history: alerts sent as active since they last appeared
    wasClear    \* history: alerts whose condition was clear since a sync last found them

Recipients == {"email", "push"} \cup Destinations
Notifiers == {"scheduler", "worker"}
NoHolder == "none"
NoDest == "none"
NoEvaluation == [critical |-> {}, warning |-> {}, partial |-> FALSE]
WebIdle == [waiting |-> FALSE, ev |-> NoEvaluation]
Conditions == {"clear", "warning", "critical"}

envVars == <<cond, muted, config>>
mainVars == <<ev, ready, cand, todo, dest, sel, res>>
pushVars == <<ppc, psel, pres>>
runVars == <<holder, pc, mainVars, pushVars>>
messages == <<told, cleared, announced>>
history == <<messages, wasClear>>
vars == <<dbVars, envVars, queued, runVars, web, history>>

MainSteps == {"idle", "evaluate", "sync", "filter", "tgStart", "tgNext", "tgSend",
              "tgMark", "tgList", "tgSendRes", "tgMarkRes", "mailSelect", "mailList", "mailSend",
              "mailMark", "mailSendRes", "mailMarkRes", "wait"}
PushSteps == {"off", "select", "send", "mark", "list", "sendRes", "markRes", "done"}

TypeOK ==
    /\ StoreTypeOK
    /\ cond \in [Alerts -> Conditions]
    /\ muted \in SUBSET Alerts
    /\ config \in SUBSET Channels
    /\ queued \in BOOLEAN
    /\ holder \in Notifiers \cup {NoHolder}
    /\ pc \in MainSteps
    /\ ev \in Evaluations
    /\ ready \in SUBSET Channels
    /\ cand \in SUBSET Alerts
    /\ todo \in SUBSET Destinations
    /\ dest \in Destinations \cup {NoDest}
    /\ sel \in SUBSET Alerts /\ res \in SUBSET Alerts
    /\ ppc \in PushSteps
    /\ psel \in SUBSET Alerts /\ pres \in SUBSET Alerts
    /\ web \in [WebPages -> [waiting : BOOLEAN, ev : Evaluations]]
    /\ told \in [Recipients -> SUBSET Alerts]
    /\ cleared \in [Recipients -> SUBSET Alerts]
    /\ announced \in [Recipients -> SUBSET Alerts]
    /\ wasClear \in SUBSET Alerts

Init ==
    /\ StoreInit
    /\ cond = [a \in Alerts |-> "clear"]
    /\ muted = {}
    /\ config \in SUBSET Enabled
    /\ queued = FALSE
    /\ holder = NoHolder /\ pc = "idle"
    /\ ev = NoEvaluation /\ ready = {} /\ cand = {} /\ todo = {} /\ dest = NoDest
    /\ sel = {} /\ res = {}
    /\ ppc = "off" /\ psel = {} /\ pres = {}
    /\ web = [w \in WebPages |-> WebIdle]
    /\ told = [r \in Recipients |-> {}]
    /\ cleared = [r \in Recipients |-> {}]
    /\ announced = [r \in Recipients |-> {}]
    /\ wasClear = Alerts

-----------------------------------------------------------------------------
(***************************************************************************)
(* Messages, as their recipients see them.                                 *)
(***************************************************************************)
NoMessage == UNCHANGED history

SendActive(r, ids) ==
    /\ told' = [told EXCEPT ![r] = @ \cup ids]
    /\ cleared' = [cleared EXCEPT ![r] = @ \ ids]
    /\ announced' = [announced EXCEPT ![r] = @ \cup ids]
    /\ UNCHANGED wasClear

SendResolved(r, ids) ==
    /\ told' = [told EXCEPT ![r] = @ \ ids]
    /\ cleared' = [cleared EXCEPT ![r] = @ \cup ids]
    /\ UNCHANGED <<announced, wasClear>>

\* The digest has an active section followed by a resolved one.
SendDigest(r, active, resolved) ==
    /\ told' = [told EXCEPT ![r] = (@ \cup active) \ resolved]
    /\ cleared' = [cleared EXCEPT ![r] = (@ \ active) \cup resolved]
    /\ announced' = [announced EXCEPT ![r] = @ \cup active]
    /\ UNCHANGED wasClear

\* The alerts the evaluators would now report with a severity, or not at all.
Now(c) == {a \in Alerts : cond[a] = c}
ClearNow == Now("clear")

\* The history of a sync: an alert that was not present starts an appearance.
NewAppearances(e) ==
    /\ announced' = [r \in Recipients |-> announced[r] \ (Found(e) \ present)]
    /\ wasClear' = (wasClear \ Found(e)) \cup ClearNow
    /\ UNCHANGED <<told, cleared>>

-----------------------------------------------------------------------------
(***************************************************************************)
(* Evaluation and sync.                                                    *)
(***************************************************************************)

\* RunAll: all evaluators succeed, or the alerts of the failed ones are lost.
FullEvaluation ==
    [critical |-> Now("critical"), warning |-> Now("warning"), partial |-> FALSE]
PartialEvaluation(lost) ==
    [critical |-> Now("critical") \ lost, warning |-> Now("warning") \ lost, partial |-> TRUE]
EvaluationsNow ==
    {FullEvaluation} \cup {PartialEvaluation(lost) : lost \in IF Faults THEN SUBSET Alerts ELSE {}}

\* SyncAlertStatesFor, with the history it implies.
SyncAlertStatesFor(e) == syncAlertStates(e) /\ NewAppearances(e)

-----------------------------------------------------------------------------
(***************************************************************************)
(* A run of sendImmediateCriticalAlerts.                                   *)
(***************************************************************************)

\* TryLock succeeded: read the configuration of the channels.
BeginRun(n) ==
    /\ holder = NoHolder
    /\ holder' = n
    /\ pc' = "evaluate"
    /\ ready' = (config \ {"telegram"}) \cup
                (IF ListActiveTelegramDestinations # {} THEN config \cap {"telegram"} ELSE {})
    /\ UNCHANGED <<dbVars, envVars, ev, cand, todo, dest, sel, res, pushVars, web, history>>

\* Mutant: nothing runs without a request.
TickOnRequest == queued /\ BeginRun("scheduler") /\ UNCHANGED queued

\* The scheduler's tick.  A tick that finds the mutex taken changes nothing.
SchedulerTick == BeginRun("scheduler") /\ UNCHANGED queued

\* The worker takes the queued request; if the mutex is taken TryLock fails
\* and the request is gone.
WorkerTakes ==
    /\ queued /\ holder # "worker"
    /\ queued' = FALSE
    /\ IF holder = NoHolder THEN BeginRun("worker")
       ELSE UNCHANGED <<dbVars, envVars, runVars, web, history>>

\* Steps of the main goroutine leave the environment and the other processes alone.
Main(from, to) ==
    /\ pc = from
    /\ pc' = to
    /\ UNCHANGED <<envVars, queued, holder, web>>

\* Email is served after Telegram, if it is enabled and configured.
AfterTelegram == IF "email" \in ready THEN "mailSelect" ELSE "wait"

RunEvaluate ==
    /\ Main("evaluate", "sync")
    /\ ev' \in EvaluationsNow
    /\ UNCHANGED <<dbVars, ready, cand, todo, dest, sel, res, pushVars, history>>

RunSync ==
    /\ Main("sync", IF ready = {} THEN "wait" ELSE "filter")
    /\ SyncAlertStatesFor(ev)
    /\ UNCHANGED <<mainVars, pushVars>>

\* Maintenance and suppressions are read; a failed read filters nothing out.
\* Then the push goroutine starts and Telegram is served.
RunFilter ==
    /\ Main("filter", IF "telegram" \in ready THEN "tgStart" ELSE AfterTelegram)
    /\ \E quiet \in {muted} \cup (IF Faults THEN SUBSET muted ELSE {}) :
          cand' = (ev.critical \cap Immediate) \ quiet
    /\ ppc' = IF "push" \in ready THEN "select" ELSE "off"
    /\ UNCHANGED <<dbVars, ev, ready, todo, dest, sel, res, psel, pres, history>>

\* An early return: a statement fails or the context ends before delivery.
RunAborts ==
    /\ Faults
    /\ pc \in {"evaluate", "sync", "mailSelect", "mailList"}
    /\ pc' = "wait"
    /\ UNCHANGED <<dbVars, envVars, queued, holder, mainVars, pushVars, web, history>>

\* deliveries.Wait() and the unlock.
RunEnds ==
    /\ pc = "wait" /\ ppc \in {"off", "done"}
    /\ pc' = "idle" /\ holder' = NoHolder
    /\ ev' = NoEvaluation /\ ready' = {} /\ cand' = {} /\ todo' = {} /\ dest' = NoDest
    /\ sel' = {} /\ res' = {}
    /\ ppc' = "off" /\ psel' = {} /\ pres' = {}
    /\ UNCHANGED <<dbVars, envVars, queued, web, history>>

-----------------------------------------------------------------------------
(***************************************************************************)
(* dispatchTelegram: each active destination in turn, new alerts and then  *)
(* resolved ones.  A failure moves on to the next part.                    *)
(***************************************************************************)
TelegramStart ==
    /\ \/ /\ Main("tgStart", "tgNext")
          /\ todo' = ListActiveTelegramDestinations
       \/ /\ Faults
          /\ Main("tgStart", AfterTelegram)
          /\ UNCHANGED todo
    /\ UNCHANGED <<dbVars, ev, ready, cand, dest, sel, res, pushVars, history>>

TelegramSelect(d) ==
    /\ pc = "tgNext" /\ d \in todo
    /\ dest' = d /\ todo' = todo \ {d}
    /\ \/ sel' = cand \ ListCriticalTelegramSentAlertIDs(d)
       \/ Faults /\ sel' = {}
    /\ res' = {}
    /\ Main("tgNext", IF sel' = {} THEN "tgList" ELSE "tgSend")
    /\ UNCHANGED <<dbVars, ev, ready, cand, pushVars, history>>

TelegramDone ==
    /\ todo = {}
    /\ Main("tgNext", AfterTelegram)
    /\ dest' = NoDest /\ res' = {}
    /\ UNCHANGED <<dbVars, ev, ready, cand, todo, sel, pushVars, history>>

\* SendAlerts delivers; when Telegram was disabled meanwhile it sends nothing
\* and still reports success.
TelegramSendOK(d) ==
    /\ dest = d
    /\ \/ /\ Main("tgSend", "tgMark")
          /\ IF "telegram" \in config THEN SendActive(d, sel) ELSE NoMessage
       \/ /\ Main("tgSendRes", "tgMarkRes")
          /\ IF "telegram" \in config THEN SendResolved(d, res) ELSE NoMessage
    /\ UNCHANGED <<dbVars, mainVars, pushVars>>

\* The call fails: nothing was delivered, or the answer was lost.
TelegramSendFails ==
    /\ "telegram" \in config
    /\ \/ Main("tgSend", "tgList") /\ (NoMessage \/ (Faults /\ SendActive(dest, sel)))
       \/ Main("tgSendRes", "tgNext") /\ (NoMessage \/ (Faults /\ SendResolved(dest, res)))
    /\ UNCHANGED <<dbVars, mainVars, pushVars>>

TelegramMark ==
    /\ Main("tgMark", "tgList")
    /\ \/ MarkAlertCriticalTelegramsSent(dest, sel)
       \/ Faults /\ UNCHANGED dbVars
    /\ UNCHANGED <<mainVars, pushVars, history>>

TelegramList ==
    /\ pc = "tgList"
    /\ \/ res' = ListPendingAlertResolutionTelegrams(dest)
       \/ Faults /\ res' = {}
    /\ sel' = {}
    /\ Main("tgList", IF res' = {} THEN "tgNext" ELSE "tgSendRes")
    /\ UNCHANGED <<dbVars, ev, ready, cand, todo, dest, pushVars, history>>

TelegramMarkResolved ==
    /\ Main("tgMarkRes", "tgNext")
    /\ \/ MarkAlertResolutionTelegramsSent(dest, res)
       \/ Faults /\ UNCHANGED dbVars
    /\ UNCHANGED <<mainVars, pushVars, history>>

-----------------------------------------------------------------------------
(***************************************************************************)
(* dispatchImmediateEmail.  Any failure ends the run: what was not marked  *)
(* stays pending.                                                          *)
(***************************************************************************)
EmailSelect ==
    /\ Main("mailSelect", "mailList")
    /\ sel' = cand \ ListCriticalEmailSentAlertIDs
    /\ UNCHANGED <<dbVars, ev, ready, cand, todo, dest, res, pushVars, history>>

\* There is something to send, the batch window has elapsed and no SMTP
\* backoff is active.
EmailDue ==
    /\ pc = "mailList"
    /\ res' = ListPendingAlertResolutionEmails
    /\ sel \cup res' # {}
    /\ Main("mailList", IF BatchEmail \/ sel # {} THEN "mailSend" ELSE "mailSendRes")
    /\ UNCHANGED <<dbVars, ev, ready, cand, todo, dest, sel, pushVars, history>>

\* Nothing to send, or it has to wait for the batch window or the backoff.
EmailDeferred ==
    /\ Main("mailList", "wait")
    /\ res' = ListPendingAlertResolutionEmails
    /\ UNCHANGED <<dbVars, ev, ready, cand, todo, dest, sel, pushVars, history>>

EmailMessage ==
    IF BatchEmail THEN SendDigest("email", sel, res) ELSE SendActive("email", sel)

EmailSendOK ==
    /\ \/ Main("mailSend", "mailMark") /\ EmailMessage
       \/ Main("mailSendRes", "mailMarkRes") /\ SendResolved("email", res)
    /\ UNCHANGED <<dbVars, mainVars, pushVars>>

\* Mutant: an SMTP error is swallowed and the alerts are marked as emailed.
EmailErrorSwallowed ==
    /\ \/ Main("mailSend", "mailMark") /\ NoMessage
       \/ Main("mailSendRes", "wait") /\ NoMessage
    /\ UNCHANGED <<dbVars, mainVars, pushVars>>

EmailSendFails ==
    /\ \/ Main("mailSend", "wait") /\ (NoMessage \/ (Faults /\ EmailMessage))
       \/ Main("mailSendRes", "wait") /\ (NoMessage \/ (Faults /\ SendResolved("email", res)))
    /\ UNCHANGED <<dbVars, mainVars, pushVars>>

EmailMark ==
    /\ \/ /\ Main("mailMark", CASE BatchEmail -> "mailMarkRes"
                                [] ~BatchEmail /\ res # {} -> "mailSendRes"
                                [] OTHER -> "wait")
          /\ MarkAlertCriticalEmailsSent(sel)
       \/ Faults /\ Main("mailMark", "wait") /\ UNCHANGED dbVars
    /\ UNCHANGED <<mainVars, pushVars, history>>

EmailMarkResolved ==
    /\ Main("mailMarkRes", "wait")
    /\ \/ MarkAlertResolutionEmailsSent(res)
       \/ Faults /\ UNCHANGED dbVars
    /\ UNCHANGED <<mainVars, pushVars, history>>

-----------------------------------------------------------------------------
(***************************************************************************)
(* The push goroutine.  A send that reaches no subscription is not marked. *)
(***************************************************************************)
Push(from, to) ==
    /\ ppc = from
    /\ ppc' = to
    /\ UNCHANGED <<envVars, queued, holder, pc, mainVars, web>>

PushSelect ==
    /\ \/ psel' = cand \ ListCriticalPushSentAlertIDs
       \/ Faults /\ psel' = {}
    /\ Push("select", IF psel' = {} THEN "list" ELSE "send")
    /\ UNCHANGED <<dbVars, pres, history>>

PushSendOK ==
    /\ \/ Push("send", "mark") /\ SendActive("push", psel)
       \/ Push("sendRes", "markRes") /\ SendResolved("push", pres)
    /\ UNCHANGED <<dbVars, psel, pres>>

PushSendFails ==
    /\ \/ Push("send", "list") /\ (NoMessage \/ (Faults /\ SendActive("push", psel)))
       \/ Push("sendRes", "done") /\ (NoMessage \/ (Faults /\ SendResolved("push", pres)))
    /\ UNCHANGED <<dbVars, psel, pres>>

PushMark ==
    /\ Push("mark", "list")
    /\ \/ MarkAlertCriticalPushesSent(psel)
       \/ Faults /\ UNCHANGED dbVars
    /\ UNCHANGED <<psel, pres, history>>

PushList ==
    /\ \/ pres' = ListPendingAlertResolutionPushes
       \/ Faults /\ pres' = {}
    /\ psel' = {}
    /\ Push("list", IF pres' = {} THEN "done" ELSE "sendRes")
    /\ UNCHANGED <<dbVars, history>>

PushMarkResolved ==
    /\ Push("markRes", "done")
    /\ \/ MarkAlertResolutionPushesSent(pres)
       \/ Faults /\ UNCHANGED dbVars
    /\ UNCHANGED <<psel, pres, history>>

-----------------------------------------------------------------------------
(***************************************************************************)
(* Web pages: runRawAlerts(ctx, true) evaluates and then syncs, without    *)
(* the mutex.  A closed request cancels the sync.                          *)
(***************************************************************************)
WebEvaluate(w) ==
    /\ ~web[w].waiting
    /\ \E e \in EvaluationsNow : web' = [web EXCEPT ![w] = [waiting |-> TRUE, ev |-> e]]
    /\ UNCHANGED <<dbVars, envVars, queued, runVars, history>>

WebSync(w) ==
    /\ web[w].waiting
    /\ web' = [web EXCEPT ![w] = WebIdle]
    /\ \/ SyncAlertStatesFor(web[w].ev)
       \/ UNCHANGED <<dbVars, history>>
    /\ UNCHANGED <<envVars, queued, runVars>>

-----------------------------------------------------------------------------
(***************************************************************************)
(* The environment: monitored servers, administrators, cleanup, crashes.   *)
(***************************************************************************)

\* A report or heartbeat is stored and requests an evaluation; the send to the
\* queue is dropped when a request is already waiting.
ReportStored(a) ==
    /\ \E c \in Conditions : cond' = [cond EXCEPT ![a] = c]
    /\ queued' = TRUE
    /\ wasClear' = wasClear \cup ClearNow'
    /\ UNCHANGED <<dbVars, muted, config, runVars, web, messages>>

\* A condition also changes by the passing of time (heartbeats, staleness).
TimePasses(a) ==
    /\ \E c \in Conditions \ {cond[a]} : cond' = [cond EXCEPT ![a] = c]
    /\ wasClear' = wasClear \cup ClearNow'
    /\ UNCHANGED <<dbVars, muted, config, queued, runVars, web, messages>>

\* Suppression or maintenance begins, or ends.
ToggleMuted(a) ==
    /\ a \in Silenceable
    /\ muted' = IF a \in muted THEN muted \ {a} ELSE muted \cup {a}
    /\ UNCHANGED <<dbVars, cond, config, queued, runVars, web, history>>

MayReconfigure == ReconfigMidRun \/ holder = NoHolder

ToggleChannel(c) ==
    /\ MayReconfigure
    /\ config' = IF c \in config THEN config \ {c} ELSE config \cup {c}
    /\ UNCHANGED <<dbVars, cond, muted, queued, runVars, web, history>>

AdminResets ==
    /\ MayReconfigure
    /\ ResetAllData
    /\ cond' = [a \in Alerts |-> "clear"]
    /\ muted' = {}
    /\ config' = config \cap {"push"}
    /\ wasClear' = Alerts
    /\ UNCHANGED <<queued, runVars, web, messages>>

\* A user links or unlinks a chat, or is (de)activated.
TelegramLink(d) ==
    /\ \/ UpsertTelegramDestination(d)
       \/ SetUserActive(d)
       \/ DeleteTelegramDestinationForUser(d)
    /\ UNCHANGED <<envVars, queued, runVars, web, history>>

\* Retention is counted in months: no row this run has synced is old.
Cleanup ==
    /\ Prunable \ Found(ev) # {}
    /\ DeleteOldAlertHistory(Alerts \ Found(ev))
    /\ UNCHANGED <<envVars, queued, runVars, web, history>>

\* The process dies and restarts: only the database survives.
Crash ==
    /\ Faults
    /\ queued' = FALSE /\ holder' = NoHolder /\ pc' = "idle"
    /\ ev' = NoEvaluation /\ ready' = {} /\ cand' = {} /\ todo' = {} /\ dest' = NoDest
    /\ sel' = {} /\ res' = {}
    /\ ppc' = "off" /\ psel' = {} /\ pres' = {}
    /\ web' = [w \in WebPages |-> WebIdle]
    /\ UNCHANGED <<dbVars, envVars, history>>

-----------------------------------------------------------------------------
TelegramStep ==
    \/ TelegramStart \/ TelegramDone \/ TelegramSendFails
    \/ TelegramMark \/ TelegramList \/ TelegramMarkResolved
    \/ \E d \in Destinations : TelegramSelect(d) \/ TelegramSendOK(d)

EmailStep ==
    \/ EmailSelect \/ EmailDue \/ EmailDeferred \/ EmailSendOK \/ EmailSendFails
    \/ EmailMark \/ EmailMarkResolved

MainStep ==
    \/ RunEvaluate \/ RunSync \/ RunFilter \/ RunAborts \/ RunEnds
    \/ TelegramStep \/ EmailStep

PushStep ==
    \/ PushSelect \/ PushSendOK \/ PushSendFails \/ PushMark \/ PushList
    \/ PushMarkResolved

Environment ==
    \/ \E w \in WebPages : WebEvaluate(w) \/ WebSync(w)
    \/ \E a \in Alerts : ReportStored(a) \/ TimePasses(a) \/ ToggleMuted(a)
    \/ \E c \in Enabled : ToggleChannel(c)
    \/ \E d \in Destinations : TelegramLink(d)
    \/ AdminResets \/ Cleanup \/ Crash

Next == SchedulerTick \/ WorkerTakes \/ MainStep \/ PushStep \/ Environment

Spec == Init /\ [][Next]_vars

-----------------------------------------------------------------------------
(***************************************************************************)
(* Properties.                                                             *)
(***************************************************************************)

\* A row marked as pushed is present and the last thing its subscribers were
\* told is that it is active: the is_present guards of the two push marks keep
\* this true although web pages resolve and revive alerts between a send and
\* its mark.
PushMarkTruthful == pushSent \subseteq present \cap told["push"]

\* A present alert recorded as delivered to a destination was last reported to
\* it as active: the sync that revives an alert drops its old deliveries.
\* A destination is a user's: the rows of a chat stay when its user pairs another
\* one, which counts as told what the old one was (internal/store/telegram.go:147).
TelegramMarkTruthful ==
    \A d \in Destinations : tgSent[d] \cap present \subseteq told[d]

\* The same for email, whose marks carry no is_present guard.
EmailMarkTruthful == emailSent \cap present \subseteq told["email"]

\* What a goroutine is about to send as active, and to whom.
AboutToSend(r) ==
    CASE r = "email" -> IF pc = "mailSend" THEN sel ELSE {}
      [] r = "push" -> IF ppc = "send" THEN psel ELSE {}
      [] OTHER -> IF pc = "tgSend" /\ dest = r THEN sel ELSE {}

\* The chats unlinked so far: their delivery rows are gone, but a run that had
\* listed the chat before still serves it.
Unlinked == {d \in Destinations : links[d] = "deleted"}

\* DEVTEST.md: a critical alert is sent once when it appears.  No recipient that
\* is still linked is sent an alert again before it was resolved and appeared
\* anew.
OncePerAppearance ==
    \A r \in Recipients \ Unlinked : AboutToSend(r) \cap announced[r] = {}

\* A row is resolved only if its condition was clear at some moment since the
\* alert was last found: failing evaluators never look like a resolution
\* (internal/store/alert_state.go:129).
ResolvedWhenClear == (present \ present') \cap exists' \subseteq wasClear

\* A recipient is told that an alert is over only if the last it heard is that
\* the alert is active, or it has been told of this end before: a resolution is
\* owed only to whom the alert was sent (internal/store/alert_state.go:141),
\* though marks, syncs, deletions and crashes come between.
OverOnlyIfTold == \A r \in Recipients : cleared'[r] \ cleared[r] \subseteq told[r]

\* No false resolution, neither in the table nor in a message.
NoFalseResolution == [][ResolvedWhenClear /\ OverOnlyIfTold]_vars

\* DEVTEST.md: ... and once more when it is resolved.  Between runs, an alert
\* pushed in its last appearance and resolved while critical is waiting for its
\* resolution push or has had it.
PushResolutionOwed ==
    holder = NoHolder =>
        (announced["push"] \cap critical \cap exists) \ present
            \subseteq pushPending \cup cleared["push"]

\* The same for email.
EmailResolutionOwed ==
    holder = NoHolder =>
        (announced["email"] \cap critical \cap exists) \ present
            \subseteq emailPending \cup cleared["email"]

\* Between runs no resolution is forgotten (internal/store/alert_state.go:141).
ResolutionOwed == EmailResolutionOwed /\ PushResolutionOwed

-----------------------------------------------------------------------------
(***************************************************************************)
(* Liveness.  The scheduler ticks for ever and a run makes progress; a     *)
(* send that is tried again and again succeeds in the end, and neither the *)
(* batch window nor the SMTP backoff lasts for ever.                       *)
(***************************************************************************)
Fairness ==
    /\ WF_vars(SchedulerTick) /\ WF_vars(MainStep) /\ WF_vars(PushStep)
    /\ SF_vars(EmailDue) /\ SF_vars(EmailSendOK) /\ SF_vars(PushSendOK)
    /\ \A d \in Destinations : SF_vars(TelegramSendOK(d))

FairSpec == Spec /\ Fairness

\* The recipients whose channel the deployment may configure.
Served == (Enabled \ {"telegram"}) \cup (IF "telegram" \in Enabled THEN Destinations ELSE {})

\* The channel that reaches recipient r is open.
Open(r) ==
    CASE r \in {"email", "push"} -> r \in config
      [] OTHER -> "telegram" \in config /\ links[r] = "active"

\* An alert that stays critical, not silenced and with its channel open is in
\* the end known to the recipient, though requests are dropped when the mutex
\* is taken and web pages sync stale evaluations meanwhile.
CriticalAnnounced ==
    \A r \in Served, a \in Immediate :
        <>[](cond[a] = "critical" /\ a \notin muted /\ Open(r)) => <>[](a \in told[r])

\* A Telegram destination that stays open is in the end told that an alert it
\* was sent in the alert's last appearance is over, once the condition stays clear.
TelegramResolved ==
    \A d \in Destinations, a \in Alerts :
        <>[](cond[a] = "clear" /\ Open(d)) => <>[](a \notin told[d] \cap announced[d])

\* Telegram tells its recipients of both in the end: that an alert is there and
\* that it is over (dispatchTelegram, internal/service/immediate_notifications.go:111).
TelegramServed == CriticalAnnounced /\ TelegramResolved

-----------------------------------------------------------------------------
(***************************************************************************)
(* The inductive invariants behind the three "mark is truthful" claims.    *)
(***************************************************************************)

\* Web Push: what is about to be marked was sent, and what is about to be
\* reported as resolved is not marked, whatever syncs ran since it was listed.
PushInv ==
    /\ PushMarkTruthful
    /\ ppc = "mark" => psel \subseteq told["push"]
    /\ ppc = "sendRes" => pres \cap pushSent = {}

\* A run that found Telegram ready still finds it enabled when it sends.
TelegramStaysReady ==
    /\ holder = NoHolder <=> pc = "idle"
    /\ pc \in {"tgSend", "tgMark", "tgList", "tgSendRes", "tgMarkRes"} => dest \in Destinations
    /\ pc \in {"tgStart", "tgNext", "tgSend", "tgMark", "tgList", "tgSendRes", "tgMarkRes"} =>
         "telegram" \in ready
    /\ pc # "idle" /\ "telegram" \in ready => "telegram" \in config

\* Telegram: a resolution listed for an alert that has been revived since no
\* longer has a delivery row to contradict.
TelegramTable ==
    /\ TelegramMarkTruthful
    /\ \A d \in Destinations : tgSent[d] \subseteq exists
    /\ pc = "tgMark" => sel \subseteq told[dest]
    /\ pc = "tgSendRes" => res \cap present \cap tgSent[dest] = {}

\* Email, when no web page syncs beside the run: what the run found stays
\* present, and what it reports as resolved stays absent.
EmailInv ==
    /\ EmailMarkTruthful
    /\ emailSent \subseteq present
    /\ present \cup emailPending \subseteq exists
    /\ pc \notin {"idle", "evaluate", "sync", "wait"} =>
         /\ ev.critical \cap exists \subseteq present
         /\ pc # "filter" => cand \subseteq ev.critical
    /\ pc \in {"mailList", "mailSend", "mailMark"} => sel \subseteq cand
    /\ pc \in {"mailSend", "mailMark", "mailSendRes"} =>
         res \cap present = {} /\ sel \cap res \cap exists = {}
    /\ pc = "mailMark" => sel \cap exists \subseteq told["email"]

\* What a recipient has ever been sent a message about.
Known(r) == told[r] \cup cleared[r]

\* Whatever is recorded or listed for a recipient it has been sent: per channel,
\* the marks, the pending resolutions and what the run holds between two steps.
PushKnown ==
    /\ pushSent \cup pushPending \subseteq Known("push")
    /\ ppc = "mark" => psel \subseteq Known("push")
    /\ ppc = "sendRes" => pres \subseteq Known("push")
EmailKnown ==
    /\ emailSent \cup emailPending \subseteq Known("email")
    /\ pc = "mailMark" => sel \subseteq Known("email")
    /\ pc \in {"mailSend", "mailMark", "mailSendRes"} => res \subseteq Known("email")
TelegramKnown ==
    /\ \A d \in Destinations : tgSent[d] \subseteq Known(d)
    /\ pc = "tgMark" => sel \subseteq Known(dest)
    /\ pc = "tgSendRes" => res \subseteq Known(dest)
AllKnown == PushKnown /\ EmailKnown /\ TelegramKnown
=============================================================================
