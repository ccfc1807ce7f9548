---------------------------- MODULE Mailer_proofs ----------------------------
(***************************************************************************)
(* Proofs about the mail of the server process: for any settings, batch    *)
(* windows and waits, that a failing mail server is left alone for as long *)
(* as it should be, that a batch window is neither cut short nor drawn     *)
(* out, and that each day has its report.                                  *)
(***************************************************************************)
EXTENDS ServerProcess, TLAPS, FiniteSetTheorems

\* What a step of the process can do to the mail and its clock.
LEMMA MailMoves ==
  ASSUME [Next]_vars
  PROVE  /\ scene' = scene
         /\ \/ MailNext /\ now' = now
            \/ UNCHANGED mailVars /\ now' = now
            \/ /\ UNCHANGED mailVars /\ now' = now + 1 /\ now < scene.time
               /\ scene.part = "daily" => DailyTick
<1>1. CASE UNCHANGED vars
  BY <1>1 DEF vars
<1>2. CASE Accounts
  <2>1. UNCHANGED mailVars
    BY <1>2 DEF Accounts
  <2>2. CASE Tick /\ scene.part \in {"bans", "limits"}
    BY <2>1, <2>2 DEF Tick
  <2>3. CASE LimiterNext
    BY <2>1, <2>3 DEF LimiterNext, BeginCheck, CompareWrong, CompareRight, cleanup
  <2>4. CASE GateNext
    BY <2>1, <2>4 DEF GateNext, LoginPost, loginFailed, notifyAdminLoginFailed, LoginPassed, handleTOTPEnforcement, Cleanup, unbanIP, UnbanIP, Restart
  <2> QED BY <1>2, <2>2, <2>3, <2>4 DEF Accounts
<1>3. CASE Process
  BY <1>3 DEF Process
<1>4. CASE Copies
  BY <1>4 DEF Copies, NASTick, Tick
<1>5. CASE Mail
  BY <1>5 DEF Mail, DailyTick, PaceTick, Tick
<1> QED BY <1>1, <1>2, <1>3, <1>4, <1>5 DEF Next

-----------------------------------------------------------------------------
(***************************************************************************)
(* The immediate mail.                                                     *)
(***************************************************************************)
PaceTypes ==
    /\ now \in Nat /\ settled \in Int /\ minutes \in Nat /\ unclean \in BOOLEAN
    /\ batch \in Int /\ batch <= now /\ firstSeen \in Int /\ looked \in Int /\ looked <= now
    /\ pending \subseteq {"new", "resolved"}

\* What is under way began at a time, and a batch is one mail.
RunShape ==
    run # NoRun => /\ run = [at |-> run.at, batched |-> run.batched, todo |-> run.todo]
                   /\ run.at \in Nat /\ run.batched \in BOOLEAN
                   /\ run.batched <=> minutes > 0
                   /\ ~run.batched => firstSeen = Unset
                   /\ run.batched => Len(run.todo) = 1

\* The wait that is kept is the one of the failures in a row, up to its limit.
RetryInv ==
    /\ fails = NoFails => backoff = NoBackoff
    /\ fails # NoFails => /\ fails.wait \in Nat \ {0} /\ fails.wait >= BackoffMin /\ fails.at \in Nat
                          /\ backoff.delay = least(fails.wait, BackoffMax)
                          /\ backoff.until = fails.at + backoff.delay
    /\ RetriesSpaced

\* The row holds when the first waiting update was seen, as long as its
\* deletion worked, and none is there while the mails are off unless it was
\* when they were switched off; an evaluation of this minute that sent nothing came before
\* the end of the window.
BatchInv ==
    /\ ~unclean => batch = firstSeen
    /\ ~immediate => unclean \/ firstSeen = Unset
    /\ BatchWaits
    /\ (firstSeen # Unset /\ fails = NoFails /\ ~unclean /\ run = NoRun /\ looked = now /\ settled < now) =>
           now < firstSeen + minutes

PaceInv == PaceTypes /\ RunShape /\ RetryInv /\ BatchInv

LEMMA PaceStart ==
  ASSUME Init
  PROVE  PaceInv
<1>1. /\ now = 0 /\ settled = 0 /\ batch = Unset /\ backoff = NoBackoff /\ pending = {} /\ run = NoRun /\ looked = Unset
      /\ firstSeen = Unset /\ fails = NoFails /\ unclean = FALSE /\ immediate = TRUE
  BY DEF Init, MailInit
<1>2. minutes \in Nat
  <2>1. minutes \in IF scene.part = "pace" THEN Batches ELSE {0}
    BY DEF Init, MailInit
  <2> QED BY <2>1, MailerAssumption
<1>3. run.batched = FALSE
  BY <1>1 DEF NoRun
<1>4. PaceTypes
  <2>1. unclean \in BOOLEAN /\ pending \subseteq {"new", "resolved"}
    BY <1>1, Zenon
  <2>2. now \in Nat /\ settled \in Int /\ batch \in Int /\ batch <= now /\ firstSeen \in Int /\ looked \in Int /\ looked <= now
    BY <1>1 DEF Unset
  <2> QED BY <1>2, <2>1, <2>2 DEF PaceTypes
<1> QED BY <1>1, <1>3, <1>4 DEF PaceInv, RunShape, RetryInv, RetriesSpaced, BatchInv, BatchWaits

\* A step that touches none of it, except that time passes or settings settle.
LEMMA PaceStays ==
  ASSUME PaceInv, UNCHANGED paceVars, now' \in {now, now + 1}, settled' = settled \/ settled' = now
  PROVE  PaceInv'
<1> USE DEF PaceInv, paceVars
<1>1. now \in Nat /\ looked \in Int /\ looked <= now /\ batch <= now /\ batch \in Int
  BY DEF PaceTypes
<1>2. now' \in Nat /\ now <= now' /\ looked <= now' /\ batch <= now' /\ (now' # now => looked # now')
  BY <1>1
<1>3. PaceTypes'
  BY <1>1, <1>2 DEF PaceTypes
<1>4. RunShape' /\ RetryInv'
  BY DEF RunShape, RetryInv, RetriesSpaced
<1>5. BatchInv'
  <2>1. BatchWaits'
    BY DEF BatchInv, BatchWaits
  <2>2. CASE now' # now
    BY <1>2, <2>1, <2>2 DEF BatchInv
  <2>3. CASE now' = now /\ settled' = now
    <3>1. ~(settled' < now')
      BY <1>1, <2>3
    <3> QED BY <2>1, <3>1 DEF BatchInv
  <2>4. CASE now' = now /\ settled' = settled
    BY <2>1, <2>4 DEF BatchInv
  <2> QED BY <2>2, <2>3, <2>4
<1> QED BY <1>3, <1>4, <1>5

LEMMA DispatchStep ==
  ASSUME PaceInv, dispatchImmediateEmail, now' = now
  PROVE  PaceInv'
<1>1. /\ run = NoRun /\ batch' = since(now) /\ looked' = now /\ immediate /\ immediate' = immediate
      /\ run' = IF AlertEmailBatchDue(now) /\ ~active(now) THEN [at |-> now, batched |-> minutes > 0, todo |-> Mails] ELSE run
      /\ firstSeen' = IF pending = {} \/ minutes = 0 THEN Unset ELSE IF firstSeen = Unset THEN now ELSE firstSeen
      /\ unclean' = (unclean /\ pending # {} /\ minutes > 0)
      /\ UNCHANGED <<backoff, pending, minutes, fails, settled>>
  BY DEF dispatchImmediateEmail, dailyVars
<1>2. now \in Nat /\ minutes \in Nat /\ firstSeen \in Int /\ batch \in Int /\ batch <= now /\ unclean \in BOOLEAN /\ settled \in Int
  BY DEF PaceInv, PaceTypes
<1>3. since(now) \in Int /\ since(now) <= now /\ firstSeen' \in Int
  BY <1>1, <1>2 DEF since, Unset
<1>4. PaceTypes'
  <2>1. unclean' \in BOOLEAN
    BY <1>1
  <2> QED BY <1>1, <1>2, <1>3, <2>1 DEF PaceInv, PaceTypes
<1>5. ~unclean' => since(now) = firstSeen'
  BY <1>1, <1>2 DEF PaceInv, BatchInv, since
<1>6. CASE AlertEmailBatchDue(now) /\ ~active(now)
  <2> DEFINE b == minutes > 0
             m == Mails
  <2>0. b \in BOOLEAN
    OBVIOUS
  <2>1. run' = [at |-> now, batched |-> b, todo |-> m]
    BY <1>1, <1>6
  <2>2. b => m = <<pending>>
    BY DEF Mails
  <2>3. pending # {} /\ (minutes = 0 \/ now >= since(now) + minutes)
    BY <1>6 DEF AlertEmailBatchDue
  <2> HIDE DEF b, m
  <2>4. run'.at = now /\ run'.batched = b /\ run'.todo = m /\ run' = [at |-> run'.at, batched |-> run'.batched, todo |-> run'.todo]
    BY <2>1
  <2>5. b => Len(m) = 1
    BY <2>2
  <2>6. run' # NoRun
    BY <1>2, <2>4 DEF NoRun, Unset
  <2>7. b <=> minutes > 0
    BY DEF b
  <2>8. RunShape'
    <3>1. ~b => firstSeen' = Unset
      BY <1>1, <1>2, <2>7
    <3> QED BY <1>1, <1>2, <2>0, <2>4, <2>5, <2>7, <3>1 DEF RunShape
  <2>9. RetryInv'
    <3>1. fails # NoFails => now >= fails.at + least(fails.wait, BackoffMax)
      <4>1. ~(now < backoff.until)
        BY <1>6 DEF active
      <4> HAVE fails # NoFails
      <4>2. backoff.until = fails.at + backoff.delay /\ backoff.delay = least(fails.wait, BackoffMax) /\ fails.at \in Nat
            /\ fails.wait \in Nat
        BY DEF PaceInv, RetryInv
      <4>3. least(fails.wait, BackoffMax) \in Nat
        BY <4>2, MailerAssumption DEF least
      <4> QED BY <1>2, <4>1, <4>2, <4>3
    <3> QED BY <1>1, <2>4, <3>1 DEF PaceInv, RetryInv, RetriesSpaced
  <2>10. BatchInv'
    <3>1. BatchWaits'
      <4> SUFFICES ASSUME b, ~unclean'
                   PROVE  now >= firstSeen' + minutes
        BY <1>1, <2>4 DEF BatchWaits
      <4> QED BY <1>2, <1>5, <2>3, <2>7
    <3> QED BY <1>1, <1>5, <2>6, <3>1 DEF BatchInv
  <2> QED BY <1>4, <2>8, <2>9, <2>10 DEF PaceInv
<1>7. CASE ~(AlertEmailBatchDue(now) /\ ~active(now))
  <2>1. run' = NoRun /\ run'.batched = FALSE
    BY <1>1, <1>7 DEF NoRun
  <2>2. RunShape' /\ RetryInv'
    BY <1>1, <2>1 DEF PaceInv, RunShape, RetryInv, RetriesSpaced
  <2>3. ASSUME firstSeen' # Unset, fails = NoFails, ~unclean'
        PROVE  now < firstSeen' + minutes
    <3>1. backoff = NoBackoff
      BY <2>3 DEF PaceInv, RetryInv
    <3>2. ~active(now)
      BY <1>2, <3>1 DEF active, NoBackoff, Unset
    <3>3. pending # {} /\ minutes # 0
      BY <1>1, <2>3
    <3>4. ~(now >= since(now) + minutes)
      BY <1>7, <3>2, <3>3 DEF AlertEmailBatchDue
    <3>5. PICK f \in Int : f = since(now) /\ f = firstSeen'
      BY <1>3, <1>5, <2>3
    <3>6. now \in Nat /\ minutes \in Nat /\ ~(now >= f + minutes)
      BY <1>2, <3>4, <3>5
    <3>7. now < f + minutes
      BY <3>6
    <3> QED BY <3>5, <3>7
  <2>4. BatchInv'
    BY <1>1, <1>5, <2>1, <2>3 DEF BatchInv, BatchWaits
  <2> QED BY <1>4, <2>2, <2>4 DEF PaceInv
<1> QED BY <1>6, <1>7

\* The wait doubles, up to its limit, whatever it was.
LEMMA WaitDoubles ==
  ASSUME RetryInv, now \in Nat, NEW w, NEW d,
         w = (IF fails.wait = 0 THEN BackoffMin ELSE 2 * fails.wait), d = least(most(2 * backoff.delay, BackoffMin), BackoffMax)
  PROVE  w \in Nat \ {0} /\ w >= BackoffMin /\ d = least(w, BackoffMax)
<1>1. BackoffMin \in Nat \ {0} /\ BackoffMax \in Nat \ {0}
  BY MailerAssumption
<1>2. CASE fails = NoFails
  <2>1. fails.wait = 0 /\ backoff.delay = 0
    BY <1>2 DEF RetryInv, NoFails, NoBackoff
  <2>2. w = BackoffMin /\ d = least(most(2 * 0, BackoffMin), BackoffMax)
    BY <2>1
  <2>3. most(2 * 0, BackoffMin) = BackoffMin
    BY <1>1 DEF most
  <2> QED BY <1>1, <2>2, <2>3
<1>3. CASE fails # NoFails
  <2>1. PICK x \in Nat \ {0} : x = fails.wait /\ x >= BackoffMin
    BY <1>3 DEF RetryInv
  <2>2. PICK y \in Nat \ {0} : y = backoff.delay /\ y = least(x, BackoffMax)
    BY <1>1, <1>3, <2>1 DEF RetryInv, least
  <2>3. w = 2 * x /\ d = least(most(2 * y, BackoffMin), BackoffMax)
    BY <2>1, <2>2
  <2>4. CASE x < BackoffMax
    BY <1>1, <2>1, <2>2, <2>3, <2>4 DEF least, most
  <2>5. CASE ~(x < BackoffMax)
    BY <1>1, <2>1, <2>2, <2>3, <2>5 DEF least, most
  <2> QED BY <2>4, <2>5
<1> QED BY <1>2, <1>3

LEMMA DeliverStep ==
  ASSUME PaceInv, NEW outcome \in {"failed", "unmarked", "partial", "more", "done", "uncleared"}, deliver(outcome), now' = now
  PROVE  PaceInv'
<1> USE DEF PaceInv
<1>0. now \in Nat /\ minutes \in Nat /\ firstSeen \in Int /\ batch \in Int /\ batch <= now /\ looked \in Int /\ looked <= now /\ settled \in Int
  BY DEF PaceTypes
<1>1. /\ run # NoRun /\ UNCHANGED <<minutes, immediate, looked, settled>>
      /\ run' = IF outcome # "more" THEN NoRun ELSE [run EXCEPT !.todo = Tail(@)]
      /\ pending' \subseteq pending
      /\ unclean' = (unclean \/ outcome \in {"unmarked", "partial", "uncleared"})
      /\ batch' \in {Unset, batch} /\ firstSeen' \in {Unset, firstSeen}
  BY DEF deliver, dailyVars, ClearAlertEmailBatch
<1>2. PaceTypes'
  <2>1. unclean' \in BOOLEAN /\ pending' \subseteq {"new", "resolved"}
    BY <1>1 DEF PaceTypes
  <2>2. batch' \in Int /\ batch' <= now /\ firstSeen' \in Int
    BY <1>0, <1>1 DEF Unset
  <2> QED BY <1>0, <1>1, <2>1, <2>2 DEF PaceTypes
<1>3. CASE outcome = "failed"
  <2>1. /\ run' = NoRun /\ UNCHANGED <<batch, firstSeen>> /\ unclean' = unclean
        /\ fails' = [wait |-> IF fails.wait = 0 THEN BackoffMin ELSE 2 * fails.wait, at |-> now]
        /\ backoff' = failed(backoff, now)
    BY <1>3 DEF deliver, record, PaceTypes
  <2>2. run'.batched = FALSE
    BY <2>1 DEF NoRun
  <2>3. RetryInv'
    <3>1. PICK w : w = IF fails.wait = 0 THEN BackoffMin ELSE 2 * fails.wait
      OBVIOUS
    <3>2. PICK d : d = least(most(2 * backoff.delay, BackoffMin), BackoffMax)
      OBVIOUS
    <3>3. w \in Nat \ {0} /\ w >= BackoffMin /\ d = least(w, BackoffMax)
      BY <1>0, <3>1, <3>2, WaitDoubles
    <3>4. fails' = [wait |-> w, at |-> now] /\ backoff' = [delay |-> d, until |-> now + d]
      BY <2>1, <3>1, <3>2 DEF failed
    <3>5. fails'.wait = w /\ fails'.at = now /\ backoff'.delay = d /\ backoff'.until = now + d
      BY <3>4
    <3>6. fails' # NoFails
      BY <3>3, <3>5 DEF NoFails
    <3> QED BY <1>0, <2>1, <3>3, <3>5, <3>6 DEF RetryInv, RetriesSpaced
  <2>4. fails' # NoFails
    BY <1>0, <2>1 DEF NoFails, Unset
  <2>5. BatchInv'
    BY <1>1, <2>1, <2>2, <2>4 DEF BatchInv, BatchWaits
  <2> QED BY <1>2, <2>1, <2>3, <2>5 DEF RunShape
<1>4. CASE outcome # "failed"
  <2>1. fails' = NoFails /\ backoff' = NoBackoff
    BY <1>4 DEF deliver, record
  <2>2. RetryInv'
    BY <2>1 DEF RetryInv, RetriesSpaced
  <2>3. CASE outcome \in {"unmarked", "partial", "uncleared"}
    <3>1. run' = NoRun /\ run'.batched = FALSE /\ unclean' = TRUE
      BY <1>1, <2>3 DEF NoRun
    <3> QED BY <1>2, <2>2, <3>1 DEF RunShape, BatchInv, BatchWaits
  <2>4. CASE outcome = "done"
    <3>1. run' = NoRun /\ run'.batched = FALSE /\ batch' = Unset /\ firstSeen' = Unset
      BY <1>1, <2>4 DEF NoRun, deliver, ClearAlertEmailBatch
    <3> QED BY <1>2, <2>2, <3>1 DEF RunShape, BatchInv, BatchWaits
  <2>5. CASE outcome = "more"
    <3>1. Len(run.todo) > 1 /\ UNCHANGED <<batch, firstSeen>> /\ run' = [run EXCEPT !.todo = Tail(@)]
      BY <1>1, <2>5 DEF deliver
    <3>2. unclean' = unclean
      BY <1>1, <2>5 DEF PaceTypes
    <3>3. run.batched = FALSE /\ minutes = 0 /\ firstSeen = Unset /\ run.at \in Nat
      <4>1. run.batched => Len(run.todo) = 1
        BY <1>1 DEF RunShape
      <4>2. ~run.batched
        <5>1. ~(1 > 1)
          OBVIOUS
        <5> QED BY <3>1, <4>1, <5>1, Zenon
      <4>3. ~(minutes > 0)
        BY <1>1, <4>2 DEF RunShape
      <4> QED BY <1>0, <1>1, <4>2, <4>3 DEF RunShape
    <3>4. PICK a, b, c : run = [at |-> a, batched |-> b, todo |-> c]
      BY <1>1 DEF RunShape
    <3>5. run' = [at |-> a, batched |-> b, todo |-> Tail(c)]
      BY <3>1, <3>4
    <3>6. run'.at = run.at /\ run'.batched = run.batched /\ run' = [at |-> run'.at, batched |-> run'.batched, todo |-> run'.todo]
      BY <3>4, <3>5
    <3>7. run' # NoRun
      BY <3>3, <3>6 DEF NoRun, Unset
    <3>8. RunShape'
      <4>1. ~(minutes > 0)
        BY <3>3
      <4> QED BY <1>1, <3>1, <3>3, <3>6, <4>1 DEF RunShape
    <3>9. BatchInv'
      BY <3>1, <3>2, <3>3, <3>6, <3>7 DEF BatchInv, BatchWaits
    <3> QED BY <1>2, <2>2, <3>8, <3>9
  <2> QED BY <1>4, <2>3, <2>4, <2>5
<1> QED BY <1>3, <1>4

LEMMA ChangeStep ==
  ASSUME PaceInv, now' = now,
         \/ \E x \in {"new", "resolved"} : Update(x)
         \/ \E m \in Batches : EditWindow(m)
         \/ SwitchMails \/ MailRestart
  PROVE  PaceInv'
<1> USE DEF PaceInv
<1>0. now \in Nat /\ Batches \subseteq Nat
  BY MailerAssumption DEF PaceTypes
<1>1. ASSUME NEW x \in {"new", "resolved"}, Update(x)
      PROVE  PaceInv'
  BY <1>1 DEF Update, dailyVars, PaceTypes, RunShape, RetryInv, RetriesSpaced, BatchInv, BatchWaits
<1>3. CASE SwitchMails
  <2>1. /\ run = NoRun /\ settled' = now /\ unclean' = (unclean \/ batch # Unset)
        /\ UNCHANGED <<batch, backoff, pending, minutes, run, looked, firstSeen, fails>>
    BY <1>3 DEF SwitchMails
  <2>2. run.batched = FALSE /\ ~(settled' < now')
    BY <1>0, <2>1 DEF NoRun
  <2>3. PaceTypes'
    <3>1. unclean' \in BOOLEAN
      BY <2>1
    <3> QED BY <1>0, <2>1, <3>1 DEF PaceTypes
  <2>4. ~unclean' => batch = firstSeen /\ firstSeen = Unset
    BY <2>1 DEF BatchInv, PaceTypes
  <2> QED BY <2>1, <2>2, <2>3, <2>4 DEF RunShape, RetryInv, RetriesSpaced, BatchInv, BatchWaits
<1>2. CASE (\E m \in Batches : EditWindow(m)) \/ MailRestart
  <2>1. /\ run' = NoRun /\ settled' = now /\ minutes' \in Nat
        /\ UNCHANGED <<batch, pending, immediate, looked, firstSeen, unclean>>
    BY <1>0, <1>2 DEF EditWindow, MailRestart, PaceTypes
  <2>2. run'.batched = FALSE /\ ~(settled' < now')
    BY <1>0, <2>1 DEF NoRun
  <2>3. (fails' = fails /\ backoff' = backoff) \/ (fails' = NoFails /\ backoff' = NoBackoff)
    BY <1>2 DEF EditWindow, MailRestart
  <2>4. PaceTypes'
    BY <1>0, <2>1 DEF PaceTypes
  <2> QED BY <2>1, <2>2, <2>3, <2>4 DEF RunShape, RetryInv, RetriesSpaced, BatchInv, BatchWaits
<1> QED BY <1>1, <1>2, <1>3

\* Nothing waits for its window while the mails are off.
LEMMA SkipStep ==
  ASSUME PaceInv, EvaluationSkips, now' = now
  PROVE  PaceInv'
<1> USE DEF PaceInv
<1>1. /\ run = NoRun /\ ~immediate /\ looked' = now
      /\ UNCHANGED <<batch, backoff, pending, minutes, immediate, run, firstSeen, fails, unclean, settled>>
  BY DEF EvaluationSkips, dailyVars
<1>2. now \in Nat
  BY DEF PaceTypes
<1>3. unclean \/ firstSeen = Unset
  BY <1>1 DEF BatchInv
<1> QED BY <1>1, <1>2, <1>3 DEF PaceTypes, RunShape, RetryInv, RetriesSpaced, BatchInv, BatchWaits

LEMMA PaceStep ==
  ASSUME PaceInv, [Next]_vars
  PROVE  PaceInv'
<1>1. CASE UNCHANGED mailVars /\ now' \in {now, now + 1}
  BY <1>1, PaceStays DEF mailVars, dailyVars
<1>2. CASE MailNext /\ now' = now
  <2>1. CASE StartEmailScheduler \/ Fires \/ sendDailyReport \/ sendSMTP \/ SettingsUnread
             \/ \E c \in [enabled : BOOLEAN, time : 0..(DayLen - 1)] : EditSendTime(c)
    <3>1. UNCHANGED paceVars /\ (settled' = settled \/ settled' = now)
      BY <2>1 DEF StartEmailScheduler, Fires, sendDailyReport, sendSMTP, SettingsUnread, EditSendTime
    <3> QED BY <1>2, <3>1, PaceStays
  <2>2. CASE dispatchImmediateEmail
    BY <1>2, <2>2, DispatchStep
  <2>3. CASE \E o \in {"failed", "unmarked", "partial", "more", "done", "uncleared"} : deliver(o)
    BY <1>2, <2>3, DeliverStep
  <2>4. CASE \/ \E x \in {"new", "resolved"} : Update(x)
             \/ \E m \in Batches : EditWindow(m)
             \/ SwitchMails \/ MailRestart
    BY <1>2, <2>4, ChangeStep
  <2>5. CASE EvaluationSkips
    BY <1>2, <2>5, SkipStep
  <2> QED BY <1>2, <2>1, <2>2, <2>3, <2>4, <2>5 DEF MailNext
<1> QED BY <1>1, <1>2, MailMoves

LEMMA PaceInvariant == Spec => []PaceInv
<1>1. Init => PaceInv
  BY PaceStart
<1>2. PaceInv /\ [Next]_vars => PaceInv'
  BY PaceStep
<1> QED BY <1>1, <1>2, PTL DEF Spec

\* After failures in a row the mail server is left alone for a wait that each
\* of them doubled, up to the limit, by every evaluation of the process
\* (internal/service/immediate_notifications.go:224).
THEOREM RetriesAreSpaced == Spec => []RetriesSpaced
<1>1. PaceInv => RetriesSpaced
  BY DEF PaceInv, RetryInv
<1> QED BY <1>1, PaceInvariant, PTL

\* A batched mail waits for the whole window of its first update, whatever
\* restarts there were, and an update never outwaits it, however many follow
\* (AlertEmailBatchDue, internal/store/email_batch.go:9).
THEOREM BatchesAreOnTime == Spec => []BatchOnTime
<1>1. PaceInv => BatchOnTime
  BY DEF PaceInv, BatchInv, BatchOnTime, BatchInTime
<1> QED BY <1>1, PaceInvariant, PTL

-----------------------------------------------------------------------------
(***************************************************************************)
(* The daily report.                                                       *)
(***************************************************************************)
LEMMA RemainderIs ==
  ASSUME NEW a \in Int, NEW w \in Nat \ {0}, NEW q \in Int, NEW r \in 0..(w - 1), a = w * q + r
  PROVE  a % w = r
<1>1. a % w \in 0..(w - 1) /\ (a \div w) \in Int /\ a = w * (a \div w) + (a % w)
  OBVIOUS
<1>2. PICK p \in Int : p = a \div w
  BY <1>1
<1>3. PICK m \in 0..(w - 1) : m = a % w
  BY <1>1
<1>4. w * q + r = w * p + m
  BY <1>1, <1>2, <1>3
<1>5. \A x, y \in Int : x >= y + 1 => w * x >= w * y + w
  OBVIOUS
<1>6. q = p
  <2>1. CASE q >= p + 1
    BY <2>1, <1>4, <1>5
  <2>2. CASE p >= q + 1
    BY <2>2, <1>4, <1>5
  <2> QED BY <2>1, <2>2
<1> QED BY <1>3, <1>4, <1>6

\* The same time on two days is whole days apart.
LEMMA DaysApart ==
  ASSUME NEW a \in Nat, NEW b \in Nat, a % DayLen = b % DayLen, a < b
  PROVE  b >= a + DayLen /\ (b < a + DayLen + DayLen => b = a + DayLen)
<1>1. DayLen \in Nat \ {0}
  BY ClockAssumption
<1>2. PICK p \in Int, q \in Int, r \in Int : a = DayLen * p + r /\ b = DayLen * q + r
  <2>1. a % DayLen \in Int /\ (a \div DayLen) \in Int /\ a = DayLen * (a \div DayLen) + (a % DayLen)
    BY <1>1
  <2>2. (b \div DayLen) \in Int /\ b = DayLen * (b \div DayLen) + (b % DayLen)
    BY <1>1
  <2> QED BY <2>1, <2>2
<1>3. \A x, y \in Int : x >= y + 1 => DayLen * x >= DayLen * y + DayLen
  BY <1>1
<1>4. PICK x \in Int, y \in Int : x = DayLen * p /\ y = DayLen * q
  BY <1>1, <1>2
<1>5. q >= p + 1
  <2>1. CASE p >= q + 1
    BY <1>2, <1>3, <1>4, <2>1, <1>1
  <2>2. CASE p = q
    BY <1>2, <2>2
  <2> QED BY <1>2, <2>1, <2>2
<1>6. y >= x + DayLen
  BY <1>3, <1>2, <1>4, <1>5
<1>7. CASE q = p + 1
  <2>1. DayLen * (p + 1) = DayLen * p + DayLen
    BY <1>1, <1>2
  <2> QED BY <1>1, <1>2, <1>4, <1>7, <2>1
<1>8. CASE q >= (p + 1) + 1
  <2>1. PICK z \in Int : z = DayLen * (p + 1)
    BY <1>1, <1>2
  <2>2. z >= x + DayLen /\ y >= z + DayLen
    BY <1>2, <1>3, <1>4, <1>8, <2>1
  <2> QED BY <1>1, <1>2, <1>4, <2>1, <2>2
<1> QED BY <1>2, <1>5, <1>7, <1>8

\* The next run is the first one after now.
LEMMA NextRun ==
  ASSUME NEW t \in Nat, NEW time \in 0..(DayLen - 1)
  PROVE  /\ nextRunTimeAt(time, t) \in Nat /\ nextRunTimeAt(time, t) % DayLen = time
         /\ t < nextRunTimeAt(time, t) /\ nextRunTimeAt(time, t) <= t + DayLen
<1>1. DayLen \in Nat \ {0}
  BY ClockAssumption
<1>2. t % DayLen \in 0..(DayLen - 1) /\ (t \div DayLen) \in Nat /\ t = DayLen * (t \div DayLen) + (t % DayLen)
  BY <1>1
<1>3. PICK q \in Nat, r \in 0..(DayLen - 1) : q = Day(t) /\ t = DayLen * q + r
  BY <1>2 DEF Day
<1>4. PICK x \in Nat : x = DayLen * q /\ x = q * DayLen /\ DayLen * (q + 1) = x + DayLen
  BY <1>1, <1>3
<1>5. time \in Nat /\ time < DayLen /\ r \in Nat /\ r < DayLen
  BY <1>1, <1>3
<1>6. PICK n \in Nat : n = x + time
  BY <1>5
<1>7. nextRunTimeAt(time, t) = IF n > t THEN n ELSE n + DayLen
  BY <1>3, <1>4, <1>6 DEF nextRunTimeAt
<1>8. n % DayLen = time
  <2>1. n \in Int /\ q \in Int
    BY <1>3, <1>6
  <2>2. n = DayLen * q + time
    BY <1>4, <1>6, Zenon
  <2> QED BY <1>1, <2>1, <2>2, RemainderIs, Zenon
<1>9. (n + DayLen) % DayLen = time
  <2>1. q + 1 \in Int /\ n + DayLen \in Int
    BY <1>1, <1>3, <1>6
  <2>2. n + DayLen = (x + DayLen) + time
    BY <1>1, <1>4, <1>5, <1>6
  <2>3. n + DayLen = DayLen * (q + 1) + time
    BY <1>4, <2>2
  <2> QED BY <1>1, <2>1, <2>3, RemainderIs, Zenon
<1>10. t = x + r
  BY <1>3, <1>4
<1>11. (n > t => n <= t + DayLen) /\ (~(n > t) => t < n + DayLen /\ n + DayLen <= t + DayLen) /\ n + DayLen \in Nat
  BY <1>1, <1>4, <1>5, <1>6, <1>10
<1> QED BY <1>6, <1>7, <1>8, <1>9, <1>11

-----------------------------------------------------------------------------
Asleep == daily.pc \in {"sleep", "poll", "pause"}
DailyTypes ==
    /\ now \in Nat /\ settled \in Nat /\ settled <= now
    /\ mailCfg.enabled \in BOOLEAN /\ mailCfg.time \in 0..(DayLen - 1)
    /\ scene.part # "daily" => ~mailCfg.enabled /\ daily.pc = "read"
    /\ daily.pc \in {"read", "poll", "sleep", "send", "sending", "pause"} /\ daily.wake \in Nat
    /\ sentAt \in Seq(Nat) /\ \A i \in 1..Len(sentAt) : sentAt[i] <= now

\* The timers: none is overslept, a report takes no longer than it may, and
\* none is set further ahead than a day.
TimersInv ==
    /\ Asleep => now <= daily.wake
    /\ daily.pc = "sleep" => daily.wake <= now + DayLen
    /\ daily.pc = "poll" => daily.wake <= now + Poll
    /\ daily.pc = "pause" => daily.wake <= now + 1
    /\ daily.pc = "sending" => daily.wake <= now /\ now <= daily.wake + SendLimit

Due(d) == d % DayLen = mailCfg.time
Sent(d) == \E i \in 1..Len(sentAt) : sentAt[i] = d /\ \A j \in 1..Len(sentAt) : sentAt[j] = d => j = i
NoneAfter(d) == \A i \in 1..Len(sentAt) : sentAt[i] <= d

\* The loop may still act on older settings, but not beyond this time.
Limit == settled + DayLen + SendLimit + 1
Early ==
    CASE daily.pc \in {"read"} -> now <= Limit
      [] daily.pc = "send" -> now <= settled + DayLen
      [] daily.pc \in {"poll", "pause"} -> daily.wake <= Limit
      [] daily.pc \in {"sleep", "sending"} -> daily.wake <= settled + DayLen

\* The loop follows the settings: it sleeps until the next report, or has just
\* sent the one of today.
Aligned ==
    CASE daily.pc = "sleep" -> /\ Due(daily.wake) /\ \A i \in 1..Len(sentAt) : sentAt[i] < daily.wake
                               /\ daily.wake > Limit + DayLen => \E e \in Nat : daily.wake = e + DayLen /\ Sent(e) /\ NoneAfter(e)
      [] daily.pc = "send" -> Due(now) /\ \A i \in 1..Len(sentAt) : sentAt[i] < now
      [] daily.pc = "sending" -> Due(daily.wake) /\ Sent(daily.wake) /\ NoneAfter(daily.wake)
      [] daily.pc = "pause" -> \E e \in Nat : /\ Due(e) /\ e <= now /\ daily.wake <= e + SendLimit + 1
                                              /\ Sent(e) /\ NoneAfter(e)
      [] daily.pc = "read" -> \E e \in Nat : /\ Due(e) /\ e <= now /\ now <= e + SendLimit + 1
                                             /\ Sent(e) /\ NoneAfter(e)
      [] daily.pc = "poll" -> FALSE

\* The days that have begun since then have their report.
Reported ==
    \A d \in Nat : (d < now /\ Due(d) /\ d > Limit) =>
        Sent(d) /\ \A i \in 1..Len(sentAt) : sentAt[i] <= d \/ sentAt[i] >= d + DayLen

DailyInv == DailyTypes /\ TimersInv /\ (mailCfg.enabled => (Early \/ Aligned) /\ Reported)

LEMMA Lengths == DayLen \in Nat \ {0} /\ SendLimit \in Nat \ {0} /\ Poll \in Nat \ {0} /\ SendLimit + 1 < DayLen /\ Poll <= DayLen
  BY ClockAssumption, MailerAssumption

LEMMA DailyStart ==
  ASSUME Init
  PROVE  DailyInv
<1>1. now = 0 /\ settled = 0 /\ daily = [pc |-> "read", wake |-> 0] /\ sentAt = <<>>
      /\ mailCfg \in [enabled : IF scene.part = "daily" THEN BOOLEAN ELSE {FALSE}, time : {1}]
  BY DEF Init, MailInit
<1>2. daily.pc = "read" /\ daily.wake = 0
  BY <1>1
<1>3. mailCfg.enabled \in BOOLEAN /\ (scene.part # "daily" => ~mailCfg.enabled) /\ mailCfg.time = 1
  BY <1>1
<1>4. 1 \in 0..(DayLen - 1)
  BY Lengths
<1>5. DailyTypes
  BY <1>1, <1>2, <1>3, <1>4 DEF DailyTypes
<1>6. TimersInv
  BY <1>2 DEF TimersInv, Asleep
<1>7. Early /\ Reported
  <2>1. now <= Limit
    BY <1>1, Lengths DEF Limit
  <2>2. \A d \in Nat : ~(d < now)
    BY <1>1
  <2> QED BY <1>2, <2>1, <2>2 DEF Early, Reported
<1> QED BY <1>5, <1>6, <1>7 DEF DailyInv

\* Whenever the settings settle, a day later the loop will know them.
LEMMA SettleStep ==
  ASSUME DailyTypes, TimersInv, DailyTypes', TimersInv', settled' = now, now' = now
  PROVE  DailyInv'
<1>1. now \in Nat /\ daily'.wake \in Nat
  BY DEF DailyTypes
<1>2. Early'
  <2>1. now' <= Limit' /\ now' <= settled' + DayLen
    BY <1>1, Lengths DEF Limit
  <2>2. CASE daily'.pc = "read"
    BY <2>1, <2>2 DEF Early
  <2>3. CASE daily'.pc = "send"
    BY <2>1, <2>3 DEF Early
  <2>4. CASE daily'.pc = "poll"
    <3>1. daily'.wake <= now + Poll
      BY <2>4 DEF TimersInv
    <3>2. daily'.wake <= Limit'
      BY <1>1, <3>1, Lengths DEF Limit
    <3> QED BY <2>4, <3>2 DEF Early
  <2>5. CASE daily'.pc = "pause"
    <3>1. daily'.wake <= now + 1
      BY <2>5 DEF TimersInv
    <3>2. daily'.wake <= Limit'
      BY <1>1, <3>1, Lengths DEF Limit
    <3> QED BY <2>5, <3>2 DEF Early
  <2>6. CASE daily'.pc \in {"sleep", "sending"}
    <3>1. daily'.wake <= now + DayLen
      BY <1>1, <2>6, Lengths DEF TimersInv
    <3> QED BY <1>1, <2>6, <3>1 DEF Early
  <2> QED BY <2>2, <2>3, <2>4, <2>5, <2>6 DEF DailyTypes
<1>3. Reported'
  <2>1. \A d \in Nat : ~(d < now' /\ d > Limit')
    BY <1>1, Lengths DEF Limit
  <2> QED BY <2>1 DEF Reported
<1> QED BY <1>2, <1>3 DEF DailyInv

LEMMA DailyStays ==
  ASSUME DailyInv, UNCHANGED <<daily, mailCfg, sentAt, settled, now, scene>>
  PROVE  DailyInv'
<1>1. DailyTypes' /\ TimersInv'
  BY DEF DailyInv, DailyTypes, TimersInv, Asleep
<1>2. \A d : (Due(d) <=> Due(d)') /\ (Sent(d) <=> Sent(d)') /\ (NoneAfter(d) <=> NoneAfter(d)')
  BY DEF Due, Sent, NoneAfter
<1>3. mailCfg'.enabled = mailCfg.enabled /\ Limit' = Limit
  BY DEF Limit
<1>4. (Early => Early') /\ (Reported => Reported')
  BY DEF Early, Reported, Due, Sent, NoneAfter, Limit
<1>5. Aligned => Aligned'
  BY DEF Aligned, Due, Sent, NoneAfter, Limit
<1> QED BY <1>1, <1>3, <1>4, <1>5 DEF DailyInv

\* A minute passes: no timer is overslept, and when it is the minute of a
\* report, that report has been begun.
LEMMA MinutePasses ==
  ASSUME DailyInv, UNCHANGED <<daily, mailCfg, sentAt, settled, scene>>, now' = now + 1, scene.part = "daily" => DailyTick
  PROVE  DailyInv'
<1>0. /\ now \in Nat /\ settled \in Nat /\ settled <= now /\ daily.wake \in Nat
      /\ \A i \in 1..Len(sentAt) : sentAt[i] \in Nat /\ sentAt[i] <= now
  BY DEF DailyInv, DailyTypes
<1>1. scene.part # "daily" => daily.pc = "read" /\ ~mailCfg.enabled
  BY DEF DailyInv, DailyTypes
<1>2. scene.part = "daily" => (daily.pc = "sending" /\ now < daily.wake + SendLimit) \/ (Asleep /\ daily.wake > now)
  BY DEF DailyTick, Asleep
<1>3. now' \in Nat /\ now <= now' /\ settled' <= now' /\ \A i \in 1..Len(sentAt) : sentAt[i] <= now'
  BY <1>0
<1>4. DailyTypes'
  BY <1>0, <1>3 DEF DailyInv, DailyTypes
<1>5. TimersInv'
  <2>1. TimersInv
    BY DEF DailyInv
  <2>2. CASE daily.pc \in {"read", "send"}
    BY <2>2 DEF TimersInv, Asleep
  <2>3. CASE daily.pc = "sending"
    <3>1. daily.wake <= now /\ now < daily.wake + SendLimit
      BY <1>1, <1>2, <2>1, <2>3 DEF TimersInv, Asleep
    <3>2. daily.wake <= now' /\ now' <= daily.wake + SendLimit
      BY <1>0, <3>1, Lengths
    <3> QED BY <2>3, <3>2 DEF TimersInv, Asleep
  <2>4. CASE Asleep
    <3>1. daily.wake > now
      BY <1>1, <1>2, <2>4 DEF Asleep
    <3>2. now' <= daily.wake
      BY <1>0, <3>1
    <3>3. \A k \in Nat : daily.wake <= now + k => daily.wake <= now' + k
      BY <1>0
    <3> QED BY <2>1, <2>4, <3>2, <3>3, Lengths DEF TimersInv, Asleep
  <2> QED BY <2>2, <2>3, <2>4 DEF DailyInv, DailyTypes, Asleep
<1>6. ASSUME mailCfg.enabled
      PROVE  (Early \/ Aligned)' /\ Reported'
  <2>0. (Early \/ Aligned) /\ Reported
    BY <1>6 DEF DailyInv
  <2>1. (daily.pc = "sending" /\ now < daily.wake + SendLimit) \/ (Asleep /\ daily.wake > now)
    BY <1>1, <1>2, <1>6
  <2>2. Early => Early'
    BY <2>1 DEF Early, Asleep, Limit
  <2>3. Aligned => Aligned'
    <3>1. CASE daily.pc = "sleep"
      BY <3>1 DEF Aligned, Due, Sent, NoneAfter, Limit
    <3>2. CASE daily.pc = "sending"
      BY <3>2 DEF Aligned, Due, Sent, NoneAfter
    <3>3. CASE daily.pc = "pause"
      <4>1. \A e \in Nat : e <= now => e <= now'
        BY <1>0
      <4> QED BY <3>3, <4>1 DEF Aligned, Due, Sent, NoneAfter
    <3>4. CASE daily.pc = "poll"
      BY <3>4 DEF Aligned
    <3> QED BY <2>1, <3>1, <3>2, <3>3, <3>4 DEF Asleep
  <2>4. ASSUME Due(now), now > Limit
        PROVE  Sent(now) /\ NoneAfter(now)
    <3>0. now % DayLen = mailCfg.time
      BY <2>4 DEF Due
    <3>1. ~Early
      <4>1. CASE daily.pc = "sending"
        <5>1. now < daily.wake + SendLimit
          BY <2>1, <4>1 DEF Asleep
        <5>2. ~(daily.wake <= settled + DayLen)
          BY <1>0, <2>4, <5>1, Lengths DEF Limit
        <5> QED BY <4>1, <5>2 DEF Early
      <4>2. CASE Asleep
        <5>1. daily.wake > now
          BY <2>1, <4>2 DEF Asleep
        <5>2. ~(daily.wake <= Limit) /\ ~(daily.wake <= settled + DayLen)
          BY <1>0, <2>4, <5>1, Lengths DEF Limit
        <5> QED BY <4>2, <5>2 DEF Early, Asleep
      <4> QED BY <2>1, <4>1, <4>2
    <3>2. Aligned
      BY <2>0, <3>1
    <3>3. CASE daily.pc = "sleep"
      <4>1. now < daily.wake /\ daily.wake <= now + DayLen
        BY <2>1, <3>3 DEF DailyInv, TimersInv, Asleep
      <4>2. daily.wake % DayLen = mailCfg.time
        BY <3>2, <3>3 DEF Aligned, Due
      <4>3. daily.wake >= now + DayLen
        BY <1>0, <3>0, <4>1, <4>2, DaysApart
      <4>4. daily.wake = now + DayLen /\ daily.wake > Limit + DayLen
        BY <1>0, <2>4, <4>1, <4>3, Lengths DEF Limit
      <4>5. PICK e \in Nat : daily.wake = e + DayLen /\ Sent(e) /\ NoneAfter(e)
        BY <3>2, <3>3, <4>4 DEF Aligned
      <4>6. e = now
        BY <1>0, <4>4, <4>5, Lengths
      <4> QED BY <4>5, <4>6
    <3>4. ASSUME NEW e \in Nat, Due(e), e <= now, now < e + DayLen, Sent(e), NoneAfter(e)
          PROVE  Sent(now) /\ NoneAfter(now)
      <4>0. e % DayLen = now % DayLen
        BY <3>0, <3>4 DEF Due
      <4>1. ~(e < now)
        <5> SUFFICES ASSUME e < now PROVE FALSE
          OBVIOUS
        <5>1. now >= e + DayLen
          BY <1>0, <4>0, DaysApart
        <5> QED BY <1>0, <3>4, <5>1, Lengths
      <4>2. e = now
        BY <1>0, <3>4, <4>1
      <4> QED BY <3>4, <4>2
    <3>5. CASE daily.pc = "sending"
      <4>1. Due(daily.wake) /\ Sent(daily.wake) /\ NoneAfter(daily.wake)
        BY <3>2, <3>5 DEF Aligned
      <4>2. daily.wake <= now /\ now < daily.wake + SendLimit
        BY <2>1, <3>5 DEF DailyInv, TimersInv, Asleep
      <4>3. now < daily.wake + DayLen
        BY <1>0, <4>2, Lengths
      <4> QED BY <1>0, <3>4, <4>1, <4>2, <4>3
    <3>6. CASE daily.pc = "pause"
      <4>1. PICK e \in Nat : Due(e) /\ e <= now /\ daily.wake <= e + SendLimit + 1 /\ Sent(e) /\ NoneAfter(e)
        BY <3>2, <3>6 DEF Aligned
      <4>2. now < daily.wake
        BY <2>1, <3>6 DEF Asleep
      <4>3. now < e + DayLen
        BY <1>0, <4>1, <4>2, Lengths
      <4> QED BY <3>4, <4>1, <4>3
    <3>7. CASE daily.pc = "poll"
      BY <3>2, <3>7 DEF Aligned
    <3> QED BY <2>1, <3>3, <3>5, <3>6, <3>7 DEF Asleep
  <2>5. Reported'
    <3> SUFFICES ASSUME NEW d \in Nat, d < now', Due(d), d > Limit
                 PROVE  Sent(d) /\ \A i \in 1..Len(sentAt) : sentAt[i] <= d \/ sentAt[i] >= d + DayLen
      BY DEF Reported, Due, Sent, Limit
    <3>1. CASE d < now
      BY <2>0, <3>1 DEF Reported
    <3>2. CASE d = now
      BY <2>4, <3>2 DEF NoneAfter
    <3> QED BY <1>0, <3>1, <3>2
  <2> QED BY <2>0, <2>2, <2>3, <2>5
<1> QED BY <1>4, <1>5, <1>6 DEF DailyInv

\* A step of the loop that sends nothing leaves what has been reported.
LEMMA StillReported ==
  ASSUME DailyInv, UNCHANGED <<mailCfg, sentAt, settled, now>>
  PROVE  /\ mailCfg.enabled => Reported'
         /\ \A d : Due(d)' = Due(d) /\ Sent(d)' = Sent(d) /\ NoneAfter(d)' = NoneAfter(d)
<1>1. Reported => Reported'
  BY DEF Reported, Due, Sent, Limit
<1> QED BY <1>1 DEF DailyInv, Due, Sent, NoneAfter

\* The settings are read, and the loop sleeps until the next report.
LEMMA ReadStep ==
  ASSUME DailyInv, StartEmailScheduler, now' = now, scene' = scene
  PROVE  DailyInv'
<1>0. /\ now \in Nat /\ settled \in Nat /\ settled <= now /\ mailCfg.enabled \in BOOLEAN /\ mailCfg.time \in 0..(DayLen - 1)
      /\ \A i \in 1..Len(sentAt) : sentAt[i] \in Nat /\ sentAt[i] <= now
  BY DEF DailyInv, DailyTypes
<1>1. daily.pc = "read" /\ scene.part = "daily" /\ UNCHANGED <<mailCfg, sentAt, settled>>
  BY DEF StartEmailScheduler
<1>2. CASE ~mailCfg.enabled
  <2>1. daily' = [pc |-> "poll", wake |-> now + Poll]
    BY <1>2 DEF StartEmailScheduler, Timer
  <2>2. daily'.pc = "poll" /\ daily'.wake = now + Poll
    BY <2>1
  <2>3. now + Poll \in Nat /\ now <= now + Poll
    BY <1>0, Lengths
  <2>4. DailyTypes'
    BY <1>1, <2>2, <2>3 DEF DailyInv, DailyTypes
  <2>5. TimersInv'
    BY <1>0, <2>2, <2>3, Lengths DEF TimersInv, Asleep
  <2> QED BY <1>1, <1>2, <2>4, <2>5 DEF DailyInv
<1>3. CASE mailCfg.enabled
  <2>0. PICK w \in Nat : w = nextRunTimeAt(mailCfg.time, now)
    BY <1>0, NextRun
  <2>1. daily' = [pc |-> "sleep", wake |-> w]
    BY <1>3, <2>0 DEF StartEmailScheduler, Timer
  <2>2. daily'.pc = "sleep" /\ daily'.wake = w
    BY <2>1
  <2>3. w % DayLen = mailCfg.time /\ now < w /\ w <= now + DayLen
    BY <1>0, <2>0, NextRun
  <2>4. DailyTypes'
    BY <1>1, <2>2 DEF DailyInv, DailyTypes
  <2>5. TimersInv'
    BY <1>0, <2>2, <2>3, Lengths DEF TimersInv, Asleep
  <2>6. \A i \in 1..Len(sentAt) : sentAt[i] < w
    BY <1>0, <2>3
  <2>7. Aligned'
    <3>1. Early \/ Aligned
      BY <1>3 DEF DailyInv
    <3>2. SUFFICES w > Limit + DayLen => \E e \in Nat : w = e + DayLen /\ Sent(e) /\ NoneAfter(e)
      BY <1>1, <2>2, <2>3, <2>6 DEF Aligned, Due, Sent, NoneAfter, Limit
    <3>3. CASE Early
      <4>1. now <= Limit
        BY <1>1, <3>3 DEF Early
      <4>2. ~(w > Limit + DayLen)
        BY <1>0, <2>3, <4>1, Lengths DEF Limit
      <4> QED BY <4>2
    <3>4. CASE Aligned
      <4>1. PICK e \in Nat : Due(e) /\ e <= now /\ now <= e + SendLimit + 1 /\ Sent(e) /\ NoneAfter(e)
        BY <1>1, <3>4 DEF Aligned
      <4>2. e % DayLen = w % DayLen
        BY <2>3, <4>1 DEF Due
      <4>3. e < w /\ w < e + DayLen + DayLen
        BY <1>0, <2>3, <4>1, Lengths
      <4>4. w = e + DayLen
        BY <4>2, <4>3, DaysApart
      <4> QED BY <4>1, <4>4
    <3> QED BY <3>1, <3>3, <3>4
  <2> QED BY <1>1, <1>3, <2>4, <2>5, <2>7, StillReported DEF DailyInv
<1> QED BY <1>0, <1>2, <1>3

\* A timer fires in its minute.
LEMMA FiresStep ==
  ASSUME DailyInv, Fires, now' = now, scene' = scene
  PROVE  DailyInv'
<1>0. now \in Nat /\ settled \in Nat /\ daily.wake \in Nat
  BY DEF DailyInv, DailyTypes
<1>1. Asleep /\ UNCHANGED <<mailCfg, sentAt, settled>> /\ daily.wake <= now
  BY DEF Fires, Asleep
<1>2. daily.wake = now
  BY <1>0, <1>1 DEF DailyInv, TimersInv
<1>3. daily' = [pc |-> IF daily.pc = "sleep" THEN "send" ELSE "read", wake |-> 0]
  BY DEF Fires, Timer
<1>4. daily'.wake = 0 /\ daily'.pc = IF daily.pc = "sleep" THEN "send" ELSE "read"
  BY <1>3
<1>5. DailyTypes'
  <2>1. scene.part = "daily"
    BY <1>1 DEF DailyInv, DailyTypes, Asleep
  <2> QED BY <1>1, <1>4, <2>1 DEF DailyInv, DailyTypes
<1>6. TimersInv'
  BY <1>4 DEF TimersInv, Asleep
<1>7. ASSUME mailCfg.enabled
      PROVE  (Early \/ Aligned)'
  <2>1. Early \/ Aligned
    BY <1>7 DEF DailyInv
  <2>2. CASE daily.pc = "sleep"
    <3>1. daily'.pc = "send"
      BY <1>4, <2>2
    <3>2. CASE Early
      BY <1>1, <1>2, <2>2, <3>1, <3>2 DEF Early
    <3>3. CASE Aligned
      BY <1>1, <1>2, <2>2, <3>1, <3>3 DEF Aligned, Due
    <3> QED BY <2>1, <3>2, <3>3
  <2>3. CASE daily.pc = "poll"
    <3>1. daily'.pc = "read"
      BY <1>4, <2>3
    <3>2. Early
      BY <2>1, <2>3 DEF Aligned
    <3> QED BY <1>1, <1>2, <2>3, <3>1, <3>2 DEF Early, Limit
  <2>4. CASE daily.pc = "pause"
    <3>1. daily'.pc = "read"
      BY <1>4, <2>4
    <3>2. CASE Early
      BY <1>1, <1>2, <2>4, <3>1, <3>2 DEF Early, Limit
    <3>3. CASE Aligned
      <4>1. PICK e \in Nat : Due(e) /\ e <= now /\ daily.wake <= e + SendLimit + 1 /\ Sent(e) /\ NoneAfter(e)
        BY <2>4, <3>3 DEF Aligned
      <4> QED BY <1>1, <1>2, <3>1, <4>1 DEF Aligned, Due, Sent, NoneAfter
    <3> QED BY <2>1, <3>2, <3>3
  <2> QED BY <1>1, <2>2, <2>3, <2>4 DEF Asleep
<1> QED BY <1>1, <1>5, <1>6, <1>7, StillReported DEF DailyInv

\* The report ends, in time for the read that follows the pause.
LEMMA SentStep ==
  ASSUME DailyInv, sendSMTP, now' = now, scene' = scene
  PROVE  DailyInv'
<1>0. now \in Nat /\ settled \in Nat /\ daily.wake \in Nat
  BY DEF DailyInv, DailyTypes
<1>1. daily.pc = "sending" /\ UNCHANGED <<mailCfg, sentAt, settled>> /\ daily' = [pc |-> "pause", wake |-> now + 1]
  BY DEF sendSMTP, Timer
<1>2. daily'.pc = "pause" /\ daily'.wake = now + 1
  BY <1>1
<1>3. daily.wake <= now /\ now <= daily.wake + SendLimit
  BY <1>1 DEF DailyInv, TimersInv
<1>4. now + 1 \in Nat /\ now <= now + 1
  BY <1>0
<1>5. DailyTypes'
  <2>1. scene.part = "daily"
    BY <1>1 DEF DailyInv, DailyTypes
  <2> QED BY <1>1, <1>2, <1>4, <2>1 DEF DailyInv, DailyTypes
<1>6. TimersInv'
  BY <1>0, <1>2, <1>4 DEF TimersInv, Asleep
<1>7. ASSUME mailCfg.enabled
      PROVE  (Early \/ Aligned)'
  <2>1. Early \/ Aligned
    BY <1>7 DEF DailyInv
  <2>2. CASE Early
    <3>1. daily.wake <= settled + DayLen
      BY <1>1, <2>2 DEF Early
    <3>2. now + 1 <= Limit
      BY <1>0, <1>3, <3>1, Lengths DEF Limit
    <3> QED BY <1>1, <1>2, <3>2 DEF Early, Limit
  <2>3. CASE Aligned
    <3>1. Due(daily.wake) /\ Sent(daily.wake) /\ NoneAfter(daily.wake)
      BY <1>1, <2>3 DEF Aligned
    <3>2. PICK e \in Nat : e = daily.wake
      BY <1>0
    <3>3. e <= now /\ now + 1 <= e + SendLimit + 1
      BY <1>0, <1>3, <3>2, Lengths
    <3>4. (\E x \in Nat : Due(x) /\ x <= now /\ daily.wake <= x + SendLimit + 1 /\ Sent(x) /\ NoneAfter(x))'
      BY <1>1, <1>2, <3>1, <3>2, <3>3 DEF Due, Sent, NoneAfter
    <3> QED BY <1>2, <3>4 DEF Aligned
  <2> QED BY <2>1, <2>2, <2>3
<1> QED BY <1>1, <1>5, <1>6, <1>7, StillReported DEF DailyInv

\* The report of the day begins, or has been disabled.
LEMMA SendStep ==
  ASSUME DailyInv, sendDailyReport, now' = now, scene' = scene
  PROVE  DailyInv'
<1>0. /\ now \in Nat /\ settled \in Nat /\ mailCfg.enabled \in BOOLEAN /\ sentAt \in Seq(Nat)
      /\ \A i \in 1..Len(sentAt) : sentAt[i] \in Nat /\ sentAt[i] <= now
  BY DEF DailyInv, DailyTypes
<1>1. daily.pc = "send" /\ UNCHANGED <<mailCfg, settled>>
  BY DEF sendDailyReport
<1>2. scene.part = "daily"
  BY <1>1 DEF DailyInv, DailyTypes
<1>3. CASE ~mailCfg.enabled
  <2>1. daily' = [pc |-> "pause", wake |-> now + 1] /\ sentAt' = sentAt
    BY <1>3 DEF sendDailyReport, Timer
  <2>2. daily'.pc = "pause" /\ daily'.wake = now + 1 /\ now + 1 \in Nat /\ now <= now + 1
    BY <1>0, <2>1
  <2>3. DailyTypes'
    BY <1>1, <1>2, <2>1, <2>2 DEF DailyInv, DailyTypes
  <2>4. TimersInv'
    BY <1>0, <2>2 DEF TimersInv, Asleep
  <2> QED BY <1>1, <1>3, <2>3, <2>4 DEF DailyInv
<1>4. CASE mailCfg.enabled
  <2>1. daily' = [pc |-> "sending", wake |-> now] /\ sentAt' = Append(sentAt, now)
    BY <1>4 DEF sendDailyReport, Timer
  <2>2. daily'.pc = "sending" /\ daily'.wake = now /\ now <= now + SendLimit
    BY <1>0, <2>1, Lengths
  <2>3. PICK n \in Nat : n = Len(sentAt)
    BY <1>0
  <2>4. /\ sentAt' \in Seq(Nat) /\ Len(sentAt') = n + 1 /\ sentAt'[n + 1] = now
        /\ \A i \in 1..n : sentAt'[i] = sentAt[i]
    BY <1>0, <2>1, <2>3
  <2>5. \A i \in 1..(n + 1) : i \in 1..n \/ i = n + 1
    BY <2>3
  <2>6. \A i \in 1..Len(sentAt') : sentAt'[i] <= now
    BY <1>0, <2>3, <2>4, <2>5
  <2>7. DailyTypes'
    BY <1>1, <1>2, <2>2, <2>4, <2>6 DEF DailyInv, DailyTypes
  <2>8. TimersInv'
    BY <1>0, <2>2 DEF TimersInv, Asleep
  <2>9. Early \/ Aligned
    BY <1>4 DEF DailyInv
  <2>10. (Early \/ Aligned)'
    <3>1. CASE Early
      BY <1>1, <2>2, <3>1 DEF Early
    <3>2. CASE Aligned
      <4>1. Due(now) /\ \A i \in 1..n : sentAt[i] < now
        BY <1>1, <2>3, <3>2 DEF Aligned
      <4>2. \A j \in 1..(n + 1) : sentAt'[j] = now => j = n + 1
        BY <1>0, <2>3, <2>4, <2>5, <4>1
      <4>3. n + 1 \in 1..(n + 1)
        BY <2>3
      <4>4. (Sent(now) /\ NoneAfter(now))'
        BY <2>4, <2>6, <4>2, <4>3 DEF Sent, NoneAfter
      <4> QED BY <1>1, <2>2, <4>1, <4>4 DEF Aligned, Due
    <3> QED BY <2>9, <3>1, <3>2
  <2>11. Reported'
    <3> SUFFICES ASSUME NEW d \in Nat, d < now, Due(d), d > Limit
                 PROVE  Sent(d)' /\ \A i \in 1..Len(sentAt') : sentAt'[i] <= d \/ sentAt'[i] >= d + DayLen
      BY <1>1 DEF Reported, Due, Limit
    <3>1. now >= d + DayLen
      <4>1. ~Early
        <5>1. ~(now <= settled + DayLen)
          BY <1>0, Lengths DEF Limit
        <5> QED BY <1>1, <5>1 DEF Early
      <4>2. Due(now)
        BY <1>1, <2>9, <4>1 DEF Aligned
      <4>3. d % DayLen = now % DayLen
        BY <4>2 DEF Due
      <4> QED BY <1>0, <4>3, DaysApart
    <3>2. Sent(d) /\ \A i \in 1..n : sentAt[i] <= d \/ sentAt[i] >= d + DayLen
      BY <1>4, <2>3 DEF DailyInv, Reported
    <3>3. PICK i \in 1..n : sentAt[i] = d /\ \A j \in 1..n : sentAt[j] = d => j = i
      BY <2>3, <3>2 DEF Sent
    <3>4. i \in 1..(n + 1) /\ sentAt'[i] = d /\ \A j \in 1..(n + 1) : sentAt'[j] = d => j = i
      <4>1. i \in 1..(n + 1) /\ now # d
        BY <1>0, <2>3, <3>3
      <4> QED BY <2>4, <2>5, <3>3, <4>1
    <3>5. Sent(d)'
      BY <2>4, <3>4 DEF Sent
    <3> QED BY <2>4, <2>5, <3>1, <3>2, <3>5
  <2> QED BY <2>7, <2>8, <2>10, <2>11 DEF DailyInv
<1> QED BY <1>0, <1>3, <1>4

\* The settings cannot be read, or are edited; the process restarts.
LEMMA UnsettledStep ==
  ASSUME DailyInv, now' = now, scene' = scene,
         \/ SettingsUnread \/ MailRestart
         \/ \E c \in [enabled : BOOLEAN, time : 0..(DayLen - 1)] : EditSendTime(c)
         \/ SwitchMails \/ \E m \in Batches : EditWindow(m)
  PROVE  DailyInv'
<1>0. now \in Nat /\ settled' = now /\ sentAt' = sentAt
  BY DEF DailyInv, DailyTypes, SettingsUnread, MailRestart, EditSendTime, EditWindow, SwitchMails
<1>1. DailyTypes /\ TimersInv
  BY DEF DailyInv
<1>2. CASE SettingsUnread
  <2>1. mailCfg' = mailCfg /\ scene.part = "daily" /\ daily.pc \in {"read", "send"}
        /\ daily' = IF daily.pc = "read" THEN [pc |-> "poll", wake |-> now + Poll] ELSE [pc |-> "pause", wake |-> now + 1]
    BY <1>2 DEF SettingsUnread, Timer
  <2>2. now + Poll \in Nat /\ now <= now + Poll /\ now + 1 \in Nat /\ now <= now + 1
    BY <1>0, Lengths
  <2>3. (daily'.pc = "poll" /\ daily'.wake = now + Poll) \/ (daily'.pc = "pause" /\ daily'.wake = now + 1)
    BY <2>1
  <2>4. DailyTypes'
    BY <1>0, <1>1, <2>1, <2>2, <2>3 DEF DailyTypes
  <2>5. TimersInv'
    BY <1>0, <2>2, <2>3, Lengths DEF TimersInv, Asleep
  <2> QED BY <1>0, <1>1, <2>4, <2>5, SettleStep
<1>3. CASE MailRestart
  <2>1. mailCfg' = mailCfg /\ daily' = [pc |-> "read", wake |-> 0]
    BY <1>3 DEF MailRestart
  <2>2. daily'.pc = "read" /\ daily'.wake = 0
    BY <2>1
  <2>3. DailyTypes'
    BY <1>0, <1>1, <2>1, <2>2 DEF DailyTypes
  <2>4. TimersInv'
    BY <2>2 DEF TimersInv, Asleep
  <2> QED BY <1>0, <1>1, <2>3, <2>4, SettleStep
<1>4. ASSUME NEW c \in [enabled : BOOLEAN, time : 0..(DayLen - 1)], EditSendTime(c) PROVE DailyInv'
  <2>1. scene.part = "daily" /\ mailCfg' = c /\ daily' = daily
    BY <1>4 DEF EditSendTime
  <2>2. mailCfg'.enabled \in BOOLEAN /\ mailCfg'.time \in 0..(DayLen - 1)
    BY <2>1
  <2>3. DailyTypes'
    BY <1>0, <1>1, <2>1, <2>2 DEF DailyTypes
  <2>4. TimersInv'
    BY <1>1, <2>1 DEF TimersInv, Asleep
  <2> QED BY <1>0, <1>1, <2>3, <2>4, SettleStep
<1>5. CASE SwitchMails \/ \E m \in Batches : EditWindow(m)
  <2>1. daily' = daily /\ mailCfg' = mailCfg
    BY <1>5 DEF EditWindow, SwitchMails
  <2>2. DailyTypes'
    BY <1>0, <1>1, <2>1 DEF DailyTypes
  <2>3. TimersInv'
    BY <1>1, <2>1 DEF TimersInv, Asleep
  <2> QED BY <1>0, <1>1, <2>2, <2>3, SettleStep
<1> QED BY <1>2, <1>3, <1>4, <1>5

LEMMA DailyStep ==
  ASSUME DailyInv, [Next]_vars
  PROVE  DailyInv'
<1>1. scene' = scene
  BY MailMoves
<1>2. CASE UNCHANGED mailVars /\ now' = now
  BY <1>1, <1>2, DailyStays DEF mailVars, dailyVars
<1>3. CASE UNCHANGED mailVars /\ now' = now + 1 /\ (scene.part = "daily" => DailyTick)
  BY <1>1, <1>3, MinutePasses DEF mailVars, dailyVars
<1>4. CASE MailNext /\ now' = now
  <2>1. CASE \/ dispatchImmediateEmail \/ EvaluationSkips
             \/ \E o \in {"failed", "unmarked", "partial", "more", "done", "uncleared"} : deliver(o)
             \/ \E x \in {"new", "resolved"} : Update(x)
    <3>1. UNCHANGED dailyVars
      BY <2>1 DEF dispatchImmediateEmail, EvaluationSkips, deliver, Update
    <3> QED BY <1>1, <1>4, <3>1, DailyStays DEF dailyVars
  <2> QED BY <1>1, <1>4, <2>1, ReadStep, FiresStep, SendStep, SentStep, UnsettledStep DEF MailNext
<1> QED BY <1>2, <1>3, <1>4, MailMoves

\* Once the settings have been left alone for a day, each day has its report,
\* begun in its minute and once, whatever the reports take and whatever edits,
\* restarts and failed reads came before (StartEmailScheduler,
\* internal/service/email.go:849).
THEOREM ReportsComeDaily == Spec => []MailEachDay
<1>1. Init => DailyInv
  BY DailyStart
<1>2. DailyInv /\ [Next]_vars => DailyInv'
  BY DailyStep
<1>3. DailyInv => MailEachDay
  <2> SUFFICES ASSUME DailyInv, NEW d \in 0..(now - 1), d % DayLen = mailCfg.time, mailCfg.enabled,
                      settled + DayLen + SendLimit + 1 < d
               PROVE  /\ {sentAt[i] : i \in {j \in DOMAIN sentAt : d <= sentAt[j] /\ sentAt[j] < d + DayLen}} = {d}
                      /\ Cardinality({i \in DOMAIN sentAt : sentAt[i] = d}) = 1
    BY DEF MailEachDay
  <2>0. now \in Nat /\ settled \in Nat /\ sentAt \in Seq(Nat)
    BY DEF DailyInv, DailyTypes
  <2>1. d \in Nat /\ d < now /\ Due(d) /\ d > Limit
    BY <2>0, Lengths DEF Due, Limit
  <2>2. DOMAIN sentAt = 1..Len(sentAt) /\ \A i \in 1..Len(sentAt) : sentAt[i] \in Nat
    BY <2>0
  <2>3. Sent(d) /\ \A i \in DOMAIN sentAt : sentAt[i] <= d \/ sentAt[i] >= d + DayLen
    BY <2>1, <2>2 DEF DailyInv, Reported
  <2>4. PICK i \in DOMAIN sentAt : sentAt[i] = d /\ \A j \in DOMAIN sentAt : sentAt[j] = d => j = i
    BY <2>2, <2>3 DEF Sent
  <2>5. \A j \in DOMAIN sentAt : d <= sentAt[j] /\ sentAt[j] < d + DayLen <=> sentAt[j] = d
    BY <2>1, <2>2, <2>3, Lengths
  <2>6. {sentAt[k] : k \in {j \in DOMAIN sentAt : d <= sentAt[j] /\ sentAt[j] < d + DayLen}} = {d}
    BY <2>4, <2>5
  <2>7. {j \in DOMAIN sentAt : sentAt[j] = d} = {i}
    BY <2>4
  <2>8. Cardinality({i}) = 1
    BY FS_Singleton
  <2> QED BY <2>6, <2>7, <2>8
<1> QED BY <1>1, <1>2, <1>3, PTL DEF Spec
=============================================================================
