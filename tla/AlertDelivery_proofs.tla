------------------------ MODULE AlertDelivery_proofs ------------------------
(***************************************************************************)
(* Theorems about AlertDelivery, for any sets of alerts, destinations and  *)
(* web requests.                                                           *)
(***************************************************************************)
EXTENDS AlertDelivery, TLAPS

\* What one step writes, by process.  Every action below is one of these.
LEMMA SyncType ==
    ASSUME StoreTypeOK, NEW e \in Evaluations, syncAlertStates(e)
    PROVE  StoreTypeOK'
  <1>1. Found(e) \in SUBSET Alerts /\ Missing(e) \in SUBSET Alerts
        BY DEF Found, Missing, Evaluations, StoreTypeOK
  <1>2. e.critical \in SUBSET Alerts
        BY DEF Evaluations
  <1> QED BY <1>1, <1>2 DEF StoreTypeOK, syncAlertStates, PendingAfterSync

LEMMA EvaluationsNowType == EvaluationsNow \subseteq Evaluations
  <1>1. FullEvaluation \in Evaluations
        BY DEF FullEvaluation, Evaluations, Now
  <1>2. \A lost : PartialEvaluation(lost) \in Evaluations
        BY DEF PartialEvaluation, Evaluations, Now
  <1> QED BY <1>1, <1>2 DEF EvaluationsNow

LEMMA NoEvaluationType == NoEvaluation \in Evaluations
  BY DEF NoEvaluation, Evaluations

\* The history variables keep their type.
HistoryTypeOK ==
    /\ told \in [Recipients -> SUBSET Alerts]
    /\ cleared \in [Recipients -> SUBSET Alerts]
    /\ announced \in [Recipients -> SUBSET Alerts]
    /\ wasClear \in SUBSET Alerts

LEMMA SendActiveType ==
    ASSUME HistoryTypeOK, NEW r, NEW ids \in SUBSET Alerts, SendActive(r, ids)
    PROVE  HistoryTypeOK'
  BY DEF HistoryTypeOK, SendActive

LEMMA SendResolvedType ==
    ASSUME HistoryTypeOK, NEW r, NEW ids \in SUBSET Alerts, SendResolved(r, ids)
    PROVE  HistoryTypeOK'
  BY DEF HistoryTypeOK, SendResolved

LEMMA SendDigestType ==
    ASSUME HistoryTypeOK, NEW r, NEW x \in SUBSET Alerts, NEW y \in SUBSET Alerts,
           SendDigest(r, x, y)
    PROVE  HistoryTypeOK'
  BY DEF HistoryTypeOK, SendDigest

LEMMA AppearancesType ==
    ASSUME HistoryTypeOK, NEW e, NewAppearances(e)
    PROVE  HistoryTypeOK'
  BY DEF HistoryTypeOK, NewAppearances, ClearNow, Now

-----------------------------------------------------------------------------
LEMMA TypeInit == ASSUME Init PROVE TypeOK
  <1>1. StoreTypeOK
        BY DEF Init, StoreInit, StoreTypeOK, LinkStates
  <1>2. config \in SUBSET Channels
        BY ConstantsAssumption DEF Init
  <1>3. web \in [WebPages -> [waiting : BOOLEAN, ev : Evaluations]]
        BY NoEvaluationType DEF Init, WebIdle
  <1> QED BY <1>1, <1>2, <1>3, NoEvaluationType
          DEF Init, TypeOK, Conditions, MainSteps, PushSteps

\* Steps of the store other than a sync keep the tables typed.
LEMMA StoreStepType ==
    ASSUME StoreTypeOK,
           \/ \E ids \in SUBSET Alerts :
                \/ MarkAlertCriticalEmailsSent(ids) \/ MarkAlertResolutionEmailsSent(ids)
                \/ MarkAlertCriticalPushesSent(ids) \/ MarkAlertResolutionPushesSent(ids)
                \/ \E d \in Destinations \cup {NoDest} :
                      \/ MarkAlertCriticalTelegramsSent(d, ids)
                      \/ MarkAlertResolutionTelegramsSent(d, ids)
                \/ DeleteOldAlertHistory(ids)
           \/ ResetAllData
           \/ \E d \in Destinations :
                 \/ UpsertTelegramDestination(d) \/ SetUserActive(d)
                 \/ DeleteTelegramDestinationForUser(d)
           \/ UNCHANGED dbVars
    PROVE  StoreTypeOK'
  <1> USE DEF StoreTypeOK, stateCols, emailCols, pushCols, tgCols, dbVars
  <1>1. ASSUME NEW ids \in SUBSET Alerts,
               \/ MarkAlertCriticalEmailsSent(ids) \/ MarkAlertResolutionEmailsSent(ids)
               \/ MarkAlertCriticalPushesSent(ids) \/ MarkAlertResolutionPushesSent(ids)
        PROVE  StoreTypeOK'
        BY <1>1 DEF MarkAlertCriticalEmailsSent, MarkAlertResolutionEmailsSent,
                    MarkAlertCriticalPushesSent, MarkAlertResolutionPushesSent
  <1>2. ASSUME NEW ids \in SUBSET Alerts, NEW d, MarkAlertCriticalTelegramsSent(d, ids)
        PROVE  StoreTypeOK'
        BY <1>2 DEF MarkAlertCriticalTelegramsSent
  <1>3. ASSUME NEW ids \in SUBSET Alerts, NEW d, MarkAlertResolutionTelegramsSent(d, ids)
        PROVE  StoreTypeOK'
        BY <1>3 DEF MarkAlertResolutionTelegramsSent
  <1>4. ASSUME NEW ids, DeleteRows(ids)
        PROVE  /\ exists' \in SUBSET Alerts /\ present' \in SUBSET Alerts
               /\ critical' \in SUBSET Alerts
               /\ emailSent' \in SUBSET Alerts /\ emailPending' \in SUBSET Alerts
               /\ pushSent' \in SUBSET Alerts /\ pushPending' \in SUBSET Alerts
               /\ tgSent' \in [Destinations -> SUBSET Alerts]
               /\ tgResolved' \in [Destinations -> SUBSET Alerts]
        BY <1>4 DEF DeleteRows
  <1>5. ASSUME NEW ids, DeleteOldAlertHistory(ids) PROVE StoreTypeOK'
        BY <1>4, <1>5 DEF DeleteOldAlertHistory
  <1>6. ASSUME ResetAllData PROVE StoreTypeOK'
        <2>1. links' \in [Destinations -> LinkStates]
              BY <1>6 DEF ResetAllData, LinkStates
        <2> QED BY <2>1, <1>4, <1>6 DEF ResetAllData
  <1>7. ASSUME NEW d \in Destinations,
               \/ UpsertTelegramDestination(d) \/ SetUserActive(d)
               \/ DeleteTelegramDestinationForUser(d)
        PROVE  StoreTypeOK'
        BY <1>7 DEF UpsertTelegramDestination, SetUserActive, LinkStates,
                    DeleteTelegramDestinationForUser
  <1>8. ASSUME UNCHANGED dbVars PROVE StoreTypeOK'
        BY <1>8
  <1> QED BY <1>1, <1>2, <1>3, <1>5, <1>6, <1>7, <1>8

\* The rest of the type invariant: environment and processes.
ProcessTypeOK ==
    /\ cond \in [Alerts -> Conditions]
    /\ muted \in SUBSET Alerts
    /\ config \in SUBSET Channels
    /\ queued \in BOOLEAN
    /\ holder \in Notifiers \cup {NoHolder}
    /\ pc \in MainSteps
    /\ ev \in Evaluations
    /\ ready \in SUBSET Channels
    /\ cand \in SUBSET Alerts
    /\ todo \in SUBSET Destinations
    /\ dest \in Destinations \cup {NoDest}
    /\ sel \in SUBSET Alerts /\ res \in SUBSET Alerts
    /\ ppc \in PushSteps
    /\ psel \in SUBSET Alerts /\ pres \in SUBSET Alerts
    /\ web \in [WebPages -> [waiting : BOOLEAN, ev : Evaluations]]

LEMMA TypeSplit ==
    /\ TypeOK <=> StoreTypeOK /\ HistoryTypeOK /\ ProcessTypeOK
    /\ TypeOK' <=> StoreTypeOK' /\ HistoryTypeOK' /\ ProcessTypeOK'
  BY DEF TypeOK, HistoryTypeOK, ProcessTypeOK

LEMMA SameHistoryType == ASSUME HistoryTypeOK, UNCHANGED history PROVE HistoryTypeOK'
  BY DEF HistoryTypeOK, history, messages

LEMMA SameStoreType == ASSUME StoreTypeOK, UNCHANGED dbVars PROVE StoreTypeOK'
  BY DEF StoreTypeOK, dbVars, stateCols, emailCols, pushCols, tgCols

\* The type invariant is kept by every step.
LEMMA TypeNext == ASSUME TypeOK, [Next]_vars PROVE TypeOK'
  <1> USE TypeSplit
  <1> USE DEF envVars, mainVars, pushVars, runVars
  <1>a. \A s : s \in {"idle", "evaluate", "sync", "filter", "tgStart", "tgNext", "tgSend",
              "tgMark", "tgList", "tgSendRes", "tgMarkRes", "mailSelect", "mailList",
              "mailSend", "mailMark", "mailSendRes", "mailMarkRes", "wait"} => s \in MainSteps
        BY DEF MainSteps
  <1>b. \A s : s \in {"off", "select", "send", "mark", "list", "sendRes", "markRes", "done"}
              => s \in PushSteps
        BY DEF PushSteps
  <1>c. AfterTelegram \in MainSteps
        BY <1>a DEF AfterTelegram
  <1>1. ASSUME NEW n \in Notifiers, BeginRun(n), queued' \in BOOLEAN PROVE TypeOK'
        <2>1. ready' \in SUBSET Channels
              BY <1>1 DEF BeginRun, ProcessTypeOK
        <2> QED BY <1>1, <1>a, <2>1, SameHistoryType, SameStoreType DEF BeginRun, ProcessTypeOK
  <1>2. ASSUME SchedulerTick PROVE TypeOK'
        BY <1>1, <1>2 DEF SchedulerTick, Notifiers, ProcessTypeOK
  <1>3. ASSUME WorkerTakes PROVE TypeOK'
        <2>1. CASE holder = NoHolder
              BY <1>1, <1>3, <2>1 DEF WorkerTakes, Notifiers
        <2>2. CASE holder # NoHolder
              BY <1>3, <2>2, SameHistoryType, SameStoreType DEF WorkerTakes, ProcessTypeOK
        <2> QED BY <2>1, <2>2
  <1>4. ASSUME RunEvaluate PROVE TypeOK'
        BY <1>4, <1>a, SameHistoryType, SameStoreType, EvaluationsNowType
           DEF RunEvaluate, Main, ProcessTypeOK
  <1>5. ASSUME RunSync PROVE TypeOK'
        <2>1. StoreTypeOK'
              BY <1>5, SyncType DEF RunSync, SyncAlertStatesFor, ProcessTypeOK
        <2>2. HistoryTypeOK'
              BY <1>5, AppearancesType DEF RunSync, SyncAlertStatesFor
        <2> QED BY <2>1, <2>2, <1>5, <1>a DEF RunSync, Main, ProcessTypeOK
  <1>6. ASSUME RunFilter PROVE TypeOK'
        <2>1. cand' \in SUBSET Alerts
              BY <1>6 DEF RunFilter, ProcessTypeOK, Evaluations
        <2> QED BY <2>1, <1>6, <1>a, <1>b, <1>c, SameHistoryType, SameStoreType
                DEF RunFilter, Main, ProcessTypeOK
  <1>7. ASSUME RunAborts PROVE TypeOK'
        BY <1>7, <1>a, SameHistoryType, SameStoreType DEF RunAborts, ProcessTypeOK
  <1>8. ASSUME RunEnds PROVE TypeOK'
        BY <1>8, <1>a, <1>b, SameHistoryType, SameStoreType, NoEvaluationType
           DEF RunEnds, ProcessTypeOK
  <1>9. ASSUME TelegramStart PROVE TypeOK'
        BY <1>9, <1>a, <1>c, SameHistoryType, SameStoreType
           DEF TelegramStart, Main, ProcessTypeOK, ListActiveTelegramDestinations
  <1>10. ASSUME NEW d \in Destinations, TelegramSelect(d) PROVE TypeOK'
        BY <1>10, <1>a, SameHistoryType, SameStoreType DEF TelegramSelect, Main, ProcessTypeOK
  <1>11. ASSUME TelegramDone PROVE TypeOK'
        BY <1>11, <1>a, <1>c, SameHistoryType, SameStoreType DEF TelegramDone, Main, ProcessTypeOK
  <1>12. ASSUME NEW d \in Destinations, TelegramSendOK(d) PROVE TypeOK'
        <2>1. HistoryTypeOK'
              BY <1>12, SendActiveType, SendResolvedType, SameHistoryType
                 DEF TelegramSendOK, NoMessage, ProcessTypeOK
        <2> QED BY <2>1, <1>12, <1>a, SameStoreType DEF TelegramSendOK, Main, ProcessTypeOK
  <1>13. ASSUME TelegramSendFails PROVE TypeOK'
        <2>1. HistoryTypeOK'
              BY <1>13, SendActiveType, SendResolvedType, SameHistoryType
                 DEF TelegramSendFails, NoMessage, ProcessTypeOK
        <2> QED BY <2>1, <1>13, <1>a, SameStoreType DEF TelegramSendFails, Main, ProcessTypeOK
  <1>14. ASSUME TelegramMark PROVE TypeOK'
        <2>1. StoreTypeOK'
              BY <1>14, StoreStepType DEF TelegramMark, ProcessTypeOK
        <2> QED BY <2>1, <1>14, <1>a, SameHistoryType DEF TelegramMark, Main, ProcessTypeOK
  <1>15. ASSUME TelegramList PROVE TypeOK'
        <2>1. ListPendingAlertResolutionTelegrams(dest) \in SUBSET Alerts
              BY DEF ListPendingAlertResolutionTelegrams, StoreTypeOK
        <2> QED BY <2>1, <1>15, <1>a, SameHistoryType, SameStoreType
                DEF TelegramList, Main, ProcessTypeOK
  <1>16. ASSUME TelegramMarkResolved PROVE TypeOK'
        <2>1. StoreTypeOK'
              BY <1>16, StoreStepType DEF TelegramMarkResolved, ProcessTypeOK
        <2> QED BY <2>1, <1>16, <1>a, SameHistoryType DEF TelegramMarkResolved, Main, ProcessTypeOK
  <1>17. ASSUME EmailSelect PROVE TypeOK'
        BY <1>17, <1>a, SameHistoryType, SameStoreType DEF EmailSelect, Main, ProcessTypeOK
  <1>18. ASSUME EmailDue \/ EmailDeferred PROVE TypeOK'
        <2>1. ListPendingAlertResolutionEmails \in SUBSET Alerts
              BY DEF ListPendingAlertResolutionEmails, StoreTypeOK
        <2> QED BY <2>1, <1>18, <1>a, SameHistoryType, SameStoreType
                DEF EmailDue, EmailDeferred, Main, ProcessTypeOK
  <1>19. ASSUME EmailMessage PROVE HistoryTypeOK'
        BY <1>19, SendActiveType, SendDigestType DEF EmailMessage, ProcessTypeOK
  <1>20. ASSUME EmailSendOK \/ EmailSendFails PROVE TypeOK'
        <2>1. HistoryTypeOK'
              BY <1>19, <1>20, SendResolvedType, SameHistoryType
                 DEF EmailSendOK, EmailSendFails, NoMessage, ProcessTypeOK
        <2> QED BY <2>1, <1>20, <1>a, SameStoreType
                DEF EmailSendOK, EmailSendFails, Main, ProcessTypeOK
  <1>21. ASSUME EmailMark PROVE TypeOK'
        <2>1. StoreTypeOK'
              BY <1>21, StoreStepType DEF EmailMark, ProcessTypeOK
        <2> QED BY <2>1, <1>21, <1>a, SameHistoryType DEF EmailMark, Main, ProcessTypeOK
  <1>22. ASSUME EmailMarkResolved PROVE TypeOK'
        <2>1. StoreTypeOK'
              BY <1>22, StoreStepType DEF EmailMarkResolved, ProcessTypeOK
        <2> QED BY <2>1, <1>22, <1>a, SameHistoryType DEF EmailMarkResolved, Main, ProcessTypeOK
  <1>23. ASSUME PushSelect PROVE TypeOK'
        BY <1>23, <1>b, SameHistoryType, SameStoreType DEF PushSelect, Push, ProcessTypeOK
  <1>24. ASSUME PushSendOK \/ PushSendFails PROVE TypeOK'
        <2>1. HistoryTypeOK'
              BY <1>24, SendActiveType, SendResolvedType, SameHistoryType
                 DEF PushSendOK, PushSendFails, NoMessage, ProcessTypeOK
        <2> QED BY <2>1, <1>24, <1>b, SameStoreType
                DEF PushSendOK, PushSendFails, Push, ProcessTypeOK
  <1>25. ASSUME PushMark \/ PushMarkResolved PROVE TypeOK'
        <2>1. StoreTypeOK'
              BY <1>25, StoreStepType DEF PushMark, PushMarkResolved, ProcessTypeOK
        <2> QED BY <2>1, <1>25, <1>b, SameHistoryType
                DEF PushMark, PushMarkResolved, Push, ProcessTypeOK
  <1>26. ASSUME PushList PROVE TypeOK'
        <2>1. ListPendingAlertResolutionPushes \in SUBSET Alerts
              BY DEF ListPendingAlertResolutionPushes, StoreTypeOK
        <2> QED BY <2>1, <1>26, <1>b, SameHistoryType, SameStoreType
                DEF PushList, Push, ProcessTypeOK
  <1>27. ASSUME NEW w \in WebPages, WebEvaluate(w) PROVE TypeOK'
        BY <1>27, EvaluationsNowType, SameHistoryType, SameStoreType
           DEF WebEvaluate, ProcessTypeOK
  <1>28. ASSUME NEW w \in WebPages, WebSync(w) PROVE TypeOK'
        <2>1. web[w].ev \in Evaluations
              BY DEF ProcessTypeOK
        <2>2. StoreTypeOK' /\ HistoryTypeOK'
              BY <2>1, <1>28, SyncType, AppearancesType, SameHistoryType, SameStoreType
                 DEF WebSync, SyncAlertStatesFor
        <2> QED BY <2>2, <1>28, NoEvaluationType DEF WebSync, WebIdle, ProcessTypeOK
  <1>29. ASSUME NEW a \in Alerts, ReportStored(a) \/ TimePasses(a) PROVE TypeOK'
        <2>1. HistoryTypeOK'
              BY <1>29 DEF ReportStored, TimePasses, HistoryTypeOK, messages, ClearNow, Now
        <2> QED BY <2>1, <1>29, SameStoreType DEF ReportStored, TimePasses, ProcessTypeOK
  <1>30. ASSUME NEW a \in Alerts, ToggleMuted(a) PROVE TypeOK'
        BY <1>30, SameHistoryType, SameStoreType DEF ToggleMuted, ProcessTypeOK
  <1>31. ASSUME NEW c \in Enabled, ToggleChannel(c) PROVE TypeOK'
        BY <1>31, ConstantsAssumption, SameHistoryType, SameStoreType
           DEF ToggleChannel, ProcessTypeOK
  <1>32. ASSUME AdminResets PROVE TypeOK'
        <2>1. StoreTypeOK'
              BY <1>32, StoreStepType DEF AdminResets
        <2>2. HistoryTypeOK'
              BY <1>32 DEF AdminResets, HistoryTypeOK, messages
        <2> QED BY <2>1, <2>2, <1>32 DEF AdminResets, ProcessTypeOK, Conditions
  <1>33. ASSUME NEW d \in Destinations, TelegramLink(d) PROVE TypeOK'
        <2>1. StoreTypeOK'
              BY <1>33, StoreStepType DEF TelegramLink
        <2> QED BY <2>1, <1>33, SameHistoryType DEF TelegramLink, ProcessTypeOK
  <1>34. ASSUME Cleanup PROVE TypeOK'
        <2>1. StoreTypeOK'
              BY <1>34, StoreStepType DEF Cleanup
        <2> QED BY <2>1, <1>34, SameHistoryType DEF Cleanup, ProcessTypeOK
  <1>35. ASSUME Crash PROVE TypeOK'
        BY <1>35, <1>a, <1>b, SameHistoryType, SameStoreType, NoEvaluationType
           DEF Crash, WebIdle, ProcessTypeOK
  <1>36. ASSUME UNCHANGED vars PROVE TypeOK'
        BY <1>36, SameHistoryType, SameStoreType DEF vars, ProcessTypeOK
  <1> QED
    BY <1>2, <1>3, <1>4, <1>5, <1>6, <1>7, <1>8, <1>9, <1>10, <1>11, <1>12, <1>13, <1>14,
       <1>15, <1>16, <1>17, <1>18, <1>20, <1>21, <1>22, <1>23, <1>24, <1>25, <1>26, <1>27,
       <1>28, <1>29, <1>30, <1>31, <1>32, <1>33, <1>34, <1>35, <1>36
       DEF Next, MainStep, TelegramStep, EmailStep, PushStep, Environment

\* Every variable keeps its type, whatever the instance.
THEOREM TypeCorrect == Spec => []TypeOK
  <1>1. Init => TypeOK BY TypeInit
  <1>2. TypeOK /\ [Next]_vars => TypeOK' BY TypeNext
  <1> QED BY <1>1, <1>2, PTL DEF Spec

-----------------------------------------------------------------------------
(***************************************************************************)
(* Messages to one recipient do not touch another's.                       *)
(***************************************************************************)
LEMMA OtherRecipient ==
    ASSUME HistoryTypeOK, NEW r \in Recipients, NEW q, q # r,
           \/ \E ids : SendActive(q, ids) \/ SendResolved(q, ids)
           \/ \E x, y : SendDigest(q, x, y)
           \/ UNCHANGED history
    PROVE  told'[r] = told[r]
  BY DEF HistoryTypeOK, SendActive, SendResolved, SendDigest, history, messages

LEMMA SyncKeepsMessages == ASSUME NEW e, NewAppearances(e) PROVE told' = told
  BY DEF NewAppearances

\* Sends of the main goroutine never reach the push recipients.
LEMMA MainSendsElsewhere ==
    ASSUME TypeOK,
           \/ \E d \in Destinations : TelegramSendOK(d)
           \/ TelegramSendFails \/ EmailSendOK \/ EmailSendFails
    PROVE  told'["push"] = told["push"]
  <1> USE TypeSplit
  <1>0. "push" \in Recipients
        BY DEF Recipients
  <1>1. ASSUME NEW d \in Destinations, TelegramSendOK(d) PROVE told'["push"] = told["push"]
        <2>1. d # "push" BY ConstantsAssumption
        <2> QED BY <1>0, <1>1, <2>1, OtherRecipient DEF TelegramSendOK, NoMessage
  <1>2. ASSUME TelegramSendFails PROVE told'["push"] = told["push"]
        <2>1. dest # "push" BY ConstantsAssumption DEF ProcessTypeOK, NoDest
        <2> QED BY <1>0, <1>2, <2>1, OtherRecipient DEF TelegramSendFails, NoMessage
  <1>3. ASSUME EmailSendOK \/ EmailSendFails PROVE told'["push"] = told["push"]
        BY <1>0, <1>3, OtherRecipient DEF EmailSendOK, EmailSendFails, EmailMessage, NoMessage
  <1> QED BY <1>1, <1>2, <1>3

\* Nothing the push invariant speaks of has changed.
LEMMA PushFrame ==
    ASSUME PushInv, UNCHANGED <<present, pushSent, ppc, psel, pres>>,
           told'["push"] = told["push"]
    PROVE  PushInv'
  BY DEF PushInv, PushMarkTruthful

LEMMA PushSync ==
    ASSUME PushInv, NEW e, SyncAlertStatesFor(e), UNCHANGED <<ppc, psel, pres>>
    PROVE  PushInv'
  <1>1. told' = told BY SyncKeepsMessages DEF SyncAlertStatesFor
  <1>2. pushSent' \subseteq pushSent /\ present \ Missing(e) \subseteq present'
        /\ pushSent' \cap Missing(e) = {}
        BY DEF SyncAlertStatesFor, syncAlertStates
  <1> QED BY <1>1, <1>2 DEF PushInv, PushMarkTruthful

LEMMA PushDelete ==
    ASSUME PushInv, NEW ids, DeleteRows(ids), UNCHANGED <<ppc, psel, pres, told>>
    PROVE  PushInv'
  BY DEF PushInv, PushMarkTruthful, DeleteRows

\* The push goroutine's own steps.
LEMMA PushOwnSteps == ASSUME TypeOK, PushInv, PushStep PROVE PushInv'
  <1> USE TypeSplit
  <1> USE DEF PushInv, PushMarkTruthful, dbVars, stateCols, pushCols, history, messages, NoMessage
  <1>0. "push" \in Recipients /\ told \in [Recipients -> SUBSET Alerts]
        BY DEF Recipients, HistoryTypeOK
  <1>1. CASE PushSelect
        BY <1>1 DEF PushSelect, Push
  <1>2. CASE PushSendOK \/ PushSendFails
        BY <1>0, <1>2 DEF PushSendOK, PushSendFails, Push, SendActive, SendResolved
  <1>3. CASE PushMark
        BY <1>3 DEF PushMark, Push, MarkAlertCriticalPushesSent
  <1>4. CASE PushList
        BY <1>4 DEF PushList, Push, ListPendingAlertResolutionPushes
  <1>5. CASE PushMarkResolved
        BY <1>5 DEF PushMarkResolved, Push, MarkAlertResolutionPushesSent
  <1> QED BY <1>1, <1>2, <1>3, <1>4, <1>5 DEF PushStep

LEMMA PushNext == ASSUME TypeOK, PushInv, [Next]_vars PROVE PushInv'
  <1> USE DEF dbVars, stateCols, pushCols, history, messages, pushVars, runVars
  <1>1. CASE SchedulerTick \/ WorkerTakes
        BY <1>1, PushFrame DEF SchedulerTick, WorkerTakes, BeginRun
  <1>2. CASE RunEvaluate \/ RunAborts
        BY <1>2, PushFrame DEF RunEvaluate, RunAborts, Main
  <1>3. CASE RunSync
        BY <1>3, PushSync DEF RunSync
  <1>4. CASE RunFilter \/ RunEnds \/ Crash
        BY <1>4 DEF RunFilter, RunEnds, Crash, Main, PushInv, PushMarkTruthful
  <1>5. CASE TelegramStep
        <2>1. CASE \/ TelegramStart \/ TelegramDone \/ TelegramMark \/ TelegramList
                   \/ TelegramMarkResolved \/ \E d \in Destinations : TelegramSelect(d)
              BY <2>1, PushFrame DEF TelegramStart, TelegramDone, TelegramMark, TelegramList,
                 TelegramMarkResolved, TelegramSelect, MarkAlertCriticalTelegramsSent,
                 MarkAlertResolutionTelegramsSent
        <2>2. CASE TelegramSendFails \/ \E d \in Destinations : TelegramSendOK(d)
              BY <2>2, PushFrame, MainSendsElsewhere DEF TelegramSendFails, TelegramSendOK
        <2> QED BY <1>5, <2>1, <2>2 DEF TelegramStep
  <1>6. CASE EmailStep
        <2>1. CASE EmailSelect \/ EmailDue \/ EmailDeferred \/ EmailMark \/ EmailMarkResolved
              BY <2>1, PushFrame DEF EmailSelect, EmailDue, EmailDeferred, EmailMark,
                 EmailMarkResolved, MarkAlertCriticalEmailsSent, MarkAlertResolutionEmailsSent
        <2>2. CASE EmailSendOK \/ EmailSendFails
              BY <2>2, PushFrame, MainSendsElsewhere DEF EmailSendOK, EmailSendFails
        <2> QED BY <1>6, <2>1, <2>2 DEF EmailStep
  <1>7. CASE PushStep
        BY <1>7, PushOwnSteps
  <1>8. CASE \E w \in WebPages : WebEvaluate(w) \/ WebSync(w)
        <2>1. ASSUME NEW w \in WebPages, WebEvaluate(w) PROVE PushInv'
              BY <2>1, PushFrame DEF WebEvaluate
        <2>2. ASSUME NEW w \in WebPages, WebSync(w) PROVE PushInv'
              BY <2>2, PushFrame, PushSync DEF WebSync
        <2> QED BY <1>8, <2>1, <2>2
  <1>9. CASE \/ \E a \in Alerts : ReportStored(a) \/ TimePasses(a) \/ ToggleMuted(a)
             \/ \E c \in Enabled : ToggleChannel(c)
        BY <1>9, PushFrame DEF ReportStored, TimePasses, ToggleMuted, ToggleChannel
  <1>10. CASE \E d \in Destinations : TelegramLink(d)
        BY <1>10, PushFrame DEF TelegramLink, UpsertTelegramDestination, SetUserActive,
           DeleteTelegramDestinationForUser
  <1>11. CASE AdminResets \/ Cleanup
        BY <1>11, PushDelete DEF AdminResets, ResetAllData, Cleanup, DeleteOldAlertHistory
  <1>12. CASE UNCHANGED vars
        BY <1>12, PushFrame DEF vars
  <1> QED BY <1>1, <1>2, <1>3, <1>4, <1>5, <1>6, <1>7, <1>8, <1>9, <1>10, <1>11, <1>12
          DEF Next, MainStep, Environment

\* Whatever web pages sync and whatever fails or crashes, a row marked as pushed
\* is present and its subscribers were last told that it is active.
THEOREM PushMarksAreTruthful == Spec => []PushMarkTruthful
  <1>1. Init => PushInv
        BY DEF Init, StoreInit, PushInv, PushMarkTruthful
  <1>2. TypeOK /\ PushInv /\ [Next]_vars => PushInv'
        BY PushNext
  <1>3. PushInv => PushMarkTruthful
        BY DEF PushInv
  <1> QED BY <1>1, <1>2, <1>3, TypeCorrect, PTL DEF Spec

-----------------------------------------------------------------------------
(***************************************************************************)
(* Telegram, when the configuration only changes between runs.             *)
(***************************************************************************)
LEMMA ReadyInit == ASSUME Init PROVE TelegramStaysReady
  BY DEF Init, TelegramStaysReady, NoHolder

\* A run that began with Telegram ready serves it with Telegram enabled.
LEMMA ReadyNext ==
    ASSUME ~ReconfigMidRun, TypeOK, TelegramStaysReady, [Next]_vars
    PROVE  TelegramStaysReady'
  <1> USE TypeSplit
  <1> USE DEF TelegramStaysReady, envVars, mainVars, pushVars, runVars
  <1>1. ASSUME NEW n \in Notifiers, BeginRun(n) PROVE TelegramStaysReady'
        BY <1>1 DEF BeginRun, Notifiers, NoHolder
  <1>2. CASE SchedulerTick \/ WorkerTakes
        BY <1>1, <1>2 DEF SchedulerTick, WorkerTakes, Notifiers
  <1>3. CASE RunEvaluate \/ RunSync \/ RunFilter \/ RunAborts
        BY <1>3 DEF RunEvaluate, RunSync, RunFilter, RunAborts, Main, AfterTelegram
  <1>4. CASE RunEnds \/ Crash
        BY <1>4 DEF RunEnds, Crash
  <1>5. CASE \/ TelegramStart \/ TelegramDone
        BY <1>5 DEF TelegramStart, TelegramDone, Main, AfterTelegram
  <1>6. CASE \/ TelegramSendFails \/ TelegramMark \/ TelegramList \/ TelegramMarkResolved
        BY <1>6 DEF TelegramSendFails, TelegramMark, TelegramList, TelegramMarkResolved, Main
  <1>7. CASE \E d \in Destinations : TelegramSelect(d) \/ TelegramSendOK(d)
        BY <1>7 DEF TelegramSelect, TelegramSendOK, Main
  <1>8. CASE EmailStep
        BY <1>8 DEF EmailStep, EmailSelect, EmailDue, EmailDeferred, EmailSendOK,
           EmailSendFails, EmailMark, EmailMarkResolved, Main
  <1>9. CASE PushStep
        BY <1>9 DEF PushStep, PushSelect, PushSendOK, PushSendFails, PushMark, PushList,
           PushMarkResolved, Push
  <1>10. CASE \E w \in WebPages : WebEvaluate(w) \/ WebSync(w)
        BY <1>10 DEF WebEvaluate, WebSync
  <1>11. CASE \/ \E a \in Alerts : ReportStored(a) \/ TimePasses(a) \/ ToggleMuted(a)
              \/ \E d \in Destinations : TelegramLink(d)
              \/ Cleanup
        BY <1>11 DEF ReportStored, TimePasses, ToggleMuted, TelegramLink, Cleanup
  <1>12. CASE AdminResets \/ \E c \in Enabled : ToggleChannel(c)
        BY <1>12 DEF AdminResets, ToggleChannel, MayReconfigure
  <1>13. CASE UNCHANGED vars
        BY <1>13 DEF vars
  <1> QED BY <1>2, <1>3, <1>4, <1>5, <1>6, <1>7, <1>8, <1>9, <1>10, <1>11, <1>12, <1>13
          DEF Next, MainStep, TelegramStep, Environment

LEMMA TelegramFrame ==
    ASSUME TelegramTable, UNCHANGED <<present, exists, tgSent, sel, res, dest>>,
           pc' = pc \/ pc' \notin {"tgMark", "tgSendRes"},
           \A d \in Destinations : told'[d] = told[d],
           pc \in {"tgMark", "tgSendRes"} => dest \in Destinations
    PROVE  TelegramTable'
  BY DEF TelegramTable, TelegramMarkTruthful

LEMMA TelegramSync ==
    ASSUME TelegramTable, NEW e, SyncAlertStatesFor(e), UNCHANGED <<sel, res, dest>>,
           pc' = pc \/ pc' \notin {"tgMark", "tgSendRes"},
           pc \in {"tgMark", "tgSendRes"} => dest \in Destinations,
           StoreTypeOK
    PROVE  TelegramTable'
  <1>1. told' = told BY SyncKeepsMessages DEF SyncAlertStatesFor
  <1>2. \A d \in Destinations : tgSent'[d] = tgSent[d] \ Reappearing(e)
        BY DEF SyncAlertStatesFor, syncAlertStates
  <1>3. exists \subseteq exists' /\ present' \subseteq present \cup Found(e)
        BY DEF SyncAlertStatesFor, syncAlertStates
  <1>4. \A d \in Destinations : tgSent'[d] \cap present' \subseteq tgSent[d] \cap present
        BY <1>2, <1>3 DEF Reappearing, TelegramTable
  <1>5. TelegramMarkTruthful'
        BY <1>1, <1>4 DEF TelegramTable, TelegramMarkTruthful
  <1>6. \A d \in Destinations : tgSent'[d] \subseteq exists'
        BY <1>2, <1>3 DEF TelegramTable
  <1>7. pc' = "tgMark" => sel' \subseteq told'[dest']
        BY <1>1 DEF TelegramTable
  <1>8. pc' = "tgSendRes" => res' \cap present' \cap tgSent'[dest'] = {}
        BY <1>4 DEF TelegramTable
  <1> QED BY <1>5, <1>6, <1>7, <1>8 DEF TelegramTable

LEMMA TelegramDelete ==
    ASSUME TelegramTable, NEW ids, DeleteRows(ids), UNCHANGED <<sel, res, dest, pc, told>>,
           pc \in {"tgMark", "tgSendRes"} => dest \in Destinations
    PROVE  TelegramTable'
  BY DEF TelegramTable, TelegramMarkTruthful, DeleteRows

\* Sends on other channels do not reach a destination.
LEMMA OthersSendElsewhere ==
    ASSUME TypeOK,
           EmailSendOK \/ EmailSendFails \/ PushSendOK \/ PushSendFails
    PROVE  \A d \in Destinations : told'[d] = told[d]
  <1> USE TypeSplit
  <1> SUFFICES ASSUME NEW d \in Destinations PROVE told'[d] = told[d]
      OBVIOUS
  <1>1. d \in Recipients /\ d # "push" /\ d # "email"
        BY ConstantsAssumption DEF Recipients
  <1>2. CASE EmailSendOK \/ EmailSendFails
        BY <1>1, <1>2, OtherRecipient DEF EmailSendOK, EmailSendFails, EmailMessage, NoMessage
  <1>3. CASE PushSendOK \/ PushSendFails
        BY <1>1, <1>3, OtherRecipient DEF PushSendOK, PushSendFails, NoMessage
  <1> QED BY <1>2, <1>3

\* The steps of dispatchTelegram.
LEMMA TelegramOwnSteps ==
    ASSUME TypeOK, TelegramStaysReady, TelegramTable, TelegramStep
    PROVE  TelegramTable'
  <1> USE TypeSplit
  <1> USE DEF dbVars, stateCols, tgCols, history, messages, mainVars, envVars, NoMessage
  <1>0. told \in [Recipients -> SUBSET Alerts] /\ Destinations \subseteq Recipients
        BY DEF HistoryTypeOK, Recipients
  <1>1. tgSent \in [Destinations -> SUBSET Alerts]
        BY DEF StoreTypeOK
  <1>a. pc \in {"tgSend", "tgMark", "tgList", "tgSendRes"} => dest \in Destinations
        BY DEF TelegramStaysReady
  <1>2. CASE TelegramStart \/ TelegramDone
        BY <1>2 DEF TelegramStart, TelegramDone, Main, AfterTelegram, TelegramTable,
           TelegramMarkTruthful
  <1>3. CASE \E d \in Destinations : TelegramSelect(d)
        BY <1>3 DEF TelegramSelect, Main, TelegramTable, TelegramMarkTruthful
  <1>4. ASSUME NEW d \in Destinations, TelegramSendOK(d) PROVE TelegramTable'
        <2>1. "telegram" \in config /\ dest = d
              BY <1>4 DEF TelegramSendOK, TelegramStaysReady, Main
        <2>2. CASE pc = "tgSend"
              BY <1>0, <1>1, <1>4, <2>1, <2>2 DEF TelegramSendOK, Main, SendActive, TelegramTable,
                 TelegramMarkTruthful
        <2>3. CASE pc = "tgSendRes"
              BY <1>0, <1>1, <1>4, <2>1, <2>3 DEF TelegramSendOK, Main, SendResolved, TelegramTable,
                 TelegramMarkTruthful
        <2> QED BY <1>4, <2>2, <2>3 DEF TelegramSendOK, Main
  <1>5. CASE TelegramSendFails
        <2>1. CASE pc = "tgSend"
              BY <1>0, <1>1, <1>5, <1>a, <2>1 DEF TelegramSendFails, Main, SendActive,
                 TelegramTable, TelegramMarkTruthful
        <2>2. CASE pc = "tgSendRes"
              BY <1>0, <1>1, <1>5, <1>a, <2>2 DEF TelegramSendFails, Main, SendResolved,
                 TelegramTable, TelegramMarkTruthful
        <2> QED BY <1>5, <2>1, <2>2 DEF TelegramSendFails, Main
  <1>6. CASE TelegramMark
        BY <1>1, <1>6, <1>a DEF TelegramMark, Main, MarkAlertCriticalTelegramsSent,
           TelegramTable, TelegramMarkTruthful
  <1>7. CASE TelegramList
        BY <1>7, <1>a DEF TelegramList, Main, ListPendingAlertResolutionTelegrams,
           TelegramTable, TelegramMarkTruthful
  <1>8. CASE TelegramMarkResolved
        BY <1>8 DEF TelegramMarkResolved, Main, MarkAlertResolutionTelegramsSent,
           TelegramTable, TelegramMarkTruthful
  <1> QED BY <1>2, <1>3, <1>4, <1>5, <1>6, <1>7, <1>8 DEF TelegramStep

LEMMA TelegramNext ==
    ASSUME TypeOK, TelegramStaysReady, TelegramTable, [Next]_vars
    PROVE  TelegramTable'
  <1> USE DEF dbVars, stateCols, tgCols, history, messages, mainVars, runVars
  <1>a. pc \in {"tgMark", "tgSendRes"} => dest \in Destinations
        BY DEF TelegramStaysReady
  <1>1. CASE SchedulerTick \/ WorkerTakes
        BY <1>1, <1>a, TelegramFrame DEF SchedulerTick, WorkerTakes, BeginRun
  <1>2. CASE RunEvaluate \/ RunAborts \/ RunFilter
        BY <1>2, <1>a, TelegramFrame DEF RunEvaluate, RunAborts, RunFilter, Main, AfterTelegram
  <1>3. CASE RunSync
        BY <1>3, <1>a, TelegramSync, TypeSplit DEF RunSync, Main
  <1>4. CASE RunEnds \/ Crash
        BY <1>4 DEF RunEnds, Crash, TelegramTable, TelegramMarkTruthful
  <1>5. CASE TelegramStep
        BY <1>5, TelegramOwnSteps
  <1>6. CASE EmailStep
        <2>1. CASE EmailSelect \/ EmailDue \/ EmailDeferred
              BY <2>1 DEF EmailSelect, EmailDue, EmailDeferred, Main, TelegramTable,
                 TelegramMarkTruthful
        <2>2. CASE EmailMark \/ EmailMarkResolved
              BY <2>2, <1>a, TelegramFrame DEF EmailMark, EmailMarkResolved, Main,
                 MarkAlertCriticalEmailsSent, MarkAlertResolutionEmailsSent
        <2>3. CASE EmailSendOK \/ EmailSendFails
              BY <2>3, <1>a, TelegramFrame, OthersSendElsewhere
                 DEF EmailSendOK, EmailSendFails, Main
        <2> QED BY <1>6, <2>1, <2>2, <2>3 DEF EmailStep
  <1>7. CASE PushStep
        <2>1. CASE PushSelect \/ PushList \/ PushMark \/ PushMarkResolved
              BY <2>1, <1>a, TelegramFrame DEF PushSelect, PushList, PushMark, PushMarkResolved,
                 Push, MarkAlertCriticalPushesSent, MarkAlertResolutionPushesSent
        <2>2. CASE PushSendOK \/ PushSendFails
              BY <2>2, <1>a, TelegramFrame, OthersSendElsewhere
                 DEF PushSendOK, PushSendFails, Push
        <2> QED BY <1>7, <2>1, <2>2 DEF PushStep
  <1>8. CASE \E w \in WebPages : WebEvaluate(w) \/ WebSync(w)
        <2>1. ASSUME NEW w \in WebPages, WebEvaluate(w) PROVE TelegramTable'
              BY <2>1, <1>a, TelegramFrame DEF WebEvaluate
        <2>2. ASSUME NEW w \in WebPages, WebSync(w) PROVE TelegramTable'
              BY <2>2, <1>a, TelegramFrame, TelegramSync, TypeSplit DEF WebSync
        <2> QED BY <1>8, <2>1, <2>2
  <1>9. CASE \/ \E a \in Alerts : ReportStored(a) \/ TimePasses(a) \/ ToggleMuted(a)
             \/ \E c \in Enabled : ToggleChannel(c)
        BY <1>9, <1>a, TelegramFrame DEF ReportStored, TimePasses, ToggleMuted, ToggleChannel
  <1>10. CASE \E d \in Destinations : TelegramLink(d)
        BY <1>10, <1>a, TypeSplit DEF TelegramLink, UpsertTelegramDestination, SetUserActive,
           DeleteTelegramDestinationForUser, TelegramTable, TelegramMarkTruthful, StoreTypeOK
  <1>11. CASE AdminResets \/ Cleanup
        BY <1>11, <1>a, TelegramDelete DEF AdminResets, ResetAllData, Cleanup,
           DeleteOldAlertHistory
  <1>12. CASE UNCHANGED vars
        BY <1>12, <1>a, TelegramFrame DEF vars
  <1> QED BY <1>1, <1>2, <1>3, <1>4, <1>5, <1>6, <1>7, <1>8, <1>9, <1>10, <1>11, <1>12
          DEF Next, MainStep, Environment

\* As long as the configuration only changes between runs, a present alert
\* recorded as delivered to a destination was last reported to it as active,
\* whatever web pages sync and whatever fails or crashes.
THEOREM TelegramMarksAreTruthful ==
    ASSUME ~ReconfigMidRun
    PROVE  Spec => []TelegramMarkTruthful
  <1>1. Init => TelegramStaysReady /\ TelegramTable
        BY ReadyInit DEF Init, StoreInit, TelegramTable, TelegramMarkTruthful
  <1>2. TypeOK /\ TelegramStaysReady /\ TelegramTable /\ [Next]_vars
          => TelegramStaysReady' /\ TelegramTable'
        BY ReadyNext, TelegramNext
  <1>3. TelegramTable => TelegramMarkTruthful
        BY DEF TelegramTable
  <1> QED BY <1>1, <1>2, <1>3, TypeCorrect, PTL DEF Spec

-----------------------------------------------------------------------------
(***************************************************************************)
(* Email, when no web page syncs beside the run.                           *)
(***************************************************************************)
LEMMA EmailFrame ==
    ASSUME EmailInv,
           UNCHANGED <<present, exists, emailSent, emailPending, ev, cand, sel, res, pc>>,
           told'["email"] = told["email"]
    PROVE  EmailInv'
  BY DEF EmailInv, EmailMarkTruthful

\* Sends on other channels do not reach the mailbox.
LEMMA OthersSendNoMail ==
    ASSUME TypeOK,
           \/ \E d \in Destinations : TelegramSendOK(d)
           \/ TelegramSendFails \/ PushSendOK \/ PushSendFails
    PROVE  told'["email"] = told["email"]
  <1> USE TypeSplit
  <1>0. "email" \in Recipients
        BY DEF Recipients
  <1>1. ASSUME NEW d \in Destinations, TelegramSendOK(d) PROVE told'["email"] = told["email"]
        <2>1. d # "email" BY ConstantsAssumption
        <2> QED BY <1>0, <1>1, <2>1, OtherRecipient DEF TelegramSendOK, NoMessage
  <1>2. ASSUME TelegramSendFails PROVE told'["email"] = told["email"]
        <2>1. dest # "email" BY ConstantsAssumption DEF ProcessTypeOK, NoDest
        <2> QED BY <1>0, <1>2, <2>1, OtherRecipient DEF TelegramSendFails, NoMessage
  <1>3. ASSUME PushSendOK \/ PushSendFails PROVE told'["email"] = told["email"]
        BY <1>0, <1>3, OtherRecipient DEF PushSendOK, PushSendFails, NoMessage
  <1> QED BY <1>1, <1>2, <1>3

LEMMA EmailSync == ASSUME TypeOK, EmailInv, RunSync PROVE EmailInv'
  <1>1. told' = told /\ ev' = ev
        BY SyncKeepsMessages DEF RunSync, SyncAlertStatesFor, mainVars
  <1>2. /\ emailSent' \subseteq emailSent \ Missing(ev)
        /\ present' = (present \cup Found(ev)) \ Missing(ev)
        /\ exists' = exists \cup Found(ev)
        /\ emailPending' \subseteq emailPending \cup Missing(ev)
        BY DEF RunSync, SyncAlertStatesFor, syncAlertStates, PendingAfterSync
  <1>3. Missing(ev) \subseteq present /\ Missing(ev) \cap Found(ev) = {}
        BY DEF Missing
  <1>4. ev.critical \subseteq present' /\ present' \cup emailPending' \subseteq exists'
        BY <1>2, <1>3 DEF EmailInv, Found
  <1>5. emailSent' \subseteq present'
        BY <1>2 DEF EmailInv
  <1>6. EmailMarkTruthful'
        BY <1>1, <1>2 DEF EmailInv, EmailMarkTruthful
  <1> QED BY <1>1, <1>4, <1>5, <1>6 DEF EmailInv, RunSync, Main

\* The steps of dispatchImmediateEmail.
LEMMA EmailOwnSteps == ASSUME TypeOK, EmailInv, EmailStep PROVE EmailInv'
  <1> USE TypeSplit
  <1> USE DEF EmailInv, EmailMarkTruthful, dbVars, stateCols, emailCols, history, messages,
              mainVars, NoMessage
  <1>0. "email" \in Recipients /\ told \in [Recipients -> SUBSET Alerts]
        BY DEF Recipients, HistoryTypeOK
  <1>1. CASE EmailSelect
        BY <1>1 DEF EmailSelect, Main
  <1>2. CASE EmailDue \/ EmailDeferred
        BY <1>2 DEF EmailDue, EmailDeferred, Main, ListPendingAlertResolutionEmails
  <1>3. CASE EmailSendOK \/ EmailSendFails
        <2>1. CASE pc = "mailSend"
              BY <1>0, <1>3, <2>1 DEF EmailSendOK, EmailSendFails, Main, EmailMessage,
                 SendActive, SendDigest
        <2>2. CASE pc = "mailSendRes"
              BY <1>0, <1>3, <2>2 DEF EmailSendOK, EmailSendFails, Main, SendResolved
        <2> QED BY <1>3, <2>1, <2>2 DEF EmailSendOK, EmailSendFails, Main
  <1>4. CASE EmailMark
        BY <1>4 DEF EmailMark, Main, MarkAlertCriticalEmailsSent
  <1>5. CASE EmailMarkResolved
        BY <1>5 DEF EmailMarkResolved, Main, MarkAlertResolutionEmailsSent
  <1> QED BY <1>1, <1>2, <1>3, <1>4, <1>5 DEF EmailStep

LEMMA EmailNext == ASSUME WebPages = {}, TypeOK, EmailInv, [Next]_vars PROVE EmailInv'
  <1> USE DEF dbVars, stateCols, emailCols, history, messages, mainVars, runVars
  <1>1. CASE SchedulerTick \/ WorkerTakes
        BY <1>1 DEF SchedulerTick, WorkerTakes, BeginRun, EmailInv, EmailMarkTruthful
  <1>2. CASE RunEvaluate \/ RunAborts \/ RunFilter \/ RunEnds \/ Crash
        BY <1>2 DEF RunEvaluate, RunAborts, RunFilter, RunEnds, Crash, Main, AfterTelegram,
           EmailInv, EmailMarkTruthful
  <1>3. CASE RunSync
        BY <1>3, EmailSync
  <1>5. CASE TelegramStep
        <2>1. CASE \/ TelegramStart \/ TelegramDone \/ TelegramMark \/ TelegramList
                   \/ TelegramMarkResolved \/ \E d \in Destinations : TelegramSelect(d)
              BY <2>1 DEF TelegramStart, TelegramDone, TelegramMark, TelegramList,
                 TelegramMarkResolved, TelegramSelect, MarkAlertCriticalTelegramsSent,
                 MarkAlertResolutionTelegramsSent, Main, AfterTelegram, EmailInv,
                 EmailMarkTruthful
        <2>2. CASE TelegramSendFails \/ \E d \in Destinations : TelegramSendOK(d)
              BY <2>2, OthersSendNoMail DEF TelegramSendFails, TelegramSendOK, Main, EmailInv,
                 EmailMarkTruthful
        <2> QED BY <1>5, <2>1, <2>2 DEF TelegramStep
  <1>6. CASE EmailStep
        BY <1>6, EmailOwnSteps
  <1>7. CASE PushStep
        <2>1. CASE PushSelect \/ PushList \/ PushMark \/ PushMarkResolved
              BY <2>1, EmailFrame DEF PushSelect, PushList, PushMark, PushMarkResolved, Push,
                 MarkAlertCriticalPushesSent, MarkAlertResolutionPushesSent
        <2>2. CASE PushSendOK \/ PushSendFails
              BY <2>2, EmailFrame, OthersSendNoMail DEF PushSendOK, PushSendFails, Push
        <2> QED BY <1>7, <2>1, <2>2 DEF PushStep
  <1>9. CASE \/ \E a \in Alerts : ReportStored(a) \/ TimePasses(a) \/ ToggleMuted(a)
             \/ \E c \in Enabled : ToggleChannel(c)
        BY <1>9, EmailFrame DEF ReportStored, TimePasses, ToggleMuted, ToggleChannel
  <1>10. CASE \E d \in Destinations : TelegramLink(d)
        BY <1>10, EmailFrame DEF TelegramLink, UpsertTelegramDestination, SetUserActive,
           DeleteTelegramDestinationForUser
  <1>11. CASE AdminResets
        BY <1>11 DEF AdminResets, ResetAllData, DeleteRows, EmailInv, EmailMarkTruthful
  <1>12. CASE Cleanup
        BY <1>12 DEF Cleanup, DeleteOldAlertHistory, DeleteRows, Prunable, EmailInv,
           EmailMarkTruthful
  <1>13. CASE UNCHANGED vars
        BY <1>13, EmailFrame DEF vars
  <1> QED BY <1>1, <1>2, <1>3, <1>5, <1>6, <1>7, <1>9, <1>10, <1>11, <1>12, <1>13
          DEF Next, MainStep, Environment

\* When no web page syncs beside the notifier, an alert recorded as emailed is
\* one whose last email said it is active: the missing is_present guards of the
\* email marks only matter because web pages sync outside the mutex.
THEOREM EmailMarksAreTruthful ==
    ASSUME WebPages = {}
    PROVE  Spec => []EmailMarkTruthful
  <1>1. Init => EmailInv
        BY DEF Init, StoreInit, EmailInv, EmailMarkTruthful
  <1>2. TypeOK /\ EmailInv /\ [Next]_vars => EmailInv'
        BY EmailNext
  <1>3. EmailInv => EmailMarkTruthful
        BY DEF EmailInv
  <1> QED BY <1>1, <1>2, <1>3, TypeCorrect, PTL DEF Spec

-----------------------------------------------------------------------------
(***************************************************************************)
(* One message per appearance, when nothing fails and the configuration    *)
(* only changes between runs.  What a recipient was sent is recorded for   *)
(* it, or is about to be.                                                  *)
(***************************************************************************)

\* The candidates of a run are rows that exist, until it ends.
RunInv ==
    /\ holder = NoHolder <=> pc = "idle"
    /\ present \subseteq exists
    /\ pc \in {"idle", "evaluate", "sync", "filter"} => cand = {} /\ ppc = "off"
    /\ cand \subseteq ev.critical
    /\ pc \notin {"idle", "evaluate", "sync"} => ev.critical \subseteq exists

\* Telegram: what was sent to a chat has a delivery row, although web pages
\* resolve and revive alerts at any moment.
TelegramOnce ==
    /\ \A d \in todo : links[d] # "unused"
    /\ pc \in {"tgSend", "tgMark"} => dest \in Destinations /\ links[dest] # "unused" /\ sel \subseteq cand
    /\ pc = "tgSend" /\ dest \notin Unlinked => sel \cap announced[dest] = {}
    /\ \A d \in Destinations \ Unlinked :
         announced[d] \cap exists \subseteq tgSent[d] \cup (IF pc = "tgMark" /\ dest = d THEN sel ELSE {})

\* Without web pages the candidates stay present until the run ends.
StillPresent == pc \notin {"idle", "evaluate", "sync"} => ev.critical \subseteq present

\* An alert last announced as critical and resolved since is pending or told.
Owed(r, pending) == (announced[r] \cap critical \cap exists) \ present \subseteq pending \cup cleared[r]

EmailOnce ==
    /\ emailSent \subseteq present
    /\ announced["email"] \cap present \subseteq emailSent \cup (IF pc = "mailMark" THEN sel ELSE {})
    /\ pc \in {"mailList", "mailSend", "mailMark"} => sel \subseteq cand
    /\ pc \in {"mailList", "mailSend"} => sel \cap announced["email"] = {}
    /\ pc \in {"mailSend", "mailMark", "mailSendRes", "mailMarkRes"} => res \cap present = {}
    /\ pc = "mailMarkRes" \/ (BatchEmail /\ pc = "mailMark") => res \subseteq cleared["email"]
    /\ Owed("email", emailPending)

PushOnce ==
    /\ pushSent \subseteq present
    /\ announced["push"] \cap present \subseteq pushSent \cup (IF ppc = "mark" THEN psel ELSE {})
    /\ ppc \in {"send", "mark"} => psel \subseteq cand
    /\ ppc = "send" => psel \cap announced["push"] = {}
    /\ ppc \in {"sendRes", "markRes"} => pres \cap present = {}
    /\ ppc = "markRes" => pres \subseteq cleared["push"]
    /\ Owed("push", pushPending)

LEMMA RunNext ==
    ASSUME ~Faults, ~ReconfigMidRun, TypeOK, RunInv, [Next]_vars
    PROVE  RunInv'
  <1> USE TypeSplit
  <1> USE DEF RunInv, envVars, mainVars, pushVars, runVars, dbVars, stateCols
  <1>1. CASE SchedulerTick \/ WorkerTakes
        BY <1>1 DEF SchedulerTick, WorkerTakes, BeginRun, NoHolder
  <1>2. CASE RunEvaluate
        BY <1>2 DEF RunEvaluate, Main
  <1>3. ASSUME NEW e \in Evaluations, syncAlertStates(e)
        PROVE  exists' = exists \cup Found(e) /\ present' \subseteq present \cup Found(e)
        BY <1>3 DEF syncAlertStates
  <1>4. CASE RunSync
        <2>1. ev \in Evaluations BY DEF ProcessTypeOK
        <2> QED BY <1>3, <1>4, <2>1 DEF RunSync, SyncAlertStatesFor, Main, Found
  <1>5. CASE RunFilter
        BY <1>5 DEF RunFilter, Main, AfterTelegram
  <1>6. CASE RunAborts \/ RunEnds \/ Crash
        BY <1>6 DEF RunAborts, RunEnds, Crash, NoEvaluation
  <1>7. CASE TelegramStep
        <2>1. CASE TelegramStart \/ TelegramDone \/ TelegramList \/ \E d \in Destinations : TelegramSelect(d)
              BY <2>1 DEF TelegramStart, TelegramDone, TelegramList, TelegramSelect, Main, AfterTelegram
        <2>2. CASE TelegramSendFails \/ \E d \in Destinations : TelegramSendOK(d)
              BY <2>2 DEF TelegramSendFails, TelegramSendOK, Main
        <2>3. CASE TelegramMark \/ TelegramMarkResolved
              BY <2>3 DEF TelegramMark, TelegramMarkResolved, Main, MarkAlertCriticalTelegramsSent,
                 MarkAlertResolutionTelegramsSent
        <2> QED BY <1>7, <2>1, <2>2, <2>3 DEF TelegramStep
  <1>8. CASE EmailStep
        <2>1. CASE EmailSelect \/ EmailDue \/ EmailDeferred \/ EmailSendOK \/ EmailSendFails
              BY <2>1 DEF EmailSelect, EmailDue, EmailDeferred, EmailSendOK, EmailSendFails, Main
        <2>2. CASE EmailMark \/ EmailMarkResolved
              BY <2>2 DEF EmailMark, EmailMarkResolved, Main, MarkAlertCriticalEmailsSent,
                 MarkAlertResolutionEmailsSent
        <2> QED BY <1>8, <2>1, <2>2 DEF EmailStep
  <1>9. CASE PushStep
        <2>1. ppc # "off" /\ UNCHANGED <<holder, pc, ev, cand>>
              BY <1>9 DEF PushStep, PushSelect, PushList, PushMark, PushMarkResolved, PushSendOK, PushSendFails, Push
        <2>2. UNCHANGED <<present, exists>>
              BY <1>9 DEF PushStep, PushSelect, PushList, PushMark, PushMarkResolved, PushSendOK, PushSendFails,
                 MarkAlertCriticalPushesSent, MarkAlertResolutionPushesSent
        <2> QED BY <2>1, <2>2
  <1>10. CASE \E w \in WebPages : WebEvaluate(w) \/ WebSync(w)
        <2>1. ASSUME NEW w \in WebPages, WebEvaluate(w) PROVE RunInv'
              BY <2>1 DEF WebEvaluate
        <2>2. ASSUME NEW w \in WebPages, WebSync(w) PROVE RunInv'
              <3>1. web[w].ev \in Evaluations BY DEF ProcessTypeOK
              <3>2. exists \subseteq exists' /\ present' \subseteq exists'
                    BY <1>3, <2>2, <3>1 DEF WebSync, SyncAlertStatesFor
              <3> QED BY <2>2, <3>2 DEF WebSync
        <2> QED BY <1>10, <2>1, <2>2
  <1>11. CASE \/ \E a \in Alerts : ReportStored(a) \/ TimePasses(a) \/ ToggleMuted(a)
              \/ \E c \in Enabled : ToggleChannel(c)
        BY <1>11 DEF ReportStored, TimePasses, ToggleMuted, ToggleChannel
  <1>12. CASE \E d \in Destinations : TelegramLink(d)
        BY <1>12 DEF TelegramLink, UpsertTelegramDestination, SetUserActive, DeleteTelegramDestinationForUser
  <1>13. CASE AdminResets
        BY <1>13 DEF AdminResets, MayReconfigure, ResetAllData, DeleteRows
  <1>14. CASE Cleanup
        BY <1>14 DEF Cleanup, DeleteOldAlertHistory, DeleteRows, Found
  <1>15. CASE UNCHANGED vars
        BY <1>15 DEF vars
  <1> QED BY <1>1, <1>2, <1>4, <1>5, <1>6, <1>7, <1>8, <1>9, <1>10, <1>11, <1>12, <1>13, <1>14, <1>15
          DEF Next, MainStep, Environment

\* A message to one recipient announces nothing to another.
LEMMA OthersUnannounced ==
    ASSUME HistoryTypeOK, NEW r \in Recipients, NEW q, q # r,
           \/ \E ids : SendActive(q, ids) \/ SendResolved(q, ids)
           \/ \E x, y : SendDigest(q, x, y)
           \/ UNCHANGED history
    PROVE  announced'[r] = announced[r] /\ cleared'[r] = cleared[r]
  BY DEF HistoryTypeOK, SendActive, SendResolved, SendDigest, history, messages

\* Steps that touch nothing of Telegram.
LEMMA TelegramOnceFrame ==
    ASSUME TelegramOnce, UNCHANGED <<exists, tgSent, links, todo, dest, sel, cand>>,
           pc' = pc \/ (pc' \notin {"tgSend", "tgMark"} /\ pc # "tgMark"),
           \A d \in Destinations : announced'[d] = announced[d]
    PROVE  TelegramOnce'
  BY DEF TelegramOnce, Unlinked

\* A sync that drops a delivery row starts a new appearance.
LEMMA TelegramOnceSync ==
    ASSUME TypeOK, RunInv, TelegramOnce, NEW e \in Evaluations, SyncAlertStatesFor(e),
           UNCHANGED <<links, todo, dest, sel, cand>>,
           pc' = pc \/ (pc' \notin {"tgSend", "tgMark"} /\ pc # "tgMark")
    PROVE  TelegramOnce'
  <1> USE TypeSplit
  <1>1. \A d \in Destinations : /\ tgSent'[d] = tgSent[d] \ Reappearing(e)
                                /\ announced'[d] = announced[d] \ (Found(e) \ present)
        BY DEF SyncAlertStatesFor, syncAlertStates, NewAppearances, Recipients
  <1>2. exists' = exists \cup Found(e) /\ present \subseteq exists
        BY DEF SyncAlertStatesFor, syncAlertStates, RunInv
  <1>3. Reappearing(e) \subseteq Found(e) \ present
        BY DEF Reappearing
  <1>4. Unlinked' = Unlinked
        BY DEF Unlinked
  <1>5. pc' = "tgSend" /\ dest' \notin Unlinked' => sel' \cap announced'[dest'] = {}
        BY <1>1, <1>4 DEF TelegramOnce
  <1>6. ASSUME NEW d \in Destinations \ Unlinked
        PROVE  announced'[d] \cap exists' \subseteq tgSent'[d] \cup (IF pc' = "tgMark" /\ dest' = d THEN sel' ELSE {})
        <2>1. announced[d] \cap exists \subseteq tgSent[d] \cup (IF pc = "tgMark" /\ dest = d THEN sel ELSE {})
              BY DEF TelegramOnce
        <2>2. pc' = "tgMark" <=> pc = "tgMark"
              OBVIOUS
        <2> QED BY <1>1, <1>2, <1>3, <2>1, <2>2
  <1> QED BY <1>4, <1>5, <1>6 DEF TelegramOnce

\* The steps of dispatchTelegram.
LEMMA TelegramOnceOwn ==
    ASSUME ~Faults, TypeOK, RunInv, TelegramOnce, TelegramStep
    PROVE  TelegramOnce'
  <1> USE TypeSplit
  <1> USE DEF dbVars, stateCols, tgCols, history, messages, mainVars, envVars, NoMessage
  <1>0. /\ announced \in [Recipients -> SUBSET Alerts] /\ Destinations \subseteq Recipients
        /\ tgSent \in [Destinations -> SUBSET Alerts] /\ links \in [Destinations -> LinkStates]
        BY DEF HistoryTypeOK, StoreTypeOK, Recipients
  <1>1. CASE TelegramStart \/ TelegramDone
        BY <1>1 DEF TelegramStart, TelegramDone, Main, AfterTelegram, TelegramOnce, Unlinked,
           ListActiveTelegramDestinations
  <1>2. ASSUME NEW d \in Destinations, TelegramSelect(d) PROVE TelegramOnce'
        <2>1. /\ pc = "tgNext" /\ pc' \in {"tgList", "tgSend"} /\ dest' = d /\ sel' = cand \ tgSent[d] /\ d \in todo
              /\ UNCHANGED <<exists, tgSent, links, announced, cand>> /\ todo' = todo \ {d}
              BY <1>2 DEF TelegramSelect, Main, ListCriticalTelegramSentAlertIDs
        <2>2. cand \subseteq exists /\ Unlinked' = Unlinked
              BY <2>1 DEF RunInv, Unlinked
        <2>3. d \notin Unlinked => sel' \cap announced[d] = {}
              BY <2>1, <2>2 DEF TelegramOnce
        <2> QED BY <2>1, <2>2, <2>3 DEF TelegramOnce
  <1>3. ASSUME NEW d \in Destinations, TelegramSendOK(d) PROVE TelegramOnce'
        <2>1. UNCHANGED <<exists, tgSent, links, todo, dest, sel, cand>> /\ dest = d /\ Unlinked' = Unlinked
              BY <1>3 DEF TelegramSendOK, Main, Unlinked
        <2>2. \/ pc = "tgSend" /\ pc' = "tgMark"
              \/ pc = "tgSendRes" /\ pc' = "tgMarkRes"
              BY <1>3 DEF TelegramSendOK, Main
        <2>3. CASE pc = "tgSend"
              <3>1. \A x \in Destinations : announced'[x] \in {announced[x], IF x = d THEN announced[x] \cup sel ELSE announced[x]}
                    BY <1>0, <1>3, <2>3 DEF TelegramSendOK, Main, SendActive
              <3> QED BY <2>1, <2>2, <2>3, <3>1 DEF TelegramOnce
        <2>4. CASE pc = "tgSendRes"
              BY <1>3, <2>1, <2>2, <2>4 DEF TelegramSendOK, Main, SendResolved, TelegramOnce
        <2> QED BY <2>2, <2>3, <2>4
  <1>4. CASE TelegramSendFails
        BY <1>4, TelegramOnceFrame DEF TelegramSendFails, Main
  <1>5. CASE TelegramMark
        <2>1. UNCHANGED <<exists, links, todo, dest, sel, cand, announced>> /\ pc = "tgMark" /\ pc' = "tgList"
              BY <1>5 DEF TelegramMark, Main, MarkAlertCriticalTelegramsSent
        <2>2. sel \subseteq exists /\ dest \in Destinations /\ links[dest] # "unused"
              BY <2>1 DEF TelegramOnce, RunInv
        <2>3. dest \notin Unlinked => Linked(dest)
              BY <1>0, <2>2 DEF Unlinked, Linked, LinkStates
        <2>4. \A d \in Destinations \ Unlinked : tgSent[d] \cup (IF dest = d THEN sel ELSE {}) \subseteq tgSent'[d]
              BY <1>0, <1>5, <2>2, <2>3 DEF TelegramMark, MarkAlertCriticalTelegramsSent
        <2> QED BY <2>1, <2>4 DEF TelegramOnce, Unlinked
  <1>6. CASE TelegramList
        BY <1>6 DEF TelegramList, Main, TelegramOnce, Unlinked
  <1>7. CASE TelegramMarkResolved
        BY <1>7, TelegramOnceFrame DEF TelegramMarkResolved, Main, MarkAlertResolutionTelegramsSent
  <1> QED BY <1>1, <1>2, <1>3, <1>4, <1>5, <1>6, <1>7 DEF TelegramStep

LEMMA TelegramOnceNext ==
    ASSUME ~Faults, ~ReconfigMidRun, TypeOK, RunInv, TelegramOnce, [Next]_vars
    PROVE  TelegramOnce'
  <1> USE TypeSplit
  <1> USE DEF dbVars, stateCols, tgCols, history, messages, mainVars, runVars
  <1>0. \A d \in Destinations : d \in Recipients /\ d # "email" /\ d # "push"
        BY ConstantsAssumption DEF Recipients
  <1>1. CASE SchedulerTick \/ WorkerTakes
        BY <1>1, TelegramOnceFrame DEF SchedulerTick, WorkerTakes, BeginRun, RunInv
  <1>2. CASE RunEvaluate \/ RunAborts
        BY <1>2, TelegramOnceFrame DEF RunEvaluate, RunAborts, Main
  <1>3. CASE RunFilter
        BY <1>3 DEF RunFilter, Main, AfterTelegram, TelegramOnce, Unlinked
  <1>4. CASE RunSync
        <2>1. ev \in Evaluations BY DEF ProcessTypeOK
        <2>2. links' = links BY <1>4 DEF RunSync, SyncAlertStatesFor, syncAlertStates
        <2> QED BY <1>4, <2>1, <2>2, TelegramOnceSync DEF RunSync, Main
  <1>5. CASE RunEnds \/ Crash
        BY <1>5 DEF RunEnds, Crash, TelegramOnce, Unlinked
  <1>6. CASE TelegramStep
        BY <1>6, TelegramOnceOwn
  <1>7. CASE EmailStep
        <2>1. CASE EmailSelect \/ EmailDue \/ EmailDeferred
              BY <2>1 DEF EmailSelect, EmailDue, EmailDeferred, Main, TelegramOnce, Unlinked
        <2>2. CASE EmailMark \/ EmailMarkResolved
              BY <2>2, TelegramOnceFrame DEF EmailMark, EmailMarkResolved, Main,
                 MarkAlertCriticalEmailsSent, MarkAlertResolutionEmailsSent
        <2>3. CASE EmailSendOK \/ EmailSendFails
              <3>1. \A d \in Destinations : announced'[d] = announced[d]
                    BY <1>0, <2>3, OthersUnannounced DEF EmailSendOK, EmailSendFails, EmailMessage, NoMessage
              <3> QED BY <2>3, <3>1, TelegramOnceFrame DEF EmailSendOK, EmailSendFails, Main
        <2> QED BY <1>7, <2>1, <2>2, <2>3 DEF EmailStep
  <1>8. CASE PushStep
        <2>1. CASE PushSelect \/ PushList \/ PushMark \/ PushMarkResolved
              BY <2>1, TelegramOnceFrame DEF PushSelect, PushList, PushMark, PushMarkResolved,
                 Push, MarkAlertCriticalPushesSent, MarkAlertResolutionPushesSent
        <2>2. CASE PushSendOK \/ PushSendFails
              <3>1. \A d \in Destinations : announced'[d] = announced[d]
                    BY <1>0, <2>2, OthersUnannounced DEF PushSendOK, PushSendFails, NoMessage
              <3> QED BY <2>2, <3>1, TelegramOnceFrame DEF PushSendOK, PushSendFails, Push
        <2> QED BY <1>8, <2>1, <2>2 DEF PushStep
  <1>9. CASE \E w \in WebPages : WebEvaluate(w) \/ WebSync(w)
        <2>1. ASSUME NEW w \in WebPages, WebEvaluate(w) PROVE TelegramOnce'
              BY <2>1, TelegramOnceFrame DEF WebEvaluate
        <2>2. ASSUME NEW w \in WebPages, WebSync(w) PROVE TelegramOnce'
              <3>1. web[w].ev \in Evaluations BY DEF ProcessTypeOK
              <3>2. CASE SyncAlertStatesFor(web[w].ev)
                    <4>1. links' = links BY <3>2 DEF SyncAlertStatesFor, syncAlertStates
                    <4> QED BY <2>2, <3>1, <3>2, <4>1, TelegramOnceSync DEF WebSync
              <3>3. CASE UNCHANGED <<dbVars, history>>
                    BY <2>2, <3>3, TelegramOnceFrame DEF WebSync
              <3> QED BY <2>2, <3>2, <3>3 DEF WebSync
        <2> QED BY <1>9, <2>1, <2>2
  <1>10. CASE \/ \E a \in Alerts : ReportStored(a) \/ TimePasses(a) \/ ToggleMuted(a)
              \/ \E c \in Enabled : ToggleChannel(c)
        BY <1>10, TelegramOnceFrame DEF ReportStored, TimePasses, ToggleMuted, ToggleChannel
  <1>11. ASSUME NEW d \in Destinations, TelegramLink(d) PROVE TelegramOnce'
        <2>1. UNCHANGED <<exists, todo, dest, sel, cand, pc, announced>>
              BY <1>11 DEF TelegramLink, UpsertTelegramDestination, SetUserActive, DeleteTelegramDestinationForUser
        <2>2. /\ links \in [Destinations -> LinkStates] /\ todo \subseteq Destinations
              /\ tgSent \in [Destinations -> SUBSET Alerts]
              BY DEF StoreTypeOK, ProcessTypeOK
        <2>3. /\ \A x \in Destinations : links'[x] = "unused" => links[x] = "unused"
              /\ Unlinked \subseteq Unlinked'
              /\ \A x \in Destinations \ Unlinked' : tgSent'[x] = tgSent[x]
              BY <1>11, <2>2 DEF TelegramLink, UpsertTelegramDestination, SetUserActive, Linked, Unlinked,
                 DeleteTelegramDestinationForUser
        <2> QED BY <2>1, <2>2, <2>3 DEF TelegramOnce
  <1>12. CASE AdminResets
        <2>1. pc = "idle" /\ UNCHANGED <<pc, todo, dest, sel, cand>> /\ exists' = {}
              BY <1>12 DEF AdminResets, MayReconfigure, ResetAllData, DeleteRows, RunInv
        <2>2. \A d \in Destinations : links'[d] = "unused" => links[d] = "unused"
              BY <1>12 DEF AdminResets, ResetAllData
        <2>3. todo \subseteq Destinations BY DEF ProcessTypeOK
        <2> QED BY <2>1, <2>2, <2>3 DEF TelegramOnce
  <1>13. CASE Cleanup
        BY <1>13 DEF Cleanup, DeleteOldAlertHistory, DeleteRows, TelegramOnce, Unlinked
  <1>14. CASE UNCHANGED vars
        BY <1>14, TelegramOnceFrame DEF vars
  <1> QED BY <1>1, <1>2, <1>3, <1>4, <1>5, <1>6, <1>7, <1>8, <1>9, <1>10, <1>11, <1>12, <1>13, <1>14
          DEF Next, MainStep, Environment

\* What was sent to a chat that is still linked has its delivery row, so it is
\* not sent again in the same appearance: whatever web pages sync meanwhile, if
\* nothing fails and the configuration stays while a run is in progress
\* (dispatchTelegram, internal/service/immediate_notifications.go:111).
THEOREM TelegramOncePerAppearance ==
    ASSUME ~Faults, ~ReconfigMidRun
    PROVE  Spec => [](\A d \in Destinations \ Unlinked : AboutToSend(d) \cap announced[d] = {})
  <1>1. Init => RunInv /\ TelegramOnce
        BY DEF Init, StoreInit, RunInv, TelegramOnce, NoEvaluation, NoHolder, Recipients
  <1>2. TypeOK /\ RunInv /\ TelegramOnce /\ [Next]_vars => RunInv' /\ TelegramOnce'
        BY RunNext, TelegramOnceNext
  <1>3. TelegramOnce => \A d \in Destinations \ Unlinked : AboutToSend(d) \cap announced[d] = {}
        BY ConstantsAssumption DEF TelegramOnce, AboutToSend
  <1> QED BY <1>1, <1>2, <1>3, TypeCorrect, PTL DEF Spec

\* Without web pages only the run itself resolves alerts.
LEMMA StillPresentNext ==
    ASSUME ~Faults, ~ReconfigMidRun, WebPages = {}, TypeOK, RunInv, StillPresent, [Next]_vars
    PROVE  StillPresent'
  <1> USE DEF StillPresent, envVars, mainVars, runVars, dbVars, stateCols
  <1>1. CASE SchedulerTick \/ WorkerTakes \/ RunEvaluate \/ RunEnds \/ RunAborts \/ Crash \/ RunFilter
        BY <1>1 DEF SchedulerTick, WorkerTakes, BeginRun, RunEvaluate, RunEnds, RunAborts, Crash, RunFilter, Main
  <1>2. CASE RunSync
        <2>1. present' = (present \cup Found(ev)) \ Missing(ev) /\ ev' = ev
              BY <1>2 DEF RunSync, SyncAlertStatesFor, syncAlertStates
        <2>2. ev.critical \subseteq Found(ev) /\ Missing(ev) \cap Found(ev) = {}
              BY DEF Found, Missing
        <2> QED BY <2>1, <2>2
  <1>3. CASE TelegramStep \/ EmailStep \/ PushStep
        <2>1. UNCHANGED <<ev, present>> /\ (pc \in {"idle", "evaluate", "sync"} => pc' = pc)
              <3>1. CASE TelegramStep
                    BY <3>1 DEF TelegramStep, TelegramStart, TelegramDone, TelegramList, TelegramSelect, TelegramSendFails,
                       TelegramSendOK, TelegramMark, TelegramMarkResolved, Main,
                       MarkAlertCriticalTelegramsSent, MarkAlertResolutionTelegramsSent
              <3>2. CASE EmailStep
                    BY <3>2 DEF EmailStep, EmailSelect, EmailDue, EmailDeferred, EmailSendOK, EmailSendFails,
                       EmailMark, EmailMarkResolved, Main, MarkAlertCriticalEmailsSent, MarkAlertResolutionEmailsSent
              <3>3. CASE PushStep
                    BY <3>3 DEF PushStep, PushSelect, PushList, PushMark, PushMarkResolved, PushSendOK, PushSendFails,
                       Push, MarkAlertCriticalPushesSent, MarkAlertResolutionPushesSent
              <3> QED BY <1>3, <3>1, <3>2, <3>3
        <2> QED BY <2>1
  <1>4. CASE \/ \E a \in Alerts : ReportStored(a) \/ TimePasses(a) \/ ToggleMuted(a)
             \/ \E c \in Enabled : ToggleChannel(c)
             \/ \E d \in Destinations : TelegramLink(d)
        BY <1>4 DEF ReportStored, TimePasses, ToggleMuted, ToggleChannel, TelegramLink, UpsertTelegramDestination,
           SetUserActive, DeleteTelegramDestinationForUser
  <1>5. CASE AdminResets
        BY <1>5 DEF AdminResets, MayReconfigure, RunInv
  <1>6. CASE Cleanup
        BY <1>6 DEF Cleanup, DeleteOldAlertHistory, DeleteRows, Found
  <1>7. CASE UNCHANGED vars
        BY <1>7 DEF vars
  <1> QED BY <1>1, <1>2, <1>3, <1>4, <1>5, <1>6, <1>7 DEF Next, MainStep, Environment

\* A sync keeps a channel's books: what it resolves was recorded as sent and is
\* owed, what it revives starts anew.
LEMMA BooksSync ==
    ASSUME TypeOK, RunInv, NEW e \in Evaluations, SyncAlertStatesFor(e), NEW r \in Recipients,
           NEW sent, NEW pending, sent \subseteq present, announced[r] \cap present \subseteq sent,
           Owed(r, pending)
    PROVE  /\ sent \ Missing(e) \subseteq present'
           /\ announced'[r] \cap present' \subseteq sent \ Missing(e)
           /\ (announced'[r] \cap critical' \cap exists') \ present'
                 \subseteq PendingAfterSync(pending, sent, e) \cup cleared'[r]
  <1> USE TypeSplit
  <1>1. /\ exists' = exists \cup Found(e) /\ present' = (present \cup Found(e)) \ Missing(e)
        /\ critical' = (critical \ e.warning) \cup e.critical
        BY DEF SyncAlertStatesFor, syncAlertStates
  <1>2. announced'[r] = announced[r] \ (Found(e) \ present) /\ cleared' = cleared
        BY DEF SyncAlertStatesFor, NewAppearances
  <1>3. Missing(e) \subseteq present /\ Missing(e) \cap Found(e) = {} /\ e.critical \subseteq Found(e)
        BY DEF Missing, Found
  <1>4. sent \ Missing(e) \subseteq present' /\ announced'[r] \cap present' \subseteq sent \ Missing(e)
        BY <1>1, <1>2, <1>3
  <1>5. ASSUME NEW a \in (announced'[r] \cap critical' \cap exists') \ present'
        PROVE  a \in PendingAfterSync(pending, sent, e) \cup cleared[r]
        <2>1. a \in announced[r] /\ a \notin Found(e) /\ a \in critical /\ a \in exists
              BY <1>1, <1>2, <1>3
        <2>2. CASE a \in present
              BY <1>1, <2>1, <2>2 DEF PendingAfterSync
        <2>3. CASE a \notin present
              BY <2>1, <2>3 DEF PendingAfterSync, Owed
        <2> QED BY <2>2, <2>3
  <1> QED BY <1>2, <1>4, <1>5

\* Steps that touch nothing of the email books.
LEMMA EmailOnceFrame ==
    ASSUME EmailOnce, UNCHANGED <<exists, present, critical, emailSent, emailPending, sel, res, cand>>,
           pc' = pc \/ (pc # "mailMark" /\ pc' \notin {"mailList", "mailSend", "mailMark", "mailSendRes", "mailMarkRes"}),
           announced'["email"] = announced["email"], cleared'["email"] = cleared["email"]
    PROVE  EmailOnce'
  BY DEF EmailOnce, Owed

LEMMA EmailOnceOwn ==
    ASSUME ~Faults, TypeOK, RunInv, StillPresent, EmailOnce, EmailStep
    PROVE  EmailOnce'
  <1> USE TypeSplit
  <1> USE DEF dbVars, stateCols, emailCols, history, messages, mainVars, NoMessage, EmailOnce
  <1>0. /\ "email" \in Recipients /\ announced \in [Recipients -> SUBSET Alerts]
        /\ cleared \in [Recipients -> SUBSET Alerts]
        BY DEF Recipients, HistoryTypeOK
  <1>a. pc \notin {"idle", "evaluate", "sync"} => cand \subseteq present
        BY DEF RunInv, StillPresent
  <1>1. CASE EmailSelect
        BY <1>1, <1>a DEF EmailSelect, Main, ListCriticalEmailSentAlertIDs, Owed
  <1>2. CASE EmailDue \/ EmailDeferred
        BY <1>2 DEF EmailDue, EmailDeferred, Main, ListPendingAlertResolutionEmails, Owed
  <1>3. CASE EmailSendOK /\ pc = "mailSend"
        <2>1. pc' = "mailMark" /\ UNCHANGED <<exists, present, critical, emailSent, emailPending, sel, res, cand>>
              BY <1>3 DEF EmailSendOK, Main
        <2>2. /\ announced'["email"] = announced["email"] \cup sel
              /\ cleared["email"] \ sel \subseteq cleared'["email"]
              /\ BatchEmail => res \subseteq cleared'["email"]
              BY <1>0, <1>3 DEF EmailSendOK, Main, EmailMessage, SendActive, SendDigest
        <2>3. sel \subseteq present
              BY <1>3, <1>a
        <2> QED BY <1>3, <2>1, <2>2, <2>3 DEF Owed
  <1>4. CASE EmailSendOK /\ pc = "mailSendRes"
        <2>1. pc' = "mailMarkRes" /\ UNCHANGED <<exists, present, critical, emailSent, emailPending, sel, res, cand>>
              BY <1>4 DEF EmailSendOK, Main
        <2>2. announced'["email"] = announced["email"] /\ cleared'["email"] = cleared["email"] \cup res
              BY <1>0, <1>4 DEF EmailSendOK, Main, SendResolved
        <2> QED BY <1>4, <2>1, <2>2 DEF Owed
  <1>5. CASE EmailSendFails
        BY <1>5 DEF EmailSendFails, Main, Owed
  <1>6. CASE EmailMark
        <2>1. pc = "mailMark" /\ emailSent' = emailSent \cup (sel \cap exists)
              /\ UNCHANGED <<exists, present, critical, emailPending, sel, res, cand, announced, cleared>>
              BY <1>6 DEF EmailMark, Main, MarkAlertCriticalEmailsSent
        <2>2. pc' \in {"mailMarkRes", "mailSendRes", "wait"} /\ (pc' = "mailMarkRes" => BatchEmail)
              BY <1>6 DEF EmailMark, Main
        <2>3. sel \subseteq present /\ present \subseteq exists
              BY <1>a, <2>1 DEF RunInv
        <2> QED BY <2>1, <2>2, <2>3 DEF Owed
  <1>7. CASE EmailMarkResolved
        BY <1>7 DEF EmailMarkResolved, Main, MarkAlertResolutionEmailsSent, Owed
  <1>8. EmailSendOK => pc \in {"mailSend", "mailSendRes"}
        BY DEF EmailSendOK, Main
  <1> QED BY <1>1, <1>2, <1>3, <1>4, <1>5, <1>6, <1>7, <1>8 DEF EmailStep

LEMMA EmailOnceNext ==
    ASSUME ~Faults, ~ReconfigMidRun, WebPages = {}, TypeOK, RunInv, StillPresent, EmailOnce, [Next]_vars
    PROVE  EmailOnce'
  <1> USE TypeSplit
  <1> USE DEF dbVars, stateCols, emailCols, history, messages, mainVars, runVars
  <1>0. "email" \in Recipients /\ \A d \in Destinations \cup {NoDest} : d # "email"
        BY ConstantsAssumption DEF Recipients, NoDest
  <1>1. CASE SchedulerTick \/ WorkerTakes
        BY <1>1, EmailOnceFrame DEF SchedulerTick, WorkerTakes, BeginRun, RunInv
  <1>2. CASE RunEvaluate \/ RunAborts
        BY <1>2, EmailOnceFrame DEF RunEvaluate, RunAborts, Main
  <1>3. CASE RunFilter \/ RunEnds \/ Crash
        BY <1>3 DEF RunFilter, RunEnds, Crash, Main, AfterTelegram, EmailOnce, Owed
  <1>4. CASE RunSync
        <2>1. /\ ev \in Evaluations /\ SyncAlertStatesFor(ev) /\ pc = "sync" /\ pc' \in {"wait", "filter"}
              /\ emailSent' = emailSent \ Missing(ev) /\ emailPending' = PendingAfterSync(emailPending, emailSent, ev)
              BY <1>4 DEF RunSync, Main, ProcessTypeOK, SyncAlertStatesFor, syncAlertStates
        <2>2. emailSent \subseteq present /\ announced["email"] \cap present \subseteq emailSent /\ Owed("email", emailPending)
              BY <2>1 DEF EmailOnce
        <2>3. /\ emailSent' \subseteq present' /\ announced'["email"] \cap present' \subseteq emailSent'
              /\ (announced'["email"] \cap critical' \cap exists') \ present' \subseteq emailPending' \cup cleared'["email"]
              BY <1>0, <2>1, <2>2, BooksSync
        <2> QED BY <2>1, <2>3 DEF EmailOnce, Owed
  <1>5. CASE TelegramStep
        <2>1. UNCHANGED <<exists, present, critical, emailSent, emailPending>>
              BY <1>5 DEF TelegramStep, TelegramStart, TelegramDone, TelegramList, TelegramSelect, TelegramSendFails,
                 TelegramSendOK, TelegramMark, TelegramMarkResolved, MarkAlertCriticalTelegramsSent,
                 MarkAlertResolutionTelegramsSent
        <2>2. announced'["email"] = announced["email"] /\ cleared'["email"] = cleared["email"]
              <3>1. CASE TelegramSendFails \/ \E d \in Destinations : TelegramSendOK(d)
                    BY <1>0, <3>1, OthersUnannounced DEF TelegramSendFails, TelegramSendOK, NoMessage, ProcessTypeOK
              <3>2. CASE ~(TelegramSendFails \/ \E d \in Destinations : TelegramSendOK(d))
                    BY <1>5, <3>2 DEF TelegramStep, TelegramStart, TelegramDone, TelegramList, TelegramSelect,
                       TelegramMark, TelegramMarkResolved
              <3> QED BY <3>1, <3>2
        <2>3. pc \notin {"mailList", "mailSend", "mailMark", "mailSendRes", "mailMarkRes"}
              /\ pc' \notin {"mailList", "mailSend", "mailMark", "mailSendRes", "mailMarkRes"}
              BY <1>5 DEF TelegramStep, TelegramStart, TelegramDone, TelegramList, TelegramSelect, TelegramSendFails,
                 TelegramSendOK, TelegramMark, TelegramMarkResolved, Main, AfterTelegram
        <2> QED BY <2>1, <2>2, <2>3 DEF EmailOnce, Owed
  <1>6. CASE EmailStep
        BY <1>6, EmailOnceOwn
  <1>7. CASE PushStep
        <2>1. CASE PushSelect \/ PushList \/ PushMark \/ PushMarkResolved
              BY <2>1, EmailOnceFrame DEF PushSelect, PushList, PushMark, PushMarkResolved,
                 Push, MarkAlertCriticalPushesSent, MarkAlertResolutionPushesSent
        <2>2. CASE PushSendOK \/ PushSendFails
              <3>1. announced'["email"] = announced["email"] /\ cleared'["email"] = cleared["email"]
                    BY <1>0, <2>2, OthersUnannounced DEF PushSendOK, PushSendFails, NoMessage
              <3> QED BY <2>2, <3>1, EmailOnceFrame DEF PushSendOK, PushSendFails, Push
        <2> QED BY <1>7, <2>1, <2>2 DEF PushStep
  <1>8. CASE \/ \E a \in Alerts : ReportStored(a) \/ TimePasses(a) \/ ToggleMuted(a)
             \/ \E c \in Enabled : ToggleChannel(c)
        BY <1>8, EmailOnceFrame DEF ReportStored, TimePasses, ToggleMuted, ToggleChannel
  <1>9. CASE \E d \in Destinations : TelegramLink(d)
        BY <1>9, EmailOnceFrame DEF TelegramLink, UpsertTelegramDestination, SetUserActive,
           DeleteTelegramDestinationForUser
  <1>10. ASSUME NEW ids, DeleteRows(ids), UNCHANGED <<runVars, announced, cleared>>, pc # "mailMark" \/ sel \cap ids = {},
                sel \subseteq cand \/ pc \notin {"mailList", "mailSend", "mailMark"}
         PROVE  EmailOnce'
        <2>1. emailSent' = emailSent \ ids /\ emailPending' = emailPending \ ids /\ present' = present \ ids
              BY <1>10 DEF DeleteRows
        <2>2. (announced'["email"] \cap critical' \cap exists') \ present' \subseteq emailPending' \cup cleared'["email"]
              BY <1>10 DEF DeleteRows, EmailOnce, Owed
        <2> QED BY <1>10, <2>1, <2>2 DEF EmailOnce, Owed
  <1>11. CASE AdminResets
        <2>1. pc = "idle" /\ DeleteRows(exists) /\ UNCHANGED <<runVars, announced, cleared>>
              BY <1>11 DEF AdminResets, MayReconfigure, ResetAllData, RunInv
        <2> QED BY <1>10, <2>1
  <1>12. CASE Cleanup
        <2>1. PICK ids : DeleteRows(ids) /\ UNCHANGED <<runVars, announced, cleared>> /\ ids \cap Found(ev) = {}
              BY <1>12 DEF Cleanup, DeleteOldAlertHistory
        <2>2. cand \cap ids = {}
              BY <2>1 DEF RunInv, Found
        <2> QED BY <1>10, <2>1, <2>2 DEF EmailOnce
  <1>13. CASE UNCHANGED vars
        BY <1>13, EmailOnceFrame DEF vars
  <1> QED BY <1>1, <1>2, <1>3, <1>4, <1>5, <1>6, <1>7, <1>8, <1>9, <1>11, <1>12, <1>13
          DEF Next, MainStep, Environment

\* Steps that touch nothing of the push books.
LEMMA PushOnceFrame ==
    ASSUME PushOnce, UNCHANGED <<exists, present, critical, pushSent, pushPending, ppc, psel, pres, cand>>,
           announced'["push"] = announced["push"], cleared'["push"] = cleared["push"]
    PROVE  PushOnce'
  BY DEF PushOnce, Owed

LEMMA PushOnceOwn ==
    ASSUME ~Faults, TypeOK, RunInv, StillPresent, PushOnce, PushStep
    PROVE  PushOnce'
  <1> USE TypeSplit
  <1> USE DEF dbVars, stateCols, pushCols, history, messages, mainVars, NoMessage, PushOnce
  <1>0. /\ "push" \in Recipients /\ announced \in [Recipients -> SUBSET Alerts]
        /\ cleared \in [Recipients -> SUBSET Alerts]
        BY DEF Recipients, HistoryTypeOK
  <1>a. ppc # "off" => cand \subseteq present
        BY DEF RunInv, StillPresent
  <1>1. CASE PushSelect
        BY <1>1, <1>a DEF PushSelect, Push, ListCriticalPushSentAlertIDs, Owed
  <1>2. CASE PushSendOK /\ ppc = "send"
        <2>1. ppc' = "mark" /\ UNCHANGED <<exists, present, critical, pushSent, pushPending, psel, pres, cand>>
              BY <1>2 DEF PushSendOK, Push
        <2>2. /\ announced'["push"] = announced["push"] \cup psel
              /\ cleared'["push"] = cleared["push"] \ psel
              BY <1>0, <1>2 DEF PushSendOK, Push, SendActive
        <2>3. psel \subseteq present
              BY <1>2, <1>a
        <2> QED BY <1>2, <2>1, <2>2, <2>3 DEF Owed
  <1>3. CASE PushSendOK /\ ppc = "sendRes"
        <2>1. ppc' = "markRes" /\ UNCHANGED <<exists, present, critical, pushSent, pushPending, psel, pres, cand>>
              BY <1>3 DEF PushSendOK, Push
        <2>2. announced'["push"] = announced["push"] /\ cleared'["push"] = cleared["push"] \cup pres
              BY <1>0, <1>3 DEF PushSendOK, Push, SendResolved
        <2> QED BY <1>3, <2>1, <2>2 DEF Owed
  <1>4. CASE PushSendFails
        BY <1>4 DEF PushSendFails, Push, Owed
  <1>5. CASE PushMark
        BY <1>5, <1>a DEF PushMark, Push, MarkAlertCriticalPushesSent, Owed
  <1>6. CASE PushList
        BY <1>6 DEF PushList, Push, ListPendingAlertResolutionPushes, Owed
  <1>7. CASE PushMarkResolved
        BY <1>7 DEF PushMarkResolved, Push, MarkAlertResolutionPushesSent, Owed
  <1>8. PushSendOK => ppc \in {"send", "sendRes"}
        BY DEF PushSendOK, Push
  <1> QED BY <1>1, <1>2, <1>3, <1>4, <1>5, <1>6, <1>7, <1>8 DEF PushStep

LEMMA PushOnceNext ==
    ASSUME ~Faults, ~ReconfigMidRun, WebPages = {}, TypeOK, RunInv, StillPresent, PushOnce, [Next]_vars
    PROVE  PushOnce'
  <1> USE TypeSplit
  <1> USE DEF dbVars, stateCols, pushCols, history, messages, mainVars, pushVars, runVars
  <1>0. "push" \in Recipients /\ \A d \in Destinations \cup {NoDest} : d # "push"
        BY ConstantsAssumption DEF Recipients, NoDest
  <1>1. CASE SchedulerTick \/ WorkerTakes \/ RunEvaluate \/ RunAborts
        BY <1>1, PushOnceFrame DEF SchedulerTick, WorkerTakes, BeginRun, RunEvaluate, RunAborts, Main
  <1>2. CASE RunFilter \/ RunEnds \/ Crash
        BY <1>2 DEF RunFilter, RunEnds, Crash, Main, PushOnce, Owed, RunInv
  <1>3. CASE RunSync
        <2>1. /\ ev \in Evaluations /\ SyncAlertStatesFor(ev) /\ ppc = "off" /\ ppc' = "off"
              /\ pushSent' = pushSent \ Missing(ev) /\ pushPending' = PendingAfterSync(pushPending, pushSent, ev)
              BY <1>3 DEF RunSync, Main, ProcessTypeOK, SyncAlertStatesFor, syncAlertStates, RunInv
        <2>2. pushSent \subseteq present /\ announced["push"] \cap present \subseteq pushSent /\ Owed("push", pushPending)
              BY <2>1 DEF PushOnce
        <2>3. /\ pushSent' \subseteq present' /\ announced'["push"] \cap present' \subseteq pushSent'
              /\ (announced'["push"] \cap critical' \cap exists') \ present' \subseteq pushPending' \cup cleared'["push"]
              BY <1>0, <2>1, <2>2, BooksSync
        <2> QED BY <2>1, <2>3 DEF PushOnce, Owed
  <1>4. CASE TelegramStep
        <2>1. UNCHANGED <<exists, present, critical, pushSent, pushPending, ppc, psel, pres, cand>>
              BY <1>4 DEF TelegramStep, TelegramStart, TelegramDone, TelegramList, TelegramSelect, TelegramSendFails,
                 TelegramSendOK, TelegramMark, TelegramMarkResolved, MarkAlertCriticalTelegramsSent,
                 MarkAlertResolutionTelegramsSent
        <2>2. announced'["push"] = announced["push"] /\ cleared'["push"] = cleared["push"]
              <3>1. CASE TelegramSendFails \/ \E d \in Destinations : TelegramSendOK(d)
                    BY <1>0, <3>1, OthersUnannounced DEF TelegramSendFails, TelegramSendOK, NoMessage, ProcessTypeOK
              <3>2. CASE ~(TelegramSendFails \/ \E d \in Destinations : TelegramSendOK(d))
                    BY <1>4, <3>2 DEF TelegramStep, TelegramStart, TelegramDone, TelegramList, TelegramSelect,
                       TelegramMark, TelegramMarkResolved
              <3> QED BY <3>1, <3>2
        <2> QED BY <2>1, <2>2, PushOnceFrame
  <1>5. CASE EmailStep
        <2>1. UNCHANGED <<exists, present, critical, pushSent, pushPending, ppc, psel, pres, cand>>
              BY <1>5 DEF EmailStep, EmailSelect, EmailDue, EmailDeferred, EmailSendOK, EmailSendFails,
                 EmailMark, EmailMarkResolved, MarkAlertCriticalEmailsSent, MarkAlertResolutionEmailsSent
        <2>2. announced'["push"] = announced["push"] /\ cleared'["push"] = cleared["push"]
              <3>1. CASE EmailSendOK \/ EmailSendFails
                    BY <1>0, <3>1, OthersUnannounced DEF EmailSendOK, EmailSendFails, EmailMessage, NoMessage
              <3>2. CASE ~(EmailSendOK \/ EmailSendFails)
                    BY <1>5, <3>2 DEF EmailStep, EmailSelect, EmailDue, EmailDeferred, EmailMark, EmailMarkResolved
              <3> QED BY <3>1, <3>2
        <2> QED BY <2>1, <2>2, PushOnceFrame
  <1>6. CASE PushStep
        BY <1>6, PushOnceOwn
  <1>7. CASE \/ \E a \in Alerts : ReportStored(a) \/ TimePasses(a) \/ ToggleMuted(a)
             \/ \E c \in Enabled : ToggleChannel(c)
        BY <1>7, PushOnceFrame DEF ReportStored, TimePasses, ToggleMuted, ToggleChannel
  <1>8. CASE \E d \in Destinations : TelegramLink(d)
        BY <1>8, PushOnceFrame DEF TelegramLink, UpsertTelegramDestination, SetUserActive,
           DeleteTelegramDestinationForUser
  <1>9. ASSUME NEW ids, DeleteRows(ids), UNCHANGED <<runVars, announced, cleared>>
         PROVE  PushOnce'
        <2>1. pushSent' = pushSent \ ids /\ pushPending' = pushPending \ ids /\ present' = present \ ids
              BY <1>9 DEF DeleteRows
        <2>2. (announced'["push"] \cap critical' \cap exists') \ present' \subseteq pushPending' \cup cleared'["push"]
              BY <1>9 DEF DeleteRows, PushOnce, Owed
        <2> QED BY <1>9, <2>1, <2>2 DEF PushOnce, Owed
  <1>10. CASE AdminResets
        BY <1>9, <1>10 DEF AdminResets, ResetAllData
  <1>11. CASE Cleanup
        BY <1>9, <1>11 DEF Cleanup, DeleteOldAlertHistory
  <1>12. CASE UNCHANGED vars
        BY <1>12, PushOnceFrame DEF vars
  <1> QED BY <1>1, <1>2, <1>3, <1>4, <1>5, <1>6, <1>7, <1>8, <1>10, <1>11, <1>12
          DEF Next, MainStep, Environment

\* The invariant of all channels, and what it says.
OnceInv == RunInv /\ TelegramOnce /\ StillPresent /\ EmailOnce /\ PushOnce

LEMMA OnceAlways ==
    ASSUME ~Faults, ~ReconfigMidRun, WebPages = {}
    PROVE  Spec => []OnceInv
  <1>1. Init => OnceInv
        <2> SUFFICES ASSUME Init PROVE OnceInv OBVIOUS
        <2>1. RunInv /\ TelegramOnce /\ StillPresent
              BY DEF Init, StoreInit, RunInv, TelegramOnce, StillPresent, NoEvaluation, NoHolder, Recipients
        <2>2. EmailOnce /\ PushOnce
              BY DEF Init, StoreInit, EmailOnce, PushOnce, Owed, Recipients
        <2> QED BY <2>1, <2>2 DEF OnceInv
  <1>2. TypeOK /\ OnceInv /\ [Next]_vars => OnceInv'
        BY RunNext, TelegramOnceNext, StillPresentNext, EmailOnceNext, PushOnceNext DEF OnceInv
  <1> QED BY <1>1, <1>2, TypeCorrect, PTL DEF Spec

\* When nothing fails, no web page syncs beside the run and the configuration
\* stays while it is in progress, no recipient is sent an alert twice in one
\* appearance, however the two goroutines of a run, the links of the users, the
\* cleanup and the changing conditions interleave
\* (internal/service/immediate_notifications.go:111).
THEOREM AnnouncedOnce ==
    ASSUME ~Faults, ~ReconfigMidRun, WebPages = {}
    PROVE  Spec => []OncePerAppearance
  <1>1. OnceInv => OncePerAppearance
        <2> SUFFICES ASSUME OnceInv, NEW r \in Recipients \ Unlinked PROVE AboutToSend(r) \cap announced[r] = {}
            BY DEF OncePerAppearance
        <2>1. CASE r = "email" BY <2>1 DEF OnceInv, EmailOnce, AboutToSend
        <2>2. CASE r = "push" BY <2>2 DEF OnceInv, PushOnce, AboutToSend
        <2>3. CASE r \in Destinations
              BY <2>3, ConstantsAssumption DEF OnceInv, TelegramOnce, AboutToSend
        <2> QED BY <2>1, <2>2, <2>3 DEF Recipients
  <1> QED BY <1>1, OnceAlways, PTL

\* Under the same assumptions no resolution is forgotten: an alert that was
\* emailed or pushed in its last appearance and resolved while critical has its
\* resolution pending or told (internal/store/alert_state.go:141).
THEOREM ResolutionsAreOwed ==
    ASSUME ~Faults, ~ReconfigMidRun, WebPages = {}
    PROVE  Spec => []ResolutionOwed
  <1>1. OnceInv => ResolutionOwed
        BY DEF OnceInv, EmailOnce, PushOnce, Owed, ResolutionOwed, EmailResolutionOwed, PushResolutionOwed
  <1> QED BY <1>1, OnceAlways, PTL

-----------------------------------------------------------------------------
(***************************************************************************)
(* No false resolution, when no web page syncs beside the run.             *)
(***************************************************************************)

\* What a complete evaluation did not find was clear when it was made, and no
\* sync has found it since.
SeenClear ==
    /\ ClearNow \subseteq wasClear
    /\ pc = "sync" /\ ~ev.partial => Alerts \ Found(ev) \subseteq wasClear

\* Only a sync resolves a row, and only when it was seen clear.
LEMMA SeenClearNext ==
    ASSUME WebPages = {}, TypeOK, SeenClear, [Next]_vars
    PROVE  SeenClear' /\ (present \ present') \cap exists' \subseteq wasClear
  <1> USE TypeSplit
  <1> USE DEF dbVars, stateCols, history, messages, mainVars, runVars, envVars
  <1>1. ASSUME UNCHANGED <<cond, wasClear, present>>, UNCHANGED ev \/ pc' # "sync", pc' # "sync" \/ pc = "sync"
        PROVE  SeenClear' /\ (present \ present') \cap exists' \subseteq wasClear
        BY <1>1 DEF SeenClear, ClearNow, Now, Found
  <1>2. CASE SchedulerTick \/ WorkerTakes
        BY <1>1, <1>2 DEF SchedulerTick, WorkerTakes, BeginRun
  <1>3. CASE RunEvaluate
        <2>1. PICK e \in EvaluationsNow : ev' = e
              BY <1>3 DEF RunEvaluate
        <2>2. ~e.partial => e = FullEvaluation
              BY <2>1 DEF EvaluationsNow, PartialEvaluation
        <2>3. Alerts \ Found(FullEvaluation) \subseteq ClearNow
              BY DEF Found, FullEvaluation, ClearNow, Now, ProcessTypeOK, Conditions
        <2>4. UNCHANGED <<cond, wasClear, present>> /\ pc' = "sync"
              BY <1>3 DEF RunEvaluate, Main
        <2>5. ~ev'.partial => Alerts \ Found(ev') \subseteq wasClear
              BY <2>1, <2>2, <2>3 DEF SeenClear
        <2>6. ClearNow' = ClearNow
              BY <2>4 DEF ClearNow, Now
        <2>7. Found(ev)' = Found(ev')
              BY DEF Found
        <2> QED BY <2>4, <2>5, <2>6, <2>7 DEF SeenClear
  <1>4. CASE RunSync
        <2>1. /\ pc = "sync" /\ pc' # "sync" /\ present' = (present \cup Found(ev)) \ Missing(ev)
              /\ wasClear' = (wasClear \ Found(ev)) \cup ClearNow /\ UNCHANGED cond
              BY <1>4 DEF RunSync, Main, SyncAlertStatesFor, syncAlertStates, NewAppearances
        <2>2. present \ present' \subseteq Missing(ev) /\ present \subseteq Alerts
              BY <2>1 DEF StoreTypeOK
        <2>3. Missing(ev) \subseteq wasClear
              BY <2>1, <2>2 DEF Missing, SeenClear
        <2>4. ClearNow' = ClearNow
              BY <2>1 DEF ClearNow, Now
        <2> QED BY <2>1, <2>2, <2>3, <2>4 DEF SeenClear
  <1>5. CASE RunFilter \/ RunAborts \/ RunEnds \/ Crash
        BY <1>1, <1>5 DEF RunFilter, RunAborts, RunEnds, Crash, Main, AfterTelegram
  <1>6. CASE TelegramStep
        <2>1. UNCHANGED <<cond, wasClear, present>>
              BY <1>6 DEF TelegramStep, TelegramStart, TelegramDone, TelegramList, TelegramSelect, TelegramSendFails,
                 TelegramSendOK, TelegramMark, TelegramMarkResolved, Main, MarkAlertCriticalTelegramsSent,
                 MarkAlertResolutionTelegramsSent, SendActive, SendResolved, NoMessage
        <2>2. UNCHANGED ev /\ (pc' # "sync" \/ pc = "sync")
              BY <1>6 DEF TelegramStep, TelegramStart, TelegramDone, TelegramList, TelegramSelect, TelegramSendFails,
                 TelegramSendOK, TelegramMark, TelegramMarkResolved, Main, AfterTelegram
        <2> QED BY <1>1, <2>1, <2>2
  <1>7. CASE EmailStep
        <2>1. UNCHANGED <<cond, wasClear, present>>
              BY <1>7 DEF EmailStep, EmailSelect, EmailDue, EmailDeferred, EmailSendOK, EmailSendFails, EmailMessage,
                 EmailMark, EmailMarkResolved, Main, MarkAlertCriticalEmailsSent, MarkAlertResolutionEmailsSent,
                 SendActive, SendResolved, SendDigest, NoMessage
        <2>2. UNCHANGED ev /\ (pc' # "sync" \/ pc = "sync")
              BY <1>7 DEF EmailStep, EmailSelect, EmailDue, EmailDeferred, EmailSendOK, EmailSendFails,
                 EmailMark, EmailMarkResolved, Main
        <2> QED BY <1>1, <2>1, <2>2
  <1>8. CASE PushStep
        <2>1. UNCHANGED <<cond, wasClear, present, ev, pc>>
              BY <1>8 DEF PushStep, PushSelect, PushList, PushMark, PushMarkResolved, PushSendOK, PushSendFails,
                 Push, MarkAlertCriticalPushesSent, MarkAlertResolutionPushesSent, SendActive, SendResolved, NoMessage
        <2> QED BY <1>1, <2>1
  <1>9. CASE \E a \in Alerts : ReportStored(a) \/ TimePasses(a)
        <2>1. UNCHANGED <<present, ev, pc>> /\ wasClear' = wasClear \cup ClearNow'
              BY <1>9 DEF ReportStored, TimePasses
        <2>2. Found(ev)' = Found(ev)
              BY <2>1 DEF Found
        <2> QED BY <2>1, <2>2 DEF SeenClear
  <1>10. CASE \/ \E a \in Alerts : ToggleMuted(a)
              \/ \E c \in Enabled : ToggleChannel(c)
              \/ \E d \in Destinations : TelegramLink(d)
        BY <1>1, <1>10 DEF ToggleMuted, ToggleChannel, TelegramLink, UpsertTelegramDestination, SetUserActive,
           DeleteTelegramDestinationForUser
  <1>11. CASE AdminResets
        <2>1. wasClear' = Alerts /\ exists' = {} /\ UNCHANGED <<ev, pc>>
              BY <1>11 DEF AdminResets, ResetAllData, DeleteRows
        <2> QED BY <2>1 DEF SeenClear, ClearNow, Now
  <1>12. CASE Cleanup
        <2>1. UNCHANGED <<cond, wasClear, ev, pc>> /\ (present \ present') \cap exists' = {}
              BY <1>12 DEF Cleanup, DeleteOldAlertHistory, DeleteRows
        <2> QED BY <2>1 DEF SeenClear, ClearNow, Now, Found
  <1>13. CASE UNCHANGED vars
        BY <1>1, <1>13 DEF vars
  <1> QED BY <1>2, <1>3, <1>4, <1>5, <1>6, <1>7, <1>8, <1>9, <1>10, <1>11, <1>12, <1>13
          DEF Next, MainStep, Environment

\* When no web page syncs beside the run, a row is resolved only if its
\* condition was clear since the alert was last found, whatever evaluators fail,
\* statements fail or crashes come between the evaluation and the sync
\* (internal/store/alert_state.go:129).
THEOREM RowsResolvedWhenClear ==
    ASSUME WebPages = {}
    PROVE  Spec => [][ResolvedWhenClear]_vars
  <1>1. Init => SeenClear
        BY DEF Init, SeenClear, ClearNow, Now
  <1>2. TypeOK /\ SeenClear /\ [Next]_vars => SeenClear'
        BY SeenClearNext
  <1>3. TypeOK /\ SeenClear /\ [Next]_vars => [ResolvedWhenClear]_vars
        BY SeenClearNext DEF ResolvedWhenClear
  <1> QED BY <1>1, <1>2, <1>3, TypeCorrect, PTL DEF Spec

-----------------------------------------------------------------------------
(***************************************************************************)
(* Nobody is told of the end of an alert it was not sent.                  *)
(***************************************************************************)

\* Nobody forgets: what a recipient has been sent a message about only grows.
Learns(r) == told[r] \cup cleared[r] \subseteq told'[r] \cup cleared'[r]

\* A message of new alerts reports no end, one of ends only those it lists.
LEMMA ActiveTeaches ==
    ASSUME HistoryTypeOK, NEW q, NEW x, SendActive(q, x), NEW r \in Recipients
    PROVE  Learns(r) /\ cleared'[r] \subseteq cleared[r]
           /\ (r = q => x \subseteq told'[r])
  BY DEF HistoryTypeOK, SendActive, Learns

LEMMA ResolvedTeaches ==
    ASSUME HistoryTypeOK, NEW q, NEW x, SendResolved(q, x), NEW r \in Recipients
    PROVE  /\ Learns(r)
           /\ cleared'[r] \ cleared[r] \subseteq IF r = q THEN x ELSE {}
  BY DEF HistoryTypeOK, SendResolved, Learns

LEMMA DigestTeaches ==
    ASSUME HistoryTypeOK, NEW q, NEW x, NEW y, SendDigest(q, x, y), NEW r \in Recipients
    PROVE  /\ Learns(r)
           /\ cleared'[r] \ cleared[r] \subseteq IF r = q THEN y ELSE {}
           /\ r = q => x \subseteq told'[r] \cup cleared'[r]
  BY DEF HistoryTypeOK, SendDigest, Learns

\* The steps that send a message.
Sending ==
    \/ \E d \in Destinations : TelegramSendOK(d)
    \/ TelegramSendFails \/ EmailSendOK \/ EmailSendFails \/ PushSendOK \/ PushSendFails

\* All others leave what the recipients know alone.
LEMMA OnlySendsTeach ==
    ASSUME [Next]_vars
    PROVE  Sending \/ UNCHANGED <<told, cleared>>
  <1> USE DEF history, messages, NoMessage
  <1>1. CASE SchedulerTick \/ WorkerTakes
        BY <1>1 DEF SchedulerTick, WorkerTakes, BeginRun
  <1>2. CASE RunEvaluate \/ RunSync \/ RunFilter \/ RunAborts \/ RunEnds
        BY <1>2 DEF RunEvaluate, RunSync, RunFilter, RunAborts, RunEnds, SyncAlertStatesFor,
           NewAppearances
  <1>3. CASE TelegramStep
        BY <1>3 DEF TelegramStep, TelegramStart, TelegramDone, TelegramMark, TelegramList,
           TelegramMarkResolved, TelegramSelect, Sending
  <1>4. CASE EmailStep
        BY <1>4 DEF EmailStep, EmailSelect, EmailDue, EmailDeferred, EmailMark,
           EmailMarkResolved, Sending
  <1>5. CASE PushStep
        BY <1>5 DEF PushStep, PushSelect, PushList, PushMark, PushMarkResolved, Sending
  <1>6. CASE Environment
        BY <1>6 DEF Environment, WebEvaluate, WebSync, SyncAlertStatesFor, NewAppearances,
           ReportStored, TimePasses, ToggleMuted, ToggleChannel, TelegramLink, AdminResets,
           Cleanup, Crash
  <1>7. CASE UNCHANGED vars
        BY <1>7 DEF vars
  <1> QED BY <1>1, <1>2, <1>3, <1>4, <1>5, <1>6, <1>7 DEF Next, MainStep

\* A send step lists as resolved only what its recipient knows.
LEMMA SendsTeach ==
    ASSUME TypeOK, AllKnown, Sending, NEW r \in Recipients
    PROVE  Learns(r) /\ cleared'[r] \ cleared[r] \subseteq told[r]
  <1> USE TypeSplit
  <1>1. ASSUME UNCHANGED history PROVE Learns(r) /\ cleared'[r] \ cleared[r] \subseteq told[r]
        BY <1>1 DEF history, messages, Learns
  <1>2. ASSUME NEW q, NEW x, SendActive(q, x)
        PROVE  Learns(r) /\ cleared'[r] \ cleared[r] \subseteq told[r]
        BY <1>2, ActiveTeaches
  <1>3. ASSUME NEW q, NEW x, SendResolved(q, x), x \subseteq Known(q)
        PROVE  Learns(r) /\ cleared'[r] \ cleared[r] \subseteq told[r]
        BY <1>3, ResolvedTeaches DEF Known
  <1>4. ASSUME NEW q, NEW x, NEW y, SendDigest(q, x, y), y \subseteq Known(q)
        PROVE  Learns(r) /\ cleared'[r] \ cleared[r] \subseteq told[r]
        BY <1>4, DigestTeaches DEF Known
  <1>5. CASE TelegramSendFails \/ \E d \in Destinations : TelegramSendOK(d)
        BY <1>1, <1>2, <1>3, <1>5 DEF TelegramSendFails, TelegramSendOK, Main, NoMessage,
           AllKnown, TelegramKnown
  <1>6. CASE EmailSendOK \/ EmailSendFails
        BY <1>1, <1>2, <1>3, <1>4, <1>6 DEF EmailSendOK, EmailSendFails, EmailMessage, Main,
           NoMessage, AllKnown, EmailKnown
  <1>7. CASE PushSendOK \/ PushSendFails
        BY <1>1, <1>2, <1>3, <1>7 DEF PushSendOK, PushSendFails, Push, NoMessage, AllKnown,
           PushKnown
  <1> QED BY <1>5, <1>6, <1>7 DEF Sending

LEMMA StepsTeach ==
    ASSUME TypeOK, AllKnown, [Next]_vars
    PROVE  OverOnlyIfTold /\ \A r \in Recipients : Learns(r)
  <1>1. CASE Sending
        BY <1>1, SendsTeach DEF OverOnlyIfTold
  <1>2. CASE UNCHANGED <<told, cleared>>
        BY <1>2 DEF OverOnlyIfTold, Learns
  <1> QED BY <1>1, <1>2, OnlySendsTeach

-----------------------------------------------------------------------------
\* The alert tables remember no more for a recipient than it knows.
LEMMA PushKnownFrame ==
    ASSUME PushKnown, Learns("push"), UNCHANGED <<ppc, psel, pres>>,
           pushSent' \subseteq pushSent, pushPending' \subseteq pushPending \cup pushSent
    PROVE  PushKnown'
  BY DEF PushKnown, Learns, Known

LEMMA PushKnownOwn ==
    ASSUME TypeOK, PushKnown, Learns("push"), PushStep
    PROVE  PushKnown'
  <1> USE TypeSplit
  <1> USE DEF PushKnown, Learns, Known, dbVars, pushCols, history, messages, NoMessage
  <1>0. "push" \in Recipients
        BY DEF Recipients
  <1>1. CASE PushSelect
        BY <1>1 DEF PushSelect, Push
  <1>2. CASE PushSendOK
        <2>1. CASE ppc = "send"
              <3>1. psel \subseteq told'["push"] /\ ppc' = "mark"
                    BY <1>0, <1>2, <2>1, ActiveTeaches DEF PushSendOK, Push
              <3> QED BY <1>2, <3>1 DEF PushSendOK
        <2>2. CASE ppc = "sendRes"
              BY <1>2, <2>2 DEF PushSendOK, Push
        <2> QED BY <1>2, <2>1, <2>2 DEF PushSendOK, Push
  <1>3. CASE PushSendFails
        BY <1>3 DEF PushSendFails, Push
  <1>4. CASE PushMark
        BY <1>4 DEF PushMark, Push, MarkAlertCriticalPushesSent
  <1>5. CASE PushList
        BY <1>5 DEF PushList, Push, ListPendingAlertResolutionPushes
  <1>6. CASE PushMarkResolved
        BY <1>6 DEF PushMarkResolved, Push, MarkAlertResolutionPushesSent
  <1> QED BY <1>1, <1>2, <1>3, <1>4, <1>5, <1>6 DEF PushStep

LEMMA PushKnownNext ==
    ASSUME TypeOK, PushKnown, Learns("push"), [Next]_vars
    PROVE  PushKnown'
  <1> USE DEF dbVars, stateCols, pushCols, pushVars, runVars
  <1>a. ASSUME NEW e, SyncAlertStatesFor(e), UNCHANGED <<ppc, psel, pres>> PROVE PushKnown'
        BY <1>a, PushKnownFrame DEF SyncAlertStatesFor, syncAlertStates, PendingAfterSync
  <1>1. CASE SchedulerTick \/ WorkerTakes
        BY <1>1, PushKnownFrame DEF SchedulerTick, WorkerTakes, BeginRun
  <1>2. CASE RunEvaluate \/ RunAborts
        BY <1>2, PushKnownFrame DEF RunEvaluate, RunAborts, Main
  <1>3. CASE RunSync
        BY <1>3, <1>a DEF RunSync
  <1>4. CASE RunFilter \/ RunEnds \/ Crash
        BY <1>4 DEF RunFilter, RunEnds, Crash, Main, PushKnown, Learns, Known
  <1>5. CASE TelegramStep
        BY <1>5, PushKnownFrame DEF TelegramStep, TelegramStart, TelegramDone, TelegramMark,
           TelegramList, TelegramMarkResolved, TelegramSelect, MarkAlertCriticalTelegramsSent,
           MarkAlertResolutionTelegramsSent, TelegramSendFails, TelegramSendOK
  <1>6. CASE EmailStep
        BY <1>6, PushKnownFrame DEF EmailStep, EmailSelect, EmailDue, EmailDeferred, EmailMark,
           EmailMarkResolved, MarkAlertCriticalEmailsSent, MarkAlertResolutionEmailsSent,
           EmailSendOK, EmailSendFails
  <1>7. CASE PushStep
        BY <1>7, PushKnownOwn
  <1>8. CASE \E w \in WebPages : WebEvaluate(w) \/ WebSync(w)
        BY <1>8, <1>a, PushKnownFrame DEF WebEvaluate, WebSync
  <1>9. CASE \/ \E a \in Alerts : ReportStored(a) \/ TimePasses(a) \/ ToggleMuted(a)
             \/ \E c \in Enabled : ToggleChannel(c)
             \/ \E d \in Destinations : TelegramLink(d)
        BY <1>9, PushKnownFrame DEF ReportStored, TimePasses, ToggleMuted, ToggleChannel,
           TelegramLink, UpsertTelegramDestination, SetUserActive, DeleteTelegramDestinationForUser
  <1>10. CASE AdminResets \/ Cleanup
        BY <1>10, PushKnownFrame DEF AdminResets, ResetAllData, Cleanup, DeleteOldAlertHistory,
           DeleteRows
  <1>11. CASE UNCHANGED vars
        BY <1>11, PushKnownFrame DEF vars
  <1> QED BY <1>1, <1>2, <1>3, <1>4, <1>5, <1>6, <1>7, <1>8, <1>9, <1>10, <1>11
          DEF Next, MainStep, Environment

-----------------------------------------------------------------------------
LEMMA EmailKnownFrame ==
    ASSUME EmailKnown, Learns("email"), UNCHANGED <<sel, res>>,
           emailSent' \subseteq emailSent, emailPending' \subseteq emailPending \cup emailSent,
           pc' = pc \/ pc' \notin {"mailSend", "mailMark", "mailSendRes"}
    PROVE  EmailKnown'
  BY DEF EmailKnown, Learns, Known

LEMMA EmailKnownOwn ==
    ASSUME TypeOK, EmailKnown, Learns("email"), EmailStep
    PROVE  EmailKnown'
  <1> USE TypeSplit
  <1> USE DEF EmailKnown, Learns, Known, dbVars, emailCols, mainVars
  <1>0. "email" \in Recipients
        BY DEF Recipients
  <1>1. CASE EmailSelect
        BY <1>1 DEF EmailSelect, Main
  <1>2. CASE EmailDue \/ EmailDeferred
        BY <1>2 DEF EmailDue, EmailDeferred, Main, ListPendingAlertResolutionEmails
  <1>3. CASE EmailSendOK
        <2>1. CASE pc = "mailSend"
              <3>1. sel \subseteq told'["email"] \cup cleared'["email"]
                    BY <1>0, <1>3, <2>1, ActiveTeaches, DigestTeaches
                       DEF EmailSendOK, EmailMessage, Main
              <3> QED BY <1>3, <2>1, <3>1 DEF EmailSendOK, Main
        <2>2. CASE pc = "mailSendRes"
              BY <1>3, <2>2 DEF EmailSendOK, Main
        <2> QED BY <1>3, <2>1, <2>2 DEF EmailSendOK, Main
  <1>4. CASE EmailSendFails
        BY <1>4 DEF EmailSendFails, Main
  <1>5. CASE EmailMark
        BY <1>5 DEF EmailMark, Main, MarkAlertCriticalEmailsSent, history, messages
  <1>6. CASE EmailMarkResolved
        BY <1>6 DEF EmailMarkResolved, Main, MarkAlertResolutionEmailsSent, history, messages
  <1> QED BY <1>1, <1>2, <1>3, <1>4, <1>5, <1>6 DEF EmailStep

LEMMA EmailKnownNext ==
    ASSUME TypeOK, EmailKnown, Learns("email"), [Next]_vars
    PROVE  EmailKnown'
  <1> USE DEF dbVars, stateCols, emailCols, mainVars, runVars
  <1>a. ASSUME NEW e, SyncAlertStatesFor(e), UNCHANGED <<sel, res>>,
               pc' = pc \/ pc' \notin {"mailSend", "mailMark", "mailSendRes"}
        PROVE  EmailKnown'
        BY <1>a, EmailKnownFrame DEF SyncAlertStatesFor, syncAlertStates, PendingAfterSync
  <1>1. CASE SchedulerTick \/ WorkerTakes
        BY <1>1, EmailKnownFrame DEF SchedulerTick, WorkerTakes, BeginRun
  <1>2. CASE RunEvaluate \/ RunAborts \/ RunFilter
        BY <1>2, EmailKnownFrame DEF RunEvaluate, RunAborts, RunFilter, Main, AfterTelegram
  <1>3. CASE RunSync
        BY <1>3, <1>a DEF RunSync, Main
  <1>4. CASE RunEnds \/ Crash
        BY <1>4 DEF RunEnds, Crash, EmailKnown, Learns, Known
  <1>5. CASE TelegramStep
        <2>1. UNCHANGED <<emailSent, emailPending>>
              BY <1>5 DEF TelegramStep, TelegramStart, TelegramDone, TelegramMark, TelegramList,
                 TelegramMarkResolved, TelegramSelect, MarkAlertCriticalTelegramsSent,
                 MarkAlertResolutionTelegramsSent, TelegramSendFails, TelegramSendOK
        <2>2. pc' \notin {"mailSend", "mailMark", "mailSendRes"}
              BY <1>5 DEF TelegramStep, TelegramStart, TelegramDone, TelegramMark, TelegramList,
                 TelegramMarkResolved, TelegramSelect, TelegramSendFails, TelegramSendOK, Main,
                 AfterTelegram
        <2> QED BY <2>1, <2>2 DEF EmailKnown, Learns, Known
  <1>6. CASE EmailStep
        BY <1>6, EmailKnownOwn
  <1>7. CASE PushStep
        BY <1>7, EmailKnownFrame DEF PushStep, PushSelect, PushList, PushMark, PushMarkResolved,
           PushSendOK, PushSendFails, Push, MarkAlertCriticalPushesSent,
           MarkAlertResolutionPushesSent
  <1>8. CASE \E w \in WebPages : WebEvaluate(w) \/ WebSync(w)
        BY <1>8, <1>a, EmailKnownFrame DEF WebEvaluate, WebSync
  <1>9. CASE \/ \E a \in Alerts : ReportStored(a) \/ TimePasses(a) \/ ToggleMuted(a)
             \/ \E c \in Enabled : ToggleChannel(c)
             \/ \E d \in Destinations : TelegramLink(d)
        BY <1>9, EmailKnownFrame DEF ReportStored, TimePasses, ToggleMuted, ToggleChannel,
           TelegramLink, UpsertTelegramDestination, SetUserActive, DeleteTelegramDestinationForUser
  <1>10. CASE AdminResets \/ Cleanup
        BY <1>10, EmailKnownFrame DEF AdminResets, ResetAllData, Cleanup, DeleteOldAlertHistory,
           DeleteRows
  <1>11. CASE UNCHANGED vars
        BY <1>11, EmailKnownFrame DEF vars
  <1> QED BY <1>1, <1>2, <1>3, <1>4, <1>5, <1>6, <1>7, <1>8, <1>9, <1>10, <1>11
          DEF Next, MainStep, Environment

-----------------------------------------------------------------------------
LEMMA TelegramKnownFrame ==
    ASSUME TelegramKnown, \A d \in Destinations : Learns(d), UNCHANGED <<sel, res, dest>>,
           \A d \in Destinations : tgSent'[d] \subseteq tgSent[d],
           pc' = pc \/ pc' \notin {"tgMark", "tgSendRes"},
           pc \in {"tgMark", "tgSendRes"} => dest \in Destinations
    PROVE  TelegramKnown'
  BY DEF TelegramKnown, Learns, Known

LEMMA TelegramKnownOwn ==
    ASSUME TypeOK, TelegramStaysReady, TelegramKnown, \A d \in Destinations : Learns(d),
           TelegramStep
    PROVE  TelegramKnown'
  <1> USE TypeSplit
  <1> USE DEF TelegramKnown, Learns, Known, dbVars, tgCols, mainVars
  <1>0. Destinations \subseteq Recipients /\ tgSent \in [Destinations -> SUBSET Alerts]
        BY DEF Recipients, StoreTypeOK
  <1>a. pc \in {"tgSend", "tgMark", "tgList", "tgSendRes"} => dest \in Destinations
        BY DEF TelegramStaysReady
  <1>1. CASE TelegramStart \/ TelegramDone
        BY <1>1 DEF TelegramStart, TelegramDone, Main, AfterTelegram
  <1>2. CASE \E d \in Destinations : TelegramSelect(d)
        BY <1>2 DEF TelegramSelect, Main
  <1>3. ASSUME NEW d \in Destinations, TelegramSendOK(d) PROVE TelegramKnown'
        <2>1. "telegram" \in config /\ dest = d /\ UNCHANGED <<tgSent, sel, res, dest>>
              BY <1>3 DEF TelegramSendOK, TelegramStaysReady, Main
        <2>2. CASE pc = "tgSend"
              <3>1. sel \subseteq told'[d] /\ pc' = "tgMark"
                    BY <1>0, <1>3, <2>1, <2>2, ActiveTeaches DEF TelegramSendOK, Main
              <3> QED BY <2>1, <3>1
        <2>3. CASE pc = "tgSendRes"
              BY <1>3, <2>1, <2>3 DEF TelegramSendOK, Main
        <2> QED BY <1>3, <2>2, <2>3 DEF TelegramSendOK, Main
  <1>4. CASE TelegramSendFails
        BY <1>4 DEF TelegramSendFails, Main
  <1>5. CASE TelegramMark
        BY <1>0, <1>5, <1>a DEF TelegramMark, Main, MarkAlertCriticalTelegramsSent, history, messages
  <1>6. CASE TelegramList
        BY <1>6, <1>a DEF TelegramList, Main, ListPendingAlertResolutionTelegrams
  <1>7. CASE TelegramMarkResolved
        BY <1>7 DEF TelegramMarkResolved, Main, MarkAlertResolutionTelegramsSent
  <1> QED BY <1>1, <1>2, <1>3, <1>4, <1>5, <1>6, <1>7 DEF TelegramStep

LEMMA TelegramKnownNext ==
    ASSUME TypeOK, TelegramStaysReady, TelegramKnown, \A d \in Destinations : Learns(d),
           [Next]_vars
    PROVE  TelegramKnown'
  <1> USE DEF dbVars, stateCols, tgCols, mainVars, runVars
  <1>0. /\ pc \in {"tgMark", "tgSendRes"} => dest \in Destinations
        /\ tgSent \in [Destinations -> SUBSET Alerts]
        BY TypeSplit DEF TelegramStaysReady, StoreTypeOK
  <1>a. ASSUME NEW e, SyncAlertStatesFor(e), UNCHANGED <<sel, res, dest>>,
               pc' = pc \/ pc' \notin {"tgMark", "tgSendRes"}
        PROVE  TelegramKnown'
        BY <1>0, <1>a, TelegramKnownFrame DEF SyncAlertStatesFor, syncAlertStates
  <1>1. CASE SchedulerTick \/ WorkerTakes
        BY <1>0, <1>1, TelegramKnownFrame DEF SchedulerTick, WorkerTakes, BeginRun
  <1>2. CASE RunEvaluate \/ RunAborts \/ RunFilter
        BY <1>0, <1>2, TelegramKnownFrame DEF RunEvaluate, RunAborts, RunFilter, Main, AfterTelegram
  <1>3. CASE RunSync
        BY <1>3, <1>a DEF RunSync, Main
  <1>4. CASE RunEnds \/ Crash
        BY <1>4 DEF RunEnds, Crash, TelegramKnown, Learns, Known
  <1>5. CASE TelegramStep
        BY <1>5, TelegramKnownOwn
  <1>6. CASE EmailStep
        <2>1. UNCHANGED tgSent
              BY <1>6 DEF EmailStep, EmailSelect, EmailDue, EmailDeferred, EmailMark,
                 EmailMarkResolved, MarkAlertCriticalEmailsSent, MarkAlertResolutionEmailsSent,
                 EmailSendOK, EmailSendFails
        <2>2. pc' \notin {"tgMark", "tgSendRes"}
              BY <1>6 DEF EmailStep, EmailSelect, EmailDue, EmailDeferred, EmailMark,
                 EmailMarkResolved, EmailSendOK, EmailSendFails, Main
        <2> QED BY <2>1, <2>2 DEF TelegramKnown, Learns, Known
  <1>7. CASE PushStep
        BY <1>0, <1>7, TelegramKnownFrame DEF PushStep, PushSelect, PushList, PushMark,
           PushMarkResolved, PushSendOK, PushSendFails, Push, MarkAlertCriticalPushesSent,
           MarkAlertResolutionPushesSent
  <1>8. CASE \E w \in WebPages : WebEvaluate(w) \/ WebSync(w)
        BY <1>0, <1>8, <1>a, TelegramKnownFrame DEF WebEvaluate, WebSync
  <1>9. CASE \/ \E a \in Alerts : ReportStored(a) \/ TimePasses(a) \/ ToggleMuted(a)
             \/ \E c \in Enabled : ToggleChannel(c)
        BY <1>0, <1>9, TelegramKnownFrame DEF ReportStored, TimePasses, ToggleMuted, ToggleChannel
  <1>10. CASE \E d \in Destinations : TelegramLink(d)
        BY <1>0, <1>10, TelegramKnownFrame DEF TelegramLink, UpsertTelegramDestination,
           SetUserActive, DeleteTelegramDestinationForUser
  <1>11. CASE AdminResets \/ Cleanup
        BY <1>0, <1>11, TelegramKnownFrame DEF AdminResets, ResetAllData, Cleanup,
           DeleteOldAlertHistory, DeleteRows
  <1>12. CASE UNCHANGED vars
        BY <1>0, <1>12, TelegramKnownFrame DEF vars
  <1> QED BY <1>1, <1>2, <1>3, <1>4, <1>5, <1>6, <1>7, <1>8, <1>9, <1>10, <1>11, <1>12
          DEF Next, MainStep, Environment

-----------------------------------------------------------------------------
LEMMA AllKnownNext ==
    ASSUME TypeOK, TelegramStaysReady, AllKnown, [Next]_vars
    PROVE  AllKnown'
  <1>1. Learns("push") /\ Learns("email") /\ \A d \in Destinations : Learns(d)
        BY StepsTeach DEF Recipients
  <1> QED BY <1>1, PushKnownNext, EmailKnownNext, TelegramKnownNext DEF AllKnown

\* As long as the configuration only changes between runs, a recipient is told
\* that an alert is over only if the last it heard of it is that it is active or
\* that same end, whatever web pages sync and whatever fails, is deleted or
\* crashes between the send, the mark and the resolution
\* (internal/store/alert_state.go:141, internal/store/telegram.go).
THEOREM EndsAreToldAfterBeginnings ==
    ASSUME ~ReconfigMidRun
    PROVE  Spec => [][OverOnlyIfTold]_vars
  <1>1. Init => TelegramStaysReady /\ AllKnown
        BY ReadyInit DEF Init, StoreInit, AllKnown, PushKnown, EmailKnown, TelegramKnown
  <1>2. TypeOK /\ TelegramStaysReady /\ AllKnown /\ [Next]_vars => TelegramStaysReady' /\ AllKnown'
        BY ReadyNext, AllKnownNext
  <1>3. TypeOK /\ AllKnown /\ [Next]_vars => [OverOnlyIfTold]_vars
        BY StepsTeach
  <1> QED BY <1>1, <1>2, <1>3, TypeCorrect, PTL DEF Spec

\* No false resolution, in the table or in a message: without web pages beside
\* the run and with the configuration changing between runs only.
THEOREM ResolutionsAreReal ==
    ASSUME WebPages = {}, ~ReconfigMidRun
    PROVE  Spec => NoFalseResolution
  <1>1. [][ResolvedWhenClear]_vars /\ [][OverOnlyIfTold]_vars
          => [][ResolvedWhenClear /\ OverOnlyIfTold]_vars
        BY PTL
  <1> QED BY <1>1, RowsResolvedWhenClear, EndsAreToldAfterBeginnings, PTL DEF NoFalseResolution
=============================================================================
