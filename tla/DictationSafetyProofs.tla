------------------------- MODULE DictationSafetyProofs -------------------------
(***************************************************************************)
(* DictationSession keeps its types and SessionInvariant, for every set of *)
(* dictations, every number of audio calls and every bound on model        *)
(* operations.  The actions fall into a few kinds of step; each kind has   *)
(* its lemma, and the theorem sorts the actions.                           *)
(*                                                                         *)
(* AudioRecorder, the microphone of a dictation (Mic), keeps Invariant for *)
(* any number of sessions and acquisitions, streaming or not, also when    *)
(* somebody dictates again while a cancellation is going on: at most one   *)
(* microphone is open, it is that of the recorder's stream, and none is    *)
(* open while a stop or a cancellation closes.                             *)
(***************************************************************************)
EXTENDS DictationSession, FiniteSetTheorems, TLAPS

-----------------------------------------------------------------------------
(* Types.  The operators the actions are built from come first.             *)

DictationTypeOK ==
  /\ session \in [state : Resting \union Busy, id : Ids,
                  activation : {"none", "hold", "toggle"}]
  /\ watchdog \in Ids
  /\ notice \in [state : {"none", "success", "error"}, id : Ids]
  /\ activeSessionId \in Ids
  /\ activeLiveSession \in Ids
  /\ insertionOwner \in Ids
  /\ workerLive \in Ids

CallTypeOK == call \in [Kinds -> [SessionIds -> Stages]]

\* setSession keeps the snapshot and both timers well typed.
LEMMA SnapshotType ==
  ASSUME NEW state \in Resting \union Busy, NEW id \in Ids,
         NEW activation \in {"none", "hold", "toggle"},
         Snapshot(state, id, activation)
  PROVE  /\ session' \in [state : Resting \union Busy, id : Ids,
                          activation : {"none", "hold", "toggle"}]
         /\ watchdog' \in Ids
         /\ notice' \in [state : {"none", "success", "error"}, id : Ids]
BY DEF Snapshot, Ids, NoNotice

LEMMA EnterRestingType ==
  ASSUME DictationTypeOK, NEW state \in Resting, NEW id \in Ids,
         EnterResting(state, id),
         insertionOwner' \in Ids, workerLive' \in Ids
  PROVE  DictationTypeOK'
<1>1. Snapshot(state, id, "none") BY DEF EnterResting
<1>2. activeSessionId' \in Ids /\ activeLiveSession' \in Ids BY DEF EnterResting, Ids
<1> QED BY <1>1, <1>2, SnapshotType DEF DictationTypeOK

LEMMA EnterBusyType ==
  ASSUME DictationTypeOK, NEW state \in Busy, NEW id \in Ids,
         EnterBusy(state, id), UNCHANGED <<insertionOwner, workerLive>>
  PROVE  DictationTypeOK'
<1>1. Snapshot(state, id, "none") BY DEF EnterBusy
<1> QED BY <1>1, SnapshotType DEF DictationTypeOK, EnterBusy

LEMMA FailSessionType ==
  ASSUME DictationTypeOK, FailSession PROVE DictationTypeOK'
<1>1. workerLive' \in Ids BY DEF FailSession, CancelLiveWorker, DictationTypeOK, Ids
<1>2. insertionOwner' \in Ids BY DEF FailSession, Ids
<1> QED BY <1>1, <1>2, EnterRestingType DEF FailSession, Resting, Ids

LEMMA GotoType ==
  ASSUME CallTypeOK, NEW k \in Kinds, NEW id \in SessionIds, NEW stage \in Stages,
         Goto(k, id, stage)
  PROVE  CallTypeOK'
BY DEF CallTypeOK, Goto

LEMMA ThrowsType ==
  ASSUME DictationTypeOK, CallTypeOK, NEW k \in Kinds, NEW id \in SessionIds,
         Throws(k, id)
  PROVE  DictationTypeOK' /\ CallTypeOK'
<1>1. CallTypeOK' BY GotoType DEF Throws, AfterThrow, Stages
<1>2. CASE IsActive(id) BY <1>1, <1>2, FailSessionType DEF Throws
<1>3. CASE ~IsActive(id) BY <1>1, <1>3 DEF Throws, DictationTypeOK, Ids
<1> QED BY <1>2, <1>3

LEMMA ContinuesType ==
  ASSUME DictationTypeOK, CallTypeOK, NEW k \in Kinds, NEW id \in SessionIds,
         NEW stage \in Stages, Continues(k, id, stage)
  PROVE  DictationTypeOK' /\ CallTypeOK'
<1>1. CASE IsActive(id)
  BY <1>1, GotoType DEF Continues, dictationVars, DictationTypeOK
<1>2. CASE ~IsActive(id) BY <1>2, ThrowsType DEF Continues
<1> QED BY <1>1, <1>2

HandlerTypeOK ==
  /\ delivered \in [SessionIds -> Nat]
  /\ CallTypeOK
  /\ liveOpening \in [SessionIds -> {"none", "resolving", "opening", "done"}]
  /\ workerWarm \in BOOLEAN
  /\ used \in SUBSET SessionIds

ModelTypeOK ==
  /\ modelOps \in Seq(OpKinds)
  /\ opRunning \in OpKinds \union {"none"}
  /\ resetting \in {"no", "asking", "confirmed"}
  /\ asrMode \in Modes

ShellTypeOK ==
  /\ pillWindow \in {"none", "loading", "ready"}
  /\ recoveryInFlight \in BOOLEAN
  /\ updatePreparing \in BOOLEAN
  /\ quitting \in BOOLEAN
  /\ holdDown \in BOOLEAN

LEMMA TypeParts == TypeOK <=> DictationTypeOK /\ HandlerTypeOK /\ ModelTypeOK /\ ShellTypeOK
BY DEF TypeOK, DictationTypeOK, HandlerTypeOK, CallTypeOK, ModelTypeOK, ShellTypeOK

LEMMA BeginListeningType ==
  ASSUME DictationTypeOK, used \in SUBSET SessionIds,
         NEW activation \in {"hold", "toggle"}, BeginListening(activation)
  PROVE  DictationTypeOK' /\ used' \in SUBSET SessionIds
<1>1. CASE UNCHANGED <<dictationVars, used>>
  BY <1>1 DEF dictationVars, DictationTypeOK
<1>2. CASE FailSession /\ UNCHANGED used
  BY <1>2, FailSessionType
<1>3. ASSUME NEW id \in SessionIds \ used,
             used' = used \union {id}, activeSessionId' = id, insertionOwner' = id,
             IF pillWindow = "none" THEN UNCHANGED <<session, watchdog, notice>>
                                    ELSE Snapshot("listening", id, activation),
             UNCHANGED <<activeLiveSession, workerLive>>
      PROVE  DictationTypeOK' /\ used' \in SUBSET SessionIds
  <2>1. id \in Ids /\ "listening" \in Busy BY DEF Ids, Busy
  <2>2. CASE pillWindow = "none" BY <1>3, <2>1, <2>2 DEF DictationTypeOK
  <2>3. CASE pillWindow # "none"
    BY <1>3, <2>1, <2>3, SnapshotType DEF DictationTypeOK
  <2> QED BY <2>2, <2>3
<1> QED BY <1>1, <1>2, <1>3 DEF BeginListening

LEMMA FinishListeningType ==
  ASSUME DictationTypeOK, FinishListening PROVE DictationTypeOK'
<1>1. CASE session.state = "listening" BY <1>1, EnterBusyType DEF DictationTypeOK, Busy, FinishListening
<1>2. CASE session.state # "listening"
  BY <1>2 DEF FinishListening, dictationVars, DictationTypeOK
<1> QED BY <1>1, <1>2

-----------------------------------------------------------------------------
(* Every action keeps every variable well typed.                            *)

LEMMA TypeStep == TypeOK /\ [Next]_vars => TypeOK'
<1> SUFFICES ASSUME DictationTypeOK, HandlerTypeOK, ModelTypeOK, ShellTypeOK, [Next]_vars
             PROVE  DictationTypeOK' /\ HandlerTypeOK' /\ ModelTypeOK' /\ ShellTypeOK'
  BY DEF TypeOK, DictationTypeOK, HandlerTypeOK, CallTypeOK, ModelTypeOK, ShellTypeOK
<1> USE DEF HandlerTypeOK, ModelTypeOK, ShellTypeOK
<1> DEFINE Good == DictationTypeOK' /\ HandlerTypeOK' /\ ModelTypeOK' /\ ShellTypeOK'
<1>1. ASSUME Toggle PROVE Good
  BY <1>1, BeginListeningType, FinishListeningType
  DEF Toggle, handlerVars, modelVars, shellVars, CallTypeOK
<1>2. ASSUME HoldPress PROVE Good
  BY <1>2, BeginListeningType DEF HoldPress, handlerVars, modelVars, shellVars, CallTypeOK
<1>3. ASSUME HoldRelease PROVE Good
  BY ZenonT(40), <1>3, FinishListeningType
  DEF HoldRelease, dictationVars, DictationTypeOK, handlerVars, modelVars, shellVars,
      CallTypeOK
<1>4. ASSUME SessionCancel PROVE Good
  <2>1. insertionOwner' \in Ids /\ workerLive' \in Ids
    BY <1>4 DEF SessionCancel, CancelLiveWorker, DictationTypeOK, Ids
  <2> QED
    BY <1>4, <2>1, EnterRestingType
    DEF SessionCancel, handlerVars, modelVars, shellVars, CallTypeOK, Resting, Ids
<1>5. ASSUME NEW id \in SessionIds, SessionFail(id) PROVE Good
  BY <1>5, FailSessionType DEF SessionFail, handlerVars, modelVars, shellVars, CallTypeOK
<1>6. ASSUME NEW id \in SessionIds, SessionCancelLive(id) PROVE Good
  <2>1. insertionOwner' \in Ids /\ workerLive' \in Ids
    BY <1>6 DEF SessionCancelLive, CancelLiveWorker, DictationTypeOK, Ids
  <2> QED
    BY <1>6, <2>1, EnterRestingType
    DEF SessionCancelLive, handlerVars, modelVars, shellVars, CallTypeOK, Resting, Ids
<1>7. ASSUME WatchdogFires PROVE Good
  BY <1>7, FailSessionType
  DEF WatchdogFires, DictationTypeOK, Ids, handlerVars, modelVars, shellVars, CallTypeOK
<1>8. ASSUME NoticeFires PROVE Good
  <2>1. insertionOwner' \in Ids /\ workerLive' \in Ids
    BY <1>8 DEF NoticeFires, DictationTypeOK, Ids
  <2>2. CASE EnterResting("idle", NoId)
    BY <1>8, <2>1, <2>2, EnterRestingType
    DEF NoticeFires, handlerVars, modelVars, shellVars, CallTypeOK, Resting, Ids
  <2>3. CASE notice' = NoNotice /\ UNCHANGED <<session, watchdog, activeSessionId,
               activeLiveSession, insertionOwner, workerLive>>
    BY <1>8, <2>3
    DEF NoticeFires, NoNotice, DictationTypeOK, Ids, handlerVars, modelVars, shellVars,
        CallTypeOK
  <2> QED BY <1>8, <2>2, <2>3 DEF NoticeFires
<1>9. ASSUME NEW id \in SessionIds, SessionBeginLive(id) PROVE Good
  BY <1>9, FailSessionType
  DEF SessionBeginLive, dictationVars, DictationTypeOK, handlerVars, modelVars, shellVars,
      CallTypeOK
<1>10. ASSUME NEW id \in SessionIds, BeginLiveResolved(id) PROVE Good
  BY <1>10
  DEF BeginLiveResolved, dictationVars, DictationTypeOK, handlerVars, modelVars, shellVars,
      CallTypeOK
<1>11. ASSUME NEW id \in SessionIds, BeginLiveOpened(id) PROVE Good
  BY <1>11
  DEF BeginLiveOpened, DictationTypeOK, Ids, handlerVars, modelVars, shellVars, CallTypeOK
<1>12. ASSUME NEW id \in SessionIds, BeginLiveFails(id) PROVE Good
  BY <1>12
  DEF BeginLiveFails, dictationVars, DictationTypeOK, handlerVars, modelVars, shellVars,
      CallTypeOK
<1>13. ASSUME NEW k \in Kinds, NEW id \in SessionIds, SessionTranscribe(k, id) PROVE Good
  BY <1>13, FailSessionType, GotoType
  DEF SessionTranscribe, dictationVars, DictationTypeOK, Stages, handlerVars, modelVars,
      shellVars, CallTypeOK
<1>14. ASSUME NEW id \in SessionIds, SessionFinishLive(id) PROVE Good
  BY ZenonT(40), <1>14, EnterBusyType, GotoType
  DEF SessionFinishLive, Stages, Kinds, Busy, Ids, handlerVars, modelVars, shellVars,
      CallTypeOK
<1>15. ASSUME NEW k \in Kinds, NEW id \in SessionIds, AudioStaged(k, id) PROVE Good
  BY <1>15, EnterBusyType, GotoType, ThrowsType
  DEF AudioStaged, dictationVars, DictationTypeOK, Stages, Busy, Ids, handlerVars, modelVars,
      shellVars, CallTypeOK
<1>16. ASSUME NEW k \in Kinds, NEW id \in SessionIds, AudioStagingFails(k, id) PROVE Good
  BY <1>16, FailSessionType, GotoType
  DEF AudioStagingFails, dictationVars, DictationTypeOK, Stages, handlerVars, modelVars,
      shellVars, CallTypeOK
<1>17. ASSUME NEW k \in Kinds, NEW id \in SessionIds, ModelResolved(k, id) PROVE Good
  BY <1>17, ContinuesType, ThrowsType
  DEF ModelResolved, Stages, handlerVars, modelVars, shellVars, CallTypeOK
<1>18. ASSUME NEW k \in Kinds, NEW id \in SessionIds, Recognized(k, id) PROVE Good
  BY <1>18, GotoType, ThrowsType
  DEF Recognized, DictationTypeOK, Stages, Ids, handlerVars, modelVars, shellVars, CallTypeOK
<1>19. ASSUME NEW k \in Kinds, NEW id \in SessionIds, RecognitionFails(k, id) PROVE Good
  BY <1>19, ThrowsType DEF RecognitionFails, handlerVars, modelVars, shellVars, CallTypeOK
<1>20. ASSUME NEW k \in Kinds, NEW id \in SessionIds, Targeted(k, id) PROVE Good
  BY <1>20, ContinuesType, ThrowsType
  DEF Targeted, Stages, handlerVars, modelVars, shellVars, CallTypeOK
<1>21. ASSUME NEW k \in Kinds, NEW id \in SessionIds, Probed(k, id) PROVE Good
  BY <1>21, EnterBusyType, GotoType, ThrowsType
  DEF Probed, Stages, Busy, Ids, handlerVars, modelVars, shellVars, CallTypeOK
<1>22. ASSUME NEW k \in Kinds, NEW id \in SessionIds, InsertionResolves(k, id) PROVE Good
  BY <1>22, GotoType
  DEF InsertionResolves, dictationVars, DictationTypeOK, Stages, handlerVars, modelVars,
      shellVars, CallTypeOK
<1>23. ASSUME NEW k \in Kinds, NEW id \in SessionIds, InsertionFails(k, id) PROVE Good
  BY <1>23, ThrowsType DEF InsertionFails, handlerVars, modelVars, shellVars, CallTypeOK
<1>24. ASSUME NEW k \in Kinds, NEW id \in SessionIds, Completed(k, id) PROVE Good
  BY SMTT(30), <1>24, EnterRestingType, GotoType, ThrowsType
  DEF Completed, AfterThrow, DictationTypeOK, Stages, Resting, Ids, handlerVars, modelVars,
      shellVars, CallTypeOK
<1>25. ASSUME NEW k \in Kinds, NEW id \in SessionIds, AudioDiscarded(k, id) PROVE Good
  BY <1>25, GotoType
  DEF AudioDiscarded, dictationVars, DictationTypeOK, Stages, handlerVars, modelVars,
      shellVars, CallTypeOK
<1>26. ASSUME NEW kind \in OpKinds, RequestModelOp(kind) PROVE Good
  BY <1>26
  DEF RequestModelOp, dictationVars, DictationTypeOK, OpKinds, handlerVars, modelVars,
      shellVars, CallTypeOK
<1>27. ASSUME StartModelOp PROVE Good
  BY <1>27
  DEF StartModelOp, dictationVars, DictationTypeOK, OpKinds, handlerVars, modelVars,
      shellVars, CallTypeOK
<1>28. ASSUME ModelOpSettles PROVE Good
  <2>1. DictationTypeOK' BY <1>28 DEF ModelOpSettles, DictationTypeOK, Ids
  <2>2. workerWarm' \in BOOLEAN BY <1>28 DEF ModelOpSettles
  <2>3. HandlerTypeOK' BY <1>28, <2>2 DEF ModelOpSettles, CallTypeOK
  <2>4. ModelTypeOK' BY <1>28 DEF ModelOpSettles, Modes
  <2>5. ShellTypeOK' BY <1>28 DEF ModelOpSettles, shellVars
  <2> QED BY <2>1, <2>3, <2>4, <2>5
<1>29. ASSUME RequestReset PROVE Good
  BY <1>29
  DEF RequestReset, dictationVars, DictationTypeOK, handlerVars, modelVars, shellVars,
      CallTypeOK
<1>30. ASSUME AnswerReset PROVE Good
  <2>1. DictationTypeOK' /\ HandlerTypeOK' /\ ShellTypeOK'
    BY <1>30
    DEF AnswerReset, dictationVars, handlerVars, shellVars, DictationTypeOK, CallTypeOK
  <2>2. "reset" \in OpKinds BY DEF OpKinds
  <2>3. resetting' \in {"no", "asking", "confirmed"} BY <1>30 DEF AnswerReset
  <2>4. UNCHANGED <<opRunning, asrMode>> BY <1>30 DEF AnswerReset
  <2>5. modelOps' = modelOps \/ modelOps' = Append(modelOps, "reset") BY <1>30 DEF AnswerReset
  <2>6. modelOps' \in Seq(OpKinds) BY SMTT(30), <2>2, <2>5
  <2> QED BY <2>1, <2>3, <2>4, <2>6
<1>31. ASSUME PillLoaded PROVE Good
  BY ZenonT(40), <1>31
  DEF PillLoaded, dictationVars, DictationTypeOK, handlerVars, modelVars, shellVars, CallTypeOK
<1>32. ASSUME PillCrashes PROVE Good
  BY <1>32, FailSessionType
  DEF PillCrashes, dictationVars, DictationTypeOK, handlerVars, modelVars, shellVars,
      CallTypeOK
<1>33. ASSUME WorkerExits PROVE Good
  <2>1. DictationTypeOK' BY <1>33 DEF WorkerExits, DictationTypeOK, Ids
  <2>2. HandlerTypeOK' BY <1>33 DEF WorkerExits, CallTypeOK
  <2>3. ModelTypeOK' /\ ShellTypeOK' BY <1>33 DEF WorkerExits, modelVars, shellVars
  <2> QED BY <2>1, <2>2, <2>3
<1>34. ASSUME PrepareUpdate PROVE Good
  BY <1>34
  DEF PrepareUpdate, dictationVars, DictationTypeOK, handlerVars, modelVars, shellVars,
      CallTypeOK
<1>35. ASSUME CancelUpdate PROVE Good
  <2>1. DictationTypeOK' /\ HandlerTypeOK' /\ ModelTypeOK'
    BY <1>35
    DEF CancelUpdate, dictationVars, handlerVars, modelVars, DictationTypeOK, CallTypeOK
  <2>2. ShellTypeOK' BY <1>35, Zenon DEF CancelUpdate
  <2> QED BY <2>1, <2>2
<1>36. ASSUME BeginShutdown PROVE Good
  BY <1>36
  DEF BeginShutdown, DictationTypeOK, Ids, Resting, NoNotice, handlerVars, modelVars,
      shellVars, CallTypeOK
<1>37. CASE UNCHANGED vars
  BY <1>37
  DEF vars, dictationVars, handlerVars, modelVars, shellVars, DictationTypeOK, CallTypeOK
<1> QED
  BY <1>1, <1>2, <1>3, <1>4, <1>5, <1>6, <1>7, <1>8, <1>9, <1>10, <1>11, <1>12, <1>13, <1>14,
      <1>15, <1>16, <1>17, <1>18, <1>19, <1>20, <1>21, <1>22, <1>23, <1>24, <1>25, <1>26,
      <1>27, <1>28, <1>29, <1>30, <1>31, <1>32, <1>33, <1>34, <1>35, <1>36, <1>37
  DEF Next, User, Timers, Renderer, Handlers, OpeningSteps, CallSteps,
      ModelOperations, Shell, Kinds

LEMMA InitType == Init => TypeOK
<1> SUFFICES ASSUME Init PROVE TypeOK OBVIOUS
<1>1. DictationTypeOK BY DEF Init, DictationTypeOK, Resting, Ids, NoNotice
<1>2. HandlerTypeOK BY DEF Init, HandlerTypeOK, CallTypeOK, Stages
<1>3. <<>> \in Seq(OpKinds) OBVIOUS
<1>4. ModelTypeOK BY <1>3 DEF Init, ModelTypeOK
<1>5. ShellTypeOK BY DEF Init, ShellTypeOK
<1> QED BY <1>1, <1>2, <1>4, <1>5, TypeParts

\* Every variable of the main process keeps its type.
THEOREM TypeCorrect == Spec => []TypeOK
<1>1. TypeOK /\ [Next]_vars => TypeOK' BY TypeStep
<1> QED BY InitType, <1>1, PTL DEF Spec

\* What a step may read or change of the state SessionInvariant speaks of.
sessionState == <<session, watchdog, notice, activeSessionId, activeLiveSession,
                  insertionOwner, delivered, call, used, quitting>>

-----------------------------------------------------------------------------
(* Facts about the building blocks.                                         *)

LEMMA GotoApplied ==
  ASSUME CallTypeOK, NEW k \in Kinds, NEW id \in SessionIds, NEW stage,
         Goto(k, id, stage), NEW j \in Kinds, NEW d \in SessionIds
  PROVE  call'[j][d] = IF j = k /\ d = id THEN stage ELSE call[j][d]
BY DEF CallTypeOK, Goto

LEMMA SnapshotFields ==
  ASSUME NEW state \in Resting \union Busy, NEW id \in Ids,
         NEW activation, Snapshot(state, id, activation)
  PROVE  /\ session'.state = state /\ session'.id = id /\ session'.activation = activation
         /\ state = "finalizing" => watchdog' = id
         /\ state \in {"success", "error"} => notice'.state = state /\ notice'.id = id
BY DEF Snapshot

\* A step that only moves the supervisor's token, or nothing at all.
LEMMA StutterKeeps ==
  ASSUME SessionInvariant, UNCHANGED sessionState, workerLive' \in {workerLive, NoId},
         UNCHANGED asrMode \/ activeLiveSession = NoId \/ quitting
  PROVE  SessionInvariant'
<1> USE DEF sessionState
<1>1. BusyDictationIsActive' /\ EveryWaitIsTimed' /\ DeliveredAtMostOnce' /\ SuccessMeansDelivered'
  BY DEF SessionInvariant, BusyDictationIsActive, EveryWaitIsTimed, DeliveredAtMostOnce,
         SuccessMeansDelivered
<1>2. LiveStreamHasOwner' /\ LiveFollowsDictation'
  BY DEF SessionInvariant, LiveStreamHasOwner, LiveFollowsDictation
<1>3. InsertionFollowsDictation' /\ StaleCallsAreFenced' /\ OneCallInFlight'
  BY DEF SessionInvariant, InsertionFollowsDictation, StaleCallsAreFenced, OneCallInFlight,
         IsActive, InFlight
<1>4. RejectedAudioLeavesFinalizing' /\ CallsAreOfBegunDictations' /\ DeliveryIsTracked'
  BY DEF SessionInvariant, RejectedAudioLeavesFinalizing, CallsAreOfBegunDictations,
         DeliveryIsTracked, IsActive
<1>5. StreamIsClosedFirst'
  BY DEF SessionInvariant, StreamIsClosedFirst, IsActive, InFlight
<1> QED BY <1>1, <1>2, <1>3, <1>4, <1>5 DEF SessionInvariant

\* The calls that change at all end, and they are calls of begun dictations.
CallsOnlyEnd ==
  \A k \in Kinds, id \in SessionIds :
    \/ call'[k][id] = call[k][id]
    \/ call'[k][id] \in {"discarding", "done"} /\ id \in used

\* Cancel, failure, a cleared notice: the dictation in progress is given up.
LEMMA AbandonKeeps ==
  ASSUME TypeOK, SessionInvariant, ~quitting, UNCHANGED <<delivered, used, quitting>>,
         NEW state \in {"idle", "error"}, EnterResting(state, NoId),
         workerLive' = NoId,
         insertionOwner' = NoId \/ (UNCHANGED insertionOwner /\ session.state \in Resting),
         CallsOnlyEnd
  PROVE  SessionInvariant'
<1>1. /\ session'.state = state /\ session'.id = NoId
      /\ activeSessionId' = NoId /\ activeLiveSession' = NoId
      /\ state = "error" => notice'.state = state /\ notice'.id = NoId
  BY SnapshotFields DEF EnterResting, Resting, Ids
<1>2. \A id \in SessionIds : ~IsActive(id)' BY <1>1, SessionAssumption DEF IsActive
<1>3. BusyDictationIsActive' /\ EveryWaitIsTimed'
  BY <1>1 DEF BusyDictationIsActive, EveryWaitIsTimed, Busy
<1>4. DeliveredAtMostOnce' BY DEF SessionInvariant, DeliveredAtMostOnce
<1>5. SuccessMeansDelivered' /\ RejectedAudioLeavesFinalizing'
  BY <1>1 DEF SuccessMeansDelivered, RejectedAudioLeavesFinalizing
<1>6. LiveStreamHasOwner' /\ LiveFollowsDictation'
  BY <1>1 DEF LiveStreamHasOwner, LiveFollowsDictation
<1>7. ASSUME NEW k \in Kinds, NEW id \in SessionIds,
             call'[k][id] \in {"resolving", "recognizing", "targeting", "copying",
                               "probing", "inserting"}, insertionOwner' = id
      PROVE  FALSE
  BY <1>7, SessionAssumption DEF CallsOnlyEnd, SessionInvariant, StaleCallsAreFenced, InFlight, OneCallInFlight, Resting
<1>8. InsertionFollowsDictation' BY <1>1, <1>7 DEF InsertionFollowsDictation
<1>9. StaleCallsAreFenced' BY <1>7 DEF StaleCallsAreFenced, InFlight
<1>10. OneCallInFlight' BY <1>2 DEF OneCallInFlight
<1>11. CallsAreOfBegunDictations'
  BY <1>1 DEF SessionInvariant, CallsAreOfBegunDictations, CallsOnlyEnd, Busy
<1>12. DeliveryIsTracked' BY <1>1, <1>2 DEF SessionInvariant, DeliveryIsTracked
<1>13. StreamIsClosedFirst' BY <1>1 DEF StreamIsClosedFirst
<1> QED BY <1>13, <1>3, <1>4, <1>5, <1>6, <1>8, <1>9, <1>10, <1>11, <1>12 DEF SessionInvariant

\* failSession gives up the dictation in progress.
LEMMA FailSessionKeeps ==
  ASSUME TypeOK, SessionInvariant, ~quitting, UNCHANGED <<delivered, used, quitting>>,
         FailSession, CallsOnlyEnd
  PROVE  SessionInvariant'
<1>1. workerLive' = NoId
  BY DEF FailSession, CancelLiveWorker, SessionInvariant, LiveStreamHasOwner
<1> QED BY <1>1, AbandonKeeps DEF FailSession

-----------------------------------------------------------------------------
(* A call moves on while the dictation stays as it is.                      *)

\* The call ends: it was not the one that had inserted for the active dictation,
\* and its dictation does not wait for audio any more.
LEMMA EndCallKeeps ==
  ASSUME TypeOK, SessionInvariant, NEW k \in Kinds, NEW id \in SessionIds,
         NEW stage \in {"discarding", "done"}, Goto(k, id, stage), id \in used,
         UNCHANGED <<dictationVars, delivered, used, quitting>>,
         IsActive(id) => call[k][id] # "inserted",
         ~(session.state \in {"listening", "finalizing"} /\ session.id = id),
         UNCHANGED asrMode
  PROVE  SessionInvariant'
<1>1. \A j \in Kinds, d \in SessionIds :
        call'[j][d] = IF j = k /\ d = id THEN stage ELSE call[j][d]
  BY GotoApplied, TypeParts DEF HandlerTypeOK
<1> USE DEF dictationVars
<1>2. BusyDictationIsActive' /\ EveryWaitIsTimed' /\ DeliveredAtMostOnce' /\ SuccessMeansDelivered'
  BY DEF SessionInvariant, BusyDictationIsActive, EveryWaitIsTimed, DeliveredAtMostOnce,
         SuccessMeansDelivered
<1>3. LiveStreamHasOwner' /\ LiveFollowsDictation'
  BY DEF SessionInvariant, LiveStreamHasOwner, LiveFollowsDictation
<1>4. InsertionFollowsDictation' /\ StaleCallsAreFenced'
  BY <1>1
  DEF SessionInvariant, InsertionFollowsDictation, StaleCallsAreFenced, IsActive, InFlight
<1>5. OneCallInFlight'
  BY <1>1 DEF SessionInvariant, OneCallInFlight, IsActive, InFlight
<1>6. RejectedAudioLeavesFinalizing'
  <2> SUFFICES ASSUME NEW j \in AudioCalls, NEW d \in SessionIds,
                      call'[j][d] \in {"discarding", "done"}
               PROVE  ~(session.state = "finalizing" /\ session.id = d)
    BY DEF RejectedAudioLeavesFinalizing
  <2> QED BY <1>1 DEF SessionInvariant, RejectedAudioLeavesFinalizing, Kinds
<1>7. CallsAreOfBegunDictations'
  BY <1>1 DEF SessionInvariant, CallsAreOfBegunDictations, Busy
<1>8. DeliveryIsTracked'
  <2>1. ASSUME NEW d \in SessionIds, IsActive(d)
        PROVE  delivered[d] > 0 <=> \E j \in Kinds : call'[j][d] = "inserted"
    BY <1>1, <2>1 DEF SessionInvariant, DeliveryIsTracked
  <2> QED BY <2>1 DEF SessionInvariant, DeliveryIsTracked, IsActive
<1>9. StreamIsClosedFirst'
  BY <1>1 DEF SessionInvariant, StreamIsClosedFirst, IsActive, InFlight
<1> QED BY <1>2, <1>3, <1>4, <1>5, <1>6, <1>7, <1>8, <1>9 DEF SessionInvariant

\* The call starts staging its audio, or goes on to its next await.
LEMMA MoveCallKeeps ==
  ASSUME TypeOK, SessionInvariant, NEW k \in Kinds, NEW id \in SessionIds,
         NEW stage, Goto(k, id, stage),
         UNCHANGED <<dictationVars, delivered, used, quitting>>,
         \/ stage = "staging" /\ Admits(id) /\ call[k][id] = "none"
         \/ /\ InFlight(k, id) /\ call[k][id] # "inserted"
            /\ stage \in {"recognizing", "targeting", "copying", "probing", "inserting"}
            /\ k # "finishLive" \/ call[k][id] # "recognizing"
            /\ IsActive(id),
         UNCHANGED asrMode
  PROVE  SessionInvariant'
<1>1. \A j \in Kinds, d \in SessionIds :
        call'[j][d] = IF j = k /\ d = id THEN stage ELSE call[j][d]
  BY GotoApplied, TypeParts DEF HandlerTypeOK
<1>2. IsActive(id) BY DEF Admits
<1>3. id \in used
  BY <1>2, SessionAssumption DEF SessionInvariant, CallsAreOfBegunDictations, IsActive
<1>4. ~(session.state = "listening" /\ session.id = id)
  <2>1. CASE InFlight(k, id) BY <1>2, <2>1 DEF SessionInvariant, OneCallInFlight
  <2>2. CASE Admits(id) BY <2>2 DEF Admits
  <2> QED BY <2>1, <2>2
<1>5. \A j \in Kinds, d \in SessionIds : InFlight(j, d)' => InFlight(j, d)
  BY <1>1 DEF InFlight
<1>6. \A j \in Kinds, d \in SessionIds : call'[j][d] = "inserted" <=> call[j][d] = "inserted"
  BY <1>1 DEF InFlight
<1> USE DEF dictationVars
<1>7. BusyDictationIsActive' /\ EveryWaitIsTimed' /\ DeliveredAtMostOnce' /\ SuccessMeansDelivered'
  BY DEF SessionInvariant, BusyDictationIsActive, EveryWaitIsTimed, DeliveredAtMostOnce,
         SuccessMeansDelivered
<1>8. LiveStreamHasOwner' /\ LiveFollowsDictation'
  BY DEF SessionInvariant, LiveStreamHasOwner, LiveFollowsDictation
<1>9. InsertionFollowsDictation'
  BY <1>1, <1>2 DEF SessionInvariant, InsertionFollowsDictation, IsActive
<1>10. StaleCallsAreFenced'
  BY <1>5, <1>6 DEF SessionInvariant, StaleCallsAreFenced, IsActive
<1>11. OneCallInFlight'
  BY <1>5 DEF SessionInvariant, OneCallInFlight, IsActive
<1>12. RejectedAudioLeavesFinalizing'
  BY <1>1 DEF SessionInvariant, RejectedAudioLeavesFinalizing, Kinds
<1>13. CallsAreOfBegunDictations'
  BY <1>1, <1>3, <1>4 DEF SessionInvariant, CallsAreOfBegunDictations, Busy
<1>14. DeliveryIsTracked'
  BY <1>6 DEF SessionInvariant, DeliveryIsTracked, IsActive
<1>15. StreamIsClosedFirst'
  BY <1>1, <1>5 DEF SessionInvariant, StreamIsClosedFirst, IsActive, InFlight
<1> QED BY <1>15, <1>7, <1>8, <1>9, <1>10, <1>11, <1>12, <1>13, <1>14 DEF SessionInvariant

\* The audio was admitted, or the stream is being closed: `transcribing' begins.
LEMMA StartFinalKeeps ==
  ASSUME TypeOK, SessionInvariant, NEW k \in Kinds, NEW id \in SessionIds,
         NEW stage \in {"resolving", "recognizing"}, Goto(k, id, stage), Admits(id),
         EnterBusy("transcribing", id),
         activeLiveSession = NoId \/ (k = "finishLive" /\ stage = "recognizing"),
         UNCHANGED <<insertionOwner, workerLive, delivered, used, quitting, asrMode>>
  PROVE  SessionInvariant'
<1>1. \A j \in Kinds, d \in SessionIds :
        call'[j][d] = IF j = k /\ d = id THEN stage ELSE call[j][d]
  BY GotoApplied, TypeParts DEF HandlerTypeOK
<1>2. /\ session'.state = "transcribing" /\ session'.id = id
      /\ UNCHANGED <<activeSessionId, activeLiveSession>>
  BY SnapshotFields DEF EnterBusy, Busy, Ids
<1>3. IsActive(id) /\ session.state = "finalizing" BY DEF Admits
<1>4. id \in used
  BY <1>3, SessionAssumption DEF SessionInvariant, CallsAreOfBegunDictations, IsActive
<1>5. \A j \in Kinds : ~InFlight(j, id)
  BY <1>3 DEF SessionInvariant, OneCallInFlight
<1>6. \A j \in Kinds, d \in SessionIds : d # id => (InFlight(j, d)' <=> InFlight(j, d))
  BY <1>1 DEF InFlight
<1>7. BusyDictationIsActive' /\ EveryWaitIsTimed' /\ DeliveredAtMostOnce' /\ SuccessMeansDelivered'
  BY <1>2, <1>3 DEF SessionInvariant, BusyDictationIsActive, EveryWaitIsTimed, IsActive,
                    DeliveredAtMostOnce, SuccessMeansDelivered
<1>8. LiveStreamHasOwner' /\ LiveFollowsDictation'
  BY <1>2, <1>3 DEF SessionInvariant, LiveStreamHasOwner, LiveFollowsDictation, Busy
<1>9. InsertionFollowsDictation'
  BY <1>1, <1>2, <1>3 DEF SessionInvariant, InsertionFollowsDictation, IsActive
<1>10. StaleCallsAreFenced'
  BY <1>1, <1>2, <1>3 DEF SessionInvariant, StaleCallsAreFenced, IsActive, InFlight
<1>11. OneCallInFlight'
  BY <1>1, <1>2, <1>3, <1>5 DEF OneCallInFlight, IsActive, InFlight
<1>12. RejectedAudioLeavesFinalizing' BY <1>2 DEF RejectedAudioLeavesFinalizing
<1>13. CallsAreOfBegunDictations'
  BY <1>1, <1>2, <1>4 DEF SessionInvariant, CallsAreOfBegunDictations, Busy
<1>14. DeliveryIsTracked' BY <1>1, <1>5, <1>2 DEF InFlight, SessionInvariant, DeliveryIsTracked, IsActive
<1>15. StreamIsClosedFirst'
  BY <1>1, <1>2, <1>3, <1>5 DEF SessionInvariant, StreamIsClosedFirst, IsActive, InFlight
<1> QED BY <1>15, <1>7, <1>8, <1>9, <1>10, <1>11, <1>12, <1>13, <1>14 DEF SessionInvariant
\* The handlers' catch.
LEMMA ThrowsKeeps ==
  ASSUME TypeOK, SessionInvariant, NEW k \in Kinds, NEW id \in SessionIds,
         Throws(k, id), call[k][id] # "none",
         IsActive(id) \/ ~(session.state \in {"listening", "finalizing"} /\ session.id = id),
         UNCHANGED <<delivered, used, quitting, asrMode>>
  PROVE  SessionInvariant'
<1>1. Goto(k, id, AfterThrow(k)) /\ AfterThrow(k) \in {"discarding", "done"}
  BY DEF Throws, AfterThrow
<1>2. id \in used BY DEF SessionInvariant, CallsAreOfBegunDictations
<1>3. CASE IsActive(id)
  <2>1. CallsOnlyEnd
    BY <1>1, <1>2, GotoApplied, TypeParts DEF CallsOnlyEnd, HandlerTypeOK
  <2>2. ~quitting
    BY <1>3, SessionAssumption DEF SessionInvariant, LiveFollowsDictation, IsActive
  <2> QED BY <1>3, <2>1, <2>2, FailSessionKeeps DEF Throws
<1>4. CASE ~IsActive(id) /\ UNCHANGED activeLiveSession
  BY <1>1, <1>2, <1>4, EndCallKeeps DEF Throws, dictationVars
<1>5. CASE ~IsActive(id) /\ activeLiveSession = id /\ activeLiveSession' = NoId
  <2>1. quitting
    BY <1>5, SessionAssumption DEF SessionInvariant, LiveFollowsDictation, IsActive
  <2>2. session.state = "idle" /\ activeSessionId = NoId /\ insertionOwner = NoId /\ workerLive = NoId
    BY <2>1 DEF SessionInvariant, LiveFollowsDictation
  <2>3. UNCHANGED <<session, watchdog, notice, activeSessionId, insertionOwner, workerLive>>
    BY <1>5 DEF Throws
  <2>4. \A d \in SessionIds : ~IsActive(d) /\ ~IsActive(d)' /\ insertionOwner # d
    BY <2>2, <2>3, SessionAssumption DEF IsActive
  <2>5. \A j \in Kinds, d \in SessionIds :
          call'[j][d] = IF j = k /\ d = id THEN AfterThrow(k) ELSE call[j][d]
    BY <1>1, GotoApplied, TypeParts DEF HandlerTypeOK
  <2>6. BusyDictationIsActive' /\ EveryWaitIsTimed' /\ DeliveredAtMostOnce' /\ SuccessMeansDelivered'
    BY <2>3 DEF SessionInvariant, BusyDictationIsActive, EveryWaitIsTimed, DeliveredAtMostOnce,
               SuccessMeansDelivered
  <2>7. LiveStreamHasOwner' /\ LiveFollowsDictation'
    BY <1>5, <2>1, <2>2, <2>3 DEF SessionInvariant, LiveStreamHasOwner, LiveFollowsDictation
  <2>8. InsertionFollowsDictation' /\ StaleCallsAreFenced' /\ OneCallInFlight'
    BY <2>2, <2>3, <2>4 DEF InsertionFollowsDictation, StaleCallsAreFenced, OneCallInFlight
  <2>9. RejectedAudioLeavesFinalizing' BY <2>2, <2>3 DEF RejectedAudioLeavesFinalizing
  <2>10. CallsAreOfBegunDictations'
    BY <1>2, <2>2, <2>3, <2>5 DEF SessionInvariant, CallsAreOfBegunDictations, Busy
  <2>11. DeliveryIsTracked' BY <2>3, <2>4 DEF SessionInvariant, DeliveryIsTracked
  <2>12. StreamIsClosedFirst' BY <1>5 DEF StreamIsClosedFirst
  <2> QED BY <2>12, <2>6, <2>7, <2>8, <2>9, <2>10, <2>11 DEF SessionInvariant
<1> QED BY <1>3, <1>4, <1>5 DEF Throws

\* assertActiveSession, then the next await.
LEMMA ContinuesKeeps ==
  ASSUME TypeOK, SessionInvariant, NEW k \in Kinds, NEW id \in SessionIds,
         NEW stage \in {"recognizing", "copying", "probing"}, Continues(k, id, stage),
         InFlight(k, id), call[k][id] \notin {"recognizing", "inserted"},
         IsActive(id) \/ ~(session.state \in {"listening", "finalizing"} /\ session.id = id),
         UNCHANGED <<delivered, used, quitting, asrMode>>
  PROVE  SessionInvariant'
<1>1. CASE IsActive(id) BY <1>1, MoveCallKeeps DEF Continues
<1>2. CASE ~IsActive(id) BY <1>2, ThrowsKeeps DEF Continues, InFlight
<1> QED BY <1>1, <1>2

\* A call that is in flight for a dictation that was left never meets it again.
LEMMA LeftIsNotWaiting ==
  ASSUME SessionInvariant, NEW id \in SessionIds, ~IsActive(id)
  PROVE  ~(session.state \in {"listening", "finalizing"} /\ session.id = id)
BY DEF SessionInvariant, BusyDictationIsActive, IsActive, Busy

-----------------------------------------------------------------------------
(* The steps of a final result.                                             *)

LEMMA ProbedKeeps ==
  ASSUME TypeOK, SessionInvariant, NEW k \in Kinds, NEW id \in SessionIds, Probed(k, id)
  PROVE  SessionInvariant'
<1>1. call[k][id] = "probing" /\ UNCHANGED <<delivered, used, quitting, asrMode>>
  BY DEF Probed, shellVars, modelVars
<1>2. CASE ~IsActive(id)
  BY <1>1, <1>2, ThrowsKeeps, LeftIsNotWaiting DEF Probed
<1>3. CASE IsActive(id)
  <2>1. /\ Goto(k, id, "inserting") /\ EnterBusy("inserting", id)
        /\ UNCHANGED <<insertionOwner, workerLive>>
    BY <1>3 DEF Probed
  <2>2. /\ session'.state = "inserting" /\ session'.id = id
        /\ UNCHANGED <<activeSessionId, activeLiveSession>>
    BY <2>1, SnapshotFields DEF EnterBusy, Busy, Ids
  <2>3. \A j \in Kinds, d \in SessionIds :
          call'[j][d] = IF j = k /\ d = id THEN "inserting" ELSE call[j][d]
    BY <2>1, GotoApplied, TypeParts DEF HandlerTypeOK
  <2>4. \A j \in Kinds, d \in SessionIds : InFlight(j, d)' <=> InFlight(j, d)
    BY <1>1, <2>3 DEF InFlight
  <2>5. InFlight(k, id) /\ session.id = id /\ session.state \in {"transcribing", "inserting"}
    BY <1>1, <1>3 DEF SessionInvariant, OneCallInFlight, InFlight
  <2>6. BusyDictationIsActive' /\ EveryWaitIsTimed' /\ DeliveredAtMostOnce' /\ SuccessMeansDelivered'
    BY <1>1, <1>3, <2>2
    DEF SessionInvariant, BusyDictationIsActive, EveryWaitIsTimed, IsActive,
                            DeliveredAtMostOnce, SuccessMeansDelivered
  <2>7. LiveStreamHasOwner' /\ LiveFollowsDictation'
    BY <1>1, <1>3, <2>1, <2>2, <2>5
    DEF SessionInvariant, LiveStreamHasOwner, LiveFollowsDictation, IsActive, Busy
  <2>8. InsertionFollowsDictation'
    BY <1>3, <2>1, <2>2, <2>3 DEF SessionInvariant, InsertionFollowsDictation, IsActive
  <2>9. StaleCallsAreFenced'
    BY <1>1, <1>3, <2>1, <2>2, <2>3, <2>4 DEF SessionInvariant, StaleCallsAreFenced, IsActive
  <2>10. OneCallInFlight'
    BY <1>3, <2>2, <2>4, <2>5 DEF SessionInvariant, OneCallInFlight, IsActive
  <2>11. RejectedAudioLeavesFinalizing' BY <2>2 DEF RejectedAudioLeavesFinalizing
  <2>12. CallsAreOfBegunDictations'
    BY <1>1, <2>2, <2>3 DEF SessionInvariant, CallsAreOfBegunDictations, Busy
  <2>13. DeliveryIsTracked' BY <1>1, <2>3, <2>2 DEF SessionInvariant, DeliveryIsTracked, IsActive
  <2>14. StreamIsClosedFirst'
    BY <1>1, <2>2, <2>3, <2>4 DEF SessionInvariant, StreamIsClosedFirst, IsActive, InFlight
  <2> QED BY <2>14, <2>6, <2>7, <2>8, <2>9, <2>10, <2>11, <2>12, <2>13 DEF SessionInvariant
<1> QED BY <1>2, <1>3

\* Only the one call of the active dictation can insert, and it had not before.
LEMMA InsertionResolvesKeeps ==
  ASSUME TypeOK, SessionInvariant, NEW k \in Kinds, NEW id \in SessionIds,
         InsertionResolves(k, id)
  PROVE  SessionInvariant'
<1>1. /\ call[k][id] \in {"copying", "inserting"} /\ Goto(k, id, "inserted")
      /\ UNCHANGED <<dictationVars, used, quitting, asrMode>>
      /\ delivered' = IF insertionOwner = id THEN [delivered EXCEPT ![id] = @ + 1] ELSE delivered
  BY DEF InsertionResolves, shellVars, modelVars
<1> USE DEF dictationVars
<1>2. \A j \in Kinds, d \in SessionIds :
        call'[j][d] = IF j = k /\ d = id THEN "inserted" ELSE call[j][d]
  BY <1>1, GotoApplied, TypeParts DEF HandlerTypeOK
<1>3. \A j \in Kinds, d \in SessionIds : InFlight(j, d)' <=> InFlight(j, d)
  BY <1>1, <1>2 DEF InFlight
<1>4. insertionOwner = id <=> IsActive(id)
  BY <1>1, SessionAssumption DEF SessionInvariant, StaleCallsAreFenced, InFlight, InsertionFollowsDictation, IsActive
<1>5. delivered \in [SessionIds -> Nat] BY DEF TypeOK
<1>6. ASSUME IsActive(id) PROVE delivered[id] = 0 BY <1>1, <1>6, <1>5 DEF SessionInvariant, OneCallInFlight, InFlight, DeliveryIsTracked
<1>7. \A d \in SessionIds : delivered'[d] = IF d = id /\ IsActive(id) THEN 1 ELSE delivered[d]
  BY <1>1, <1>4, <1>5, <1>6
<1>8. id \in used BY <1>1 DEF SessionInvariant, CallsAreOfBegunDictations
<1>9. BusyDictationIsActive' /\ EveryWaitIsTimed'
  BY <1>1 DEF SessionInvariant, BusyDictationIsActive, EveryWaitIsTimed
<1>10. DeliveredAtMostOnce' BY <1>7 DEF SessionInvariant, DeliveredAtMostOnce
<1>11. SuccessMeansDelivered' /\ (session'.state = "success" => session'.id \in SessionIds)
  BY <1>1, <1>7 DEF SessionInvariant, SuccessMeansDelivered, DeliveryIsTracked
<1>12. LiveStreamHasOwner' /\ LiveFollowsDictation'
  BY <1>1 DEF SessionInvariant, LiveStreamHasOwner, LiveFollowsDictation
<1>13. InsertionFollowsDictation'
  BY <1>1, <1>2 DEF SessionInvariant, InsertionFollowsDictation, IsActive
<1>14. StaleCallsAreFenced'
  BY <1>1, <1>2, <1>3 DEF SessionInvariant, StaleCallsAreFenced, IsActive
<1>15. OneCallInFlight'
  BY <1>1, <1>3 DEF SessionInvariant, OneCallInFlight, IsActive
<1>16. RejectedAudioLeavesFinalizing'
  BY <1>1, <1>2 DEF SessionInvariant, RejectedAudioLeavesFinalizing, Kinds
<1>17. ~(session.state = "listening" /\ session.id = id)
  BY <1>1 DEF SessionInvariant, CallsAreOfBegunDictations
<1>18. CallsAreOfBegunDictations'
  BY <1>1, <1>2, <1>8, <1>17 DEF SessionInvariant, CallsAreOfBegunDictations, Busy
<1>19. DeliveryIsTracked'
  <2>1. \A d \in SessionIds \ used' : delivered'[d] = 0
    BY <1>1, <1>7, <1>8 DEF SessionInvariant, DeliveryIsTracked
  <2>2. ASSUME NEW d \in SessionIds, IsActive(d), d # id
        PROVE  delivered'[d] > 0 <=> \E j \in Kinds : call'[j][d] = "inserted"
    BY <1>7, <2>2, <1>2 DEF SessionInvariant, DeliveryIsTracked
  <2>3. IsActive(id) => delivered'[id] > 0 /\ call'[k][id] = "inserted"
    BY <1>2, <1>7
  <2> QED BY <1>1, <1>11, <2>1, <2>2, <2>3 DEF DeliveryIsTracked, IsActive
<1>20. StreamIsClosedFirst'
  BY <1>1, <1>2, <1>3 DEF SessionInvariant, StreamIsClosedFirst, IsActive, InFlight
<1> QED
  BY <1>20, <1>9, <1>10, <1>11, <1>12, <1>13, <1>14, <1>15, <1>16, <1>18, <1>19
  DEF SessionInvariant
\* `success' is shown by the call that inserted, and no other is in flight.
LEMMA CompletedKeeps ==
  ASSUME TypeOK, SessionInvariant, NEW k \in Kinds, NEW id \in SessionIds, Completed(k, id)
  PROVE  SessionInvariant'
<1>1. call[k][id] = "inserted" /\ UNCHANGED <<delivered, used, quitting, asrMode>>
  BY DEF Completed, shellVars, modelVars
<1>2. CASE ~IsActive(id)
  BY <1>1, <1>2, ThrowsKeeps, LeftIsNotWaiting DEF Completed
<1>3. CASE IsActive(id)
  <2>1. /\ Goto(k, id, AfterThrow(k)) /\ EnterResting("success", id)
        /\ UNCHANGED <<insertionOwner, workerLive>>
    BY <1>3 DEF Completed
  <2>2. /\ session'.state = "success" /\ session'.id = id
        /\ notice'.state = "success" /\ notice'.id = id
        /\ activeSessionId' = NoId /\ activeLiveSession' = NoId
    BY <2>1, SnapshotFields DEF EnterResting, Resting, Ids
  <2>3. \A d \in SessionIds : ~IsActive(d)' BY <2>2, SessionAssumption DEF IsActive
  <2>4. \A j \in Kinds, d \in SessionIds :
          call'[j][d] = IF j = k /\ d = id THEN AfterThrow(k) ELSE call[j][d]
    BY <2>1, GotoApplied, TypeParts DEF HandlerTypeOK
  <2>5. AfterThrow(k) \in {"discarding", "done"} BY DEF AfterThrow
  <2>6. /\ insertionOwner = id
        /\ session.id = id /\ session.state \in {"transcribing", "inserting"}
        /\ \A j \in Kinds : InFlight(j, id) => j = k
        /\ delivered[id] > 0
    BY <1>1, <1>3, SessionAssumption
    DEF SessionInvariant, InsertionFollowsDictation, OneCallInFlight, InFlight, IsActive,
        DeliveryIsTracked
  <2>7. ~quitting BY <2>6 DEF SessionInvariant, LiveFollowsDictation
  <2>8. workerLive = NoId
    BY <1>1, <1>3 DEF SessionInvariant, LiveStreamHasOwner, StreamIsClosedFirst, InFlight
  <2>9. \A j \in Kinds, d \in SessionIds : InFlight(j, d)' => d # id
    BY <2>4, <2>5, <2>6 DEF InFlight
  <2>10. BusyDictationIsActive' /\ EveryWaitIsTimed'
    BY <2>2 DEF BusyDictationIsActive, EveryWaitIsTimed, Busy
  <2>11. DeliveredAtMostOnce' BY <1>1 DEF SessionInvariant, DeliveredAtMostOnce
  <2>12. SuccessMeansDelivered' BY <1>1, <2>2, <2>6 DEF SuccessMeansDelivered
  <2>13. InsertionFollowsDictation' /\ StaleCallsAreFenced'
    BY <2>1, <2>2, <2>6, <2>9 DEF InsertionFollowsDictation, StaleCallsAreFenced, InFlight
  <2>14. OneCallInFlight' BY <2>3 DEF OneCallInFlight
  <2>15. RejectedAudioLeavesFinalizing' BY <2>2 DEF RejectedAudioLeavesFinalizing
  <2>16. CallsAreOfBegunDictations'
    BY <1>1, <2>2, <2>4 DEF SessionInvariant, CallsAreOfBegunDictations, Busy
  <2>17. DeliveryIsTracked' BY <1>1, <2>2, <2>3 DEF SessionInvariant, DeliveryIsTracked
  <2>18. LiveStreamHasOwner' /\ LiveFollowsDictation'
    BY <1>1, <2>1, <2>2, <2>7, <2>8 DEF LiveStreamHasOwner, LiveFollowsDictation
  <2>19. StreamIsClosedFirst' BY <2>2 DEF StreamIsClosedFirst
  <2> QED
    BY <2>19, <2>10, <2>11, <2>12, <2>13, <2>14, <2>15, <2>16, <2>17, <2>18
    DEF SessionInvariant
<1> QED BY <1>2, <1>3
\* The final result of the active dictation also closes its stream.
LEMMA RecognizedKeeps ==
  ASSUME TypeOK, SessionInvariant, NEW k \in Kinds, NEW id \in SessionIds, Recognized(k, id)
  PROVE  SessionInvariant'
<1>1. /\ call[k][id] = "recognizing" /\ ~quitting
      /\ UNCHANGED <<delivered, used, quitting, asrMode>>
  BY DEF Recognized, shellVars, modelVars
<1>2. CASE ~IsActive(id)
  BY <1>1, <1>2, ThrowsKeeps, LeftIsNotWaiting DEF Recognized
<1>3. CASE IsActive(id) /\ k # "finishLive" BY <1>3, <1>1, MoveCallKeeps DEF Recognized, dictationVars, InFlight
<1>4. CASE IsActive(id) /\ k = "finishLive"
  <2>1. /\ Goto(k, id, "targeting") /\ activeLiveSession' = NoId
        /\ workerLive' = IF workerLive = id THEN NoId ELSE workerLive
        /\ UNCHANGED <<session, watchdog, notice, activeSessionId, insertionOwner>>
    BY <1>4 DEF Recognized
  <2>2. \A j \in Kinds, d \in SessionIds :
          call'[j][d] = IF j = k /\ d = id THEN "targeting" ELSE call[j][d]
    BY <2>1, GotoApplied, TypeParts DEF HandlerTypeOK
  <2>3. \A j \in Kinds, d \in SessionIds :
          /\ InFlight(j, d)' <=> InFlight(j, d)
          /\ call'[j][d] = "inserted" <=> call[j][d] = "inserted"
    BY <1>1, <2>2 DEF InFlight
  <2>4. workerLive' = NoId
    BY <1>1, <1>4, <2>1
    DEF SessionInvariant, LiveStreamHasOwner, LiveFollowsDictation, IsActive
  <2>5. id \in used /\ ~(session.state = "listening" /\ session.id = id)
    BY <1>1 DEF SessionInvariant, CallsAreOfBegunDictations
  <2>6. BusyDictationIsActive' /\ EveryWaitIsTimed' /\ DeliveredAtMostOnce' /\ SuccessMeansDelivered'
    BY <1>1, <2>1 DEF SessionInvariant, BusyDictationIsActive, EveryWaitIsTimed,
                      DeliveredAtMostOnce, SuccessMeansDelivered
  <2>7. LiveStreamHasOwner' /\ LiveFollowsDictation'
    BY <1>1, <2>1, <2>4 DEF LiveStreamHasOwner, LiveFollowsDictation
  <2>8. InsertionFollowsDictation'
    BY <1>4, <2>1, <2>2 DEF SessionInvariant, InsertionFollowsDictation, IsActive
  <2>9. StaleCallsAreFenced'
    BY <2>1, <2>3 DEF SessionInvariant, StaleCallsAreFenced, IsActive
  <2>10. OneCallInFlight'
    BY <2>1, <2>3 DEF SessionInvariant, OneCallInFlight, IsActive
  <2>11. RejectedAudioLeavesFinalizing'
    BY <2>1, <2>2 DEF SessionInvariant, RejectedAudioLeavesFinalizing, Kinds
  <2>12. CallsAreOfBegunDictations'
    BY <1>1, <2>1, <2>2, <2>5 DEF SessionInvariant, CallsAreOfBegunDictations, Busy
  <2>13. DeliveryIsTracked'
    BY <1>1, <2>1, <2>3 DEF SessionInvariant, DeliveryIsTracked, IsActive
  <2>14. StreamIsClosedFirst' BY <2>1 DEF StreamIsClosedFirst
  <2> QED
    BY <2>6, <2>7, <2>8, <2>9, <2>10, <2>11, <2>12, <2>13, <2>14 DEF SessionInvariant
<1> QED BY <1>2, <1>3, <1>4

-----------------------------------------------------------------------------
(* Starting and stopping.                                                   *)

LEMMA BeginListeningKeeps ==
  ASSUME TypeOK, SessionInvariant, NEW activation \in {"hold", "toggle"},
         BeginListening(activation), UNCHANGED <<call, delivered, quitting, asrMode>>
  PROVE  SessionInvariant'
<1>1. CASE UNCHANGED <<dictationVars, used>>
  BY <1>1, StutterKeeps DEF dictationVars, sessionState
<1>2. CASE CanBegin /\ FailSession /\ UNCHANGED used
  <2>1. ~quitting /\ CallsOnlyEnd BY <1>2 DEF CanBegin, CallsOnlyEnd
  <2> QED BY <1>2, <2>1, FailSessionKeeps
<1>3. ASSUME CanBegin, NEW id \in SessionIds \ used,
             used' = used \union {id}, activeSessionId' = id, insertionOwner' = id,
             IF pillWindow = "none" THEN UNCHANGED <<session, watchdog, notice>>
                                    ELSE Snapshot("listening", id, activation),
             UNCHANGED <<activeLiveSession, workerLive>>
      PROVE  SessionInvariant'
  <2>1. /\ \A k \in Kinds : call[k][id] = "none"
        /\ delivered[id] = 0
        /\ activeLiveSession = NoId /\ workerLive = NoId /\ ~quitting
        /\ id # NoId
        /\ session.state \notin Busy
    BY <1>3, SessionAssumption
    DEF SessionInvariant, CallsAreOfBegunDictations, DeliveryIsTracked, LiveFollowsDictation,
        LiveStreamHasOwner, CanBegin, Busy, Resting
  <2>2. \/ UNCHANGED <<session, watchdog, notice>>
        \/ session'.state = "listening" /\ session'.id = id
    BY <1>3, SnapshotFields DEF Busy, Ids
  <2>3. BusyDictationIsActive' /\ EveryWaitIsTimed'
    BY <1>3, <2>1, <2>2 DEF SessionInvariant, BusyDictationIsActive, EveryWaitIsTimed, Busy
  <2>4. DeliveredAtMostOnce' /\ SuccessMeansDelivered'
    BY <2>2 DEF SessionInvariant, DeliveredAtMostOnce, SuccessMeansDelivered
  <2>5. LiveStreamHasOwner' /\ LiveFollowsDictation'
    BY <1>3, <2>1 DEF LiveStreamHasOwner, LiveFollowsDictation
  <2>6. InsertionFollowsDictation' /\ StaleCallsAreFenced'
    BY <1>3 DEF InsertionFollowsDictation, StaleCallsAreFenced, IsActive
  <2>7. OneCallInFlight' BY <1>3, <2>1 DEF OneCallInFlight, IsActive, InFlight
  <2>8. RejectedAudioLeavesFinalizing'
    BY <2>2 DEF SessionInvariant, RejectedAudioLeavesFinalizing
  <2>9. CallsAreOfBegunDictations'
    BY <1>3, <2>1, <2>2 DEF SessionInvariant, CallsAreOfBegunDictations, Busy
  <2>10. DeliveryIsTracked' BY <2>1, <1>3, <2>2 DEF SessionInvariant, DeliveryIsTracked, IsActive
  <2>11. StreamIsClosedFirst' BY <1>3, <2>1 DEF StreamIsClosedFirst
  <2> QED BY <2>3, <2>4, <2>5, <2>6, <2>7, <2>8, <2>9, <2>10, <2>11 DEF SessionInvariant
<1> QED BY <1>1, <1>2, <1>3 DEF BeginListening

LEMMA FinishListeningKeeps ==
  ASSUME TypeOK, SessionInvariant, FinishListening,
         UNCHANGED <<call, delivered, used, quitting, asrMode>>
  PROVE  SessionInvariant'
<1>1. CASE session.state # "listening"
  BY <1>1, StutterKeeps DEF FinishListening, dictationVars, sessionState
<1>2. CASE session.state = "listening"
  <2>1. session.id \in SessionIds /\ IsActive(session.id)
    BY <1>2
    DEF SessionInvariant, CallsAreOfBegunDictations, BusyDictationIsActive, Busy, IsActive
  <2>2. /\ session'.state = "finalizing" /\ session'.id = session.id /\ watchdog' = session.id
        /\ UNCHANGED <<activeSessionId, activeLiveSession, insertionOwner, workerLive>>
    BY <1>2, <2>1, SnapshotFields DEF FinishListening, EnterBusy, Busy, Ids
  <2>3. BusyDictationIsActive' /\ EveryWaitIsTimed'
    BY <2>1, <2>2 DEF BusyDictationIsActive, EveryWaitIsTimed, IsActive
  <2>4. DeliveredAtMostOnce' /\ SuccessMeansDelivered'
    BY <2>2 DEF SessionInvariant, DeliveredAtMostOnce, SuccessMeansDelivered
  <2>5. LiveStreamHasOwner' /\ LiveFollowsDictation'
    BY <1>2, <2>2 DEF SessionInvariant, LiveStreamHasOwner, LiveFollowsDictation, Busy
  <2>6. InsertionFollowsDictation' /\ StaleCallsAreFenced'
    BY <2>2
    DEF SessionInvariant, InsertionFollowsDictation, StaleCallsAreFenced, IsActive, InFlight
  <2>7. OneCallInFlight'
    BY <1>2, <2>2 DEF SessionInvariant, OneCallInFlight, IsActive, InFlight
  <2>8. RejectedAudioLeavesFinalizing'
    BY <1>2, <2>2
    DEF SessionInvariant, RejectedAudioLeavesFinalizing, CallsAreOfBegunDictations, Kinds
  <2>9. CallsAreOfBegunDictations'
    BY <2>1, <2>2 DEF SessionInvariant, CallsAreOfBegunDictations
  <2>10. DeliveryIsTracked'
    BY <2>2 DEF SessionInvariant, DeliveryIsTracked, IsActive
  <2>11. StreamIsClosedFirst'
    BY <2>2 DEF SessionInvariant, StreamIsClosedFirst, IsActive, InFlight
  <2> QED BY <2>3, <2>4, <2>5, <2>6, <2>7, <2>8, <2>9, <2>10, <2>11 DEF SessionInvariant
<1> QED BY <1>1, <1>2
-----------------------------------------------------------------------------
(* Timers, the pill, the stream and Quit.                                   *)

LEMMA SessionCancelKeeps ==
  ASSUME TypeOK, SessionInvariant, SessionCancel
  PROVE SessionInvariant'
<1>1. ~quitting /\ CallsOnlyEnd /\ UNCHANGED <<delivered, used, quitting>>
  BY DEF SessionCancel, FromPill, CallsOnlyEnd, shellVars
<1>2. workerLive' = NoId
  BY DEF SessionCancel, CancelLiveWorker, SessionInvariant, LiveStreamHasOwner
<1> QED BY <1>1, <1>2, AbandonKeeps DEF SessionCancel

LEMMA SessionCancelLiveKeeps ==
  ASSUME TypeOK, SessionInvariant, NEW id \in SessionIds, SessionCancelLive(id)
  PROVE  SessionInvariant'
<1>1. ~quitting /\ CallsOnlyEnd /\ UNCHANGED <<delivered, used, quitting>>
  BY DEF SessionCancelLive, FromPill, CallsOnlyEnd, handlerVars, shellVars
<1>2. workerLive' = NoId
  BY DEF SessionCancelLive, CancelLiveWorker, SessionInvariant, LiveStreamHasOwner
<1> QED BY <1>1, <1>2, AbandonKeeps DEF SessionCancelLive

LEMMA WatchdogFiresKeeps ==
  ASSUME TypeOK, SessionInvariant, WatchdogFires
  PROVE SessionInvariant'
<1>1. /\ ~quitting /\ CallsOnlyEnd
      /\ UNCHANGED <<delivered, call, used, quitting, asrMode>>
  BY DEF WatchdogFires, CallsOnlyEnd, handlerVars, shellVars, modelVars,
         SessionInvariant, LiveFollowsDictation
<1>2. CASE FailSession BY <1>1, <1>2, FailSessionKeeps
<1>3. CASE /\ ~(session.state = "finalizing" /\ session.id = watchdog)
           /\ watchdog' = NoId
           /\ UNCHANGED <<session, notice, activeSessionId, activeLiveSession,
                          insertionOwner, workerLive>>
  <2>1. EveryWaitIsTimed' BY <1>3 DEF SessionInvariant, EveryWaitIsTimed
  <2>2. BusyDictationIsActive' /\ DeliveredAtMostOnce' /\ SuccessMeansDelivered'
    BY <1>1, <1>3
    DEF SessionInvariant, BusyDictationIsActive, DeliveredAtMostOnce, SuccessMeansDelivered
  <2>3. LiveStreamHasOwner' /\ LiveFollowsDictation'
    BY <1>1, <1>3 DEF SessionInvariant, LiveStreamHasOwner, LiveFollowsDictation
  <2>4. InsertionFollowsDictation' /\ StaleCallsAreFenced' /\ OneCallInFlight'
    BY <1>1, <1>3 DEF SessionInvariant, InsertionFollowsDictation, StaleCallsAreFenced,
                      OneCallInFlight, IsActive, InFlight
  <2>5. RejectedAudioLeavesFinalizing' /\ CallsAreOfBegunDictations' /\ DeliveryIsTracked'
    BY <1>1, <1>3
    DEF SessionInvariant, RejectedAudioLeavesFinalizing, CallsAreOfBegunDictations,
                      DeliveryIsTracked, IsActive
  <2>6. StreamIsClosedFirst'
    BY <1>1, <1>3 DEF SessionInvariant, StreamIsClosedFirst, IsActive, InFlight
  <2> QED BY <2>1, <2>2, <2>3, <2>4, <2>5, <2>6 DEF SessionInvariant
<1> QED BY <1>2, <1>3 DEF WatchdogFires

LEMMA NoticeFiresKeeps == ASSUME TypeOK, SessionInvariant, NoticeFires PROVE SessionInvariant'
<1>1. /\ ~quitting /\ CallsOnlyEnd
      /\ UNCHANGED <<delivered, call, used, quitting, asrMode>>
  BY DEF NoticeFires, CallsOnlyEnd, handlerVars, shellVars, modelVars,
         SessionInvariant, LiveFollowsDictation
<1>2. notice.state \in {"none", "success", "error"} /\ session.state \in Resting \union Busy
  BY DEF TypeOK
<1>3. CASE session.state = notice.state /\ (notice.state = "success" => session.id = notice.id)
  BY <1>2, <1>3, <1>1, AbandonKeeps DEF Resting, Busy, NoticeFires, SessionInvariant, LiveStreamHasOwner, LiveFollowsDictation
<1>4. CASE ~(session.state = notice.state /\ (notice.state = "success" => session.id = notice.id))
  <2>1. /\ notice' = NoNotice
        /\ UNCHANGED <<session, watchdog, activeSessionId, activeLiveSession,
                       insertionOwner, workerLive>>
    BY <1>4 DEF NoticeFires
  <2>2. EveryWaitIsTimed' BY <1>4, <2>1 DEF SessionInvariant, EveryWaitIsTimed
  <2>3. BusyDictationIsActive' /\ DeliveredAtMostOnce' /\ SuccessMeansDelivered'
    BY <1>1, <2>1
    DEF SessionInvariant, BusyDictationIsActive, DeliveredAtMostOnce, SuccessMeansDelivered
  <2>4. LiveStreamHasOwner' /\ LiveFollowsDictation'
    BY <1>1, <2>1 DEF SessionInvariant, LiveStreamHasOwner, LiveFollowsDictation
  <2>5. InsertionFollowsDictation' /\ StaleCallsAreFenced' /\ OneCallInFlight'
    BY <1>1, <2>1 DEF SessionInvariant, InsertionFollowsDictation, StaleCallsAreFenced,
                      OneCallInFlight, IsActive, InFlight
  <2>6. RejectedAudioLeavesFinalizing' /\ CallsAreOfBegunDictations' /\ DeliveryIsTracked'
    BY <1>1, <2>1
    DEF SessionInvariant, RejectedAudioLeavesFinalizing, CallsAreOfBegunDictations,
                      DeliveryIsTracked, IsActive
  <2>7. StreamIsClosedFirst'
    BY <1>1, <2>1 DEF SessionInvariant, StreamIsClosedFirst, IsActive, InFlight
  <2> QED BY <2>2, <2>3, <2>4, <2>5, <2>6, <2>7 DEF SessionInvariant
<1> QED BY <1>3, <1>4

LEMMA SessionBeginLiveKeeps ==
  ASSUME TypeOK, SessionInvariant, NEW id \in SessionIds, SessionBeginLive(id)
  PROVE  SessionInvariant'
<1>1. /\ ~quitting /\ CallsOnlyEnd
      /\ UNCHANGED <<delivered, call, used, quitting, asrMode>>
  BY DEF SessionBeginLive, FromPill, CallsOnlyEnd, modelVars, shellVars
<1>2. CASE UNCHANGED dictationVars BY <1>1, <1>2, StutterKeeps DEF dictationVars, sessionState
<1>3. CASE FailSession BY <1>1, <1>3, FailSessionKeeps
<1> QED BY <1>2, <1>3 DEF SessionBeginLive

\* The stream is kept only while its dictation is still the one listening.
LEMMA BeginLiveOpenedKeeps ==
  ASSUME TypeOK, SessionInvariant, OpeningIsLive,
         NEW id \in SessionIds, BeginLiveOpened(id)
  PROVE  SessionInvariant'
<1>1. /\ ~quitting
      /\ UNCHANGED <<session, watchdog, notice, activeSessionId, insertionOwner,
                     delivered, call, used, quitting, asrMode>>
  BY DEF BeginLiveOpened, modelVars, shellVars
<1>2. CASE UNCHANGED <<activeLiveSession, workerLive>>
  BY <1>1, <1>2, StutterKeeps DEF sessionState
<1>3. CASE /\ session.state = "listening" /\ session.id = id /\ IsActive(id)
           /\ activeLiveSession' = id /\ workerLive' = id
  <2>1. asrMode = "live" BY <1>3 DEF OpeningIsLive, BeginLiveOpened
  <2>2. BusyDictationIsActive' /\ EveryWaitIsTimed' /\ DeliveredAtMostOnce' /\ SuccessMeansDelivered'
    BY <1>1 DEF SessionInvariant, BusyDictationIsActive, EveryWaitIsTimed, DeliveredAtMostOnce,
                SuccessMeansDelivered
  <2>3. LiveStreamHasOwner' /\ LiveFollowsDictation'
    BY <1>1, <1>3
    DEF SessionInvariant, LiveStreamHasOwner, LiveFollowsDictation, IsActive, Busy
  <2>4. InsertionFollowsDictation' /\ StaleCallsAreFenced' /\ OneCallInFlight'
    BY <1>1
    DEF SessionInvariant, InsertionFollowsDictation, StaleCallsAreFenced, OneCallInFlight,
                IsActive, InFlight
  <2>5. RejectedAudioLeavesFinalizing' /\ CallsAreOfBegunDictations' /\ DeliveryIsTracked'
    BY <1>1 DEF SessionInvariant, RejectedAudioLeavesFinalizing, CallsAreOfBegunDictations,
                DeliveryIsTracked, IsActive
  <2>6. \A k \in Kinds, d \in SessionIds : ~(IsActive(d) /\ InFlight(k, d))
    BY <1>3 DEF SessionInvariant, OneCallInFlight
  <2>7. StreamIsClosedFirst'
    BY <1>1, <2>1, <2>6 DEF StreamIsClosedFirst, IsActive, InFlight
  <2> QED BY <2>2, <2>3, <2>4, <2>5, <2>7 DEF SessionInvariant
<1> QED BY <1>2, <1>3 DEF BeginLiveOpened
\* Quit: nothing is active, nothing is armed, nothing can be inserted.
LEMMA BeginShutdownKeeps ==
  ASSUME TypeOK, SessionInvariant, BeginShutdown
  PROVE SessionInvariant'
<1>1. /\ session' = [state |-> "idle", id |-> NoId, activation |-> "none"]
      /\ watchdog' = NoId /\ notice' = NoNotice /\ activeSessionId' = NoId
      /\ insertionOwner' = NoId /\ workerLive' = NoId /\ quitting'
      /\ UNCHANGED <<delivered, call, used>>
  BY DEF BeginShutdown
<1>2. \A id \in SessionIds : ~IsActive(id)' /\ insertionOwner' # id
  BY <1>1, SessionAssumption DEF IsActive
<1>3. BusyDictationIsActive' /\ EveryWaitIsTimed' /\ SuccessMeansDelivered' /\ LiveStreamHasOwner'
  BY <1>1
  DEF BusyDictationIsActive, EveryWaitIsTimed, SuccessMeansDelivered, LiveStreamHasOwner, Busy
<1>4. DeliveredAtMostOnce' BY <1>1 DEF SessionInvariant, DeliveredAtMostOnce
<1>5. InsertionFollowsDictation' /\ StaleCallsAreFenced' /\ OneCallInFlight' /\ StreamIsClosedFirst'
  BY <1>1, <1>2
  DEF InsertionFollowsDictation, StaleCallsAreFenced, OneCallInFlight, StreamIsClosedFirst
<1>6. RejectedAudioLeavesFinalizing' /\ LiveFollowsDictation'
  BY <1>1 DEF RejectedAudioLeavesFinalizing, LiveFollowsDictation
<1>7. CallsAreOfBegunDictations' /\ DeliveryIsTracked'
  BY <1>1, <1>2 DEF SessionInvariant, CallsAreOfBegunDictations, DeliveryIsTracked, Busy
<1> QED BY <1>3, <1>4, <1>5, <1>6, <1>7 DEF SessionInvariant

\* sessionTranscribe: refused, admitted, or not even parsed.
LEMMA SessionTranscribeKeeps ==
  ASSUME TypeOK, SessionInvariant, NEW k \in AudioCalls, NEW id \in SessionIds,
         SessionTranscribe(k, id)
  PROVE  SessionInvariant'
<1>1. /\ ~quitting /\ id \in used /\ call[k][id] = "none" /\ k \in Kinds
      /\ ~(session.state = "listening" /\ session.id = id)
      /\ UNCHANGED <<delivered, used, quitting, asrMode>>
  BY DEF SessionTranscribe, FromPill, modelVars, shellVars, Kinds
<1>2. CASE Admits(id) /\ Goto(k, id, "staging") /\ UNCHANGED dictationVars
  BY <1>1, <1>2, MoveCallKeeps
<1>3. CASE ~Admits(id) /\ Goto(k, id, "done") /\ UNCHANGED dictationVars
  BY <1>3, <1>1, EndCallKeeps DEF Admits, SessionInvariant, BusyDictationIsActive, IsActive, Busy
<1>4. CASE Goto(k, id, "done") /\ session.state = "finalizing" /\ FailSession
  <2>1. CallsOnlyEnd
    BY <1>1, <1>4, GotoApplied, TypeParts DEF CallsOnlyEnd, HandlerTypeOK
  <2> QED BY <1>1, <1>4, <2>1, FailSessionKeeps
<1>5. CASE Goto(k, id, "done") /\ session.state # "finalizing" /\ UNCHANGED dictationVars
  BY <1>1, <1>5, EndCallKeeps
<1> QED BY <1>2, <1>3, <1>4, <1>5 DEF SessionTranscribe

\* prepareTranscription returns.
LEMMA AudioStagedKeeps ==
  ASSUME TypeOK, SessionInvariant, NEW k \in Kinds, NEW id \in SessionIds, AudioStaged(k, id)
  PROVE  SessionInvariant'
<1>1. /\ k # "finishLive" /\ call[k][id] = "staging"
      /\ UNCHANGED <<delivered, used, quitting, asrMode>>
  BY SessionAssumption DEF AudioStaged, modelVars, shellVars
<1>2. CASE ~Admits(id) /\ Goto(k, id, "discarding") /\ UNCHANGED dictationVars
  BY <1>2, <1>1, EndCallKeeps DEF Admits, SessionInvariant, BusyDictationIsActive, IsActive, Busy, CallsAreOfBegunDictations
<1>3. CASE /\ Admits(id) /\ asrMode = "after-stop" /\ Goto(k, id, "resolving")
           /\ EnterBusy("transcribing", id) /\ UNCHANGED <<insertionOwner, workerLive>>
  BY <1>3, <1>1, StartFinalKeeps DEF Admits, SessionInvariant, LiveFollowsDictation, StreamIsClosedFirst
<1>4. CASE Admits(id) /\ Throws(k, id)
  BY <1>1, <1>4, ThrowsKeeps DEF Admits
<1> QED BY <1>2, <1>3, <1>4 DEF AudioStaged

LEMMA AudioStagingFailsKeeps ==
  ASSUME TypeOK, SessionInvariant, NEW k \in Kinds, NEW id \in SessionIds,
      AudioStagingFails(k, id)
  PROVE  SessionInvariant'
<1>1. /\ call[k][id] = "staging" /\ Goto(k, id, "discarding")
      /\ UNCHANGED <<delivered, used, quitting, asrMode>>
  BY DEF AudioStagingFails, modelVars, shellVars
<1>2. id \in used /\ ~(session.state = "listening" /\ session.id = id)
  BY <1>1 DEF SessionInvariant, CallsAreOfBegunDictations
<1>3. CASE Admits(id) /\ FailSession
  BY <1>1, <1>2, GotoApplied, TypeParts, <1>3, FailSessionKeeps DEF CallsOnlyEnd, HandlerTypeOK, Admits, SessionInvariant, LiveFollowsDictation
<1>4. CASE ~Admits(id) /\ UNCHANGED dictationVars
  BY <1>4, <1>1, <1>2, EndCallKeeps DEF Admits, SessionInvariant, BusyDictationIsActive, IsActive, Busy
<1> QED BY <1>3, <1>4 DEF AudioStagingFails
-----------------------------------------------------------------------------
(* Work that excludes a dictation.                                          *)

\* The dictation goes on, or is given up ...
Settles ==
  /\ session'.state \in Busy => session.state \in Busy /\ session'.id = session.id
  /\ session'.state = "listening" => UNCHANGED session
  /\ \/ UNCHANGED <<session, activeSessionId>>
     \/ activeSessionId' = NoId
     \/ activeSessionId' = activeSessionId /\ session'.state \in Busy
  /\ used' = used

\* ... or a new one begins, and only when nothing excludes it.
Begins ==
  /\ CanBegin /\ resetting = "no" /\ ~modelOperationInProgress
  /\ \E id \in SessionIds \ used :
       /\ activeSessionId' = id /\ used' = used \union {id}
       /\ session'.state \in Busy => session'.state = "listening" /\ session'.id = id

LEMMA RestingSettles ==
  ASSUME NEW state \in Resting, NEW id \in Ids, EnterResting(state, id), UNCHANGED used
  PROVE  Settles
<1>1. session'.state = state /\ activeSessionId' = NoId BY SnapshotFields DEF EnterResting
<1> QED BY <1>1 DEF Settles, Resting, Busy

LEMMA FailSettles == ASSUME FailSession, UNCHANGED used PROVE Settles
BY RestingSettles DEF FailSession, Resting, Ids

LEMMA SameSettles == ASSUME UNCHANGED <<session, activeSessionId, used>> PROVE Settles
BY DEF Settles

LEMMA BusySettles ==
  ASSUME NEW state \in Busy \ {"listening"}, NEW id \in Ids, EnterBusy(state, id),
      UNCHANGED used,
         session.state \in Busy, session.id = id
  PROVE  Settles
<1>1. session'.state = state /\ session'.id = id /\ activeSessionId' = activeSessionId
  BY SnapshotFields DEF EnterBusy
<1> QED BY <1>1 DEF Settles

LEMMA ThrowsSettles ==
  ASSUME NEW k \in Kinds, NEW id \in SessionIds, Throws(k, id), UNCHANGED used
  PROVE  Settles
BY FailSettles, SameSettles DEF Throws

LEMMA ContinuesSettles ==
  ASSUME NEW k \in Kinds, NEW id \in SessionIds, NEW stage, Continues(k, id, stage),
      UNCHANGED used
  PROVE  Settles
BY ThrowsSettles, SameSettles DEF Continues, dictationVars

LEMMA BeginListeningBegins ==
  ASSUME NEW activation, BeginListening(activation) PROVE Settles \/ Begins
<1>1. CASE UNCHANGED <<dictationVars, used>> BY <1>1, SameSettles DEF dictationVars
<1>2. CASE FailSession /\ UNCHANGED used BY <1>2, FailSettles
<1>3. ASSUME CanBegin, resetting = "no", ~modelOperationInProgress,
             NEW id \in SessionIds \ used, used' = used \union {id}, activeSessionId' = id,
             IF pillWindow = "none" THEN UNCHANGED <<session, watchdog, notice>>
                                    ELSE Snapshot("listening", id, activation)
      PROVE  Begins
  BY <1>3, SnapshotFields DEF CanBegin, Resting, Busy, Ids, Begins
<1> QED BY <1>1, <1>2, <1>3 DEF BeginListening

LEMMA FinishListeningSettles ==
  ASSUME TypeOK, FinishListening, UNCHANGED used PROVE Settles
<1>1. CASE session.state = "listening" BY <1>1, BusySettles DEF TypeOK, Busy, FinishListening
<1>2. CASE session.state # "listening" BY <1>2, SameSettles DEF FinishListening, dictationVars
<1> QED BY <1>1, <1>2

\* A step that touches neither the model queue, an update, Quit nor an opening stream.
LEMMA PlainExclusion ==
  ASSUME SessionInvariant, ExclusionInvariant, Settles \/ Begins,
         UNCHANGED <<modelVars, updatePreparing, quitting, liveOpening>>
  PROVE  ExclusionInvariant'
<1>1. ModelWorkExcludesDictation'
  BY DEF ExclusionInvariant, ModelWorkExcludesDictation, Settles, Begins,
         modelOperationInProgress, modelVars
<1>2. UpdateExcludesWork'
  BY DEF ExclusionInvariant, UpdateExcludesWork, Settles, Begins, CanBegin,
         modelOperationInProgress, modelVars
<1>3. ResetIsAlone'
  BY DEF ExclusionInvariant, ResetIsAlone, Settles, Begins, modelVars
<1>4. OpeningIsLive'
  <2>1. CASE Settles
    BY <2>1, SessionAssumption
    DEF ExclusionInvariant, OpeningIsLive, Settles, IsActive, modelVars
  <2>2. CASE Begins
    BY <2>2 DEF ExclusionInvariant, OpeningIsLive, Begins, IsActive, modelVars
  <2> QED BY <2>1, <2>2
<1> QED BY <1>1, <1>2, <1>3, <1>4 DEF ExclusionInvariant
\* Opening, or failing to open, a stream.
LEMMA OpeningExclusion ==
  ASSUME SessionInvariant, ExclusionInvariant, TypeOK, Settles,
         NEW id \in SessionIds, NEW stage \in {"resolving", "opening", "done"},
         liveOpening' = [liveOpening EXCEPT ![id] = stage],
         \/ stage = "done"
         \/ asrMode = "live" /\ session.state \in Busy /\ session'.state \in Busy
         \/ stage = "opening" /\ liveOpening[id] = "resolving" /\ UNCHANGED session,
         id \in used, UNCHANGED <<modelVars, updatePreparing, quitting>>
  PROVE  ExclusionInvariant'
<1>1. ModelWorkExcludesDictation'
  BY DEF ExclusionInvariant, ModelWorkExcludesDictation, Settles, modelVars
<1>2. UpdateExcludesWork'
  BY DEF ExclusionInvariant, UpdateExcludesWork, Settles, modelOperationInProgress, modelVars
<1>3. ResetIsAlone' BY DEF ExclusionInvariant, ResetIsAlone, Settles, modelVars
<1>4. OpeningIsLive'
  <2>1. \A d \in SessionIds : liveOpening'[d] = IF d = id THEN stage ELSE liveOpening[d]
    BY DEF TypeOK
  <2> SUFFICES ASSUME NEW d \in SessionIds
               PROVE  /\ liveOpening'[d] # "none" => d \in used'
                      /\ liveOpening'[d] \in {"resolving", "opening"} /\ IsActive(d)' =>
                           asrMode' = "live" /\ session'.state \in Busy
    BY DEF OpeningIsLive
  <2>2. liveOpening'[d] # "none" => d \in used'
    BY <2>1 DEF ExclusionInvariant, OpeningIsLive, Settles
  <2>3. ASSUME liveOpening'[d] \in {"resolving", "opening"}, IsActive(d)'
        PROVE  asrMode' = "live" /\ session'.state \in Busy
    BY <2>3, SessionAssumption, <2>1 DEF Settles, IsActive, ExclusionInvariant, OpeningIsLive, modelVars
  <2> QED BY <2>2, <2>3
<1> QED BY <1>1, <1>2, <1>3, <1>4 DEF ExclusionInvariant

\* The queue of model operations, while the dictation stays as it is.
LEMMA QueueExclusion ==
  ASSUME TypeOK, SessionInvariant, ExclusionInvariant, ModelOperations
  PROVE  ExclusionInvariant'
<1>1. UNCHANGED <<session, activeSessionId, used, liveOpening, updatePreparing, quitting>>
  BY DEF ModelOperations, RequestModelOp, StartModelOp, ModelOpSettles, RequestReset,
      AnswerReset,
         dictationVars, handlerVars, shellVars
<1>2. modelOps \in Seq(OpKinds) BY DEF TypeOK
<1>3. ASSUME NEW kind \in OpKinds, RequestModelOp(kind) PROVE ExclusionInvariant'
  <2>1. /\ kind # "reset" /\ resetting = "no" /\ ~quitting /\ ~updatePreparing
        /\ modelOps' = Append(modelOps, kind) /\ UNCHANGED <<opRunning, resetting, asrMode>>
    BY <1>3 DEF RequestModelOp
  <2>2. \A i \in 1 .. Len(modelOps') : modelOps'[i] # "reset"
    BY <1>2, <2>1 DEF ExclusionInvariant, ResetIsAlone
  <2>3. ResetIsAlone' BY <1>1, <2>1, <2>2 DEF ExclusionInvariant, ResetIsAlone
  <2> QED BY <1>1, <2>1, <2>3 DEF ExclusionInvariant, ModelWorkExcludesDictation,
             UpdateExcludesWork, OpeningIsLive, IsActive
<1>4. ASSUME StartModelOp PROVE ExclusionInvariant'
  <2>1. /\ opRunning = "none" /\ modelOps # <<>> /\ modelOps' = Tail(modelOps)
        /\ opRunning' = IF Head(modelOps) = "switch" /\ ~canSwitchModelNow
                        THEN "none" ELSE Head(modelOps)
        /\ UNCHANGED <<resetting, asrMode>>
    BY <1>4 DEF StartModelOp
  <2>2. Head(modelOps) = modelOps[1] /\ 1 \in 1 .. Len(modelOps) BY <1>2, <2>1
  <2>3. Head(modelOps) = "reset" => resetting = "confirmed" /\ modelOps = <<"reset">>
    BY <1>2, <2>1, <2>2 DEF ExclusionInvariant, ResetIsAlone, TypeOK
  <2>4. ModelWorkExcludesDictation'
    BY <1>1, <2>1, <2>3 DEF ExclusionInvariant, ModelWorkExcludesDictation, ResetIsAlone,
       canSwitchModelNow, Busy
  <2>5. UpdateExcludesWork'
    BY <1>1, <2>1 DEF ExclusionInvariant, UpdateExcludesWork, modelOperationInProgress
  <2>6. ResetIsAlone'
    <3>1. CASE resetting = "no" BY <1>2, <2>1, <3>1, <2>3, <1>1 DEF ExclusionInvariant, ResetIsAlone
    <3>2. CASE resetting = "confirmed" BY <2>1, <3>2, <1>1 DEF ExclusionInvariant, ResetIsAlone
    <3>3. CASE resetting = "asking" BY <2>1, <3>3 DEF ExclusionInvariant, ResetIsAlone
    <3> QED BY <3>1, <3>2, <3>3 DEF TypeOK
  <2>7. OpeningIsLive' BY <1>1, <2>1 DEF ExclusionInvariant, OpeningIsLive, IsActive
  <2> QED BY <2>4, <2>5, <2>6, <2>7 DEF ExclusionInvariant
<1>5. ASSUME ModelOpSettles PROVE ExclusionInvariant'
  <2>1. /\ opRunning # "none" /\ opRunning' = "none" /\ UNCHANGED modelOps
        /\ resetting' = IF opRunning = "reset" THEN "no" ELSE resetting
        /\ UNCHANGED asrMode \/ opRunning = "switch"
    BY <1>5 DEF ModelOpSettles
  <2>2. ModelWorkExcludesDictation' BY <2>1 DEF ModelWorkExcludesDictation
  <2>3. UpdateExcludesWork'
    BY <1>1, <2>1 DEF ExclusionInvariant, UpdateExcludesWork, modelOperationInProgress
  <2>4. ResetIsAlone'
    <3>1. CASE opRunning = "reset" BY <2>1, <3>1 DEF ExclusionInvariant, ResetIsAlone, TypeOK
    <3>2. CASE opRunning # "reset" BY <2>1, <3>2 DEF ExclusionInvariant, ResetIsAlone, TypeOK
    <3> QED BY <3>1, <3>2
  <2>5. OpeningIsLive'
    BY <1>1, <2>1 DEF ExclusionInvariant, OpeningIsLive, IsActive, ModelWorkExcludesDictation
  <2> QED BY <2>2, <2>3, <2>4, <2>5 DEF ExclusionInvariant
<1>6. ASSUME RequestReset PROVE ExclusionInvariant'
  <2>1. /\ ~updatePreparing /\ resetting = "no" /\ session.state \in Resting
        /\ opRunning = "none" /\ modelOps = <<>> /\ resetting' = "asking"
        /\ UNCHANGED <<modelOps, opRunning, asrMode>>
    BY <1>6 DEF RequestReset, modelOperationInProgress
  <2> QED
    BY <1>1, <2>1 DEF ExclusionInvariant, ModelWorkExcludesDictation, UpdateExcludesWork,
       ResetIsAlone, OpeningIsLive, IsActive, Resting, Busy
<1>7. ASSUME AnswerReset PROVE ExclusionInvariant'
  <2>1. resetting = "asking" /\ opRunning = "none" /\ modelOps = <<>> /\ session.state \notin Busy
    BY <1>7 DEF AnswerReset, ExclusionInvariant, ResetIsAlone
  <2>2. /\ UNCHANGED <<opRunning, asrMode>>
        /\ \/ resetting' = "no" /\ modelOps' = <<>>
           \/ resetting' = "confirmed" /\ modelOps' = <<"reset">>
    BY <1>7, <2>1 DEF AnswerReset
  <2>3. ResetIsAlone' BY <1>1, <2>1, <2>2 DEF ResetIsAlone
  <2>4. ModelWorkExcludesDictation' /\ OpeningIsLive'
    BY <1>1, <2>1, <2>2
    DEF ExclusionInvariant, ModelWorkExcludesDictation, OpeningIsLive, IsActive
  <2>5. UpdateExcludesWork'
    BY <1>1, <2>1, <2>2 DEF ExclusionInvariant, UpdateExcludesWork
  <2> QED BY <2>3, <2>4, <2>5 DEF ExclusionInvariant
<1> QED BY <1>3, <1>4, <1>5, <1>6, <1>7 DEF ModelOperations
-----------------------------------------------------------------------------
(* The theorem: one step per action.                                        *)

IndInv == TypeOK /\ SessionInvariant /\ ExclusionInvariant

LEMMA InitHolds == Init => IndInv
<1> SUFFICES ASSUME Init PROVE IndInv OBVIOUS
<1>1. TypeOK BY InitType
<1>2. \A id \in SessionIds : ~IsActive(id) BY SessionAssumption DEF Init, IsActive
<1>3. BusyDictationIsActive /\ EveryWaitIsTimed /\ LiveStreamHasOwner /\ DeliveredAtMostOnce
        /\ SuccessMeansDelivered /\ RejectedAudioLeavesFinalizing
  BY DEF Init, BusyDictationIsActive, EveryWaitIsTimed, LiveStreamHasOwner,
      DeliveredAtMostOnce,
         SuccessMeansDelivered, RejectedAudioLeavesFinalizing, Busy
<1>4. InsertionFollowsDictation /\ StaleCallsAreFenced /\ OneCallInFlight
  BY <1>2 DEF Init, InsertionFollowsDictation, StaleCallsAreFenced, OneCallInFlight, InFlight
<1>5. CallsAreOfBegunDictations /\ DeliveryIsTracked /\ LiveFollowsDictation /\ StreamIsClosedFirst
  BY <1>2 DEF Init, CallsAreOfBegunDictations, DeliveryIsTracked, LiveFollowsDictation,
              StreamIsClosedFirst, Busy
<1>6. ModelWorkExcludesDictation /\ UpdateExcludesWork /\ ResetIsAlone /\ OpeningIsLive
  BY DEF Init, ModelWorkExcludesDictation, UpdateExcludesWork, ResetIsAlone, OpeningIsLive,
      Busy
<1> QED BY <1>1, <1>3, <1>4, <1>5, <1>6 DEF IndInv, SessionInvariant, ExclusionInvariant

LEMMA StepHolds == IndInv /\ [Next]_vars => IndInv' /\ (Settles \/ Begins)
<1> SUFFICES ASSUME TypeOK, SessionInvariant, ExclusionInvariant, [Next]_vars
             PROVE  SessionInvariant' /\ ExclusionInvariant' /\ (Settles \/ Begins)
  BY TypeStep DEF IndInv
<1> DEFINE Good == SessionInvariant' /\ ExclusionInvariant' /\ (Settles \/ Begins)
<1>1. ASSUME Toggle PROVE Good
  BY <1>1, BeginListeningKeeps, FinishListeningKeeps, BeginListeningBegins, FinishListeningSettles, PlainExclusion DEF Toggle, modelVars, shellVars, handlerVars
<1>2. ASSUME HoldPress PROVE Good BY <1>2, BeginListeningKeeps, BeginListeningBegins, PlainExclusion DEF HoldPress, modelVars, shellVars, handlerVars
<1>3. ASSUME HoldRelease PROVE Good
  <2>1. SessionInvariant'
    <3>1. CASE FinishListening
      BY <1>3, <3>1, FinishListeningKeeps DEF HoldRelease, modelVars, handlerVars
    <3>2. CASE UNCHANGED dictationVars
      BY <1>3, <3>2, StutterKeeps
      DEF HoldRelease, modelVars, handlerVars, dictationVars, sessionState
    <3> QED BY <1>3, <3>1, <3>2 DEF HoldRelease
  <2>2. Settles \/ Begins
    BY <1>3, FinishListeningSettles, SameSettles DEF HoldRelease, handlerVars, dictationVars
  <2> QED BY <1>3, <2>1, <2>2, PlainExclusion DEF HoldRelease, modelVars, handlerVars
<1>4. ASSUME SessionCancel PROVE Good
  BY <1>4, SessionCancelKeeps, RestingSettles, PlainExclusion DEF SessionCancel, Resting, Ids, modelVars, shellVars, handlerVars
<1>5. ASSUME NEW id \in SessionIds, SessionFail(id) PROVE Good
  BY <1>5, FailSessionKeeps, FailSettles, PlainExclusion DEF SessionFail, FromPill, CallsOnlyEnd, handlerVars, shellVars, modelVars
<1>6. ASSUME NEW id \in SessionIds, SessionCancelLive(id) PROVE Good
  BY <1>6, SessionCancelLiveKeeps, RestingSettles, PlainExclusion DEF SessionCancelLive, Resting, Ids, handlerVars, modelVars, shellVars
<1>7. ASSUME WatchdogFires PROVE Good
  BY <1>7, WatchdogFiresKeeps, FailSettles, SameSettles, PlainExclusion DEF WatchdogFires, handlerVars, modelVars, shellVars
<1>8. ASSUME NoticeFires PROVE Good
  BY <1>8, NoticeFiresKeeps, RestingSettles, SameSettles, PlainExclusion DEF NoticeFires, handlerVars, Resting, Ids, modelVars, shellVars
<1>9. ASSUME NEW id \in SessionIds, SessionBeginLive(id) PROVE Good
  <2>1. SessionInvariant' BY <1>9, SessionBeginLiveKeeps
  <2>2. Settles BY <1>9, FailSettles, SameSettles DEF SessionBeginLive, dictationVars
  <2>3. id \in used
    BY <1>9, SessionAssumption
    DEF SessionBeginLive, SessionInvariant, CallsAreOfBegunDictations, IsActive
  <2>4. /\ asrMode = "live" /\ session.state \in Busy
        /\ UNCHANGED <<modelVars, updatePreparing, quitting>>
    BY <1>9 DEF SessionBeginLive, shellVars, Busy
  <2>5. CASE liveOpening' = [liveOpening EXCEPT ![id] = "resolving"] /\ UNCHANGED dictationVars
    BY <2>1, <2>2, <2>3, <2>4, <2>5, OpeningExclusion DEF dictationVars
  <2>6. CASE liveOpening' = [liveOpening EXCEPT ![id] = "done"]
    BY <2>1, <2>2, <2>3, <2>4, <2>6, OpeningExclusion
  <2> QED BY <1>9, <2>5, <2>6 DEF SessionBeginLive
<1>10. ASSUME NEW id \in SessionIds, BeginLiveResolved(id) PROVE Good
  <2>1. SessionInvariant'
    BY <1>10, StutterKeeps
    DEF BeginLiveResolved, dictationVars, sessionState, modelVars, shellVars
  <2>2. Settles BY <1>10, SameSettles DEF BeginLiveResolved, dictationVars
  <2>3. id \in used BY <1>10 DEF BeginLiveResolved, ExclusionInvariant, OpeningIsLive
  <2> QED
    BY <1>10, <2>1, <2>2, <2>3, OpeningExclusion
    DEF BeginLiveResolved, dictationVars, shellVars
<1>11. ASSUME NEW id \in SessionIds, BeginLiveFails(id) PROVE Good
  <2>1. SessionInvariant'
    BY <1>11, StutterKeeps
    DEF BeginLiveFails, dictationVars, sessionState, modelVars, shellVars
  <2>2. Settles BY <1>11, SameSettles DEF BeginLiveFails, dictationVars
  <2>3. id \in used BY <1>11 DEF BeginLiveFails, ExclusionInvariant, OpeningIsLive
  <2> QED
    BY <1>11, <2>1, <2>2, <2>3, OpeningExclusion DEF BeginLiveFails, dictationVars, shellVars
<1>12. ASSUME NEW id \in SessionIds, BeginLiveOpened(id) PROVE Good
  BY <1>12, BeginLiveOpenedKeeps, SameSettles, OpeningExclusion DEF ExclusionInvariant, BeginLiveOpened, OpeningIsLive, shellVars
<1>13. ASSUME NEW k \in AudioCalls, NEW id \in SessionIds, SessionTranscribe(k, id) PROVE Good
  BY <1>13, SessionTranscribeKeeps, FailSettles, SameSettles, PlainExclusion DEF SessionTranscribe, dictationVars, modelVars, shellVars, handlerVars
<1>14. ASSUME NEW id \in SessionIds, SessionFinishLive(id) PROVE Good
  <2>1. Admits(id) /\ EnterBusy("transcribing", id) /\ session.state \in Busy
        /\ session.id = id /\ id \in Ids
    BY <1>14 DEF SessionFinishLive, Admits, Busy, Ids
  <2>2. SessionInvariant'
    BY <1>14, <2>1, StartFinalKeeps DEF SessionFinishLive, Kinds, modelVars, shellVars
  <2>3. Settles BY <1>14, <2>1, BusySettles DEF SessionFinishLive, Busy
  <2> QED BY <1>14, <2>2, <2>3, PlainExclusion DEF SessionFinishLive, modelVars, shellVars
<1>15. ASSUME NEW k \in Kinds, NEW id \in SessionIds, AudioStaged(k, id) PROVE Good
  <2>1. SessionInvariant' BY <1>15, AudioStagedKeeps
  <2>2. Settles BY <1>15, BusySettles, ThrowsSettles, SameSettles DEF Admits, Busy, Ids, AudioStaged, dictationVars
  <2> QED BY <1>15, <2>1, <2>2, PlainExclusion DEF AudioStaged, modelVars, shellVars
<1>16. ASSUME NEW k \in Kinds, NEW id \in SessionIds, AudioStagingFails(k, id) PROVE Good
  BY <1>16, AudioStagingFailsKeeps, FailSettles, SameSettles, PlainExclusion DEF AudioStagingFails, dictationVars, modelVars, shellVars, handlerVars
<1>17. ASSUME NEW k \in Kinds, NEW id \in SessionIds, ModelResolved(k, id) PROVE Good
  BY <1>17, LeftIsNotWaiting, ContinuesKeeps, ThrowsKeeps, ContinuesSettles, ThrowsSettles, PlainExclusion DEF ModelResolved, modelVars, shellVars, InFlight
<1>18. ASSUME NEW k \in Kinds, NEW id \in SessionIds, Targeted(k, id) PROVE Good
  BY <1>18, LeftIsNotWaiting, ContinuesKeeps, ThrowsKeeps, ContinuesSettles, ThrowsSettles, PlainExclusion DEF Targeted, modelVars, shellVars, InFlight
<1>19. ASSUME NEW k \in Kinds, NEW id \in SessionIds, RecognitionFails(k, id) PROVE Good
  BY <1>19, LeftIsNotWaiting, ThrowsKeeps, ThrowsSettles, PlainExclusion DEF RecognitionFails, modelVars, shellVars
<1>20. ASSUME NEW k \in Kinds, NEW id \in SessionIds, InsertionFails(k, id) PROVE Good
  BY <1>20, LeftIsNotWaiting, ThrowsKeeps, ThrowsSettles, PlainExclusion DEF InsertionFails, modelVars, shellVars
<1>21. ASSUME NEW k \in Kinds, NEW id \in SessionIds, Recognized(k, id) PROVE Good
  BY <1>21, RecognizedKeeps, ThrowsSettles, SameSettles, PlainExclusion DEF Recognized, modelVars, shellVars, handlerVars
<1>22. ASSUME NEW k \in Kinds, NEW id \in SessionIds, Probed(k, id) PROVE Good
  <2>1. SessionInvariant' BY <1>22, ProbedKeeps
  <2>2. Settles BY <1>22, BusySettles, ThrowsSettles DEF Probed, SessionInvariant, OneCallInFlight, InFlight, Busy, Ids
  <2> QED BY <1>22, <2>1, <2>2, PlainExclusion DEF Probed, modelVars, shellVars
<1>23. ASSUME NEW k \in Kinds, NEW id \in SessionIds, InsertionResolves(k, id) PROVE Good
  BY <1>23, InsertionResolvesKeeps, SameSettles, PlainExclusion DEF InsertionResolves, dictationVars, modelVars, shellVars, handlerVars
<1>24. ASSUME NEW k \in Kinds, NEW id \in SessionIds, Completed(k, id) PROVE Good
  BY <1>24, CompletedKeeps, RestingSettles, ThrowsSettles, PlainExclusion DEF Completed, Resting, Ids, modelVars, shellVars, handlerVars
<1>25. ASSUME NEW k \in Kinds, NEW id \in SessionIds, AudioDiscarded(k, id) PROVE Good
  <2>1. /\ call[k][id] = "discarding" /\ k \in AudioCalls /\ Goto(k, id, "done")
        /\ UNCHANGED <<dictationVars, delivered, used, quitting, asrMode>>
    BY <1>25 DEF AudioDiscarded, modelVars, shellVars
  <2>2. id \in used /\ ~(session.state \in {"listening", "finalizing"} /\ session.id = id)
    BY <2>1 DEF SessionInvariant, CallsAreOfBegunDictations, RejectedAudioLeavesFinalizing
  <2>3. SessionInvariant' BY <2>1, <2>2, EndCallKeeps
  <2>4. Settles BY <2>1, SameSettles DEF dictationVars
  <2> QED BY <1>25, <2>3, <2>4, PlainExclusion DEF AudioDiscarded, modelVars, shellVars
<1>26. ASSUME ModelOperations PROVE Good
  <2>1. /\ UNCHANGED sessionState
        /\ workerLive' \in {workerLive, NoId}
        /\ UNCHANGED asrMode \/ opRunning = "switch"
    BY <1>26 DEF ModelOperations, RequestModelOp, StartModelOp, ModelOpSettles, RequestReset,
             AnswerReset, sessionState, dictationVars, handlerVars, shellVars
  <2>2. opRunning = "switch" => activeLiveSession = NoId \/ quitting
    BY DEF ExclusionInvariant, ModelWorkExcludesDictation, SessionInvariant,
        LiveFollowsDictation
  <2>3. SessionInvariant' BY <2>1, <2>2, StutterKeeps
  <2>4. Settles BY <2>1, SameSettles DEF sessionState
  <2> QED BY <1>26, <2>3, <2>4, QueueExclusion
<1>27. ASSUME PillLoaded PROVE Good
  BY <1>27, StutterKeeps, SameSettles, PlainExclusion DEF PillLoaded, dictationVars, handlerVars, modelVars, sessionState, shellVars
<1>28. ASSUME PillCrashes PROVE Good
  BY <1>28, FailSessionKeeps, StutterKeeps, FailSettles, SameSettles, PlainExclusion DEF PillCrashes, CallsOnlyEnd, handlerVars, dictationVars, modelVars, sessionState
<1>29. ASSUME WorkerExits PROVE Good
  BY <1>29, StutterKeeps, SameSettles, PlainExclusion DEF WorkerExits, modelVars, shellVars, sessionState, handlerVars
<1>30. ASSUME PrepareUpdate PROVE Good
  <2>1. SessionInvariant'
    BY <1>30, StutterKeeps
    DEF PrepareUpdate, dictationVars, handlerVars, modelVars, sessionState
  <2>2. ModelWorkExcludesDictation' /\ ResetIsAlone' /\ OpeningIsLive'
    BY <1>30
    DEF PrepareUpdate, ExclusionInvariant, ModelWorkExcludesDictation, ResetIsAlone,
        OpeningIsLive,
             dictationVars, handlerVars, modelVars, IsActive
  <2>3. UpdateExcludesWork'
    BY <1>30
    DEF PrepareUpdate, appUpdateIsIdle, UpdateExcludesWork, modelOperationInProgress,
        dictationVars, modelVars,
             Resting, Busy
  <2>4. Settles BY <1>30, SameSettles DEF PrepareUpdate, dictationVars, handlerVars
  <2> QED BY <2>1, <2>2, <2>3, <2>4 DEF ExclusionInvariant
<1>31. ASSUME CancelUpdate PROVE Good
  <2>1. SessionInvariant'
    BY <1>31, StutterKeeps
    DEF CancelUpdate, dictationVars, handlerVars, modelVars, sessionState
  <2>2. ModelWorkExcludesDictation' /\ ResetIsAlone' /\ OpeningIsLive'
    BY <1>31
    DEF CancelUpdate, ExclusionInvariant, ModelWorkExcludesDictation, ResetIsAlone,
        OpeningIsLive,
             dictationVars, handlerVars, modelVars, IsActive
  <2>3. UpdateExcludesWork'
    BY <1>31
    DEF CancelUpdate, UpdateExcludesWork, modelOperationInProgress, dictationVars, modelVars,
             Resting, Busy
  <2>4. Settles BY <1>31, SameSettles DEF CancelUpdate, dictationVars, handlerVars
  <2> QED BY <2>1, <2>2, <2>3, <2>4 DEF ExclusionInvariant
<1>32. ASSUME BeginShutdown PROVE Good
  <2>1. SessionInvariant' BY <1>32, BeginShutdownKeeps
  <2>2. /\ session'.state = "idle" /\ activeSessionId' = NoId /\ quitting'
        /\ UNCHANGED <<modelVars, liveOpening, used>>
    BY <1>32 DEF BeginShutdown
  <2>3. ModelWorkExcludesDictation' /\ UpdateExcludesWork' /\ ResetIsAlone'
    BY <2>2
    DEF ExclusionInvariant, ModelWorkExcludesDictation, UpdateExcludesWork, ResetIsAlone,
                modelVars, Busy
  <2>4. OpeningIsLive'
    BY <2>2, SessionAssumption DEF ExclusionInvariant, OpeningIsLive, IsActive
  <2>5. Settles BY <2>2 DEF Settles, Busy
  <2> QED BY <2>1, <2>3, <2>4, <2>5 DEF ExclusionInvariant
<1>33. CASE UNCHANGED vars
  BY <1>33, StutterKeeps, SameSettles, PlainExclusion DEF vars, dictationVars, handlerVars, modelVars, shellVars, sessionState
<1> QED
  BY <1>1, <1>2, <1>3, <1>4, <1>5, <1>6, <1>7, <1>8, <1>9, <1>10, <1>11, <1>12,
     <1>13, <1>14, <1>15, <1>16, <1>17, <1>18, <1>19, <1>20, <1>21, <1>22, <1>23, <1>24,
     <1>25, <1>26, <1>27, <1>28, <1>29, <1>30, <1>31, <1>32, <1>33
  DEF Next, User, Timers, Renderer, Handlers, OpeningSteps, CallSteps, Shell

\* What every reachable state of the main process satisfies.
THEOREM SessionSafe == Spec => []IndInv
<1>1. IndInv /\ [Next]_vars => IndInv' BY StepHolds
<1> QED BY InitHolds, <1>1, PTL DEF Spec

\* No running dictation without its owner, no wait without its timer, no stream
\* without its dictation, no rejected audio left waiting.
THEOREM DictationStaysCoherent ==
  Spec => [](/\ BusyDictationIsActive /\ EveryWaitIsTimed
             /\ LiveStreamHasOwner /\ RejectedAudioLeavesFinalizing)
<1>1. IndInv => /\ BusyDictationIsActive /\ EveryWaitIsTimed
                /\ LiveStreamHasOwner /\ RejectedAudioLeavesFinalizing
  BY DEF IndInv, SessionInvariant
<1> QED BY SessionSafe, <1>1, PTL

\* One dictation, one insertion, however many calls are in flight for it.
THEOREM DeliveredOnce == Spec => [](DeliveredAtMostOnce /\ SuccessMeansDelivered)
<1>1. IndInv => DeliveredAtMostOnce /\ SuccessMeansDelivered BY DEF IndInv, SessionInvariant
<1> QED BY SessionSafe, <1>1, PTL

\* A call left behind can never insert late.
THEOREM InsertionIsFenced == Spec => []InsertionFollowsDictation
<1>1. IndInv => InsertionFollowsDictation BY DEF IndInv, SessionInvariant
<1> QED BY SessionSafe, <1>1, PTL

\* Model operations, a reset and an update exclude a dictation for any queue.
THEOREM WorkIsExclusive == Spec => [](ModelWorkExcludesDictation /\ UpdateExcludesWork)
<1>1. IndInv => ModelWorkExcludesDictation /\ UpdateExcludesWork
  BY DEF IndInv, ExclusionInvariant
<1> QED BY SessionSafe, <1>1, PTL

\* No state of the session waits for a user, a page or a worker without a watchdog: a
\* dictation cannot be stuck because its last timer was cleared by another handler.
THEOREM WaitsAreTimed == Spec => []EveryWaitIsTimed
<1>1. IndInv => EveryWaitIsTimed BY DEF IndInv, SessionInvariant
<1> QED BY SessionSafe, <1>1, PTL

\* A Live stream is never left open by a dictation that failed, ended or was replaced.
THEOREM StreamsAreOwned == Spec => []LiveStreamHasOwner
<1>1. IndInv => LiveStreamHasOwner BY DEF IndInv, SessionInvariant
<1> QED BY SessionSafe, <1>1, PTL

\* A dictation whose audio was refused does not wait in "finalizing" for audio that is gone.
THEOREM RefusedAudioEndsWait == Spec => []RejectedAudioLeavesFinalizing
<1>1. IndInv => RejectedAudioLeavesFinalizing BY DEF IndInv, SessionInvariant
<1> QED BY SessionSafe, <1>1, PTL

\* The pill says "success" only of a dictation whose text was inserted.
THEOREM SuccessIsTrue == Spec => []SuccessMeansDelivered
<1>1. IndInv => SuccessMeansDelivered BY DEF IndInv, SessionInvariant
<1> QED BY SessionSafe, <1>1, PTL

\* An update that is being prepared finds no dictation, no model operation and no reset.
THEOREM UpdatesAreAlone == Spec => []UpdateExcludesWork
<1>1. IndInv => UpdateExcludesWork BY DEF IndInv, ExclusionInvariant
<1> QED BY SessionSafe, <1>1, PTL

\* The two strengthenings the proofs rest on are what the runs check on small instances.
THEOREM SessionIsCoherent == Spec => []SessionInvariant
<1>1. IndInv => SessionInvariant BY DEF IndInv
<1> QED BY SessionSafe, <1>1, PTL

\* The same of the queue of model operations, a reset and an update.
THEOREM ExclusionIsCoherent == Spec => []ExclusionInvariant
<1>1. IndInv => ExclusionInvariant BY DEF IndInv
<1> QED BY SessionSafe, <1>1, PTL

-----------------------------------------------------------------------------
(* Action properties.                                                       *)

\* Only the insertion itself delivers, and Quit is never taken back.
LEMMA Frame ==
  [Next]_vars => /\ quitting => quitting'
                 /\ \/ UNCHANGED delivered
                    \/ \E k \in Kinds, id \in SessionIds : InsertionResolves(k, id)
<1> USE DEF handlerVars, modelVars, shellVars
<1>1. User => UNCHANGED <<delivered, quitting>>
  BY DEF User, Toggle, HoldPress, HoldRelease, SessionCancel
<1>2. Timers => UNCHANGED <<delivered, quitting>>
  BY DEF Timers, WatchdogFires, NoticeFires
<1>3. Renderer => UNCHANGED <<delivered, quitting>>
  BY DEF Renderer, SessionFail, SessionCancelLive, SessionBeginLive, SessionFinishLive,
         SessionTranscribe
<1>4. ASSUME NEW id \in SessionIds, OpeningSteps(id) PROVE UNCHANGED <<delivered, quitting>>
  BY <1>4 DEF OpeningSteps, BeginLiveResolved, BeginLiveOpened, BeginLiveFails
<1>5. ASSUME NEW k \in Kinds, NEW id \in SessionIds, CallSteps(k, id)
      PROVE  UNCHANGED quitting /\ (UNCHANGED delivered \/ InsertionResolves(k, id))
  BY <1>5 DEF CallSteps, AudioStaged, AudioStagingFails, ModelResolved, AudioDiscarded,
         Recognized, RecognitionFails, Targeted, Probed, InsertionResolves, InsertionFails,
             Completed
<1>6. ModelOperations => UNCHANGED <<delivered, quitting>>
  BY DEF ModelOperations, RequestModelOp, StartModelOp, ModelOpSettles, RequestReset,
      AnswerReset
<1>7. Shell => UNCHANGED delivered /\ (quitting => quitting')
  <2>1. PillLoaded \/ PillCrashes \/ WorkerExits \/ PrepareUpdate \/ CancelUpdate
          => UNCHANGED <<delivered, quitting>>
    BY DEF PillLoaded, PillCrashes, WorkerExits, PrepareUpdate, CancelUpdate
  <2>2. BeginShutdown => UNCHANGED delivered /\ quitting' BY DEF BeginShutdown
  <2> QED BY <2>1, <2>2 DEF Shell
<1>8. UNCHANGED vars => UNCHANGED <<delivered, quitting>> BY DEF vars
<1> QED BY <1>1, <1>2, <1>3, <1>4, <1>5, <1>6, <1>7, <1>8 DEF Next, Handlers

\* Text reaches the clipboard only while its own dictation is being completed.
THEOREM NoLateDelivery == Spec => DeliversOnlyLiveDictation
<1>1. IndInv /\ [Next]_vars =>
        [\A id \in SessionIds :
           delivered'[id] # delivered[id] =>
             session.state \in {"transcribing", "inserting"} /\ session.id = id]_vars
  <2> SUFFICES ASSUME IndInv, [Next]_vars, NEW d \in SessionIds, delivered'[d] # delivered[d]
               PROVE  session.state \in {"transcribing", "inserting"} /\ session.id = d
    OBVIOUS
  <2>1. PICK k \in Kinds, id \in SessionIds : InsertionResolves(k, id) BY Frame
  <2>2. /\ call[k][id] \in {"copying", "inserting"} /\ d = id /\ insertionOwner = id
    BY <2>1 DEF InsertionResolves, IndInv, TypeOK
  <2>3. IsActive(id) /\ InFlight(k, id)
    BY <2>2 DEF IndInv, SessionInvariant, InsertionFollowsDictation, InFlight
  <2> QED BY <2>2, <2>3 DEF IndInv, SessionInvariant, OneCallInFlight
<1> QED BY SessionSafe, <1>1, PTL DEF Spec, DeliversOnlyLiveDictation

\* No suspended handler shows a dictation that was left as running again.
THEOREM LeftStaysLeft == Spec => NoRevival
<1>1. IndInv /\ [Next]_vars =>
        [session'.state \in Busy /\ session'.id # session.id => session'.id \notin used]_vars
  BY StepHolds DEF Settles, Begins
<1> QED BY SessionSafe, <1>1, PTL DEF Spec, NoRevival

\* Once Quit has begun no answer, timer or call changes what the user sees.
THEOREM QuitIsQuiet == Spec => QuitIsFinal
<1>1. IndInv /\ IndInv' /\ [Next]_vars =>
        [quitting => UNCHANGED <<session, activeSessionId, delivered>>]_vars
  <2> SUFFICES ASSUME IndInv, IndInv', [Next]_vars, quitting
               PROVE  UNCHANGED <<session, activeSessionId, delivered>>
    OBVIOUS
  <2>1. quitting' BY Frame
  <2>2. UNCHANGED <<session, activeSessionId>> /\ insertionOwner = NoId
    BY <2>1 DEF IndInv, SessionInvariant, LiveFollowsDictation
  <2>3. ASSUME NEW k \in Kinds, NEW id \in SessionIds, InsertionResolves(k, id)
        PROVE  UNCHANGED delivered
    BY <2>2, <2>3, SessionAssumption DEF InsertionResolves
  <2> QED BY <2>2, <2>3, Frame
<1> QED BY SessionSafe, <1>1, PTL DEF Spec, QuitIsFinal

\* The hold key is only touched by its own handlers and by Quit, and only the
\* handlers that start a recording use an id up.
LEMMA HoldFrame ==
  [Next]_vars => /\ UNCHANGED holdDown \/ HoldPress \/ HoldRelease \/ BeginShutdown
                 /\ UNCHANGED used \/ HoldPress \/ Toggle
<1> USE DEF handlerVars, modelVars, shellVars
<1>1. User => /\ UNCHANGED holdDown \/ HoldPress \/ HoldRelease
              /\ UNCHANGED used \/ HoldPress \/ Toggle
  BY DEF User, Toggle, HoldRelease, SessionCancel
<1>2. Timers => UNCHANGED <<used, holdDown>> BY DEF Timers, WatchdogFires, NoticeFires
<1>3. Renderer => UNCHANGED <<used, holdDown>>
  BY DEF Renderer, SessionFail, SessionCancelLive, SessionBeginLive, SessionFinishLive,
         SessionTranscribe
<1>4. ASSUME NEW id \in SessionIds, OpeningSteps(id) PROVE UNCHANGED <<used, holdDown>>
  BY <1>4 DEF OpeningSteps, BeginLiveResolved, BeginLiveOpened, BeginLiveFails
<1>5. ASSUME NEW k \in Kinds, NEW id \in SessionIds, CallSteps(k, id)
      PROVE  UNCHANGED <<used, holdDown>>
  BY <1>5 DEF CallSteps, AudioStaged, AudioStagingFails, ModelResolved, AudioDiscarded,
         Recognized, RecognitionFails, Targeted, Probed, InsertionResolves, InsertionFails,
             Completed
<1>6. ModelOperations => UNCHANGED <<used, holdDown>>
  BY DEF ModelOperations, RequestModelOp, StartModelOp, ModelOpSettles, RequestReset,
      AnswerReset
<1>7. Shell => UNCHANGED used /\ (UNCHANGED holdDown \/ BeginShutdown)
  BY DEF Shell, PillLoaded, PillCrashes, WorkerExits, PrepareUpdate, CancelUpdate,
      BeginShutdown
<1>8. UNCHANGED vars => UNCHANGED <<used, holdDown>> BY DEF vars
<1> QED BY <1>1, <1>2, <1>3, <1>4, <1>5, <1>6, <1>7, <1>8 DEF Next, Handlers

\* A recording held open by a key never outlives the hold.
THEOREM HoldIsReleased == Spec => []HoldEndsWithKey
<1>1. Init => HoldEndsWithKey BY DEF Init, HoldEndsWithKey
<1>2. ASSUME IndInv, IndInv', HoldEndsWithKey, [Next]_vars,
             session'.state = "listening", session'.activation = "hold"
      PROVE  holdDown'
  <2>1. CASE Settles
    <3>1. UNCHANGED session /\ session.state = "listening" /\ session.activation = "hold" /\ holdDown
      BY <1>2, <2>1 DEF Settles, HoldEndsWithKey
    <3>2. ~HoldRelease
      <4>1. ASSUME FinishListening PROVE session'.state = "finalizing"
        BY <3>1, <4>1 DEF FinishListening, EnterBusy, Snapshot
      <4> QED BY <1>2, <3>1, <4>1 DEF HoldRelease
    <3>3. BeginShutdown => session'.state = "idle"
      BY DEF BeginShutdown, modelVars
    <3>4. ~BeginShutdown BY <3>1, <3>3
    <3> QED BY <1>2, <3>1, <3>2, <3>4, HoldFrame DEF HoldPress
  <2>2. CASE Begins
    <3>1. used' # used BY <2>2 DEF Begins
    <3>2. CASE Toggle
      <4>1. BeginListening("toggle") BY <2>2, <3>2 DEF Toggle, Begins, CanBegin, Resting
      <4>2. session'.activation = "toggle" \/ UNCHANGED session
        BY <3>1, <4>1 DEF BeginListening, dictationVars, Snapshot
      <4> QED BY <1>2, <2>2, <4>2 DEF Begins, CanBegin, Resting
    <3> QED BY <1>2, <3>1, <3>2, HoldFrame DEF HoldPress
  <2> QED BY <1>2, <2>1, <2>2, StepHolds
<1>3. IndInv /\ IndInv' /\ HoldEndsWithKey /\ [Next]_vars => HoldEndsWithKey'
  BY <1>2 DEF HoldEndsWithKey
<1> QED BY SessionSafe, <1>1, <1>3, PTL DEF Spec

-----------------------------------------------------------------------------
(* Refinement: the user's view of each dictation.                           *)

phases == [id \in SessionIds |-> Phase(id)]

Processing == Busy \ {"listening"}

\* Phase, without its CASE.
LEMMA PhaseIs ==
  ASSUME NEW id \in SessionIds
  PROVE  /\ id \notin used => Phase(id) = "new"
         /\ id \in used /\ delivered[id] > 0 => Phase(id) = "delivered"
         /\ id \in used /\ ~(delivered[id] > 0) =>
              /\ session.id = id /\ session.state = "listening" => Phase(id) = "recording"
              /\ session.id = id /\ session.state \in Processing => Phase(id) = "processing"
              /\ ~(session.id = id /\ session.state \in Busy) => Phase(id) = "ended"
BY DEF Phase, Processing, Busy

\* A dictation begins: the one step that touches a new one.
LEMMA BeginRefines ==
  ASSUME IndInv, IndInv', Begins, UNCHANGED delivered
  PROVE  Lifecycle!Next
<1>1. PICK id \in SessionIds \ used :
        /\ activeSessionId' = id /\ used' = used \union {id}
        /\ session'.state \in Busy => session'.state = "listening" /\ session'.id = id
  BY DEF Begins
<1>2. session.state \notin Busy BY DEF Begins, CanBegin, Busy, Resting
<1>3. delivered[id] = 0 BY DEF IndInv, SessionInvariant, DeliveryIsTracked
<1>4. \A e \in SessionIds : Phase(e) \notin {"recording", "processing"}
  BY <1>2, PhaseIs DEF Phase, Busy
<1>5. Phase(id) = "new" BY PhaseIs
<1>6. \A e \in SessionIds : e # id => Phase(e)' = Phase(e)
  BY <1>1, <1>2 DEF Phase, Busy
<1>7. Phase(id)' \in {"recording", "ended"}
  BY <1>1, <1>3 DEF Phase, Busy
<1>8. phases' = [phases EXCEPT ![id] = Phase(id)']
  BY <1>6 DEF phases
<1>9. CASE Phase(id)' = "recording"
  BY <1>4, <1>5, <1>8, <1>9
  DEF Lifecycle!Next, Lifecycle!Begin, Lifecycle!Move, Lifecycle!Open, phases
<1>10. CASE Phase(id)' = "ended"
  BY <1>5, <1>8, <1>10
  DEF Lifecycle!Next, Lifecycle!End, Lifecycle!Move, Lifecycle!Open, phases
<1> QED BY <1>7, <1>9, <1>10

\* It is stopped or given up, or nothing the user sees happens.
LEMMA SettleRefines ==
  ASSUME IndInv, IndInv', Settles, UNCHANGED delivered
  PROVE  Lifecycle!Next \/ UNCHANGED phases
<1>1. CASE \A e \in SessionIds : Phase(e)' = Phase(e)
  BY <1>1 DEF phases
<1>2. ASSUME NEW id \in SessionIds, Phase(id)' # Phase(id) PROVE Lifecycle!Next
  <2>1. /\ id \in used /\ ~(delivered[id] > 0)
        /\ session.id = id /\ session.state \in Busy
    BY <1>2 DEF Settles, Phase, Busy
  <2>2. \A e \in SessionIds : e # id => Phase(e)' = Phase(e)
    BY <2>1 DEF Settles, Phase, Busy
  <2>3. phases' = [phases EXCEPT ![id] = Phase(id)'] BY <2>2 DEF phases
  <2>4. \/ Phase(id) = "recording" /\ Phase(id)' = "processing"
        \/ Phase(id) \in {"recording", "processing"} /\ Phase(id)' = "ended"
    BY <1>2, <2>1 DEF Settles, Phase, Busy
  <2>5. CASE Phase(id) = "recording" /\ Phase(id)' = "processing"
    BY <2>3, <2>5 DEF Lifecycle!Next, Lifecycle!Stop, Lifecycle!Move, phases
  <2>6. CASE Phase(id) \in {"recording", "processing"} /\ Phase(id)' = "ended"
    BY <2>3, <2>6 DEF Lifecycle!Next, Lifecycle!End, Lifecycle!Move, Lifecycle!Open, phases
  <2> QED BY <2>4, <2>5, <2>6
<1> QED BY <1>1, <1>2

\* Its text is inserted.
LEMMA DeliverRefines ==
  ASSUME IndInv, IndInv', NEW k \in Kinds, NEW id \in SessionIds, InsertionResolves(k, id)
  PROVE  Lifecycle!Next \/ UNCHANGED phases
<1>1. /\ UNCHANGED <<session, used>>
      /\ delivered' = IF insertionOwner = id THEN [delivered EXCEPT ![id] = @ + 1] ELSE delivered
      /\ call[k][id] \in {"copying", "inserting"}
      /\ delivered \in [SessionIds -> Nat]
  BY DEF InsertionResolves, dictationVars, IndInv, TypeOK
<1>2. CASE insertionOwner # id BY <1>1, <1>2 DEF phases, Phase
<1>3. CASE insertionOwner = id
  <2>1. IsActive(id) /\ InFlight(k,
      id) /\ delivered'[id] <= 1 /\ delivered'[id] = delivered[id] + 1
    BY <1>1, <1>3
    DEF IndInv, SessionInvariant, InsertionFollowsDictation, DeliveredAtMostOnce, InFlight
  <2>2. session.id = id /\ session.state \in {"transcribing", "inserting"}
    BY <2>1 DEF IndInv, SessionInvariant, OneCallInFlight
  <2>3. id \in used BY <1>1 DEF IndInv, SessionInvariant, CallsAreOfBegunDictations
  <2>4. Phase(id) = "processing" /\ Phase(id)' = "delivered"
    BY <1>1, <2>1, <2>2, <2>3 DEF Phase, Busy
  <2>5. \A e \in SessionIds : e # id => Phase(e)' = Phase(e)
    BY <1>1 DEF Phase
  <2>6. phases' = [phases EXCEPT ![id] = "delivered"] BY <2>4, <2>5 DEF phases
  <2> QED BY <2>4, <2>6 DEF Lifecycle!Next, Lifecycle!Deliver, Lifecycle!Move, phases
<1> QED BY <1>2, <1>3

\* The main process implements the user's view of its dictations.
THEOREM RefinesLifecycle == Spec => ImplementsLifecycle
<1>1. Init => Lifecycle!Init
  BY PhaseIs DEF Init, Lifecycle!Init
<1>2. IndInv /\ IndInv' /\ [Next]_vars => [Lifecycle!Next]_phases
  <2> SUFFICES ASSUME IndInv, IndInv', [Next]_vars
               PROVE  Lifecycle!Next \/ UNCHANGED phases
    OBVIOUS
  <2>1. CASE UNCHANGED delivered BY <2>1, StepHolds, BeginRefines, SettleRefines
  <2>2. ASSUME NEW k \in Kinds, NEW id \in SessionIds, InsertionResolves(k, id)
        PROVE  Lifecycle!Next \/ UNCHANGED phases
    BY <2>2, DeliverRefines
  <2> QED BY <2>1, <2>2, Frame
<1>3. IndInv /\ IndInv' /\ [Next]_vars => [Lifecycle!Next]_[id \in SessionIds |-> Phase(id)]
  BY <1>2 DEF phases
<1> QED BY SessionSafe, <1>1, <1>3, PTL DEF Spec, ImplementsLifecycle, Lifecycle!Spec

-----------------------------------------------------------------------------
(* The microphone (AudioRecorder).  First what has to hold for it, in named parts. *)

CONSTANTS
  MaxSessions, MaxGenerations, \* bounds
  Streams,  \* the audio streams to a Live decoder
  Patient   \* nobody dictates again while a cancellation is going on

\* The variables of AudioRecorder; heldAudio is its `delivered'.
VARIABLES
  state, sid, starts, acquisitions, stops, joined, cancelling, rec, open, sinks, failing,
  heldAudio

Mic == INSTANCE AudioRecorder WITH Live <- Streams, delivered <- heldAudio

Working  == {"input", "default", "module", "closing"}
StopEnding == {"closing", "finishing", "aborting"}

\* An acquisition is the pending start until it succeeds or has failed.
Acquiring(g) ==
  LET a == acquisitions[g] IN
  /\ IF a.at = "none" THEN a.by = 0 ELSE g <= rec.generation /\ a.by # 0
  /\ a.at \in Working => rec.start = g /\ rec.startPending = g
  /\ a.at \in {"input", "default"} => rec.stream = 0 /\ ~rec.limitError
  /\ a.at = "module" /\ g = rec.generation /\ ~rec.limitError => rec.stream = g
  /\ (a.error = "none" <=> a.at \notin {"closing", "failed"})
  /\ a.at = "closing" => rec.live = 0
  /\ a.error = "cancelled" => g < rec.generation
  /\ a.at # "none" => starts[a.by] \in {"joined", "done"}

\* The recorder's fields go together.
Fields ==
  /\ rec.context = rec.stream /\ rec.node \in {0, rec.stream} /\ open \subseteq {rec.stream}
  /\ rec.start # 0 => acquisitions[rec.start].at \in Working \union {"ok"}
  /\ rec.stream # 0 => rec.start = rec.stream /\ acquisitions[rec.stream].at \in {"module", "ok"}
  /\ rec.live # 0 => rec.start # 0 /\ acquisitions[rec.start].by = rec.live
  /\ rec.startPending # 0 => acquisitions[rec.startPending].at \in Working
  /\ rec.limitError => rec.stopping \/ (rec.stream = 0 /\ rec.live = 0)
  /\ rec.stopping => rec.stop # 0 /\ stops[rec.stop].at \in StopEnding
  /\ ~Streams => rec.live = 0
  /\ rec.chunks # {} => rec.stream # 0 /\ rec.chunks = {acquisitions[rec.stream].by}

\* A stop waits for the start it found, and nothing is acquired meanwhile.
Stopping(s) ==
  /\ stops[s].at \notin {"none", "done"} => rec.stop = s
  /\ rec.stop = s => stops[s].at \notin {"none", "done"}
  /\ stops[s].at \in {"awaitsStart"} \union StopEnding /\ rec.start # 0
       => acquisitions[rec.start].at = "ok" \/ rec.start = stops[s].on
  /\ stops[s].at = "aborting" => rec.live = 0
  /\ stops[s].at \in StopEnding => open = {} /\ (rec.start # 0 => acquisitions[rec.start].at = "ok")

\* One call of start() has one acquisition.
OneEach == \A g, h \in 1 .. MaxGenerations :
  acquisitions[g].by = acquisitions[h].by /\ acquisitions[g].by # 0 => g = h
\* A dictation has a session, and a call that waits for its acquisition has one.
Waiting ==
  /\ state # "idle" => sid # 0
  /\ \A s \in 1 .. MaxSessions : s > sid => starts[s] = "none"
  /\ \A s \in 1 .. MaxSessions : starts[s] = "joined" => \E g \in 1 .. MaxGenerations : acquisitions[g].by = s

\* A cancellation has made every acquisition old, and what it tears down stays down.
Cancels ==
  /\ cancelling.at # "none" => rec.generation # 0 /\ acquisitions[rec.generation].at = "none"
  /\ cancelling.at \in {"closing", "awaitsStart", "closingAgain"} => rec.stream = 0 /\ rec.live = 0
  /\ cancelling.at = "closingAgain" /\ cancelling.start # 0 => acquisitions[cancelling.start].at \in {"ok", "failed"}

Invariant ==
  /\ Mic!TypeOK /\ Fields /\ OneEach /\ Waiting /\ Cancels
  /\ \A g \in 1 .. MaxGenerations : Acquiring(g)
  /\ \A s \in 1 .. MaxSessions : Stopping(s)
-----------------------------------------------------------------------------
(* The parts of the state *)

Acquisition == [at : {"none", "input", "default", "module", "closing", "ok", "failed"},
                by : 0 .. MaxSessions, error : {"none", "cancelled", "failed"}]
Stop == [at : {"none", "awaitsStart", "closing", "finishing", "aborting", "done"},
         on : 0 .. MaxGenerations, result : {"none", "audio", "cancelled", "failed"}, audio : SUBSET (1 .. MaxSessions)]
Cancellation == [at : {"none", "awaitsStop", "closing", "awaitsStart", "closingAgain"},
                 start : 0 .. MaxGenerations, stop : 0 .. MaxSessions, cleanup : BOOLEAN]
Recorder == [generation : 0 .. MaxGenerations, context : 0 .. MaxGenerations, stream : 0 .. MaxGenerations,
             node : 0 .. MaxGenerations, chunks : SUBSET (1 .. MaxSessions), limitError : BOOLEAN, limitSet : BOOLEAN,
             stopping : BOOLEAN, start : 0 .. MaxGenerations, startPending : 0 .. MaxGenerations, stop : 0 .. MaxSessions,
             cleanup : BOOLEAN, live : 0 .. MaxSessions, listener : 0 .. MaxSessions]

MicTypes ==
  /\ state \in {"idle", "listening", "finalizing", "transcribing"} /\ sid \in 0 .. MaxSessions
  /\ starts \in [1 .. MaxSessions -> {"none", "opening", "loop", "joined", "done"}]
  /\ acquisitions \in [1 .. MaxGenerations -> Acquisition]
  /\ stops \in [1 .. MaxSessions -> Stop] /\ joined \in [1 .. MaxSessions -> 0 .. MaxSessions]
  /\ cancelling \in Cancellation /\ rec \in Recorder /\ open \subseteq 1 .. MaxGenerations
  /\ sinks \in [1 .. MaxSessions -> {"none", "open", "closed"}]
  /\ failing \subseteq 1 .. MaxSessions /\ heldAudio \in [1 .. MaxSessions -> SUBSET (1 .. MaxSessions)]

LEMMA MicTypesAre == Mic!TypeOK <=> MicTypes
BY DEF Mic!TypeOK, MicTypes, Mic!Sessions, Mic!Generations, Acquisition, Stop, Cancellation, Recorder

LEMMA MicTypesNext == Mic!TypeOK' <=> MicTypes'
BY DEF Mic!TypeOK, MicTypes, Mic!Sessions, Mic!Generations, Acquisition, Stop, Cancellation, Recorder

LEMMA MicFacts ==
  ASSUME Mic!RecorderAssumption
  PROVE  /\ MaxSessions \in Nat /\ MaxGenerations \in Nat /\ Streams \in BOOLEAN /\ Patient \in BOOLEAN
         /\ Mic!Sessions = 1 .. MaxSessions /\ Mic!Generations = 1 .. MaxGenerations /\ Mic!None = 0
BY DEF Mic!RecorderAssumption, Mic!Sessions, Mic!Generations, Mic!None

LEMMA Nothing ==
  ASSUME Mic!RecorderAssumption
  PROVE  0 \in 0 .. MaxSessions /\ 0 \in 0 .. MaxGenerations /\ {} \in SUBSET (1 .. MaxSessions)
BY MicFacts

\* What the recorder's record is made of.
LEMMA RecorderIs ==
  ASSUME NEW r \in Recorder
  PROVE  /\ r.generation \in 0 .. MaxGenerations /\ r.context \in 0 .. MaxGenerations /\ r.stream \in 0 .. MaxGenerations
         /\ r.node \in 0 .. MaxGenerations /\ r.chunks \subseteq 1 .. MaxSessions /\ r.limitError \in BOOLEAN
         /\ r.limitSet \in BOOLEAN /\ r.stopping \in BOOLEAN /\ r.start \in 0 .. MaxGenerations
         /\ r.startPending \in 0 .. MaxGenerations /\ r.stop \in 0 .. MaxSessions /\ r.cleanup \in BOOLEAN
         /\ r.live \in 0 .. MaxSessions /\ r.listener \in 0 .. MaxSessions
BY DEF Recorder

\* Which of the fields two records share: where it listens, what limits it, and what is going on.
SameInput(r, q) == q.context = r.context /\ q.stream = r.stream /\ q.node = r.node /\ q.chunks = r.chunks
SameLimits(r, q) == q.limitError = r.limitError /\ q.limitSet = r.limitSet /\ q.listener = r.listener
SameStart(r, q) == q.generation = r.generation /\ q.start = r.start /\ q.startPending = r.startPending
SameStop(r, q) == q.stop = r.stop /\ q.stopping = r.stopping /\ q.cleanup = r.cleanup

NoInput(q) == q.context = 0 /\ q.stream = 0 /\ q.node = 0 /\ q.chunks = {}
NoLimits(q) == q.limitError = FALSE /\ q.limitSet = FALSE /\ q.listener = 0

LEMMA LimitsGo ==
  ASSUME Mic!RecorderAssumption, NEW r \in Recorder, NEW q, q = Mic!LimitReset(r)
  PROVE  q \in Recorder /\ SameInput(r, q) /\ NoLimits(q) /\ SameStart(r, q) /\ SameStop(r, q) /\ q.live = r.live
<1>1. PICK b \in BOOLEAN : b = FALSE OBVIOUS
<1>2. q = [r EXCEPT !.limitError = b, !.limitSet = b, !.listener = 0] BY <1>1 DEF Mic!LimitReset, Mic!None
<1>3. q \in Recorder BY <1>2, Nothing DEF Recorder
<1>4. SameInput(r, q) /\ q.live = r.live BY <1>2 DEF Recorder, SameInput
<1>5. SameStart(r, q) BY <1>2 DEF Recorder, SameStart
<1>6. SameStop(r, q) BY <1>2 DEF Recorder, SameStop
<1>7. q.limitError = b /\ q.limitSet = b /\ q.listener = 0 BY <1>2 DEF Recorder
<1> QED BY <1>1, <1>3, <1>4, <1>5, <1>6, <1>7 DEF NoLimits

LEMMA InputGoes ==
  ASSUME Mic!RecorderAssumption, NEW r \in Recorder, NEW q, q = [Mic!Released(r) EXCEPT !.live = 0]
  PROVE  q \in Recorder /\ NoInput(q) /\ SameLimits(r, q) /\ SameStart(r, q) /\ SameStop(r, q) /\ q.live = 0
<1>1. q = [r EXCEPT !.context = 0, !.stream = 0, !.node = 0, !.chunks = {}, !.live = 0]
  BY DEF Mic!Released, Mic!None, Recorder
<1>2. q \in Recorder BY <1>1, Nothing DEF Recorder
<1>3. NoInput(q) /\ q.live = 0 BY <1>1 DEF Recorder, NoInput
<1>4. SameLimits(r, q) BY <1>1 DEF Recorder, SameLimits
<1>5. SameStart(r, q) BY <1>1 DEF Recorder, SameStart
<1>6. SameStop(r, q) BY <1>1 DEF Recorder, SameStop
<1> QED BY <1>2, <1>3, <1>4, <1>5, <1>6

LEMMA TearingEnds ==
  ASSUME Mic!RecorderAssumption, NEW r \in Recorder, NEW q, q = Mic!TornDown(r)
  PROVE  q \in Recorder /\ SameInput(r, q) /\ NoLimits(q) /\ SameStart(r, q)
         /\ q.stop = r.stop /\ q.stopping = FALSE /\ q.cleanup = r.cleanup /\ q.live = r.live
<1>1. PICK b \in BOOLEAN : b = FALSE OBVIOUS
<1>2. PICK p : p = Mic!LimitReset(r) OBVIOUS
<1>3. p \in Recorder /\ SameInput(r, p) /\ NoLimits(p) /\ SameStart(r, p) /\ SameStop(r, p) /\ p.live = r.live BY <1>2, LimitsGo
<1>4. q = [p EXCEPT !.stopping = b] BY <1>1, <1>2 DEF Mic!TornDown
<1>5. q \in Recorder /\ SameInput(p, q) /\ SameLimits(p, q) /\ SameStart(p, q)
      /\ q.stop = p.stop /\ q.stopping = b /\ q.cleanup = p.cleanup /\ q.live = p.live
  BY <1>3, <1>4 DEF Recorder, SameInput, SameStart, SameLimits
<1> QED BY <1>1, <1>3, <1>5 DEF SameInput, SameStart, SameStop, SameLimits, NoLimits

LEMMA StoppingEnds ==
  ASSUME Mic!RecorderAssumption, NEW r \in Recorder, NEW q, q = Mic!AfterStop(r)
  PROVE  q \in Recorder /\ NoInput(q) /\ NoLimits(q) /\ q.generation = r.generation /\ q.start = 0
         /\ q.startPending = r.startPending /\ q.stop = r.stop /\ q.stopping = FALSE /\ q.cleanup = FALSE /\ q.live = 0
<1>1. PICK b \in BOOLEAN : b = FALSE OBVIOUS
<1>2. PICK p : p = [r EXCEPT !.context = 0, !.stream = 0, !.node = 0, !.chunks = {}, !.start = 0, !.live = 0,
                             !.cleanup = b, !.stopping = b] OBVIOUS
<1>6. p \in Recorder BY <1>2, Nothing DEF Recorder
<1>7. NoInput(p) BY <1>2 DEF Recorder, NoInput
<1>8. p.generation = r.generation /\ p.start = 0 /\ p.startPending = r.startPending BY <1>2 DEF Recorder
<1>9. p.stop = r.stop /\ p.stopping = b /\ p.cleanup = b /\ p.live = 0 BY <1>2 DEF Recorder
<1>3. p \in Recorder /\ NoInput(p) /\ p.generation = r.generation /\ p.start = 0
      /\ p.startPending = r.startPending /\ p.stop = r.stop /\ p.stopping = b /\ p.cleanup = b /\ p.live = 0
  BY <1>6, <1>7, <1>8, <1>9
<1>4. q = Mic!LimitReset(p)
  BY <1>1, <1>2 DEF Mic!AfterStop, Mic!Released, Mic!None, Recorder
<1>5. q \in Recorder /\ SameInput(p, q) /\ NoLimits(q) /\ SameStart(p, q) /\ SameStop(p, q) /\ q.live = p.live
  BY <1>3, <1>4, LimitsGo
<1> QED BY <1>1, <1>3, <1>5 DEF SameInput, SameStart, SameStop, NoInput

\* An acquisition goes on: where it is and what it failed with.
Goes(f, g, at, error) ==
  /\ f \in [1 .. MaxGenerations -> Acquisition]
  /\ f[g].at = at /\ f[g].by = acquisitions[g].by /\ f[g].error = error
  /\ \A h \in 1 .. MaxGenerations : h # g => f[h] = acquisitions[h]

LEMMA AcquisitionGoes ==
  ASSUME Mic!RecorderAssumption, MicTypes, NEW g \in 1 .. MaxGenerations,
         NEW at \in {"none", "input", "default", "module", "closing", "ok", "failed"},
         NEW error \in {"none", "cancelled", "failed"}, NEW f,
         f = [acquisitions EXCEPT ![g].at = at, ![g].error = error]
  PROVE  Goes(f, g, at, error)
<1>1. acquisitions \in [1 .. MaxGenerations -> Acquisition] BY DEF MicTypes
<1>2. acquisitions[g] \in Acquisition BY <1>1
<1>3. PICK a : a = [acquisitions[g] EXCEPT !.at = at, !.error = error] OBVIOUS
<1>4. a \in Acquisition /\ a.at = at /\ a.by = acquisitions[g].by /\ a.error = error BY <1>2, <1>3 DEF Acquisition
<1>5. f = [acquisitions EXCEPT ![g] = a] BY <1>1, <1>2, <1>3 DEF Acquisition
<1> QED BY <1>1, <1>4, <1>5 DEF Goes

LEMMA SinkGoes ==
  ASSUME Mic!RecorderAssumption, MicTypes, NEW f, f = Mic!SinkAborted
  PROVE  /\ f \in [1 .. MaxSessions -> {"none", "open", "closed"}]
         /\ \A s \in 1 .. MaxSessions : f[s] = IF s = rec.live THEN "closed" ELSE sinks[s]
<1>1. sinks \in [1 .. MaxSessions -> {"none", "open", "closed"}] /\ rec.live \in 0 .. MaxSessions
  BY RecorderIs DEF MicTypes
<1>2. CASE rec.live = 0 BY <1>1, <1>2, MicFacts DEF Mic!SinkAborted, Mic!None
<1>3. CASE rec.live # 0 BY <1>1, <1>3, MicFacts DEF Mic!SinkAborted, Mic!None
<1> QED BY <1>2, <1>3

\* What the types say of the parts.
LEMMA PartsAre ==
  ASSUME MicTypes
  PROVE  /\ rec \in Recorder /\ cancelling \in Cancellation /\ open \subseteq 1 .. MaxGenerations
         /\ \A g \in 1 .. MaxGenerations : acquisitions[g] \in Acquisition
         /\ \A s \in 1 .. MaxSessions : stops[s] \in Stop
BY DEF MicTypes

LEMMA InvariantIs ==
  ASSUME Mic!RecorderAssumption, Invariant
  PROVE  /\ MicTypes /\ Fields /\ OneEach /\ Waiting /\ Cancels
         /\ \A g \in 1 .. MaxGenerations : Acquiring(g)
         /\ \A s \in 1 .. MaxSessions : Stopping(s)
BY MicTypesAre DEF Invariant

LEMMA InvariantNext ==
  ASSUME MicTypes', Fields', OneEach', Waiting', Cancels',
         \A g \in 1 .. MaxGenerations : Acquiring(g)', \A s \in 1 .. MaxSessions : Stopping(s)'
  PROVE  Invariant'
BY MicTypesNext DEF Invariant

\* Without a stream there is no microphone, and nothing was heard.
LEMMA NothingHeard ==
  ASSUME Mic!RecorderAssumption, Invariant, rec.stream = 0
  PROVE  rec.context = 0 /\ rec.node = 0 /\ rec.chunks = {} /\ open = {}
<1>1. Fields /\ open \subseteq 1 .. MaxGenerations BY InvariantIs, PartsAre
<1>2. open \subseteq {0} BY <1>1 DEF Fields
<1>3. open = {} BY <1>1, <1>2, MicFacts
<1>4. rec.context = 0 BY <1>1 DEF Fields
<1>5. rec.node = 0 BY <1>1 DEF Fields
<1>6. rec.chunks = {} BY <1>1 DEF Fields
<1> QED BY <1>3, <1>4, <1>5, <1>6

\* A stop that has begun to close found its start acquired, and has closed the microphone.
LEMMA StopIsEnding ==
  ASSUME Mic!RecorderAssumption, Invariant, NEW s \in 1 .. MaxSessions, stops[s].at \in StopEnding
  PROVE  rec.stop = s /\ open = {} /\ (rec.start # 0 => acquisitions[rec.start].at = "ok")
<1>1. Stopping(s) BY InvariantIs
<1> QED BY <1>1 DEF Stopping, StopEnding

LEMMA EndsOne ==
  ASSUME Mic!RecorderAssumption, Invariant
  PROVE  rec.stopping => rec.stop \in 1 .. MaxSessions /\ stops[rec.stop].at \in StopEnding
<1>1. Fields /\ rec \in Recorder BY InvariantIs, PartsAre
<1>2. rec.stopping => rec.stop # 0 /\ stops[rec.stop].at \in StopEnding BY <1>1 DEF Fields
<1>3. rec.stop \in 0 .. MaxSessions BY <1>1, RecorderIs
<1>4. rec.stop # 0 => rec.stop \in 1 .. MaxSessions BY <1>3, MicFacts
<1> QED BY <1>2, <1>4

\* Nothing is acquired while a cancellation goes on.
LEMMA CancelsKept ==
  ASSUME Cancels, acquisitions' = acquisitions, cancelling' = cancelling, rec'.generation = rec.generation,
         rec'.stream \in {0, rec.stream}, rec'.live \in {0, rec.live}
  PROVE  Cancels'
BY DEF Cancels

LEMMA CancelsStay ==
  ASSUME Mic!RecorderAssumption, Invariant, NEW g \in 1 .. MaxGenerations, acquisitions[g].at \in Working,
         \A h \in 1 .. MaxGenerations : h # g => acquisitions'[h] = acquisitions[h], cancelling' = cancelling,
         rec'.generation = rec.generation, rec.stream = 0 => rec'.stream = 0 \/ g = rec.generation,
         rec.live = 0 => rec'.live = 0
  PROVE  Cancels'
<1> USE MicFacts
<1>1. Cancels /\ cancelling \in Cancellation /\ rec \in Recorder BY InvariantIs, PartsAre
<1>2. cancelling.start \in 0 .. MaxGenerations /\ rec.generation \in 0 .. MaxGenerations BY <1>1, RecorderIs DEF Cancellation
<1>3. acquisitions[g].at \notin {"none", "ok", "failed"} BY DEF Working
<1>4. cancelling.at # "none" => rec.generation \in 1 .. MaxGenerations /\ rec.generation # g BY <1>1, <1>2, <1>3 DEF Cancels
<1>5. cancelling.at = "closingAgain" /\ cancelling.start # 0 => cancelling.start \in 1 .. MaxGenerations /\ cancelling.start # g
  BY <1>1, <1>2, <1>3 DEF Cancels
<1>6. (cancelling.at # "none" => rec.generation # 0 /\ acquisitions[rec.generation].at = "none")' BY <1>1, <1>4 DEF Cancels
<1>7. (cancelling.at \in {"closing", "awaitsStart", "closingAgain"} => rec.stream = 0 /\ rec.live = 0)'
  BY <1>1, <1>4 DEF Cancels
<1>8. (cancelling.at = "closingAgain" /\ cancelling.start # 0 => acquisitions[cancelling.start].at \in {"ok", "failed"})'
  BY <1>1, <1>5 DEF Cancels
<1> QED BY <1>6, <1>7, <1>8 DEF Cancels

\* The acquisition of a microphone throws.
LEMMA ThrowsStep ==
  ASSUME Mic!RecorderAssumption, Invariant, NEW g \in 1 .. MaxGenerations,
         acquisitions[g].at \in {"input", "default", "module"}, ~Mic!Ready, Mic!Throws(g, {}),
         UNCHANGED <<state, sid, starts, stops, joined, cancelling, failing, heldAudio>>
  PROVE  Invariant'
<1> USE MicFacts
<1>1. /\ MicTypes /\ Fields /\ OneEach /\ Waiting /\ Cancels /\ \A h \in 1 .. MaxGenerations : Acquiring(h)
      /\ \A s \in 1 .. MaxSessions : Stopping(s)
  BY InvariantIs
<1>2. /\ rec' \in Recorder /\ NoInput(rec') /\ SameLimits(rec, rec') /\ SameStart(rec, rec') /\ SameStop(rec, rec') /\ rec'.live = 0
  BY <1>1, PartsAre, InputGoes DEF Mic!Throws, Mic!None
<1>3. PICK e \in {"cancelled", "failed"} : e = IF Mic!Stale(g) THEN "cancelled" ELSE "failed" OBVIOUS
<1>4. /\ acquisitions' \in [1 .. MaxGenerations -> Acquisition]
      /\ acquisitions'[g].at = "closing" /\ acquisitions'[g].by = acquisitions[g].by /\ acquisitions'[g].error = e
      /\ \A h \in 1 .. MaxGenerations : h # g => acquisitions'[h] = acquisitions[h]
  <2>1. acquisitions' = [acquisitions EXCEPT ![g].at = "closing", ![g].error = e] BY <1>3 DEF Mic!Throws
  <2>2. e \in {"none", "cancelled", "failed"} /\ "closing" \in {"none", "input", "default", "module", "closing", "ok", "failed"} OBVIOUS
  <2>3. MicTypes BY <1>1
  <2>4. Goes(acquisitions', g, "closing", e) BY <2>1, <2>2, <2>3, AcquisitionGoes
  <2> QED BY <2>4 DEF Goes
<1>5. /\ sinks' \in [1 .. MaxSessions -> {"none", "open", "closed"}]
      /\ \A s \in 1 .. MaxSessions : sinks'[s] = IF s = rec.live THEN "closed" ELSE sinks[s]
  BY <1>1, SinkGoes DEF Mic!Throws
<1>6. open' = {} BY <1>1 DEF Mic!Throws, Mic!Closed, Fields
<1>t. MicTypes' BY <1>1, <1>2, <1>4, <1>5, <1>6 DEF MicTypes
<1>r. /\ rec.start \in 0 .. MaxGenerations /\ rec.generation \in 0 .. MaxGenerations /\ rec.stream \in 0 .. MaxGenerations /\ rec.startPending \in 0 .. MaxGenerations
      /\ rec.stop \in 0 .. MaxSessions /\ acquisitions[g].at \in Working
  BY <1>1, PartsAre, RecorderIs DEF Working
<1>b. rec.start = g BY <1>1, <1>r DEF Acquiring
<1>q. /\ rec'.start = rec.start /\ rec'.startPending = rec.startPending /\ rec'.generation = rec.generation
      /\ rec'.stop = rec.stop /\ rec'.stopping = rec.stopping /\ rec'.cleanup = rec.cleanup
      /\ rec'.limitError = rec.limitError /\ rec'.limitSet = rec.limitSet /\ rec'.listener = rec.listener
      /\ rec'.context = 0 /\ rec'.stream = 0 /\ rec'.node = 0 /\ rec'.chunks = {} /\ rec'.live = 0
  BY <1>2 DEF NoInput, SameLimits, SameStart, SameStop
<1>f. Fields' BY <1>1, <1>4, <1>q, <1>r, <1>6 DEF Fields, Working
<1>o. OneEach' BY <1>1, <1>4 DEF OneEach
<1>w. Waiting' BY <1>1, <1>4 DEF Waiting
<1>z. Cancels' BY <1>4, <1>q, <1>r, CancelsStay
<1>a. ASSUME NEW h \in 1 .. MaxGenerations PROVE Acquiring(h)'
  <2>1. Acquiring(h) /\ Acquiring(g) BY <1>1
  <2>2. CASE h = g BY <1>r, <2>1, <1>3, <1>4, <1>q, <2>2 DEF Acquiring, Working, Mic!Stale
  <2>3. CASE h # g BY <1>r, <2>1, <2>3, <1>4, <1>q DEF Acquiring, Working
  <2> QED BY <2>2, <2>3
<1>s. ASSUME NEW s \in 1 .. MaxSessions PROVE Stopping(s)' BY <1>1, <1>r, <1>b, <1>4, <1>6, <1>q DEF Stopping, Working, StopEnding
<1> QED BY <1>t, <1>f, <1>o, <1>w, <1>z, <1>a, <1>s, InvariantNext

LEMMA AcquisitionMoves ==
  ASSUME Mic!RecorderAssumption, MicTypes, NEW g \in 1 .. MaxGenerations,
         NEW at \in {"none", "input", "default", "module", "closing", "ok", "failed"}, NEW f,
         f = [acquisitions EXCEPT ![g].at = at]
  PROVE  Goes(f, g, at, acquisitions[g].error)
<1>1. acquisitions \in [1 .. MaxGenerations -> Acquisition] BY DEF MicTypes
<1>2. acquisitions[g] \in Acquisition BY <1>1
<1>3. PICK a : a = [acquisitions[g] EXCEPT !.at = at] OBVIOUS
<1>4. a \in Acquisition /\ a.at = at /\ a.by = acquisitions[g].by /\ a.error = acquisitions[g].error
  BY <1>2, <1>3 DEF Acquisition
<1>5. f = [acquisitions EXCEPT ![g] = a] BY <1>1, <1>2, <1>3 DEF Acquisition
<1> QED BY <1>1, <1>4, <1>5 DEF Goes

\* The saved device is gone.
LEMMA FallsBackStep ==
  ASSUME Mic!RecorderAssumption, Invariant, NEW g \in 1 .. MaxGenerations, Mic!FallsBack(g),
         UNCHANGED <<rec, open, sinks, state, sid, starts, stops, joined, cancelling, failing, heldAudio>>
  PROVE  Invariant'
<1> USE MicFacts
<1>1. /\ MicTypes /\ Fields /\ OneEach /\ Waiting /\ Cancels /\ \A h \in 1 .. MaxGenerations : Acquiring(h)
      /\ \A s \in 1 .. MaxSessions : Stopping(s)
  BY InvariantIs
<1>2. Goes(acquisitions', g, "default", acquisitions[g].error) BY <1>1, AcquisitionMoves DEF Mic!FallsBack
<1>3. acquisitions[g].at = "input" BY DEF Mic!FallsBack
<1>4. /\ acquisitions' \in [1 .. MaxGenerations -> Acquisition]
      /\ acquisitions'[g].at = "default" /\ acquisitions'[g].by = acquisitions[g].by
      /\ acquisitions'[g].error = acquisitions[g].error
      /\ \A h \in 1 .. MaxGenerations : h # g => acquisitions'[h] = acquisitions[h]
  BY <1>2 DEF Goes
<1>r. /\ rec.start \in 0 .. MaxGenerations /\ rec.generation \in 0 .. MaxGenerations /\ rec.stream \in 0 .. MaxGenerations
      /\ rec.startPending \in 0 .. MaxGenerations
  BY <1>1, PartsAre, RecorderIs
<1>t. MicTypes' BY <1>1, <1>4 DEF MicTypes
<1>f. Fields' BY <1>1, <1>3, <1>4, <1>r DEF Fields, Working
<1>o. OneEach' BY <1>1, <1>4 DEF OneEach
<1>w. Waiting' BY <1>1, <1>4 DEF Waiting
<1>z. Cancels'
  <2>1. acquisitions[g].at \in Working BY <1>3 DEF Working
  <2> QED BY <1>4, <2>1, CancelsStay
<1>a. ASSUME NEW h \in 1 .. MaxGenerations PROVE Acquiring(h)' BY <1>1, <1>3, <1>4 DEF Acquiring, Working
<1>s. ASSUME NEW s \in 1 .. MaxSessions PROVE Stopping(s)' BY <1>1, <1>3, <1>4, <1>r DEF Stopping
<1> QED BY <1>t, <1>f, <1>o, <1>w, <1>z, <1>a, <1>s, InvariantNext

\* The microphone is open.
LEMMA OpensStep ==
  ASSUME Mic!RecorderAssumption, Invariant, NEW g \in 1 .. MaxGenerations,
         acquisitions[g].at \in {"input", "default"}, ~Mic!Stale(g),
         rec' = [rec EXCEPT !.stream = g, !.context = g], open' = open \union {g},
         acquisitions' = [acquisitions EXCEPT ![g].at = "module"],
         UNCHANGED <<sinks, state, sid, starts, stops, joined, cancelling, failing, heldAudio>>
  PROVE  Invariant'
<1> USE MicFacts
<1>1. /\ MicTypes /\ Fields /\ OneEach /\ Waiting /\ Cancels /\ \A h \in 1 .. MaxGenerations : Acquiring(h)
      /\ \A s \in 1 .. MaxSessions : Stopping(s)
  BY InvariantIs
<1>2. Goes(acquisitions', g, "module", acquisitions[g].error) BY <1>1, AcquisitionMoves
<1>4. /\ acquisitions' \in [1 .. MaxGenerations -> Acquisition]
      /\ acquisitions'[g].at = "module" /\ acquisitions'[g].by = acquisitions[g].by
      /\ acquisitions'[g].error = acquisitions[g].error
      /\ \A h \in 1 .. MaxGenerations : h # g => acquisitions'[h] = acquisitions[h]
  BY <1>2 DEF Goes
<1>r. /\ rec.start \in 0 .. MaxGenerations /\ rec.generation = g /\ rec.stream \in 0 .. MaxGenerations
      /\ rec.startPending \in 0 .. MaxGenerations /\ rec.stop \in 0 .. MaxSessions /\ rec \in Recorder
  BY <1>1, PartsAre, RecorderIs DEF Mic!Stale
<1>b. rec.start = g /\ rec.startPending = g /\ rec.stream = 0 /\ ~rec.limitError
  BY <1>1 DEF Acquiring, Working
<1>q1. rec' \in Recorder BY <1>r DEF Recorder
<1>q2. /\ rec'.start = rec.start /\ rec'.startPending = rec.startPending /\ rec'.generation = rec.generation
       /\ rec'.stop = rec.stop /\ rec'.stopping = rec.stopping /\ rec'.cleanup = rec.cleanup
  BY <1>r DEF Recorder
<1>q3. /\ rec'.limitError = rec.limitError /\ rec'.limitSet = rec.limitSet /\ rec'.listener = rec.listener
       /\ rec'.node = rec.node /\ rec'.chunks = rec.chunks /\ rec'.live = rec.live
  BY <1>r DEF Recorder
<1>q4. rec'.context = g /\ rec'.stream = g BY <1>r DEF Recorder
<1>t. MicTypes' BY <1>1, <1>4, <1>q1 DEF MicTypes
<1>f. Fields'
  <2>0. open \subseteq {0} /\ open \subseteq 1 .. MaxGenerations BY <1>1, <1>b, PartsAre DEF Fields
  <2>1. rec.node = 0 /\ open = {} /\ rec.chunks = {} BY <1>1, <1>b, <2>0 DEF Fields
  <2>2. ~rec.stopping BY <1>1, <1>r, <1>b DEF Fields, Stopping
  <2>3. rec.live # 0 => acquisitions[g].by = rec.live BY <1>1, <1>b DEF Fields
  <2>4. ~Streams => rec.live = 0 BY <1>1 DEF Fields
  <2> QED BY <1>4, <1>b, <1>q2, <1>q3, <1>q4, <2>1, <2>2, <2>3, <2>4 DEF Fields, Working
<1>o. OneEach' BY <1>1, <1>4 DEF OneEach
<1>w. Waiting' BY <1>1, <1>4 DEF Waiting
<1>z. Cancels'
  <2>1. acquisitions[g].at \in Working BY DEF Working
  <2> QED BY <1>4, <1>q2, <1>q3, <1>r, <2>1, CancelsStay
<1>a. ASSUME NEW h \in 1 .. MaxGenerations PROVE Acquiring(h)'
  <2>1. Acquiring(h) /\ Acquiring(g) BY <1>1
  <2>2. CASE h = g BY <1>4, <1>b, <1>r, <1>q2, <1>q3, <1>q4, <2>1, <2>2 DEF Acquiring, Working
  <2>3. CASE h # g BY <1>b, <2>1, <2>3, <1>4, <1>q2, <1>q3, <1>q4 DEF Acquiring, Working
  <2> QED BY <2>2, <2>3
<1>s. ASSUME NEW s \in 1 .. MaxSessions PROVE Stopping(s)' BY <1>1, <1>r, <1>b, <1>4, <1>q2, <1>q3 DEF Stopping
<1> QED BY <1>t, <1>f, <1>o, <1>w, <1>z, <1>a, <1>s, InvariantNext

\* It is set up: the recorder hears, and its limits are set.
LEMMA HearsStep ==
  ASSUME Mic!RecorderAssumption, Invariant, NEW g \in 1 .. MaxGenerations,
         acquisitions[g].at = "module", ~Mic!Stale(g), ~rec.limitError,
         rec' = [rec EXCEPT !.node = g, !.limitSet = TRUE, !.startPending = Mic!None],
         acquisitions' = [acquisitions EXCEPT ![g].at = "ok"],
         UNCHANGED <<open, sinks, state, sid, starts, stops, joined, cancelling, failing, heldAudio>>
  PROVE  Invariant'
<1> USE MicFacts
<1>1. /\ MicTypes /\ Fields /\ OneEach /\ Waiting /\ Cancels /\ \A h \in 1 .. MaxGenerations : Acquiring(h)
      /\ \A s \in 1 .. MaxSessions : Stopping(s)
  BY InvariantIs
<1>2. Goes(acquisitions', g, "ok", acquisitions[g].error) BY <1>1, AcquisitionMoves
<1>4. /\ acquisitions' \in [1 .. MaxGenerations -> Acquisition]
      /\ acquisitions'[g].at = "ok" /\ acquisitions'[g].by = acquisitions[g].by
      /\ acquisitions'[g].error = acquisitions[g].error
      /\ \A h \in 1 .. MaxGenerations : h # g => acquisitions'[h] = acquisitions[h]
  BY <1>2 DEF Goes
<1>r. /\ rec.start \in 0 .. MaxGenerations /\ rec.generation = g /\ rec.stream \in 0 .. MaxGenerations
      /\ rec.startPending \in 0 .. MaxGenerations /\ rec.stop \in 0 .. MaxSessions /\ rec \in Recorder
  BY <1>1, PartsAre, RecorderIs DEF Mic!Stale
<1>b. rec.start = g /\ rec.startPending = g /\ rec.stream = g BY <1>1, <1>r DEF Acquiring, Working
<1>q0. PICK b \in BOOLEAN : b = TRUE OBVIOUS
<1>q. rec' = [rec EXCEPT !.node = g, !.limitSet = b, !.startPending = 0] BY <1>q0
<1>q1. rec' \in Recorder
  <2>1. 0 \in 0 .. MaxGenerations /\ g \in 0 .. MaxGenerations OBVIOUS
  <2> QED BY <1>r, <1>q, <2>1 DEF Recorder
<1>q2. /\ rec'.start = rec.start /\ rec'.startPending = 0 /\ rec'.generation = rec.generation
       /\ rec'.stop = rec.stop /\ rec'.stopping = rec.stopping /\ rec'.cleanup = rec.cleanup
  BY <1>r, <1>q DEF Recorder
<1>q3. /\ rec'.limitError = rec.limitError /\ rec'.listener = rec.listener
       /\ rec'.context = rec.context /\ rec'.stream = rec.stream /\ rec'.chunks = rec.chunks /\ rec'.live = rec.live
  BY <1>r, <1>q DEF Recorder
<1>q4. rec'.node = g BY <1>r, <1>q DEF Recorder
<1>t. MicTypes' BY <1>1, <1>4, <1>q1 DEF MicTypes
<1>f. Fields' BY <1>1, <1>b, <1>r, <1>4, <1>q2, <1>q3, <1>q4 DEF Fields, Stopping, Working
<1>o. OneEach' BY <1>1, <1>4 DEF OneEach
<1>w. Waiting' BY <1>1, <1>4 DEF Waiting
<1>z. Cancels'
  <2>1. acquisitions[g].at \in Working BY DEF Working
  <2> QED BY <1>4, <1>q2, <1>q3, <1>r, <2>1, CancelsStay
<1>a. ASSUME NEW h \in 1 .. MaxGenerations PROVE Acquiring(h)'
  <2>1. Acquiring(h) /\ Acquiring(g) BY <1>1
  <2>2. CASE h = g BY <1>4, <1>b, <1>r, <1>q2, <1>q3, <1>q4, <2>1, <2>2 DEF Acquiring, Working
  <2>3. CASE h # g BY <1>b, <2>1, <2>3, <1>4, <1>q2, <1>q3, <1>q4 DEF Acquiring, Working
  <2> QED BY <2>2, <2>3
<1>s. ASSUME NEW s \in 1 .. MaxSessions PROVE Stopping(s)' BY <1>1, <1>r, <1>b, <1>4, <1>q2, <1>q3 DEF Stopping
<1> QED BY <1>t, <1>f, <1>o, <1>w, <1>z, <1>a, <1>s, InvariantNext

LEMMA InputAnsweredStep ==
  ASSUME Mic!RecorderAssumption, Invariant, NEW g \in 1 .. MaxGenerations, Mic!InputAnswered(g)
  PROVE  Invariant'
<1>1. CASE Mic!FallsBack(g) /\ UNCHANGED <<rec, open, sinks>> BY <1>1, FallsBackStep DEF Mic!InputAnswered
<1>2. CASE Mic!Throws(g, {}) BY <1>2, ThrowsStep DEF Mic!InputAnswered
<1>3. CASE /\ ~Mic!Stale(g) /\ rec' = [rec EXCEPT !.stream = g, !.context = g] /\ open' = open \union {g}
           /\ acquisitions' = [acquisitions EXCEPT ![g].at = "module"] /\ UNCHANGED sinks
  BY <1>3, OpensStep DEF Mic!InputAnswered
<1> QED BY <1>1, <1>2, <1>3 DEF Mic!InputAnswered

LEMMA ModuleAnsweredStep ==
  ASSUME Mic!RecorderAssumption, Invariant, NEW g \in 1 .. MaxGenerations, Mic!ModuleAnswered(g)
  PROVE  Invariant'
<1>1. CASE Mic!Throws(g, {}) BY <1>1, ThrowsStep DEF Mic!ModuleAnswered
<1>2. CASE /\ ~rec.limitError /\ ~Mic!Stale(g)
           /\ rec' = [rec EXCEPT !.node = g, !.limitSet = TRUE, !.startPending = Mic!None]
           /\ acquisitions' = [acquisitions EXCEPT ![g].at = "ok"] /\ UNCHANGED <<open, sinks>>
  BY <1>2, HearsStep DEF Mic!ModuleAnswered
<1> QED BY <1>1, <1>2 DEF Mic!ModuleAnswered

\* The one that threw has closed what it had opened.
LEMMA ThrowClosesStep ==
  ASSUME Mic!RecorderAssumption, Invariant, NEW g \in 1 .. MaxGenerations, Mic!ThrowCloses(g)
  PROVE  Invariant'
<1> USE MicFacts
<1>1. /\ MicTypes /\ Fields /\ OneEach /\ Waiting /\ Cancels /\ \A h \in 1 .. MaxGenerations : Acquiring(h)
      /\ \A s \in 1 .. MaxSessions : Stopping(s)
  BY InvariantIs
<1>c. acquisitions[g].at = "closing" /\ g # 0 BY DEF Mic!ThrowCloses
<1>u. UNCHANGED <<state, sid, starts, stops, joined, cancelling, open, sinks, failing, heldAudio>>
  BY DEF Mic!ThrowCloses
<1>3. PICK e \in {"none", "cancelled", "failed"} : e = IF Mic!Stale(g) THEN "cancelled" ELSE acquisitions[g].error
  BY <1>1, PartsAre DEF Acquisition
<1>2. Goes(acquisitions', g, "failed", e) BY <1>1, <1>3, PartsAre, AcquisitionGoes DEF Mic!ThrowCloses, MicTypes, Acquisition
<1>4. /\ acquisitions' \in [1 .. MaxGenerations -> Acquisition]
      /\ acquisitions'[g].at = "failed" /\ acquisitions'[g].by = acquisitions[g].by
      /\ acquisitions'[g].error = e
      /\ \A h \in 1 .. MaxGenerations : h # g => acquisitions'[h] = acquisitions[h]
  BY <1>2 DEF Goes
<1>r. /\ rec.start \in 0 .. MaxGenerations /\ rec.generation \in 0 .. MaxGenerations /\ rec.stream \in 0 .. MaxGenerations
      /\ rec.startPending \in 0 .. MaxGenerations /\ rec.stop \in 0 .. MaxSessions /\ rec \in Recorder
  BY <1>1, PartsAre, RecorderIs
<1>b. rec.start = g /\ rec.startPending = g /\ rec.live = 0 BY <1>1, <1>c DEF Acquiring, Working
<1>d. rec.stream = 0 /\ rec.context = 0 /\ rec.node = 0 /\ rec.chunks = {} /\ ~rec.stopping /\ open = {}
  BY <1>1, <1>b, <1>c, <1>r, EndsOne, StopIsEnding, NothingHeard DEF Fields
<1>p1. PICK p : p = Mic!TornDown(rec) OBVIOUS
<1>p2. /\ p \in Recorder /\ SameInput(rec, p) /\ NoLimits(p) /\ SameStart(rec, p)
       /\ p.stop = rec.stop /\ p.stopping = FALSE /\ p.cleanup = rec.cleanup /\ p.live = rec.live
  BY <1>r, <1>p1, TearingEnds
<1>q. rec' = [p EXCEPT !.start = 0, !.startPending = 0]
  BY <1>b, <1>p1, <1>p2 DEF Mic!ThrowCloses, Mic!None, SameStart, Recorder
<1>q1. rec' \in Recorder BY <1>p2, <1>q, Nothing DEF Recorder
<1>q2. /\ rec'.start = 0 /\ rec'.startPending = 0 /\ rec'.generation = rec.generation
       /\ rec'.stop = rec.stop /\ rec'.cleanup = rec.cleanup
  BY <1>p2, <1>q DEF Recorder, SameStart
<1>q3. ~rec'.limitError /\ ~rec'.limitSet /\ rec'.listener = 0 BY <1>p2, <1>q DEF Recorder, NoLimits
<1>q4. rec'.context = 0 /\ rec'.stream = 0 /\ rec'.node = 0 /\ rec'.chunks = {} BY <1>d, <1>p2, <1>q DEF Recorder, SameInput
<1>q5. rec'.live = 0 BY <1>b, <1>p2, <1>q DEF Recorder
<1>q6. ~rec'.stopping BY <1>p2, <1>q DEF Recorder
<1>t. MicTypes' BY <1>1, <1>4, <1>u, <1>q1 DEF MicTypes
<1>f. Fields' BY <1>u, <1>d, <1>q2, <1>q3, <1>q4, <1>q5, <1>q6 DEF Fields
<1>o. OneEach' BY <1>1, <1>4 DEF OneEach
<1>w. Waiting' BY <1>1, <1>4, <1>u DEF Waiting
<1>z. Cancels'
  <2>1. acquisitions[g].at \in Working BY <1>c DEF Working
  <2> QED BY <1>4, <1>u, <1>q2, <1>q4, <1>q5, <2>1, CancelsStay
<1>a. ASSUME NEW h \in 1 .. MaxGenerations PROVE Acquiring(h)'
  <2>1. Acquiring(h) /\ Acquiring(g) BY <1>1
  <2>2. CASE h = g
    <3>1. g <= rec.generation /\ acquisitions[g].by # 0 /\ starts[acquisitions[g].by] \in {"joined", "done"} BY <1>c, <2>1 DEF Acquiring
    <3>2. acquisitions[g].error # "none" /\ (acquisitions[g].error = "cancelled" => g < rec.generation)
      BY <1>c, <2>1 DEF Acquiring
    <3>4. e # "none" /\ (e = "cancelled" => g < rec.generation)
      <4>1. CASE g = rec.generation BY <1>3, <3>2, <4>1 DEF Mic!Stale
      <4>2. CASE g # rec.generation BY <1>r, <3>1, <4>2, <1>3 DEF Mic!Stale
      <4> QED BY <4>1, <4>2
    <3> QED BY <1>4, <1>u, <1>q2, <2>2, <3>1, <3>4 DEF Acquiring, Working
  <2>3. CASE h # g
    <3>1. acquisitions[h].at \notin Working BY <1>b, <2>1, <2>3 DEF Acquiring
    <3> QED BY <1>4, <1>u, <1>q2, <1>q5, <1>q4, <1>q3, <2>1, <2>3, <3>1 DEF Acquiring, Working
  <2> QED BY <2>2, <2>3
<1>s. ASSUME NEW s \in 1 .. MaxSessions PROVE Stopping(s)' BY <1>1, <1>c, <1>b, <1>u, <1>d, <1>q2, <1>r DEF Stopping, StopEnding
<1> QED BY <1>t, <1>f, <1>o, <1>w, <1>z, <1>a, <1>s, InvariantNext

\* The limit is reached, Live is too slow, or the device is gone.
LEMMA FailCaptureStep ==
  ASSUME Mic!RecorderAssumption, Invariant, rec.stream # 0, rec.stream = rec.generation, ~rec.limitError, Mic!FailCapture,
         UNCHANGED <<state, sid, starts, acquisitions, stops, joined, cancelling, heldAudio>>
  PROVE  Invariant'
<1> USE MicFacts
<1>1. /\ MicTypes /\ Fields /\ OneEach /\ Waiting /\ Cancels /\ \A h \in 1 .. MaxGenerations : Acquiring(h)
      /\ \A s \in 1 .. MaxSessions : Stopping(s)
  BY InvariantIs
<1>r. /\ rec.start \in 0 .. MaxGenerations /\ rec.generation \in 0 .. MaxGenerations /\ rec.stream \in 1 .. MaxGenerations
      /\ rec.startPending \in 0 .. MaxGenerations /\ rec.stop \in 0 .. MaxSessions /\ rec \in Recorder
  BY <1>1, PartsAre, RecorderIs
<1>b. rec.start = rec.stream /\ acquisitions[rec.stream].at \in {"module", "ok"} BY <1>1 DEF Fields
<1>o. OneEach' BY <1>1 DEF OneEach
<1>w. Waiting' BY <1>1 DEF Waiting
<1>g. PICK b \in BOOLEAN : b = TRUE OBVIOUS
<1>h. PICK c \in BOOLEAN : c = FALSE OBVIOUS
<1>m. cancelling.at = "none" BY <1>1, <1>b DEF Cancels
<1>z. Cancels'
  <2>1. cancelling'.at = "none" BY <1>m
  <2> QED BY <2>1 DEF Cancels
<1>2. CASE rec.stopping
  <2>1. rec' = [rec EXCEPT !.limitError = b] /\ UNCHANGED <<open, sinks, failing>> BY <1>2, <1>g DEF Mic!FailCapture
  <2>2. rec' \in Recorder BY <1>r, <2>1 DEF Recorder
  <2>3. /\ rec'.start = rec.start /\ rec'.startPending = rec.startPending /\ rec'.generation = rec.generation
        /\ rec'.stop = rec.stop /\ rec'.stopping = rec.stopping /\ rec'.cleanup = rec.cleanup
    BY <1>r, <2>1 DEF Recorder
  <2>4. /\ rec'.context = rec.context /\ rec'.stream = rec.stream /\ rec'.node = rec.node /\ rec'.chunks = rec.chunks
        /\ rec'.live = rec.live /\ rec'.limitSet = rec.limitSet /\ rec'.listener = rec.listener
    BY <1>r, <2>1 DEF Recorder
  <2>6. rec.stop \in 1 .. MaxSessions /\ acquisitions[rec.start].at = "ok" BY <1>2, EndsOne, <1>b, <1>r, StopIsEnding
  <2>t. MicTypes' BY <1>1, <2>1, <2>2 DEF MicTypes
  <2>f. Fields' BY <1>1, <1>2, <2>1, <2>3, <2>4 DEF Fields
  <2>a. ASSUME NEW h \in 1 .. MaxGenerations PROVE Acquiring(h)' BY <1>1, <2>6, <2>3, <2>4 DEF Acquiring, Working
  <2>s. ASSUME NEW s \in 1 .. MaxSessions PROVE Stopping(s)'
    <3>1. Stopping(s) BY <1>1
    <3> QED BY <2>1, <2>3, <3>1 DEF Stopping
  <2> QED BY <1>o, <1>w, <1>z, <2>t, <2>f, <2>a, <2>s, InvariantNext
<1>3. CASE ~rec.stopping
  <2>0. PICK p : p = [Mic!Released(rec) EXCEPT !.live = 0] OBVIOUS
  <2>1. /\ p \in Recorder /\ NoInput(p) /\ SameLimits(rec, p) /\ SameStart(rec, p) /\ SameStop(rec, p) /\ p.live = 0
    BY <1>r, <2>0, InputGoes
  <2>2. PICK x \in 0 .. MaxGenerations : x = IF rec.startPending = 0 THEN 0 ELSE rec.start BY <1>r, Nothing
  <2>3. rec' = [p EXCEPT !.limitError = b, !.cleanup = b, !.start = x]
    BY <1>3, <2>0, <1>r, <1>g, <2>2 DEF Mic!FailCapture, Mic!None, Mic!Released, Recorder
  <2>4. rec' \in Recorder
    <3>1. PICK q : q = [p EXCEPT !.limitError = b, !.cleanup = b] OBVIOUS
    <3>2. q \in Recorder BY <2>1, <3>1 DEF Recorder
    <3>3. rec' = [q EXCEPT !.start = x] BY <2>1, <2>3, <3>1 DEF Recorder
    <3> QED BY <2>2, <3>2, <3>3 DEF Recorder
  <2>5. /\ rec'.startPending = rec.startPending /\ rec'.generation = rec.generation
        /\ rec'.stop = rec.stop /\ rec'.stopping = rec.stopping
    BY <2>1, <2>3 DEF Recorder, SameStart, SameStop
  <2>7. /\ rec'.context = 0 /\ rec'.stream = 0 /\ rec'.node = 0 /\ rec'.chunks = {} /\ rec'.live = 0
    BY <2>1, <2>3 DEF Recorder, NoInput
  <2>8. rec'.start = x BY <2>1, <2>3 DEF Recorder
  <2>9. rec'.limitError = b /\ rec'.cleanup = b BY <2>1, <2>3 DEF Recorder
  <2>10. /\ sinks' \in [1 .. MaxSessions -> {"none", "open", "closed"}]
         /\ \A s \in 1 .. MaxSessions : sinks'[s] = IF s = rec.live THEN "closed" ELSE sinks[s]
    BY <1>1, <1>3, SinkGoes DEF Mic!FailCapture
  <2>11. open' = {} BY <1>1, <1>3 DEF Mic!FailCapture, Mic!Closed, Fields
  <2>12. failing' = Mic!Notified BY <1>3 DEF Mic!FailCapture
  <2>t. MicTypes'
    <3>1. failing' \subseteq 1 .. MaxSessions
      <4>1. failing \subseteq 1 .. MaxSessions /\ sid \in 0 .. MaxSessions /\ rec.listener \in 0 .. MaxSessions
        BY <1>1, <1>r, RecorderIs DEF MicTypes
      <4>2. CASE state = "listening" /\ rec.listener = sid /\ sid # 0 BY <2>12, <4>1, <4>2 DEF Mic!Notified
      <4>3. CASE state = "listening" /\ rec.listener = sid /\ sid = 0 BY <1>1, <4>3 DEF Waiting
      <4>4. CASE ~(state = "listening" /\ rec.listener = sid) BY <2>12, <4>1, <4>4 DEF Mic!Notified
      <4> QED BY <4>2, <4>3, <4>4
    <3> QED BY <1>1, <2>4, <2>10, <2>11, <3>1 DEF MicTypes
  <2>f. Fields' BY <1>1, <2>2, <2>8, <2>5, <1>3, <2>7, <2>11 DEF Fields
  <2>a. ASSUME NEW h \in 1 .. MaxGenerations PROVE Acquiring(h)'
    <3>1. Acquiring(h) BY <1>1
    <3>2. acquisitions[h].at \in Working => h = rec.start /\ rec.startPending = h BY <3>1 DEF Acquiring
    <3>3. acquisitions[h].at \in Working => x = h BY <2>2, <3>2
    <3>4. acquisitions[h].at \notin {"input", "default"} BY <1>r, <3>1 DEF Acquiring
    <3> QED BY <1>g, <2>5, <2>7, <2>8, <2>9, <3>1, <3>2, <3>3, <3>4 DEF Acquiring
  <2>s. ASSUME NEW s \in 1 .. MaxSessions PROVE Stopping(s)' BY <1>1, <2>2, <2>5, <2>7, <2>8, <2>11 DEF Stopping
  <2> QED BY <1>o, <1>w, <1>z, <2>t, <2>f, <2>a, <2>s, InvariantNext
<1> QED BY <1>2, <1>3

\* The recorder hears one more piece.
LEMMA ChunkStep ==
  ASSUME Mic!RecorderAssumption, Invariant, Mic!Chunk
  PROVE  Invariant'
<1> USE MicFacts
<1>1. /\ MicTypes /\ Fields /\ OneEach /\ Waiting /\ Cancels /\ \A h \in 1 .. MaxGenerations : Acquiring(h)
      /\ \A s \in 1 .. MaxSessions : Stopping(s)
  BY InvariantIs
<1>r. /\ rec.start \in 0 .. MaxGenerations /\ rec.generation \in 0 .. MaxGenerations /\ rec.stream \in 0 .. MaxGenerations
      /\ rec.startPending \in 0 .. MaxGenerations /\ rec.stop \in 0 .. MaxSessions /\ rec \in Recorder
      /\ rec.chunks \subseteq 1 .. MaxSessions
  BY <1>1, PartsAre, RecorderIs
<1>c. Mic!Hears /\ ~rec.limitError /\ UNCHANGED <<state, sid, starts, acquisitions, stops, joined, cancelling, heldAudio>>
  BY DEF Mic!Chunk, Mic!ops
<1>b. rec.stream # 0 /\ rec.stream = rec.generation /\ rec.context = rec.stream BY <1>1, <1>c DEF Mic!Hears, Fields
<1>2. CASE Mic!FailCapture BY <1>2, <1>b, <1>c, FailCaptureStep
<1>3. CASE rec' = [rec EXCEPT !.chunks = @ \union {acquisitions[rec.context].by}] /\ UNCHANGED <<open, sinks, failing>>
  <2>g. rec.stream \in 1 .. MaxGenerations BY <1>b, <1>r
  <2>0. PICK x : x = acquisitions[rec.stream].by OBVIOUS
  <2>1. x \in 1 .. MaxSessions BY <1>1, <1>b, <2>g, PartsAre, <2>0 DEF Fields, Acquiring, Acquisition
  <2>2. PICK w \in SUBSET (1 .. MaxSessions) : w = {x}
    BY <2>1
  <2>3. rec.chunks \union {x} = w BY <1>1, <1>b, <2>0, <2>2 DEF Fields
  <2>4. rec' = [rec EXCEPT !.chunks = w] BY <1>3, <1>b, <1>r, <2>0, <2>3 DEF Recorder
  <2>5. rec' \in Recorder BY <1>r, <2>4 DEF Recorder
  <2>6. /\ rec'.start = rec.start /\ rec'.startPending = rec.startPending /\ rec'.generation = rec.generation
        /\ rec'.stop = rec.stop /\ rec'.stopping = rec.stopping /\ rec'.cleanup = rec.cleanup
    BY <1>r, <2>4 DEF Recorder
  <2>7. /\ rec'.context = rec.context /\ rec'.stream = rec.stream /\ rec'.node = rec.node /\ rec'.limitError = rec.limitError
        /\ rec'.live = rec.live /\ rec'.limitSet = rec.limitSet /\ rec'.listener = rec.listener
    BY <1>r, <2>4 DEF Recorder
  <2>8. rec'.chunks = {acquisitions[rec.stream].by} BY <1>r, <2>0, <2>2, <2>4 DEF Recorder
  <2>t. MicTypes' BY <1>1, <1>c, <1>3, <2>5 DEF MicTypes
  <2>f. Fields' BY <1>1, <1>b, <1>c, <1>3, <2>6, <2>7, <2>8 DEF Fields
  <2>o. OneEach' BY <1>1, <1>c DEF OneEach
  <2>w. Waiting' BY <1>1, <1>c DEF Waiting
  <2>z. Cancels' BY <1>1, <1>c, <2>6, <2>7, CancelsKept
  <2>a. ASSUME NEW h \in 1 .. MaxGenerations PROVE Acquiring(h)' BY <1>1, <1>c, <2>6, <2>7 DEF Acquiring
  <2>s. ASSUME NEW s \in 1 .. MaxSessions PROVE Stopping(s)' BY <1>1, <1>3, <1>c, <2>6, <2>7 DEF Stopping
  <2> QED BY <2>t, <2>f, <2>o, <2>w, <2>z, <2>a, <2>s, InvariantNext
<1> QED BY <1>2, <1>3 DEF Mic!Chunk

LEMMA TrackEndsStep ==
  ASSUME Mic!RecorderAssumption, Invariant, Mic!TrackEnds
  PROVE  Invariant'
<1>1. rec.stream \in 1 .. MaxGenerations BY InvariantIs, PartsAre DEF Mic!TrackEnds
<1>2. rec.stream # 0 BY <1>1, MicFacts
<1> QED BY <1>2, FailCaptureStep DEF Mic!TrackEnds, Mic!ops

LEMMA CleanedUpStep ==
  ASSUME Mic!RecorderAssumption, Invariant, Mic!CleanedUp
  PROVE  Invariant'
<1> USE MicFacts
<1>1. /\ MicTypes /\ Fields /\ OneEach /\ Waiting /\ Cancels /\ \A h \in 1 .. MaxGenerations : Acquiring(h)
      /\ \A s \in 1 .. MaxSessions : Stopping(s)
  BY InvariantIs
<1>c. UNCHANGED <<state, sid, starts, acquisitions, stops, joined, cancelling, open, sinks, failing, heldAudio>>
  BY DEF Mic!CleanedUp, Mic!ops
<1>2. PICK b \in BOOLEAN : b = FALSE OBVIOUS
<1>3. rec' = [rec EXCEPT !.cleanup = b] /\ rec \in Recorder BY <1>1, <1>2, PartsAre DEF Mic!CleanedUp
<1>5. rec' \in Recorder BY <1>3 DEF Recorder
<1>6. /\ rec'.start = rec.start /\ rec'.startPending = rec.startPending /\ rec'.generation = rec.generation
      /\ rec'.stop = rec.stop /\ rec'.stopping = rec.stopping /\ rec'.chunks = rec.chunks
  BY <1>3 DEF Recorder
<1>7. /\ rec'.context = rec.context /\ rec'.stream = rec.stream /\ rec'.node = rec.node /\ rec'.limitError = rec.limitError
      /\ rec'.live = rec.live /\ rec'.limitSet = rec.limitSet /\ rec'.listener = rec.listener
  BY <1>3 DEF Recorder
<1>t. MicTypes' BY <1>1, <1>c, <1>5 DEF MicTypes
<1>f. Fields' BY <1>1, <1>c, <1>6, <1>7 DEF Fields
<1>o. OneEach' BY <1>1, <1>c DEF OneEach
<1>w. Waiting' BY <1>1, <1>c DEF Waiting
<1>z. Cancels' BY <1>1, <1>c, <1>6, <1>7, CancelsKept
<1>a. ASSUME NEW h \in 1 .. MaxGenerations PROVE Acquiring(h)' BY <1>1, <1>c, <1>6, <1>7 DEF Acquiring
<1>s. ASSUME NEW s \in 1 .. MaxSessions PROVE Stopping(s)' BY <1>1, <1>c, <1>6, <1>7 DEF Stopping
<1> QED BY <1>t, <1>f, <1>o, <1>w, <1>z, <1>a, <1>s, InvariantNext

\* start() finds no other one under way: it acquires the microphone.
LEMMA AcquireStep ==
  ASSUME Mic!RecorderAssumption, Invariant, NEW s \in 1 .. MaxSessions, starts[s] = "loop", Mic!MayStart,
         rec.start = 0, rec.generation < MaxGenerations, starts' = [starts EXCEPT ![s] = "joined"],
         Mic!Acquire(s, rec.generation + 1),
         UNCHANGED <<state, sid, stops, joined, cancelling, open, sinks, failing, heldAudio>>
  PROVE  Invariant'
<1> USE MicFacts
<1>1. /\ MicTypes /\ Fields /\ OneEach /\ Waiting /\ Cancels /\ \A h \in 1 .. MaxGenerations : Acquiring(h)
      /\ \A t \in 1 .. MaxSessions : Stopping(t)
  BY InvariantIs
<1>r. /\ rec.generation \in 0 .. MaxGenerations /\ rec.stream \in 0 .. MaxGenerations
      /\ rec.startPending \in 0 .. MaxGenerations /\ rec.stop \in 0 .. MaxSessions /\ rec \in Recorder
  BY <1>1, PartsAre, RecorderIs
<1>g. PICK g \in 1 .. MaxGenerations : g = rec.generation + 1 BY <1>r
<1>b. rec.stop = 0 /\ ~rec.cleanup /\ cancelling.at = "none" BY DEF Mic!MayStart, Mic!CancelPending, Mic!None
<1>d. rec.stream = 0 /\ rec.context = 0 /\ rec.node = 0 /\ open = {} /\ rec.live = 0 /\ ~rec.stopping BY <1>1, <1>b, EndsOne, NothingHeard DEF Fields
<1>2. acquisitions' = [acquisitions EXCEPT ![g] = [at |-> "input", by |-> s, error |-> "none"]]
  BY <1>g DEF Mic!Acquire
<1>3. PICK a \in Acquisition : a = [at |-> "input", by |-> s, error |-> "none"]
  <2>1. s \in 0 .. MaxSessions OBVIOUS
  <2> QED BY <2>1 DEF Acquisition
<1>4. /\ acquisitions' \in [1 .. MaxGenerations -> Acquisition]
      /\ acquisitions'[g].at = "input" /\ acquisitions'[g].by = s /\ acquisitions'[g].error = "none"
      /\ \A h \in 1 .. MaxGenerations : h # g => acquisitions'[h] = acquisitions[h]
  BY <1>1, <1>2, <1>3 DEF MicTypes
<1>5. /\ starts' \in [1 .. MaxSessions -> {"none", "opening", "loop", "joined", "done"}]
      /\ starts'[s] = "joined" /\ \A t \in 1 .. MaxSessions : t # s => starts'[t] = starts[t]
  BY <1>1 DEF MicTypes
<1>p1. PICK p : p = Mic!LimitReset(rec) OBVIOUS
<1>p2. p \in Recorder /\ SameInput(rec, p) /\ NoLimits(p) /\ SameStart(rec, p) /\ SameStop(rec, p) /\ p.live = rec.live
  BY <1>r, <1>p1, LimitsGo
<1>p3. PICK l \in 0 .. MaxSessions : l = IF Streams THEN s ELSE 0 OBVIOUS
<1>q. rec' = [p EXCEPT !.generation = g, !.start = g, !.startPending = g, !.chunks = {}, !.live = l, !.listener = s]
  BY <1>g, <1>p1, <1>p3 DEF Mic!Acquire, Mic!None
<1>q1. rec' \in Recorder
  <2>1. g \in 0 .. MaxGenerations /\ s \in 0 .. MaxSessions OBVIOUS
  <2> QED BY <1>p2, <1>q, <2>1, Nothing DEF Recorder
<1>q2. rec'.start = g /\ rec'.startPending = g /\ rec'.generation = g BY <1>p2, <1>q DEF Recorder
<1>q3. rec'.stop = 0 /\ rec'.cleanup = rec.cleanup /\ rec'.stopping = rec.stopping BY <1>b, <1>p2, <1>q DEF Recorder, SameStop
<1>q4. ~rec'.limitError /\ ~rec'.limitSet BY <1>p2, <1>q DEF Recorder, NoLimits
<1>q5. rec'.context = 0 /\ rec'.stream = 0 /\ rec'.node = 0 BY <1>d, <1>p2, <1>q DEF Recorder, SameInput
<1>q6. rec'.chunks = {} /\ rec'.live = l /\ rec'.listener = s BY <1>p2, <1>q DEF Recorder
<1>n. ASSUME NEW h \in 1 .. MaxGenerations
      PROVE  /\ acquisitions[h].at \notin Working /\ acquisitions[h].by # s
             /\ acquisitions[h].at # "none" => h <= rec.generation /\ h # g
  <2>1. Acquiring(h) BY <1>1
  <2>2. acquisitions[h].at \notin Working BY <2>1 DEF Acquiring
  <2>3. acquisitions[h].by # s BY <2>1 DEF Acquiring
  <2>4. acquisitions[h].at # "none" => h <= rec.generation BY <2>1 DEF Acquiring
  <2>5. ~(g <= rec.generation) BY <1>g, <1>r
  <2> QED BY <2>2, <2>3, <2>4, <2>5
<1>t. MicTypes' BY <1>1, <1>4, <1>5, <1>q1 DEF MicTypes
<1>f. Fields'
  <2>1. l # 0 => l = s BY <1>p3
  <2>2. ~Streams => l = 0 BY <1>p3
  <2> QED BY <1>4, <1>d, <1>q2, <1>q3, <1>q4, <1>q5, <1>q6, <2>1, <2>2 DEF Fields, Working
<1>o. OneEach' BY <1>1, <1>4, <1>n DEF OneEach
<1>w. Waiting'
  <2> SUFFICES ASSUME NEW t \in 1 .. MaxSessions, starts'[t] = "joined"
               PROVE  \E h \in 1 .. MaxGenerations : acquisitions'[h].by = t
    BY <1>1 DEF Waiting
  <2>1. CASE t = s BY <1>4, <2>1
  <2>2. CASE t # s
    <3>1. PICK h \in 1 .. MaxGenerations : acquisitions[h].by = t BY <1>1, <1>5, <2>2 DEF Waiting
    <3>2. Acquiring(h) /\ t # 0 BY <1>1
    <3>3. acquisitions[h].at # "none" BY <3>1, <3>2 DEF Acquiring
    <3> QED BY <1>4, <1>n, <3>1, <3>3
  <2> QED BY <2>1, <2>2
<1>z. Cancels'
  <2>1. cancelling'.at = "none" BY <1>b
  <2> QED BY <2>1 DEF Cancels
<1>a. ASSUME NEW h \in 1 .. MaxGenerations PROVE Acquiring(h)'
  <2>1. CASE h = g
    <3>1. g <= g /\ s # 0 OBVIOUS
    <3> QED BY <1>4, <1>5, <1>q2, <1>q4, <1>q5, <2>1, <3>1 DEF Acquiring
  <2>2. CASE h # g
    <3>1. Acquiring(h) BY <1>1
    <3>2. acquisitions'[h] = acquisitions[h] BY <1>4, <2>2
    <3>3. acquisitions[h].at \notin Working /\ (acquisitions[h].at # "none" => h <= g /\ h < g) BY <1>g, <1>n, <1>r
    <3>4. acquisitions[h].error = "cancelled" => h < g BY <3>1, <3>3 DEF Acquiring
    <3>5. acquisitions[h].at # "none" => starts'[acquisitions[h].by] \in {"joined", "done"} BY <1>1, PartsAre, <1>5, <3>1 DEF Acquisition, Acquiring
    <3>7. acquisitions[h].at \notin {"input", "default", "module", "closing"} BY <3>3 DEF Working
    <3> QED BY <1>q2, <3>1, <3>2, <3>3, <3>4, <3>5, <3>7 DEF Acquiring
  <2> QED BY <2>1, <2>2
<1>s. ASSUME NEW t \in 1 .. MaxSessions PROVE Stopping(t)' BY <1>1, <1>b, <1>q3 DEF Stopping, StopEnding
<1> QED BY <1>t, <1>f, <1>o, <1>w, <1>z, <1>a, <1>s, InvariantNext

\* start() finds one under way or done: it has nothing to do.
LEMMA StartEndsStep ==
  ASSUME Mic!RecorderAssumption, Invariant, NEW s \in 1 .. MaxSessions, starts[s] \in {"loop", "joined"},
         starts' = [starts EXCEPT ![s] = "done"],
         failing' \subseteq 1 .. MaxSessions, failing \subseteq failing',
         UNCHANGED <<state, sid, acquisitions, stops, joined, cancelling, rec, open, sinks, heldAudio>>
  PROVE  Invariant'
<1> USE MicFacts
<1>1. /\ MicTypes /\ Fields /\ OneEach /\ Waiting /\ Cancels /\ \A h \in 1 .. MaxGenerations : Acquiring(h)
      /\ \A t \in 1 .. MaxSessions : Stopping(t)
  BY InvariantIs
<1>5. /\ starts' \in [1 .. MaxSessions -> {"none", "opening", "loop", "joined", "done"}]
      /\ starts'[s] = "done" /\ \A t \in 1 .. MaxSessions : t # s => starts'[t] = starts[t]
  BY <1>1 DEF MicTypes
<1>t. MicTypes' BY <1>1, <1>5 DEF MicTypes
<1>f. Fields' BY <1>1 DEF Fields
<1>o. OneEach' BY <1>1 DEF OneEach
<1>w. Waiting' BY <1>1, <1>5 DEF Waiting
<1>z. Cancels' BY <1>1, CancelsKept
<1>a. ASSUME NEW h \in 1 .. MaxGenerations PROVE Acquiring(h)' BY <1>1, PartsAre, <1>5 DEF Acquisition, Acquiring
<1>s. ASSUME NEW t \in 1 .. MaxSessions PROVE Stopping(t)' BY <1>1 DEF Stopping
<1> QED BY <1>t, <1>f, <1>o, <1>w, <1>z, <1>a, <1>s, InvariantNext

LEMMA StartContinuesStep ==
  ASSUME Mic!RecorderAssumption, Invariant, NEW s \in 1 .. MaxSessions, Mic!StartContinues(s)
  PROVE  Invariant'
<1> USE MicFacts
<1>1. MicTypes /\ Fields /\ Stopping(s) BY InvariantIs
<1>c. /\ starts[s] = "loop" /\ Mic!MayStart
      /\ UNCHANGED <<state, sid, stops, joined, cancelling, open, sinks, failing, heldAudio>>
  BY DEF Mic!StartContinues
<1>2. CASE /\ rec.start # 0 \/ (rec.start = 0 /\ rec.context # 0)
           /\ starts' = [starts EXCEPT ![s] = "done"] /\ UNCHANGED <<acquisitions, rec>>
  <2>1. failing \subseteq 1 .. MaxSessions BY <1>1 DEF MicTypes
  <2> QED BY <1>2, <1>c, <2>1, StartEndsStep
<1>3. CASE /\ rec.start = 0 /\ rec.context = 0 /\ rec.generation < MaxGenerations
           /\ starts' = [starts EXCEPT ![s] = "joined"] /\ Mic!Acquire(s, rec.generation + 1)
  BY <1>3, <1>c, AcquireStep
<1> QED BY <1>2, <1>3 DEF Mic!StartContinues

LEMMA StartReturnsStep ==
  ASSUME Mic!RecorderAssumption, Invariant, NEW s \in 1 .. MaxSessions, Mic!StartReturns(s)
  PROVE  Invariant'
<1> USE MicFacts
<1>1. MicTypes /\ OneEach /\ Waiting BY InvariantIs
<1>c. /\ starts[s] = "joined" /\ starts' = [starts EXCEPT ![s] = "done"]
      /\ UNCHANGED <<state, sid, acquisitions, stops, joined, cancelling, rec, open, sinks, heldAudio>>
  BY DEF Mic!StartReturns
<1>2. PICK g \in 1 .. MaxGenerations : acquisitions[g].by = s BY <1>1, <1>c DEF Waiting
<1>3. \A h \in 1 .. MaxGenerations : acquisitions[h].by = s => h = g BY <1>1, <1>2 DEF OneEach
<1>4. Mic!Own(s) = g BY <1>2, <1>3 DEF Mic!Own
<1>6. /\ failing' = IF acquisitions[g].error = "failed" THEN failing \union {s} ELSE failing
      /\ failing \subseteq 1 .. MaxSessions
  BY <1>1, <1>4 DEF Mic!StartReturns, Mic!Fails, MicTypes
<1>7. failing' \subseteq 1 .. MaxSessions /\ failing \subseteq failing' BY <1>6
<1> QED BY <1>c, <1>7, StartEndsStep

\* A stop goes on, or ends with its result.
Moves(f, s, at) ==
  /\ f \in [1 .. MaxSessions -> Stop]
  /\ f[s].at = at /\ f[s].on = stops[s].on
  /\ \A t \in 1 .. MaxSessions : t # s => f[t] = stops[t]

LEMMA StopMoves ==
  ASSUME Mic!RecorderAssumption, MicTypes, NEW s \in 1 .. MaxSessions,
         NEW at \in {"none", "awaitsStart", "closing", "finishing", "aborting", "done"}, NEW f,
         f = [stops EXCEPT ![s].at = at]
  PROVE  Moves(f, s, at)
<1>1. stops \in [1 .. MaxSessions -> Stop] BY DEF MicTypes
<1>2. stops[s] \in Stop BY <1>1
<1>3. PICK a : a = [stops[s] EXCEPT !.at = at] OBVIOUS
<1>4. a \in Stop /\ a.at = at /\ a.on = stops[s].on BY <1>2, <1>3 DEF Stop
<1>5. f = [stops EXCEPT ![s] = a] BY <1>1, <1>2, <1>3 DEF Stop
<1> QED BY <1>1, <1>4, <1>5 DEF Moves

LEMMA StopIsDone ==
  ASSUME Mic!RecorderAssumption, MicTypes, NEW s \in 1 .. MaxSessions,
         NEW result \in {"none", "audio", "cancelled", "failed"}, NEW audio \in SUBSET (1 .. MaxSessions), NEW f,
         f = [stops EXCEPT ![s].at = "done", ![s].result = result, ![s].audio = audio]
  PROVE  Moves(f, s, "done")
<1>1. stops \in [1 .. MaxSessions -> Stop] BY DEF MicTypes
<1>2. stops[s] \in Stop BY <1>1
<1>3. PICK a : a = [stops[s] EXCEPT !.at = "done", !.result = result, !.audio = audio] OBVIOUS
<1>4. a \in Stop /\ a.at = "done" /\ a.on = stops[s].on BY <1>2, <1>3 DEF Stop
<1>5. f = [stops EXCEPT ![s] = a] BY <1>1, <1>2, <1>3 DEF Stop
<1> QED BY <1>1, <1>4, <1>5 DEF Moves

\* What the sessions that waited for it do.
Handed(s) ==
  /\ joined' \in [1 .. MaxSessions -> 0 .. MaxSessions]
  /\ \A w \in 1 .. MaxSessions : joined'[w] = IF joined[w] = s THEN 0 ELSE joined[w]
  /\ heldAudio' \in [1 .. MaxSessions -> SUBSET (1 .. MaxSessions)]
  /\ failing' \subseteq 1 .. MaxSessions
  /\ state' = state \/ (state = "finalizing" /\ state' = "transcribing")

LEMMA Hands ==
  ASSUME Mic!RecorderAssumption, MicTypes, NEW s \in 1 .. MaxSessions, NEW result,
         NEW audio \in SUBSET (1 .. MaxSessions), Mic!Hand(s, result, audio)
  PROVE  Handed(s)
<1> USE MicFacts
<1>1. PICK W : W = {w \in 1 .. MaxSessions : joined[w] = s} OBVIOUS
<1>2. PICK now : now = {w \in W : state = "finalizing" /\ sid = w} OBVIOUS
<1>3. /\ joined' = [w \in 1 .. MaxSessions |-> IF w \in W THEN 0 ELSE joined[w]]
      /\ heldAudio' = [w \in 1 .. MaxSessions |-> IF w \in now /\ result = "audio" THEN audio ELSE heldAudio[w]]
      /\ failing' = failing \union (IF result = "failed" THEN now ELSE {})
      /\ state' = IF now # {} /\ result = "audio" THEN "transcribing" ELSE state
  BY <1>1, <1>2 DEF Mic!Hand
<1>4. /\ joined \in [1 .. MaxSessions -> 0 .. MaxSessions] /\ failing \subseteq 1 .. MaxSessions
      /\ heldAudio \in [1 .. MaxSessions -> SUBSET (1 .. MaxSessions)]
  BY DEF MicTypes
<1>5. joined' \in [1 .. MaxSessions -> 0 .. MaxSessions] BY <1>3, <1>4, Nothing
<1>6. \A w \in 1 .. MaxSessions : joined'[w] = IF joined[w] = s THEN 0 ELSE joined[w] BY <1>1, <1>3
<1>7. heldAudio' \in [1 .. MaxSessions -> SUBSET (1 .. MaxSessions)] BY <1>3, <1>4
<1>8. failing' \subseteq 1 .. MaxSessions
  <2>1. now \subseteq 1 .. MaxSessions BY <1>1, <1>2
  <2> QED BY <1>3, <1>4, <2>1
<1>9. state' = state \/ (state = "finalizing" /\ state' = "transcribing")
  <2>1. now # {} => state = "finalizing" BY <1>2
  <2> QED BY <1>3, <2>1
<1> QED BY <1>5, <1>6, <1>7, <1>8, <1>9 DEF Handed

\* A stop that ends before it has closed anything.
LEMMA StopFailsStep ==
  ASSUME Mic!RecorderAssumption, Invariant, NEW s \in 1 .. MaxSessions, stops[s].at = "awaitsStart",
         NEW result \in {"cancelled", "failed"}, Mic!StopEnds(s, result, {}, rec),
         UNCHANGED <<sid, starts, acquisitions, cancelling, sinks, open>>
  PROVE  Invariant'
<1> USE MicFacts
<1>1. /\ MicTypes /\ Fields /\ OneEach /\ Waiting /\ Cancels /\ \A h \in 1 .. MaxGenerations : Acquiring(h)
      /\ \A t \in 1 .. MaxSessions : Stopping(t)
  BY InvariantIs
<1>r. rec \in Recorder BY <1>1, PartsAre
<1>2. Moves(stops', s, "done") BY <1>1, Nothing, StopIsDone DEF Mic!StopEnds
<1>3. Handed(s)
  <2>1. Mic!Hand(s, result, {}) BY DEF Mic!StopEnds
  <2> QED BY <1>1, <2>1, Nothing, Hands
<1>b. rec.stop = s /\ ~rec.stopping BY <1>1, EndsOne DEF Stopping, StopEnding
<1>4. rec' = [rec EXCEPT !.stop = 0] BY DEF Mic!StopEnds, Mic!None
<1>5. rec' \in Recorder BY <1>r, <1>4, Nothing DEF Recorder
<1>6. /\ rec'.start = rec.start /\ rec'.startPending = rec.startPending /\ rec'.generation = rec.generation
      /\ rec'.stop = 0 /\ rec'.stopping = rec.stopping /\ rec'.chunks = rec.chunks /\ rec'.cleanup = rec.cleanup
  BY <1>r, <1>4 DEF Recorder
<1>7. /\ rec'.context = rec.context /\ rec'.stream = rec.stream /\ rec'.node = rec.node /\ rec'.limitError = rec.limitError
      /\ rec'.live = rec.live /\ rec'.limitSet = rec.limitSet /\ rec'.listener = rec.listener
  BY <1>r, <1>4 DEF Recorder
<1>8. state' = state
  <2>1. result # "audio" OBVIOUS
  <2> QED BY <2>1 DEF Mic!StopEnds, Mic!Hand
<1>t. MicTypes' BY <1>1, <1>2, <1>3, <1>5, <1>8 DEF MicTypes, Moves, Handed
<1>f. Fields' BY <1>1, <1>b, <1>6, <1>7 DEF Fields
<1>o. OneEach' BY <1>1 DEF OneEach
<1>w. Waiting' BY <1>1, <1>8 DEF Waiting
<1>z. Cancels' BY <1>1, <1>6, <1>7, CancelsKept
<1>a. ASSUME NEW h \in 1 .. MaxGenerations PROVE Acquiring(h)' BY <1>1, <1>6, <1>7 DEF Acquiring
<1>s. ASSUME NEW t \in 1 .. MaxSessions PROVE Stopping(t)'
  <2>1. Stopping(t) /\ t # 0 BY <1>1
  <2>2. CASE t = s BY <1>2, <1>6, <2>1, <2>2 DEF Stopping, Moves, StopEnding
  <2>3. CASE t # s BY <1>2, <1>b, <2>1, <2>3, <1>6 DEF Stopping, Moves, StopEnding
  <2> QED BY <2>2, <2>3
<1> QED BY <1>t, <1>f, <1>o, <1>w, <1>z, <1>a, <1>s, InvariantNext

\* A stop that ends and resets the recorder.
LEMMA StopResetsStep ==
  ASSUME Mic!RecorderAssumption, Invariant, NEW s \in 1 .. MaxSessions, stops[s].at \in {"awaitsStart"} \union StopEnding,
         \A h \in 1 .. MaxGenerations : acquisitions[h].at \notin Working,
         open = {}, NEW result \in {"audio", "cancelled", "failed"}, NEW audio \in SUBSET (1 .. MaxSessions),
         Mic!StopEnds(s, result, audio, Mic!AfterStop(rec)),
         sinks' \in [1 .. MaxSessions -> {"none", "open", "closed"}],
         \A t \in 1 .. MaxSessions : sinks'[t] = IF t = rec.live THEN "closed" ELSE sinks[t],
         UNCHANGED <<sid, starts, acquisitions, cancelling, open>>
  PROVE  Invariant'
<1> USE MicFacts
<1>1. /\ MicTypes /\ Fields /\ OneEach /\ Waiting /\ Cancels /\ \A h \in 1 .. MaxGenerations : Acquiring(h)
      /\ \A t \in 1 .. MaxSessions : Stopping(t)
  BY InvariantIs
<1>r. rec \in Recorder /\ rec.startPending \in 0 .. MaxGenerations BY <1>1, PartsAre, RecorderIs
<1>2. Moves(stops', s, "done") BY <1>1, StopIsDone DEF Mic!StopEnds
<1>3. Handed(s)
  <2>1. Mic!Hand(s, result, audio) BY DEF Mic!StopEnds
  <2> QED BY <1>1, <2>1, Hands
<1>b. rec.stop = s
  <2>1. Stopping(s) BY <1>1
  <2> QED BY <2>1 DEF Stopping, StopEnding
<1>p1. PICK p : p = Mic!AfterStop(rec) OBVIOUS
<1>p2. /\ p \in Recorder /\ NoInput(p) /\ NoLimits(p) /\ p.generation = rec.generation /\ p.start = 0
       /\ p.startPending = rec.startPending /\ p.stop = rec.stop /\ p.stopping = FALSE /\ p.cleanup = FALSE /\ p.live = 0
  BY <1>r, <1>p1, StoppingEnds
<1>4. rec' = [p EXCEPT !.stop = 0] BY <1>p1 DEF Mic!StopEnds, Mic!None
<1>5. rec' \in Recorder BY <1>p2, <1>4, Nothing DEF Recorder
<1>6. /\ rec'.start = 0 /\ rec'.startPending = rec.startPending /\ rec'.generation = rec.generation /\ rec'.stop = 0
  BY <1>p2, <1>4 DEF Recorder
<1>7. /\ rec'.context = 0 /\ rec'.stream = 0 /\ rec'.node = 0 /\ rec'.chunks = {} /\ rec'.live = 0
  BY <1>p2, <1>4 DEF Recorder, NoInput
<1>8. ~rec'.limitError /\ ~rec'.stopping /\ ~rec'.cleanup BY <1>p2, <1>4 DEF Recorder, NoLimits
<1>t. MicTypes' BY <1>1, <1>3, <1>2, <1>5 DEF MicTypes, Handed, Moves
<1>f. Fields' BY <1>1, <1>6, <1>7, <1>8 DEF Fields
<1>o. OneEach' BY <1>1 DEF OneEach
<1>w. Waiting' BY <1>1, <1>3 DEF Waiting, Handed
<1>z. Cancels' BY <1>1, <1>6, <1>7, CancelsKept
<1>a. ASSUME NEW h \in 1 .. MaxGenerations PROVE Acquiring(h)' BY <1>1, <1>6 DEF Working, Acquiring
<1>s. ASSUME NEW t \in 1 .. MaxSessions PROVE Stopping(t)'
  <2>1. Stopping(t) /\ t # 0 BY <1>1
  <2>2. CASE t = s BY <1>2, <1>6, <2>1, <2>2 DEF Stopping, Moves, StopEnding
  <2>3. CASE t # s BY <1>2, <1>b, <2>1, <2>3, <1>6 DEF Stopping, Moves, StopEnding
  <2> QED BY <2>2, <2>3
<1> QED BY <1>t, <1>f, <1>o, <1>w, <1>z, <1>a, <1>s, InvariantNext

\* A stop goes on: what it has closed stays closed.
LEMMA StopGoesStep ==
  ASSUME Mic!RecorderAssumption, Invariant, NEW s \in 1 .. MaxSessions, stops[s].at \in {"awaitsStart"} \union StopEnding,
         NEW at \in StopEnding, stops' = [stops EXCEPT ![s].at = at],
         rec.start # 0 => acquisitions[rec.start].at = "ok", open' = {},
         NEW b \in BOOLEAN, b => rec.stop = s, b = TRUE \/ b = rec.stopping, NEW l \in {0, rec.live},
         rec' = [rec EXCEPT !.stopping = b, !.live = l], at = "aborting" => l = 0,
         sinks' \in [1 .. MaxSessions -> {"none", "open", "closed"}],
         \A t \in 1 .. MaxSessions : sinks'[t] = IF t = rec.live /\ l = 0 THEN "closed" ELSE sinks[t],
         UNCHANGED <<state, sid, starts, acquisitions, joined, cancelling, failing, heldAudio>>
  PROVE  Invariant'
<1> USE MicFacts
<1>1. /\ MicTypes /\ Fields /\ OneEach /\ Waiting /\ Cancels /\ \A h \in 1 .. MaxGenerations : Acquiring(h)
      /\ \A t \in 1 .. MaxSessions : Stopping(t)
  BY InvariantIs
<1>r. rec \in Recorder /\ rec.stop \in 0 .. MaxSessions /\ rec.live \in 0 .. MaxSessions /\ rec.start \in 0 .. MaxGenerations
  BY <1>1, PartsAre, RecorderIs
<1>2. Moves(stops', s, at) BY <1>1, StopMoves DEF StopEnding
<1>b. rec.stop = s
  <2>1. Stopping(s) BY <1>1
  <2> QED BY <2>1 DEF Stopping, StopEnding
<1>5. rec' \in Recorder
  <2>1. l \in 0 .. MaxSessions BY <1>r
  <2> QED BY <1>r, <2>1 DEF Recorder
<1>6. /\ rec'.start = rec.start /\ rec'.startPending = rec.startPending /\ rec'.generation = rec.generation
      /\ rec'.stop = rec.stop /\ rec'.chunks = rec.chunks /\ rec'.cleanup = rec.cleanup
  BY <1>r DEF Recorder
<1>7. /\ rec'.context = rec.context /\ rec'.stream = rec.stream /\ rec'.node = rec.node /\ rec'.limitError = rec.limitError
      /\ rec'.limitSet = rec.limitSet /\ rec'.listener = rec.listener
  BY <1>r DEF Recorder
<1>8. rec'.stopping = b /\ rec'.live = l BY <1>r DEF Recorder
<1>t. MicTypes' BY <1>1, <1>2, <1>5 DEF MicTypes, Moves
<1>f. Fields'
  <2>1. rec.stopping => b BY <1>1
  <2>2. rec.limitError => b \/ (rec.stream = 0 /\ l = 0) BY <1>1, <2>1 DEF Fields
  <2>3. b => rec.stop # 0 /\ stops'[rec.stop].at \in StopEnding BY <1>2, <1>b DEF Moves
  <2>4. l # 0 => rec.start # 0 /\ acquisitions[rec.start].by = l BY <1>1 DEF Fields
  <2>5. ~Streams => l = 0 BY <1>1 DEF Fields
  <2> QED BY <1>1, <1>6, <1>7, <1>8, <2>2, <2>3, <2>4, <2>5 DEF Fields
<1>o. OneEach' BY <1>1 DEF OneEach
<1>w. Waiting' BY <1>1 DEF Waiting
<1>z. Cancels' BY <1>1, <1>6, <1>7, <1>8, CancelsKept
<1>a. ASSUME NEW h \in 1 .. MaxGenerations PROVE Acquiring(h)' BY <1>1, <1>6, <1>7, <1>8 DEF Acquiring
<1>s. ASSUME NEW t \in 1 .. MaxSessions PROVE Stopping(t)'
  <2>1. Stopping(t) /\ t # 0 BY <1>1
  <2>2. CASE t = s BY <1>2, <1>6, <1>8, <1>b, <2>2 DEF Stopping, Moves, StopEnding
  <2>3. CASE t # s BY <1>2, <1>b, <2>1, <2>3, <1>6 DEF Stopping, Moves, StopEnding
  <2> QED BY <2>2, <2>3
<1> QED BY <1>t, <1>f, <1>o, <1>w, <1>z, <1>a, <1>s, InvariantNext

\* A stop whose start has succeeded, or that found none, finds no acquisition under way.
LEMMA NoneIsWorking ==
  ASSUME Mic!RecorderAssumption, Invariant, NEW s \in 1 .. MaxSessions, stops[s].at \in {"awaitsStart"} \union StopEnding,
         stops[s].at = "awaitsStart" /\ stops[s].on # 0 => acquisitions[stops[s].on].at = "ok"
  PROVE  /\ rec.start # 0 => acquisitions[rec.start].at = "ok"
         /\ \A h \in 1 .. MaxGenerations : acquisitions[h].at \notin Working
<1> USE MicFacts
<1>1. Stopping(s) /\ (\A h \in 1 .. MaxGenerations : Acquiring(h)) BY InvariantIs
<1>2. rec.start # 0 => acquisitions[rec.start].at = "ok"
  <2>1. CASE stops[s].at \in StopEnding BY <2>1, StopIsEnding
  <2>2. CASE stops[s].at = "awaitsStart" BY <1>1, <2>2 DEF Stopping
  <2> QED BY <2>1, <2>2
<1>3. ASSUME NEW h \in 1 .. MaxGenerations, acquisitions[h].at \in Working PROVE FALSE
  <2>1. rec.start = h BY <1>1, <1>3 DEF Acquiring
  <2> QED BY <1>2, <1>3, <2>1 DEF Working
<1> QED BY <1>2, <1>3

LEMMA StopContinuesStep ==
  ASSUME Mic!RecorderAssumption, Invariant, NEW s \in 1 .. MaxSessions, Mic!StopContinues(s)
  PROVE  Invariant'
<1> USE MicFacts
<1>1. MicTypes /\ Fields /\ Stopping(s) /\ (\A h \in 1 .. MaxGenerations : Acquiring(h)) BY InvariantIs
<1>c. /\ stops[s].at = "awaitsStart" /\ UNCHANGED <<sid, starts, acquisitions, cancelling, sinks>>
  BY DEF Mic!StopContinues
<1>g. stops[s].on \in 0 .. MaxGenerations BY <1>1, PartsAre DEF Stop
<1>e. PICK error : error = IF stops[s].on = 0 THEN "none" ELSE acquisitions[stops[s].on].error OBVIOUS
<1>2. \/ error # "none" /\ Mic!StopEnds(s, error, {}, rec) /\ UNCHANGED open
      \/ error = "none" /\ rec.limitError /\ Mic!StopEnds(s, "failed", {}, Mic!AfterStop(rec)) /\ UNCHANGED open
      \/ error = "none" /\ Mic!StopEnds(s, "failed", {}, rec) /\ UNCHANGED open
      \/ /\ error = "none" /\ rec' = [rec EXCEPT !.stopping = TRUE] /\ open' = Mic!Closed
         /\ stops' = [stops EXCEPT ![s].at = "closing"] /\ UNCHANGED <<joined, heldAudio, failing, state>>
  BY <1>e DEF Mic!StopContinues
<1>3. error = "none" /\ stops[s].on # 0 => acquisitions[stops[s].on].at = "ok" BY <1>1, <1>g, <1>e DEF Mic!StopContinues, Mic!StartSettled, Acquiring
<1>s. rec.stop = s BY <1>1, <1>c DEF Stopping
<1>k. ~rec.stopping
  <2>1. stops[s].at \notin StopEnding BY <1>c DEF StopEnding
  <2> QED BY <1>s, <2>1, EndsOne
<1>4. CASE error # "none" /\ Mic!StopEnds(s, error, {}, rec) /\ UNCHANGED open
  <2>1. error \in {"cancelled", "failed"} BY <1>4, <1>e, <1>1, <1>g, PartsAre DEF Acquisition
  <2> QED BY <1>4, <1>c, <2>1, StopFailsStep
<1>5. CASE error = "none" /\ rec.limitError /\ Mic!StopEnds(s, "failed", {}, Mic!AfterStop(rec)) /\ UNCHANGED open
  <2>1. rec.stream = 0 /\ rec.live = 0 BY <1>1, <1>5, <1>k DEF Fields
  <2>2. open = {} BY <2>1, NothingHeard
  <2>3. sinks' \in [1 .. MaxSessions -> {"none", "open", "closed"}] BY <1>1, <1>c DEF MicTypes
  <2>4. \A t \in 1 .. MaxSessions : sinks'[t] = IF t = rec.live THEN "closed" ELSE sinks[t] BY <1>c, <2>1
  <2>5. \A h \in 1 .. MaxGenerations : acquisitions[h].at \notin Working
    BY <1>3, <1>5, <1>c, NoneIsWorking
  <2>6. "failed" \in {"audio", "cancelled", "failed"} /\ stops[s].at \in {"awaitsStart"} \union StopEnding BY <1>c
  <2> QED BY <1>5, <1>c, <2>2, <2>3, <2>4, <2>5, <2>6, Nothing, StopResetsStep
<1>6. CASE error = "none" /\ Mic!StopEnds(s, "failed", {}, rec) /\ UNCHANGED open BY <1>6, <1>c, StopFailsStep
<1>7. CASE /\ error = "none" /\ rec' = [rec EXCEPT !.stopping = TRUE] /\ open' = Mic!Closed
           /\ stops' = [stops EXCEPT ![s].at = "closing"] /\ UNCHANGED <<joined, heldAudio, failing, state>>
  <2>1. open' = {} BY <1>1, <1>7 DEF Mic!Closed, Fields
  <2>2. PICK b \in BOOLEAN : b = TRUE OBVIOUS
  <2>3. PICK l \in {0, rec.live} : l = rec.live OBVIOUS
  <2>4. rec \in Recorder BY <1>1, PartsAre
  <2>5. rec' = [rec EXCEPT !.stopping = b, !.live = l] BY <1>7, <2>2, <2>3, <2>4 DEF Recorder
  <2>6. rec.start # 0 => acquisitions[rec.start].at = "ok" BY <1>3, <1>7, <1>c, NoneIsWorking
  <2>7. sinks' \in [1 .. MaxSessions -> {"none", "open", "closed"}] BY <1>1, <1>c DEF MicTypes
  <2>8. \A t \in 1 .. MaxSessions : sinks'[t] = IF t = rec.live /\ l = 0 THEN "closed" ELSE sinks[t]
    BY <1>c, <2>3
  <2>9. "closing" \in StopEnding /\ stops[s].at \in {"awaitsStart"} \union StopEnding /\ "closing" # "aborting" BY <1>c DEF StopEnding
  <2>10. (b => rec.stop = s) /\ (b = TRUE \/ b = rec.stopping) BY <1>s, <2>2
  <2> QED BY <1>7, <1>c, <2>1, <2>5, <2>6, <2>7, <2>8, <2>9, <2>10, StopGoesStep
<1> QED BY <1>2, <1>4, <1>5, <1>6, <1>7

\* The transport is given up: the sink is aborted.
LEMMA StopAbortsLive ==
  ASSUME Mic!RecorderAssumption, Invariant, NEW s \in 1 .. MaxSessions, stops[s].at \in StopEnding,
         stops' = [stops EXCEPT ![s].at = "aborting"], rec' = [rec EXCEPT !.live = Mic!None], sinks' = Mic!SinkAborted,
         UNCHANGED <<state, sid, starts, acquisitions, joined, cancelling, open, failing, heldAudio>>
  PROVE  Invariant'
<1> USE MicFacts
<1>1. MicTypes /\ Fields /\ rec \in Recorder BY InvariantIs, PartsAre
<1>2. rec.stop = s /\ open = {} /\ (rec.start # 0 => acquisitions[rec.start].at = "ok") BY StopIsEnding
<1>3. PICK b \in BOOLEAN : b = rec.stopping BY <1>1, RecorderIs
<1>4. PICK l \in {0, rec.live} : l = 0 OBVIOUS
<1>5. rec' = [rec EXCEPT !.stopping = b, !.live = l] BY <1>1, <1>3, <1>4 DEF Recorder
<1>6. /\ sinks' \in [1 .. MaxSessions -> {"none", "open", "closed"}]
      /\ \A t \in 1 .. MaxSessions : sinks'[t] = IF t = rec.live THEN "closed" ELSE sinks[t]
  BY <1>1, SinkGoes
<1>7. \A t \in 1 .. MaxSessions : sinks'[t] = IF t = rec.live /\ l = 0 THEN "closed" ELSE sinks[t] BY <1>4, <1>6
<1>8. "aborting" \in StopEnding /\ stops[s].at \in {"awaitsStart"} \union StopEnding /\ l = 0 BY <1>4 DEF StopEnding
<1>9. (b => rec.stop = s) /\ (b = TRUE \/ b = rec.stopping) BY <1>2, <1>3
<1>10. open' = {} BY <1>2
<1> QED BY <1>2, <1>5, <1>6, <1>7, <1>8, <1>9, <1>10, StopGoesStep

LEMMA StopIsOver ==
  ASSUME Mic!RecorderAssumption, Invariant, NEW s \in 1 .. MaxSessions, stops[s].at \in StopEnding,
         NEW result \in {"audio", "cancelled", "failed"}, NEW audio \in SUBSET (1 .. MaxSessions),
         Mic!StopEnds(s, result, audio, Mic!AfterStop(rec)),
         rec.live = 0 => sinks' = sinks, rec.live # 0 => sinks' = [sinks EXCEPT ![rec.live] = "closed"],
         UNCHANGED <<sid, starts, acquisitions, cancelling, open>>
  PROVE  Invariant'
<1> USE MicFacts
<1>1. MicTypes /\ rec \in Recorder BY InvariantIs, PartsAre
<1>2. open = {} BY StopIsEnding
<1>3. stops[s].at # "awaitsStart" /\ stops[s].at \in {"awaitsStart"} \union StopEnding BY DEF StopEnding
<1>4. \A h \in 1 .. MaxGenerations : acquisitions[h].at \notin Working BY <1>3, NoneIsWorking
<1>5. sinks \in [1 .. MaxSessions -> {"none", "open", "closed"}] /\ rec.live \in 0 .. MaxSessions
  BY <1>1, RecorderIs DEF MicTypes
<1>6. /\ sinks' \in [1 .. MaxSessions -> {"none", "open", "closed"}]
      /\ \A t \in 1 .. MaxSessions : sinks'[t] = IF t = rec.live THEN "closed" ELSE sinks[t]
  BY <1>5
<1> QED BY <1>2, <1>3, <1>4, <1>6, StopResetsStep

LEMMA StopClosesStep ==
  ASSUME Mic!RecorderAssumption, Invariant, NEW s \in 1 .. MaxSessions, Mic!StopCloses(s)
  PROVE  Invariant'
<1> USE MicFacts
<1>1. MicTypes /\ Fields /\ rec \in Recorder BY InvariantIs, PartsAre
<1>c. stops[s].at \in StopEnding /\ UNCHANGED <<sid, starts, acquisitions, cancelling, open>>
  BY DEF Mic!StopCloses, StopEnding
<1>x. "failed" \in {"audio", "cancelled", "failed"} /\ "audio" \in {"audio", "cancelled", "failed"} OBVIOUS
<1>2. CASE /\ stops' = [stops EXCEPT ![s].at = "aborting"] /\ rec' = [rec EXCEPT !.live = Mic!None] /\ sinks' = Mic!SinkAborted
           /\ UNCHANGED <<joined, heldAudio, failing, state>>
  BY <1>2, <1>c, StopAbortsLive
<1>3. CASE rec.live = 0 /\ Mic!StopEnds(s, "failed", {}, Mic!AfterStop(rec)) /\ UNCHANGED sinks BY <1>3, <1>c, <1>x, Nothing, StopIsOver
<1>4. CASE /\ stops' = [stops EXCEPT ![s].at = "finishing"]
           /\ UNCHANGED <<rec, joined, heldAudio, failing, state, sinks>>
  <2>2. rec.stop = s /\ open = {} /\ (rec.start # 0 => acquisitions[rec.start].at = "ok") BY <1>c, StopIsEnding
  <2>3. PICK b \in BOOLEAN : b = rec.stopping BY <1>1, RecorderIs
  <2>4. PICK l \in {0, rec.live} : l = rec.live OBVIOUS
  <2>5. rec' = [rec EXCEPT !.stopping = b, !.live = l] BY <1>1, <1>4, <2>3, <2>4 DEF Recorder
  <2>6. sinks' \in [1 .. MaxSessions -> {"none", "open", "closed"}] BY <1>1, <1>4 DEF MicTypes
  <2>7. \A t \in 1 .. MaxSessions : sinks'[t] = IF t = rec.live /\ l = 0 THEN "closed" ELSE sinks[t] BY <1>4, <2>4
  <2>8. "finishing" \in StopEnding /\ stops[s].at \in {"awaitsStart"} \union StopEnding /\ "finishing" # "aborting" BY <1>c DEF StopEnding
  <2>9. (b => rec.stop = s) /\ (b = TRUE \/ b = rec.stopping) BY <2>2, <2>3
  <2>10. open' = {} BY <1>c, <2>2
  <2> QED BY <1>4, <1>c, <2>2, <2>5, <2>6, <2>7, <2>8, <2>9, <2>10, StopGoesStep
<1>5. CASE ~Streams /\ Mic!StopEnds(s, "audio", rec.chunks, Mic!AfterStop(rec)) /\ UNCHANGED sinks
  BY <1>1, <1>5, RecorderIs, <1>c, <1>x, StopIsOver DEF Fields
<1> QED BY <1>2, <1>3, <1>4, <1>5 DEF Mic!StopCloses

LEMMA StopFinishesStep ==
  ASSUME Mic!RecorderAssumption, Invariant, NEW s \in 1 .. MaxSessions, Mic!StopFinishes(s)
  PROVE  Invariant'
<1> USE MicFacts
<1>1. MicTypes /\ rec \in Recorder BY InvariantIs, PartsAre
<1>c. stops[s].at \in StopEnding /\ rec.live # 0 /\ UNCHANGED <<sid, starts, acquisitions, cancelling, open>>
  BY DEF Mic!StopFinishes, StopEnding
<1>2. CASE Mic!StopEnds(s, "audio", rec.chunks, Mic!AfterStop(rec)) /\ sinks' = [sinks EXCEPT ![rec.live] = "closed"]
  BY <1>1, RecorderIs, <1>2, <1>c, StopIsOver
<1>3. CASE /\ stops' = [stops EXCEPT ![s].at = "aborting"] /\ rec' = [rec EXCEPT !.live = Mic!None] /\ sinks' = Mic!SinkAborted
           /\ UNCHANGED <<joined, heldAudio, failing, state>>
  BY <1>3, <1>c, StopAbortsLive
<1> QED BY <1>2, <1>3 DEF Mic!StopFinishes

LEMMA StopAbortsStep ==
  ASSUME Mic!RecorderAssumption, Invariant, NEW s \in 1 .. MaxSessions, Mic!StopAborts(s)
  PROVE  Invariant'
<1>1. stops[s].at = "aborting" /\ UNCHANGED <<sid, starts, acquisitions, cancelling, open, sinks>> BY DEF Mic!StopAborts
<1>2. Stopping(s) BY InvariantIs
<1>3. rec.live = 0 BY <1>1, <1>2 DEF Stopping
<1>4. stops[s].at \in StopEnding /\ "failed" \in {"audio", "cancelled", "failed"} BY <1>1 DEF StopEnding
<1>5. Mic!StopEnds(s, "failed", {}, Mic!AfterStop(rec)) BY DEF Mic!StopAborts
<1>6. (rec.live = 0 => sinks' = sinks) /\ (rec.live # 0 => sinks' = [sinks EXCEPT ![rec.live] = "closed"]) BY <1>1, <1>3
<1> QED BY <1>1, <1>4, <1>5, <1>6, Nothing, StopIsOver

\* A cancellation tears down what there is.
LEMMA TeardownStep ==
  ASSUME Mic!RecorderAssumption, Invariant, Mic!Teardown,
         NEW at \in {"closing", "closingAgain"}, cancelling' = [cancelling EXCEPT !.at = at],
         at = "closing" => /\ cancelling.at = "awaitsStop" /\ Mic!StopSettled(cancelling.stop)
                           /\ ~(cancelling.cleanup /\ rec.cleanup),
         at = "closingAgain" => cancelling.at = "awaitsStart" /\ Mic!StartSettled(cancelling.start),
         UNCHANGED <<state, sid, starts, acquisitions, stops, joined, failing, heldAudio>>
  PROVE  Invariant'
<1> USE MicFacts
<1>1. /\ MicTypes /\ Fields /\ OneEach /\ Waiting /\ Cancels /\ \A h \in 1 .. MaxGenerations : Acquiring(h)
      /\ \A s \in 1 .. MaxSessions : Stopping(s)
  BY InvariantIs
<1>2. /\ rec' \in Recorder /\ NoInput(rec') /\ SameLimits(rec, rec') /\ SameStart(rec, rec') /\ SameStop(rec, rec') /\ rec'.live = 0
  BY <1>1, PartsAre, InputGoes DEF Mic!Teardown, Mic!None
<1>3. /\ cancelling' \in Cancellation /\ cancelling'.at = at /\ cancelling'.start = cancelling.start
      /\ cancelling'.stop = cancelling.stop /\ cancelling'.cleanup = cancelling.cleanup
  <2>1. cancelling \in Cancellation BY <1>1, PartsAre
  <2> QED BY <2>1 DEF Cancellation
<1>5. /\ sinks' \in [1 .. MaxSessions -> {"none", "open", "closed"}]
      /\ \A s \in 1 .. MaxSessions : sinks'[s] = IF s = rec.live THEN "closed" ELSE sinks[s]
  BY <1>1, SinkGoes DEF Mic!Teardown
<1>6. open' = {} BY <1>1 DEF Mic!Teardown, Mic!Closed, Fields
<1>q. /\ rec'.start = rec.start /\ rec'.startPending = rec.startPending /\ rec'.generation = rec.generation
      /\ rec'.stop = rec.stop /\ rec'.stopping = rec.stopping /\ rec'.cleanup = rec.cleanup
      /\ rec'.limitError = rec.limitError /\ rec'.limitSet = rec.limitSet /\ rec'.listener = rec.listener
      /\ rec'.context = 0 /\ rec'.stream = 0 /\ rec'.node = 0 /\ rec'.chunks = {} /\ rec'.live = 0
  BY <1>2 DEF NoInput, SameLimits, SameStart, SameStop
<1>t. MicTypes' BY <1>1, <1>2, <1>3, <1>5, <1>6 DEF MicTypes
<1>f. Fields' BY <1>1, <1>6, <1>q DEF Fields
<1>o. OneEach' BY <1>1 DEF OneEach
<1>w. Waiting' BY <1>1 DEF Waiting
<1>z. Cancels' BY <1>1, <1>3, <1>q, MicFacts DEF Cancels, Mic!StartSettled
<1>a. ASSUME NEW h \in 1 .. MaxGenerations PROVE Acquiring(h)' BY <1>1, <1>q DEF Acquiring, Cancels
<1>s. ASSUME NEW s \in 1 .. MaxSessions PROVE Stopping(s)' BY <1>1, <1>6, <1>q DEF Stopping
<1> QED BY <1>t, <1>f, <1>o, <1>w, <1>z, <1>a, <1>s, InvariantNext

LEMMA CancelContinuesStep ==
  ASSUME Mic!RecorderAssumption, Invariant, Mic!CancelContinues \/ Mic!CancelTearsDownAgain
  PROVE  Invariant'
<1>x. "closing" \in {"closing", "closingAgain"} /\ "closingAgain" \in {"closing", "closingAgain"} /\ "closing" # "closingAgain" OBVIOUS
<1>1. CASE Mic!CancelContinues BY <1>1, <1>x, TeardownStep DEF Mic!CancelContinues
<1>2. CASE Mic!CancelTearsDownAgain BY <1>2, <1>x, TeardownStep DEF Mic!CancelTearsDownAgain
<1> QED BY <1>1, <1>2

\* The recorder that was torn down has closed; the cancellation waits for its start, or is over.
LEMMA CancelClosesStep ==
  ASSUME Mic!RecorderAssumption, Invariant, Mic!CancelCloses
  PROVE  Invariant'
<1> USE MicFacts
<1>1. /\ MicTypes /\ Fields /\ OneEach /\ Waiting /\ Cancels /\ \A h \in 1 .. MaxGenerations : Acquiring(h)
      /\ \A s \in 1 .. MaxSessions : Stopping(s)
  BY InvariantIs
<1>c. /\ cancelling.at \in {"closing", "closingAgain"}
      /\ UNCHANGED <<state, sid, starts, acquisitions, stops, joined, open, sinks, failing, heldAudio>>
  BY DEF Mic!CancelCloses
<1>r. /\ rec.start \in 0 .. MaxGenerations /\ rec.startPending \in 0 .. MaxGenerations /\ rec.stop \in 0 .. MaxSessions
      /\ rec.generation \in 0 .. MaxGenerations /\ rec \in Recorder
      /\ cancelling \in Cancellation /\ cancelling.start \in 0 .. MaxGenerations
  BY <1>1, PartsAre, RecorderIs DEF Cancellation
<1>d. rec.stream = 0 /\ rec.live = 0 /\ rec.context = 0 /\ rec.node = 0 /\ rec.chunks = {} /\ open = {}
  <2>1. rec.stream = 0 /\ rec.live = 0 BY <1>1, <1>c DEF Cancels
  <2> QED BY <2>1, NothingHeard
<1>p1. PICK p : p = Mic!TornDown(rec) OBVIOUS
<1>p2. /\ p \in Recorder /\ SameInput(rec, p) /\ NoLimits(p) /\ SameStart(rec, p)
       /\ p.stop = rec.stop /\ p.stopping = FALSE /\ p.cleanup = rec.cleanup /\ p.live = rec.live
  BY <1>r, <1>p1, TearingEnds
<1>2. PICK x \in 0 .. MaxGenerations : x = IF cancelling.at = "closing" /\ cancelling.start # 0 THEN rec.start
                                           ELSE IF rec.start = cancelling.start THEN 0 ELSE rec.start
  BY <1>r, Nothing
<1>3. rec' = [p EXCEPT !.start = x]
  <2>1. p.start = rec.start BY <1>p2 DEF SameStart
  <2>2. CASE cancelling.at = "closing" /\ cancelling.start # 0
    BY <1>p1, <2>2, <1>p2, <1>2, <2>1 DEF Mic!CancelCloses, Mic!CancelWaits, Mic!None, Recorder
  <2>3. CASE ~(cancelling.at = "closing" /\ cancelling.start # 0)
    BY <1>p1, <2>3, <1>2, <2>1 DEF Mic!CancelCloses, Mic!CancelWaits, Mic!CancelEnds, Mic!None
  <2> QED BY <2>2, <2>3
<1>4. \/ /\ cancelling.at = "closing" /\ cancelling.start # 0 /\ x = rec.start
         /\ cancelling' = [cancelling EXCEPT !.at = "awaitsStart"]
      \/ /\ cancelling.start = 0 \/ cancelling.at = "closingAgain"
         /\ x = (IF rec.start = cancelling.start THEN 0 ELSE rec.start) /\ cancelling' = Mic!NoCancel
  BY <1>2, <1>c DEF Mic!CancelCloses, Mic!CancelWaits, Mic!CancelEnds, Mic!None
<1>5. rec' \in Recorder BY <1>p2, <1>3 DEF Recorder
<1>6. /\ rec'.start = x /\ rec'.startPending = rec.startPending /\ rec'.generation = rec.generation
      /\ rec'.stop = rec.stop /\ rec'.cleanup = rec.cleanup
  BY <1>p2, <1>3 DEF Recorder, SameStart
<1>7. ~rec'.limitError BY <1>p2, <1>3 DEF Recorder, NoLimits
<1>8. ~rec'.stopping BY <1>p2, <1>3 DEF Recorder
<1>9. rec'.context = 0 /\ rec'.stream = 0 /\ rec'.node = 0 /\ rec'.chunks = {} BY <1>d, <1>p2, <1>3 DEF Recorder, SameInput
<1>10. rec'.live = 0 BY <1>d, <1>p2, <1>3 DEF Recorder
<1>11. /\ cancelling' \in Cancellation
       /\ \/ cancelling'.at = "awaitsStart" /\ x = rec.start /\ cancelling.start # 0 /\ cancelling'.start = cancelling.start
          \/ /\ cancelling.start = 0 \/ cancelling.at = "closingAgain"
             /\ cancelling'.at = "none" /\ x = (IF rec.start = cancelling.start THEN 0 ELSE rec.start)
  <2>1. CASE /\ cancelling.at = "closing" /\ cancelling.start # 0 /\ x = rec.start
             /\ cancelling' = [cancelling EXCEPT !.at = "awaitsStart"]
    BY <1>r, <2>1 DEF Cancellation
  <2>2. CASE /\ cancelling.start = 0 \/ cancelling.at = "closingAgain"
             /\ x = (IF rec.start = cancelling.start THEN 0 ELSE rec.start) /\ cancelling' = Mic!NoCancel
    <3>1. PICK b \in BOOLEAN : b = FALSE OBVIOUS
    <3>2. cancelling' = [at |-> "none", start |-> 0, stop |-> 0, cleanup |-> b] BY <2>2, <3>1 DEF Mic!NoCancel, Mic!None
    <3>3. cancelling' \in Cancellation /\ cancelling'.at = "none" BY <3>2, Nothing DEF Cancellation
    <3> QED BY <2>2, <3>3
  <2> QED BY <1>4, <2>1, <2>2
<1>12. x \in {0, rec.start} BY <1>2
<1>13. x # rec.start => rec.start # 0 /\ cancelling.start = rec.start /\ acquisitions[rec.start].at \in {"ok", "failed"}
  BY <1>1, <1>11 DEF Cancels
<1>t. MicTypes' BY <1>1, <1>c, <1>5, <1>11 DEF MicTypes
<1>f. Fields' BY <1>1, <1>c, <1>d, <1>6, <1>7, <1>8, <1>9, <1>10, <1>12 DEF Fields
<1>o. OneEach' BY <1>1, <1>c DEF OneEach
<1>w. Waiting' BY <1>1, <1>c DEF Waiting
<1>z. Cancels' BY <1>11, <1>1, <1>c, <1>6, <1>9, <1>10 DEF Cancels
<1>a. ASSUME NEW h \in 1 .. MaxGenerations PROVE Acquiring(h)'
  <2>1. Acquiring(h) BY <1>1
  <2>2. acquisitions[h].at \in Working => x = h BY <2>1, <1>13 DEF Acquiring, Working
  <2>3. acquisitions[h].at # "none" => h # rec.generation
    <3>1. cancelling.at # "none" BY <1>c
    <3> QED BY <1>1, <3>1 DEF Cancels
  <2> QED BY <1>c, <1>6, <1>9, <1>10, <1>7, <2>1, <2>2, <2>3 DEF Acquiring
<1>s. ASSUME NEW s \in 1 .. MaxSessions PROVE Stopping(s)'
  BY <1>1, <1>c, <1>d, <1>6, <1>10, <1>12 DEF Stopping
<1> QED BY <1>t, <1>f, <1>o, <1>w, <1>z, <1>a, <1>s, InvariantNext

\* The user dictates.
LEMMA ListenStep ==
  ASSUME Mic!RecorderAssumption, Invariant, Mic!Listen
  PROVE  Invariant'
<1> USE MicFacts
<1>1. /\ MicTypes /\ Fields /\ OneEach /\ Waiting /\ Cancels /\ \A h \in 1 .. MaxGenerations : Acquiring(h)
      /\ \A s \in 1 .. MaxSessions : Stopping(s)
  BY InvariantIs
<1>c. /\ state \in {"idle", "transcribing"} /\ sid < MaxSessions
      /\ state' = "listening" /\ sid' = sid + 1
      /\ UNCHANGED <<acquisitions, stops, joined, cancelling, rec, open, sinks, failing, heldAudio>>
  BY DEF Mic!Listen, Mic!CancelPending
<1>n. PICK n \in 1 .. MaxSessions : n = sid + 1 BY <1>1, <1>c DEF MicTypes
<1>g. sid \in 0 .. MaxSessions /\ n > sid /\ sid' = n
      /\ \A s \in 1 .. MaxSessions : (s > n => s > sid) /\ (s > sid => s > n \/ s = n)
  BY <1>1, <1>c, <1>n DEF MicTypes
<1>2. PICK v \in {"opening", "loop"} : v = IF Streams THEN "opening" ELSE "loop" OBVIOUS
<1>3. /\ starts' \in [1 .. MaxSessions -> {"none", "opening", "loop", "joined", "done"}]
      /\ starts'[n] = v /\ \A s \in 1 .. MaxSessions : s # n => starts'[s] = starts[s]
  BY <1>n, <1>2, <1>1 DEF Mic!Listen, MicTypes
<1>4. starts[n] = "none" BY <1>1, <1>g DEF Waiting
<1>t. MicTypes' BY <1>1, <1>c, <1>3, <1>g DEF MicTypes
<1>f. Fields' BY <1>1, <1>c DEF Fields
<1>o. OneEach' BY <1>1, <1>c DEF OneEach
<1>w. Waiting'
  <2>1. sid' # 0 BY <1>g
  <2>2. \A s \in 1 .. MaxSessions : s > n => starts'[s] = "none" BY <1>g, <1>1, <1>3 DEF Waiting
  <2>3. \A s \in 1 .. MaxSessions : starts'[s] = "joined" => \E h \in 1 .. MaxGenerations : acquisitions'[h].by = s
    BY <1>1, <1>2, <1>3, <1>c DEF Waiting
  <2> QED BY <1>g, <2>1, <2>2, <2>3 DEF Waiting
<1>z. Cancels' BY <1>1, <1>c, CancelsKept
<1>a. ASSUME NEW h \in 1 .. MaxGenerations PROVE Acquiring(h)' BY <1>1, PartsAre, <1>4, <1>3, <1>c DEF Acquisition, Acquiring
<1>s. ASSUME NEW s \in 1 .. MaxSessions PROVE Stopping(s)' BY <1>1, <1>c DEF Stopping
<1> QED BY <1>t, <1>f, <1>o, <1>w, <1>z, <1>a, <1>s, InvariantNext

\* The main process has opened the sink of a session, or could not.
LEMMA SinkOpensStep ==
  ASSUME Mic!RecorderAssumption, Invariant, NEW s \in 1 .. MaxSessions, Mic!SinkOpens(s)
  PROVE  Invariant'
<1> USE MicFacts
<1>1. /\ MicTypes /\ Fields /\ OneEach /\ Waiting /\ Cancels /\ \A h \in 1 .. MaxGenerations : Acquiring(h)
      /\ \A t \in 1 .. MaxSessions : Stopping(t)
  BY InvariantIs
<1>c. /\ starts[s] = "opening"
      /\ UNCHANGED <<state, sid, acquisitions, stops, joined, cancelling, rec, open, heldAudio>>
  BY DEF Mic!SinkOpens
<1>2. PICK v \in {"done", "loop"}, k \in {"none", "open", "closed"} :
        /\ starts' = [starts EXCEPT ![s] = v] /\ sinks' = [sinks EXCEPT ![s] = k]
        /\ \/ v = "done" /\ k = sinks[s] /\ failing' = failing \union {s}
           \/ v = "loop" /\ k = "open" /\ Mic!SinkWanted(s) /\ failing' = failing
           \/ v = "done" /\ k = "closed" /\ ~Mic!SinkWanted(s) /\ failing' = failing
  <2>1. sinks[s] \in {"none", "open", "closed"} /\ sinks = [sinks EXCEPT ![s] = sinks[s]] BY <1>1 DEF MicTypes
  <2>2. CASE Mic!Fails(s) /\ starts' = [starts EXCEPT ![s] = "done"] /\ UNCHANGED sinks BY <2>1, <2>2 DEF Mic!Fails
  <2>3. CASE /\ Mic!SinkWanted(s) /\ starts' = [starts EXCEPT ![s] = "loop"] /\ sinks' = [sinks EXCEPT ![s] = "open"]
             /\ UNCHANGED failing
    BY <2>3
  <2>4. CASE /\ ~Mic!SinkWanted(s) /\ starts' = [starts EXCEPT ![s] = "done"] /\ sinks' = [sinks EXCEPT ![s] = "closed"]
             /\ UNCHANGED failing
    BY <2>4
  <2> QED BY <2>2, <2>3, <2>4 DEF Mic!SinkOpens
<1>3. /\ starts' \in [1 .. MaxSessions -> {"none", "opening", "loop", "joined", "done"}]
      /\ starts'[s] = v /\ \A t \in 1 .. MaxSessions : t # s => starts'[t] = starts[t]
  BY <1>1, <1>2 DEF MicTypes
<1>4. /\ sinks' \in [1 .. MaxSessions -> {"none", "open", "closed"}]
      /\ sinks'[s] = k /\ \A t \in 1 .. MaxSessions : t # s => sinks'[t] = sinks[t]
  BY <1>1, <1>2 DEF MicTypes
<1>5. failing' \subseteq 1 .. MaxSessions BY <1>1, <1>2 DEF MicTypes
<1>t. MicTypes' BY <1>1, <1>c, <1>3, <1>4, <1>5 DEF MicTypes
<1>f. Fields' BY <1>1, <1>c DEF Fields
<1>o. OneEach' BY <1>1, <1>c DEF OneEach
<1>w. Waiting' BY <1>1, <1>c, <1>2, <1>3 DEF Waiting
<1>z. Cancels' BY <1>1, <1>c, CancelsKept
<1>a. ASSUME NEW h \in 1 .. MaxGenerations PROVE Acquiring(h)' BY <1>1, PartsAre, <1>c, <1>3 DEF Acquisition, Acquiring
<1>s. ASSUME NEW t \in 1 .. MaxSessions PROVE Stopping(t)' BY <1>1, <1>c DEF Stopping
<1> QED BY <1>t, <1>f, <1>o, <1>w, <1>z, <1>a, <1>s, InvariantNext

\* The key is released: the recorder is stopped.
LEMMA FinalizeStep ==
  ASSUME Mic!RecorderAssumption, Invariant, Mic!Finalize
  PROVE  Invariant'
<1> USE MicFacts
<1>1. /\ MicTypes /\ Fields /\ OneEach /\ Waiting /\ Cancels /\ \A h \in 1 .. MaxGenerations : Acquiring(h)
      /\ \A s \in 1 .. MaxSessions : Stopping(s)
  BY InvariantIs
<1>c. /\ state = "listening" /\ state' = "finalizing" /\ ~Mic!Ready
      /\ UNCHANGED <<sid, starts, acquisitions, cancelling, open, sinks, failing, heldAudio>>
  BY DEF Mic!Finalize
<1>g. sid \in 1 .. MaxSessions BY <1>1, <1>c DEF Waiting, MicTypes
<1>r. rec \in Recorder /\ rec.start \in 0 .. MaxGenerations /\ rec.stop \in 0 .. MaxSessions BY <1>1, PartsAre, RecorderIs
<1>j. joined \in [1 .. MaxSessions -> 0 .. MaxSessions] BY <1>1 DEF MicTypes
<1>o. OneEach' BY <1>1, <1>c DEF OneEach
<1>w. Waiting' BY <1>1, <1>c DEF Waiting
<1>2. CASE rec.stop # 0
  <2>1. joined' = [joined EXCEPT ![sid] = rec.stop] /\ UNCHANGED <<stops, rec>> BY <1>2 DEF Mic!Finalize
  <2>t. MicTypes' BY <1>g, <1>j, <1>r, <2>1, <1>1, <1>c DEF MicTypes
  <2>f. Fields' BY <1>1, <1>c, <2>1 DEF Fields
  <2>z. Cancels' BY <1>1, <1>c, <2>1, CancelsKept
  <2>a. ASSUME NEW h \in 1 .. MaxGenerations PROVE Acquiring(h)' BY <1>1, <1>c, <2>1 DEF Acquiring
  <2>s. ASSUME NEW s \in 1 .. MaxSessions PROVE Stopping(s)' BY <1>1, <1>c, <2>1 DEF Stopping
  <2> QED BY <1>o, <1>w, <2>t, <2>f, <2>z, <2>a, <2>s, InvariantNext
<1>3. CASE rec.stop = 0
  <2>1. /\ joined' = [joined EXCEPT ![sid] = sid]
        /\ stops' = [stops EXCEPT ![sid].at = "awaitsStart", ![sid].on = rec.start]
        /\ rec' = [rec EXCEPT !.stop = sid]
    BY <1>3 DEF Mic!Finalize
  <2>2. joined' \in [1 .. MaxSessions -> 0 .. MaxSessions] /\ joined'[sid] = sid
        /\ \A t \in 1 .. MaxSessions : t # sid => joined'[t] = joined[t]
    BY <1>g, <1>j, <2>1
  <2>3. /\ stops' \in [1 .. MaxSessions -> Stop]
        /\ stops'[sid].at = "awaitsStart" /\ stops'[sid].on = rec.start
        /\ \A t \in 1 .. MaxSessions : t # sid => stops'[t] = stops[t]
    <3>1. stops \in [1 .. MaxSessions -> Stop] BY <1>1 DEF MicTypes
    <3>2. PICK a : a = [stops[sid] EXCEPT !.at = "awaitsStart", !.on = rec.start] OBVIOUS
    <3>3. stops[sid] \in Stop BY <1>g, <3>1
    <3>4. a \in Stop /\ a.at = "awaitsStart" /\ a.on = rec.start BY <1>r, <3>2, <3>3 DEF Stop
    <3>5. stops' = [stops EXCEPT ![sid] = a] BY <1>g, <2>1, <3>1, <3>2, <3>3 DEF Stop
    <3> QED BY <1>g, <3>1, <3>4, <3>5
  <2>4. sid \in 0 .. MaxSessions BY <1>g
  <2>5. rec' \in Recorder BY <1>r, <2>1, <2>4 DEF Recorder
  <2>6. /\ rec'.start = rec.start /\ rec'.startPending = rec.startPending /\ rec'.generation = rec.generation
        /\ rec'.stop = sid /\ rec'.stopping = rec.stopping /\ rec'.chunks = rec.chunks /\ rec'.cleanup = rec.cleanup
    BY <1>r, <2>1 DEF Recorder
  <2>7. /\ rec'.context = rec.context /\ rec'.stream = rec.stream /\ rec'.node = rec.node /\ rec'.limitError = rec.limitError
        /\ rec'.live = rec.live /\ rec'.limitSet = rec.limitSet /\ rec'.listener = rec.listener
    BY <1>r, <2>1 DEF Recorder
  <2>8. ~rec.stopping BY <1>3, EndsOne
  <2>9. \A t \in 1 .. MaxSessions : stops[t].at \in {"none", "done"} BY <1>3, <1>1 DEF Stopping
  <2>t. MicTypes' BY <1>1, <1>c, <2>2, <2>3, <2>5 DEF MicTypes
  <2>f. Fields' BY <1>1, <1>c, <2>6, <2>7, <2>8 DEF Fields
  <2>z. Cancels' BY <1>1, <1>c, <2>6, <2>7, CancelsKept
  <2>a. ASSUME NEW h \in 1 .. MaxGenerations PROVE Acquiring(h)' BY <1>1, <1>c, <2>6, <2>7 DEF Acquiring
  <2>s. ASSUME NEW s \in 1 .. MaxSessions PROVE Stopping(s)'
    <3>1. CASE s = sid BY <1>c, <2>3, <2>6, <3>1 DEF Stopping, StopEnding
    <3>2. CASE s # sid BY <2>3, <2>9, <3>2, <2>6 DEF Stopping, StopEnding
    <3> QED BY <3>1, <3>2
  <2> QED BY <1>o, <1>w, <2>t, <2>f, <2>z, <2>a, <2>s, InvariantNext
<1> QED BY <1>2, <1>3

\* The session ends, and what it asked of the recorder is cancelled.
LEMMA LeaveStep ==
  ASSUME Mic!RecorderAssumption, Invariant, Mic!Leave
  PROVE  Invariant'
<1> USE MicFacts
<1>1. /\ MicTypes /\ Fields /\ OneEach /\ Waiting /\ Cancels /\ \A h \in 1 .. MaxGenerations : Acquiring(h)
      /\ \A s \in 1 .. MaxSessions : Stopping(s)
  BY InvariantIs
<1>c. /\ state # "idle" /\ state' = "idle" /\ ~Mic!Ready /\ failing' = failing \ {sid}
      /\ UNCHANGED <<sid, starts, acquisitions, stops, joined, open, sinks, heldAudio>>
  BY DEF Mic!Leave
<1>r. /\ rec \in Recorder /\ rec.start \in 0 .. MaxGenerations /\ rec.stop \in 0 .. MaxSessions
      /\ rec.generation \in 0 .. MaxGenerations /\ rec.cleanup \in BOOLEAN
  BY <1>1, PartsAre, RecorderIs
<1>5. failing' \subseteq 1 .. MaxSessions BY <1>1, <1>c DEF MicTypes
<1>o. OneEach' BY <1>1, <1>c DEF OneEach
<1>w. Waiting' BY <1>1, <1>c DEF Waiting
<1>2. CASE (state = "transcribing" \/ Mic!CancelPending) /\ UNCHANGED <<cancelling, rec>>
  <2>t. MicTypes' BY <1>1, <1>c, <1>2, <1>5 DEF MicTypes
  <2>f. Fields' BY <1>1, <1>c, <1>2 DEF Fields
  <2>z. Cancels' BY <1>1, <1>c, <1>2, CancelsKept
  <2>a. ASSUME NEW h \in 1 .. MaxGenerations PROVE Acquiring(h)' BY <1>1, <1>c, <1>2 DEF Acquiring
  <2>s. ASSUME NEW s \in 1 .. MaxSessions PROVE Stopping(s)' BY <1>1, <1>c, <1>2 DEF Stopping
  <2> QED BY <1>o, <1>w, <2>t, <2>f, <2>z, <2>a, <2>s, InvariantNext
<1>3. CASE /\ state # "transcribing" /\ ~Mic!CancelPending /\ rec.generation < MaxGenerations
           /\ cancelling' = [at |-> "awaitsStop", start |-> rec.start, stop |-> rec.stop, cleanup |-> rec.cleanup]
           /\ rec' = [rec EXCEPT !.generation = @ + 1]
  <2>g. PICK g \in 1 .. MaxGenerations : g = rec.generation + 1 BY <1>3, <1>r
  <2>1. rec' = [rec EXCEPT !.generation = g] BY <1>3, <2>g
  <2>2. /\ cancelling' \in Cancellation /\ cancelling'.at = "awaitsStop" /\ cancelling'.start = rec.start
        /\ cancelling'.stop = rec.stop /\ cancelling'.cleanup = rec.cleanup
    BY <1>3, <1>r DEF Cancellation
  <2>3. g \in 0 .. MaxGenerations OBVIOUS
  <2>5. rec' \in Recorder BY <1>r, <2>1, <2>3 DEF Recorder
  <2>6. /\ rec'.start = rec.start /\ rec'.startPending = rec.startPending /\ rec'.generation = g
        /\ rec'.stop = rec.stop /\ rec'.stopping = rec.stopping /\ rec'.chunks = rec.chunks /\ rec'.cleanup = rec.cleanup
    BY <1>r, <2>1 DEF Recorder
  <2>7. /\ rec'.context = rec.context /\ rec'.stream = rec.stream /\ rec'.node = rec.node /\ rec'.limitError = rec.limitError
        /\ rec'.live = rec.live /\ rec'.limitSet = rec.limitSet /\ rec'.listener = rec.listener
    BY <1>r, <2>1 DEF Recorder
  <2>8. ASSUME NEW h \in 1 .. MaxGenerations, acquisitions[h].at # "none" PROVE h <= g /\ h < g /\ h # g
    <3>1. h <= rec.generation BY <1>1, <2>8 DEF Acquiring
    <3> QED BY <1>r, <2>g, <3>1
  <2>9. acquisitions[g].at = "none" BY <2>8
  <2>t. MicTypes' BY <1>1, <1>c, <1>5, <2>2, <2>5 DEF MicTypes
  <2>f. Fields' BY <1>1, <1>c, <2>6, <2>7 DEF Fields
  <2>z. Cancels' BY <1>c, <2>2, <2>6, <2>9 DEF Cancels
  <2>a. ASSUME NEW h \in 1 .. MaxGenerations PROVE Acquiring(h)'
    <3>1. Acquiring(h) BY <1>1
    <3>2. CASE acquisitions[h].at = "none" BY <1>c, <2>6, <2>7, <3>1, <3>2 DEF Acquiring, Working
    <3>3. CASE acquisitions[h].at # "none" BY <2>8, <3>3, <1>c, <2>6, <2>7, <3>1 DEF Acquiring
    <3> QED BY <3>2, <3>3
  <2>s. ASSUME NEW s \in 1 .. MaxSessions PROVE Stopping(s)' BY <1>1, <1>c, <2>6, <2>7 DEF Stopping
  <2> QED BY <1>o, <1>w, <2>t, <2>f, <2>z, <2>a, <2>s, InvariantNext
<1> QED BY <1>2, <1>3 DEF Mic!Leave, Mic!Cancel

LEMMA MicInit ==
  ASSUME Mic!RecorderAssumption, Mic!Init
  PROVE  Invariant
<1> USE MicFacts
<1>1. /\ state = "idle" /\ sid = 0 /\ cancelling = Mic!NoCancel /\ open = {} /\ failing = {}
      /\ starts = [s \in 1 .. MaxSessions |-> "none"] /\ joined = [s \in 1 .. MaxSessions |-> 0]
      /\ acquisitions = [g \in 1 .. MaxGenerations |-> [at |-> "none", by |-> 0, error |-> "none"]]
      /\ stops = [s \in 1 .. MaxSessions |-> [at |-> "none", on |-> 0, result |-> "none", audio |-> {}]]
      /\ sinks = [s \in 1 .. MaxSessions |-> "none"] /\ heldAudio = [s \in 1 .. MaxSessions |-> {}]
  BY DEF Mic!Init
<1>2. PICK b \in BOOLEAN : b = FALSE OBVIOUS
<1>3. rec = [generation |-> 0, context |-> 0, stream |-> 0, node |-> 0, chunks |-> {}, limitError |-> b, limitSet |-> b,
             stopping |-> b, start |-> 0, startPending |-> 0, stop |-> 0, cleanup |-> b, live |-> 0, listener |-> 0]
  BY <1>2 DEF Mic!Init
<1>4. rec \in Recorder BY <1>3, Nothing DEF Recorder
<1>5. /\ rec.generation = 0 /\ rec.context = 0 /\ rec.stream = 0 /\ rec.node = 0 /\ rec.chunks = {} /\ rec.start = 0
      /\ rec.startPending = 0 /\ rec.stop = 0 /\ rec.live = 0
  BY <1>3
<1>6. ~rec.limitError /\ ~rec.stopping /\ ~rec.cleanup BY <1>2, <1>3
<1>7. cancelling = [at |-> "none", start |-> 0, stop |-> 0, cleanup |-> b] BY <1>1, <1>2 DEF Mic!NoCancel
<1>8. cancelling \in Cancellation /\ cancelling.at = "none" BY <1>7, Nothing DEF Cancellation
<1>9. \A g \in 1 .. MaxGenerations : acquisitions[g] \in Acquisition /\ acquisitions[g].at = "none" /\ acquisitions[g].by = 0
        /\ acquisitions[g].error = "none"
  <2>1. PICK a : a = [at |-> "none", by |-> 0, error |-> "none"] OBVIOUS
  <2>2. a \in Acquisition /\ a.at = "none" /\ a.by = 0 /\ a.error = "none" BY <2>1, Nothing DEF Acquisition
  <2> QED BY <1>1, <2>1, <2>2
<1>10. \A s \in 1 .. MaxSessions : stops[s] \in Stop /\ stops[s].at = "none"
  <2>1. PICK a : a = [at |-> "none", on |-> 0, result |-> "none", audio |-> {}] OBVIOUS
  <2>2. a \in Stop /\ a.at = "none" BY <2>1, Nothing DEF Stop
  <2> QED BY <1>1, <2>1, <2>2
<1>11. acquisitions \in [1 .. MaxGenerations -> Acquisition] BY <1>1, <1>9
<1>12. stops \in [1 .. MaxSessions -> Stop] BY <1>1, <1>10
<1>t. MicTypes BY <1>1, <1>4, <1>8, <1>11, <1>12, Nothing DEF MicTypes
<1>f. Fields BY <1>1, <1>5, <1>6 DEF Fields
<1>o. OneEach BY <1>9 DEF OneEach
<1>w. Waiting BY <1>1 DEF Waiting
<1>z. Cancels BY <1>8 DEF Cancels
<1>a. ASSUME NEW h \in 1 .. MaxGenerations PROVE Acquiring(h) BY <1>9 DEF Acquiring, Working
<1>s. ASSUME NEW s \in 1 .. MaxSessions PROVE Stopping(s)
  <2>1. s # 0 OBVIOUS
  <2> QED BY <1>5, <1>10, <2>1 DEF Stopping, StopEnding
<1> QED BY <1>t, <1>f, <1>o, <1>w, <1>z, <1>a, <1>s, MicTypesAre DEF Invariant

LEMMA MicStutters ==
  ASSUME Mic!RecorderAssumption, Invariant, UNCHANGED Mic!vars
  PROVE  Invariant'
<1>1. UNCHANGED <<state, sid, starts, acquisitions, stops, joined, cancelling, rec, open, sinks, failing, heldAudio>>
  BY DEF Mic!vars, Mic!ops
<1>2. Mic!TypeOK' BY <1>1 DEF Invariant, Mic!TypeOK, Mic!Sessions, Mic!Generations
<1>3. Fields' /\ OneEach' /\ Waiting' /\ Cancels' BY <1>1 DEF Invariant, Fields, OneEach, Waiting, Cancels
<1>4. \A g \in 1 .. MaxGenerations : Acquiring(g)' BY <1>1 DEF Invariant, Acquiring
<1>5. \A s \in 1 .. MaxSessions : Stopping(s)' BY <1>1 DEF Invariant, Stopping
<1> QED BY <1>2, <1>3, <1>4, <1>5 DEF Invariant

LEMMA MicStep ==
  ASSUME Mic!RecorderAssumption, Invariant, Mic!Next
  PROVE  Invariant'
<1> USE MicFacts
<1>1. CASE \E s \in 1 .. MaxSessions : Mic!StartContinues(s) \/ Mic!StartReturns(s) \/ Mic!StopContinues(s)
  BY <1>1, StartContinuesStep, StartReturnsStep, StopContinuesStep
<1>2. CASE Mic!CancelContinues \/ Mic!CancelTearsDownAgain BY <1>2, CancelContinuesStep
<1>3. CASE \E g \in 1 .. MaxGenerations : Mic!InputAnswered(g) \/ Mic!ModuleAnswered(g) \/ Mic!ThrowCloses(g)
  BY <1>3, InputAnsweredStep, ModuleAnsweredStep, ThrowClosesStep
<1>4. CASE \E s \in 1 .. MaxSessions : Mic!SinkOpens(s) \/ Mic!StopCloses(s) \/ Mic!StopFinishes(s) \/ Mic!StopAborts(s)
  BY <1>4, SinkOpensStep, StopClosesStep, StopFinishesStep, StopAbortsStep
<1>5. CASE Mic!CancelCloses \/ Mic!CleanedUp BY <1>5, CancelClosesStep, CleanedUpStep
<1>6. CASE Mic!Chunk \/ Mic!TrackEnds BY <1>6, ChunkStep, TrackEndsStep
<1>7. CASE Mic!Listen \/ Mic!Finalize \/ Mic!Leave BY <1>7, ListenStep, FinalizeStep, LeaveStep
<1> QED BY <1>1, <1>2, <1>3, <1>4, <1>5, <1>6, <1>7 DEF Mic!Next, Mic!Continuation, Mic!Answer

\* What is delivered as the audio of a session is what one microphone heard.
LEMMA DeliversOne ==
  ASSUME Mic!RecorderAssumption, Invariant, Mic!AudioIsOfOne, [Mic!Next]_(Mic!vars)
  PROVE  Mic!AudioIsOfOne'
<1> USE MicFacts
<1>1. /\ MicTypes /\ Fields /\ (\A s \in 1 .. MaxSessions : Stopping(s)) BY InvariantIs
<1>2. CASE heldAudio' = heldAudio BY <1>2 DEF Mic!AudioIsOfOne
<1>3. ASSUME NEW s \in 1 .. MaxSessions, stops[s].at \in {"awaitsStart"} \union StopEnding, NEW result, NEW audio,
             Mic!Hand(s, result, audio), result = "audio" => audio = rec.chunks
      PROVE  Mic!AudioIsOfOne'
  <2>1. heldAudio' = [w \in 1 .. MaxSessions |->
          IF joined[w] = s /\ state = "finalizing" /\ sid = w /\ result = "audio" THEN audio ELSE heldAudio[w]]
    BY <1>3 DEF Mic!Hand
  <2>2. \A a, b \in rec.chunks : a = b BY <1>1 DEF Fields
  <2> QED BY <1>3, <2>1, <2>2 DEF Mic!AudioIsOfOne
<1>4. CASE \E s \in 1 .. MaxSessions : Mic!StopContinues(s)
  <2>1. PICK s \in 1 .. MaxSessions : Mic!StopContinues(s) BY <1>4
  <2>2. stops[s].at \in {"awaitsStart"} \union StopEnding BY <2>1 DEF Mic!StopContinues
  <2>3. CASE heldAudio' = heldAudio BY <1>2, <2>3
  <2>4. CASE heldAudio' # heldAudio
    <3>1. PICK error : error = IF stops[s].on = 0 THEN "none" ELSE acquisitions[stops[s].on].error OBVIOUS
    <3>2. error # "audio" BY <1>1, PartsAre, <3>1 DEF Stop, Acquisition
    <3>3. Mic!Hand(s, error, {}) \/ Mic!Hand(s, "failed", {}) BY <2>1, <2>4, <3>1 DEF Mic!StopContinues, Mic!StopEnds
    <3>4. "failed" # "audio" OBVIOUS
    <3> QED BY <1>3, <2>2, <3>2, <3>3, <3>4
  <2> QED BY <2>3, <2>4
<1>5. CASE \E s \in 1 .. MaxSessions : Mic!StopCloses(s) \/ Mic!StopFinishes(s) \/ Mic!StopAborts(s)
  <2>1. PICK s \in 1 .. MaxSessions : Mic!StopCloses(s) \/ Mic!StopFinishes(s) \/ Mic!StopAborts(s) BY <1>5
  <2>2. stops[s].at \in {"awaitsStart"} \union StopEnding
    BY <2>1 DEF Mic!StopCloses, Mic!StopFinishes, Mic!StopAborts, StopEnding
  <2>3. heldAudio' = heldAudio \/ Mic!Hand(s, "failed", {}) \/ Mic!Hand(s, "audio", rec.chunks)
    BY <2>1 DEF Mic!StopCloses, Mic!StopFinishes, Mic!StopAborts, Mic!StopEnds
  <2>4. "failed" # "audio" OBVIOUS
  <2> QED BY <1>2, <1>3, <2>2, <2>3, <2>4
<1>6. CASE heldAudio' # heldAudio
  <2>1. \/ \E s \in 1 .. MaxSessions : Mic!StopContinues(s)
        \/ \E s \in 1 .. MaxSessions : Mic!StopCloses(s) \/ Mic!StopFinishes(s) \/ Mic!StopAborts(s)
    BY <1>6 DEF Mic!Next, Mic!Continuation, Mic!Answer, Mic!vars, Mic!StartContinues, Mic!StartReturns,
      Mic!CancelContinues, Mic!CancelTearsDownAgain, Mic!InputAnswered, Mic!ModuleAnswered, Mic!ThrowCloses,
      Mic!SinkOpens, Mic!CancelCloses, Mic!CleanedUp, Mic!Chunk, Mic!TrackEnds, Mic!Listen, Mic!Finalize, Mic!Leave
  <2> QED BY <1>4, <1>5, <2>1
<1> QED BY <1>2, <1>6

\* At most one microphone is open, however acquisitions, stops and cancellations interleave
\* (openInputStream, teardown, stopInternal).
THEOREM OneMicrophoneIsOpen ==
  ASSUME Mic!RecorderAssumption PROVE Mic!Spec => []Mic!OneMicrophone
<1>1. Mic!Init => Invariant BY MicInit
<1>2. Invariant /\ [Mic!Next]_(Mic!vars) => Invariant' BY MicStep, MicStutters
<1>3. Invariant => Mic!OneMicrophone
  <2> SUFFICES ASSUME Invariant PROVE Mic!OneMicrophone OBVIOUS
  <2>1. open \subseteq {rec.stream} BY InvariantIs DEF Fields
  <2>2. PICK one : one = {rec.stream} OBVIOUS
  <2>3. IsFiniteSet(one) /\ Cardinality(one) = 1 BY <2>2, FS_Singleton
  <2>4. open \subseteq one BY <2>1, <2>2
  <2>5. Cardinality(open) <= Cardinality(one) BY <2>3, <2>4, FS_Subset
  <2>6. Cardinality(open) <= 1 BY <2>3, <2>5
  <2>7. Mic!Cardinality(open) = Cardinality(open) BY DEF Mic!Cardinality, Cardinality
  <2> QED BY <2>6, <2>7 DEF Mic!OneMicrophone
<1> QED BY <1>1, <1>2, <1>3, PTL DEF Mic!Spec

LEMMA HoldsMicrophone ==
  ASSUME Mic!RecorderAssumption, Invariant
  PROVE  Mic!MicrophoneIsHeld
<1> USE MicFacts
<1>1. Fields /\ Cancels BY InvariantIs
<1>2. open \subseteq {rec.stream} BY <1>1 DEF Fields
<1>3. ASSUME NEW s \in 1 .. MaxSessions, stops[s].at \in StopEnding PROVE open = {} BY <1>3, StopIsEnding
<1>4. ASSUME cancelling.at \in {"closing", "awaitsStart", "closingAgain"} PROVE open = {}
  <2>1. rec.stream = 0 BY <1>1, <1>4 DEF Cancels
  <2> QED BY <2>1, NothingHeard
<1> QED BY <1>2, <1>3, <1>4 DEF Mic!MicrophoneIsHeld, StopEnding

\* However starts, stops and cancellations interleave, also those of a dictation that begins during the
\* cancellation of another: an open microphone is the recorder's, none is open while a stop or a
\* cancellation closes, and no session is given a mixture (openInputStream, stopInternal, cancelInternal).
THEOREM MicrophoneStaysHeld ==
  ASSUME Mic!RecorderAssumption PROVE Mic!Spec => [](Mic!MicrophoneIsHeld /\ Mic!AudioIsOfOne)
<1>1. Mic!Init => Invariant /\ Mic!AudioIsOfOne
  <2> SUFFICES ASSUME Mic!Init PROVE Mic!AudioIsOfOne BY MicInit
  <2> QED BY DEF Mic!Init, Mic!AudioIsOfOne
<1>2. Invariant /\ [Mic!Next]_(Mic!vars) => Invariant' BY MicStep, MicStutters
<1>3. Invariant /\ Mic!AudioIsOfOne /\ [Mic!Next]_(Mic!vars) => Mic!AudioIsOfOne' BY DeliversOne
<1>4. Invariant => Mic!MicrophoneIsHeld BY HoldsMicrophone
<1> QED BY <1>1, <1>2, <1>3, <1>4, PTL DEF Mic!Spec
=============================================================================
