--------------------------- MODULE DictationSession ---------------------------
(***************************************************************************)
(* The main process' dictation state machine (src/main.ts and              *)
(* src/main/session/).  Node runs one callback at a time, so everything    *)
(* between two awaits is one action; a handler that awaits is a program    *)
(* counter in `call' or `liveOpening', and every other handler may run     *)
(* while it is suspended.                                                  *)
(*                                                                         *)
(* The renderer, the hotkeys, the worker's answers and the two timers are  *)
(* the environment: each may act whenever the code would listen to it.     *)
(*                                                                         *)
(* A definition whose comment starts with "Mistake" is a plausible wrong   *)
(* version of the one after it; no specification uses it, and each shows   *)
(* that a property would notice.                                           *)
(***************************************************************************)
EXTENDS Naturals, Sequences

CONSTANTS
  SessionIds,   \* the dictation ids randomUUID can hand out
  NoId,         \* null / undefined
  AudioCalls,   \* the sessionTranscribe calls the pill may make for one dictation
  MaxModelOps   \* bound on model operations waiting in the exclusive queue

ASSUME SessionAssumption == /\ NoId \notin SessionIds
                            /\ "finishLive" \notin AudioCalls
                            /\ MaxModelOps \in Nat

VARIABLES
  session,            \* the SessionSnapshot broadcast to every window
  watchdog,           \* dictation the finalize watchdog is armed for
  notice,             \* notice the notice timer is armed for
  activeSessionId,
  activeLiveSession,  \* dictation owning the open Live stream
  insertionOwner,     \* dictation the insertion coordinator's generation is for
  workerLive,         \* dictation holding the supervisor's Live token
  delivered,          \* how often each dictation's text reached the clipboard
  call,               \* stage of each sessionTranscribe / sessionFinishLive call
  liveOpening,        \* stage of each sessionBeginLive call
  workerWarm,         \* a speech model is resident in the worker
  used,               \* ids already handed out
  modelOps,           \* exclusive model operations waiting, oldest first
  opRunning,          \* the one that is running
  resetting,          \* progress of "Reset saved data"
  asrMode,            \* the applied dictation mode
  pillWindow, recoveryInFlight, updatePreparing, quitting, holdDown

dictationVars == <<session, watchdog, notice, activeSessionId, activeLiveSession,
                   insertionOwner, workerLive>>
handlerVars   == <<delivered, call, liveOpening, workerWarm, used>>
modelVars     == <<modelOps, opRunning, resetting, asrMode>>
shellVars     == <<pillWindow, recoveryInFlight, updatePreparing, quitting, holdDown>>
vars          == <<dictationVars, handlerVars, modelVars, shellVars>>

-----------------------------------------------------------------------------
Resting == {"idle", "success", "error"}
Busy    == {"listening", "finalizing", "transcribing", "inserting"}
Ids     == SessionIds \union {NoId}

\* The calls that end a dictation: its recorded audio, or the end of its stream.
Kinds == AudioCalls \union {"finishLive"}

\* What a suspended call awaits.  "inserted" is the insertion promise already
\* resolved and not yet observed; "discarding" is the WAV removal in `finally'.
Stages == {"none", "staging", "resolving", "recognizing", "targeting", "copying",
           "probing", "inserting", "inserted", "discarding", "done"}

Modes    == {"live", "after-stop"}
OpKinds  == {"switch", "library", "reset"}
NoNotice == [state |-> "none", id |-> NoId]

TypeOK ==
  /\ session \in [state : Resting \union Busy, id : Ids,
                  activation : {"none", "hold", "toggle"}]
  /\ watchdog \in Ids
  /\ notice \in [state : {"none", "success", "error"}, id : Ids]
  /\ activeSessionId \in Ids
  /\ activeLiveSession \in Ids
  /\ insertionOwner \in Ids
  /\ workerLive \in Ids
  /\ delivered \in [SessionIds -> Nat]
  /\ call \in [Kinds -> [SessionIds -> Stages]]
  /\ liveOpening \in [SessionIds -> {"none", "resolving", "opening", "done"}]
  /\ workerWarm \in BOOLEAN
  /\ used \in SUBSET SessionIds
  /\ modelOps \in Seq(OpKinds)
  /\ opRunning \in OpKinds \union {"none"}
  /\ resetting \in {"no", "asking", "confirmed"}
  /\ asrMode \in Modes
  /\ pillWindow \in {"none", "loading", "ready"}
  /\ recoveryInFlight \in BOOLEAN
  /\ updatePreparing \in BOOLEAN
  /\ quitting \in BOOLEAN
  /\ holdDown \in BOOLEAN

Init ==
  /\ session = [state |-> "idle", id |-> NoId, activation |-> "none"]
  /\ watchdog = NoId
  /\ notice = NoNotice
  /\ activeSessionId = NoId
  /\ activeLiveSession = NoId
  /\ insertionOwner = NoId
  /\ workerLive = NoId
  /\ delivered = [id \in SessionIds |-> 0]
  /\ call = [k \in Kinds |-> [id \in SessionIds |-> "none"]]
  /\ liveOpening = [id \in SessionIds |-> "none"]
  /\ workerWarm = FALSE
  /\ used = {}
  /\ modelOps = <<>>
  /\ opRunning = "none"
  /\ resetting = "no"
  /\ asrMode \in Modes
  /\ pillWindow = "loading"
  /\ recoveryInFlight = FALSE
  /\ updatePreparing = FALSE
  /\ quitting = FALSE
  /\ holdDown = FALSE

-----------------------------------------------------------------------------
(* setSession: the snapshot, and the two timers that observe every one.     *)

\* Mistake: every state arms the notice timer.
SnapshotArmsAlways(state, id, activation) ==
  /\ session' = [state |-> state, id |-> id, activation |-> activation]
  /\ watchdog' = IF state = "finalizing" THEN id ELSE NoId
  /\ notice' = [state |-> state, id |-> id]

\* Mistake: a notice timer that is armed is neither replaced nor cleared.
SnapshotKeepsTimer(state, id, activation) ==
  /\ session' = [state |-> state, id |-> id, activation |-> activation]
  /\ watchdog' = IF state = "finalizing" THEN id ELSE NoId
  /\ notice' = IF state \in {"success", "error"} /\ notice = NoNotice
               THEN [state |-> state, id |-> id] ELSE notice

Snapshot(state, id, activation) ==
  /\ session' = [state |-> state, id |-> id, activation |-> activation]
  /\ watchdog' = IF state = "finalizing" THEN id ELSE NoId
  /\ notice' = IF state \in {"success", "error"}
               THEN [state |-> state, id |-> id] ELSE NoNotice

\* idle, success and error give up the dictation; a busy state keeps its owner.
EnterResting(state, id) ==
  /\ Snapshot(state, id, "none")
  /\ activeSessionId' = NoId
  /\ activeLiveSession' = NoId

EnterBusy(state, id) ==
  /\ Snapshot(state, id, "none")
  /\ UNCHANGED <<activeSessionId, activeLiveSession>>

\* cancelLiveSession drops the supervisor's token at once; the worker's own
\* cleanup is queued behind whatever it is doing.
CancelLiveWorker ==
  workerLive' = IF workerLive = activeLiveSession THEN NoId ELSE workerLive

\* Mistake: the insertion generation survives the failure.
FailSessionKeepsInsertion ==
  /\ CancelLiveWorker
  /\ UNCHANGED insertionOwner
  /\ EnterResting("error", NoId)

FailSession ==
  /\ CancelLiveWorker
  /\ insertionOwner' = NoId
  /\ EnterResting("error", NoId)

IsActive(id) == activeSessionId = id

\* transcribeAudioAdmission
Admits(id) == IsActive(id) /\ session.state = "finalizing" /\ session.id = id

modelOperationInProgress == opRunning # "none" \/ modelOps # <<>>

\* IPC reaches a handler only from a live pill window, and never after Quit.
FromPill == ~quitting /\ pillWindow # "none"

-----------------------------------------------------------------------------
(* Starting and stopping a recording.                                       *)

\* Mistake: a dictation may begin over one that is still being transcribed.
CanBeginOver == ~quitting /\ ~updatePreparing /\ session.state # "listening"

CanBegin == ~quitting /\ ~updatePreparing /\ session.state \in Resting

\* Mistake: a model operation does not refuse the dictation.
BeginListeningUnderModelOp(activation) ==
  \/ /\ ~CanBegin
     /\ UNCHANGED <<dictationVars, used>>
  \/ /\ CanBegin /\ resetting = "no"
     /\ \E id \in SessionIds \ used :
          /\ used' = used \union {id}
          /\ activeSessionId' = id
          /\ insertionOwner' = id
          /\ Snapshot("listening", id, activation)
          /\ UNCHANGED <<activeLiveSession, workerLive>>

\* Saved-data reset and model operations refuse a dictation; so may the saved
\* model selection, the language or a missing resolution (the environment's
\* choice).  positionPill(pillWindow!) throws when the pill is gone, after the
\* id and the insertion target are already claimed.
BeginListening(activation) ==
  \/ /\ ~CanBegin
     /\ UNCHANGED <<dictationVars, used>>
  \/ /\ CanBegin
     /\ FailSession
     /\ UNCHANGED used
  \/ /\ CanBegin
     /\ resetting = "no"
     /\ ~modelOperationInProgress
     /\ \E id \in SessionIds \ used :
          /\ used' = used \union {id}
          /\ activeSessionId' = id
          /\ insertionOwner' = id
          /\ IF pillWindow = "none"
             THEN UNCHANGED <<session, watchdog, notice>>
             ELSE Snapshot("listening", id, activation)
          /\ UNCHANGED <<activeLiveSession, workerLive>>

FinishListening ==
  IF session.state = "listening"
  THEN /\ EnterBusy("finalizing", session.id)
       /\ UNCHANGED <<insertionOwner, workerLive>>
  ELSE UNCHANGED dictationVars

\* The toggle hotkey, the pill button and the menus share one decision.
Toggle ==
  /\ ~quitting
  /\ IF session.state = "listening"
     THEN FinishListening /\ UNCHANGED used
     ELSE BeginListening("toggle")
  /\ UNCHANGED <<delivered, call, liveOpening, workerWarm, modelVars, shellVars>>

HoldPress ==
  /\ ~quitting /\ ~holdDown
  /\ holdDown' = TRUE
  /\ BeginListening("hold")
  /\ UNCHANGED <<delivered, call, liveOpening, workerWarm, modelVars,
                 pillWindow, recoveryInFlight, updatePreparing, quitting>>

\* Mistake: a release is lost while the pill is being replaced.
HoldReleaseNeedsPill ==
  /\ holdDown
  /\ holdDown' = FALSE
  /\ IF session.activation = "hold" /\ pillWindow = "ready"
     THEN FinishListening ELSE UNCHANGED dictationVars
  /\ UNCHANGED <<handlerVars, modelVars,
                 pillWindow, recoveryInFlight, updatePreparing, quitting>>

HoldRelease ==
  /\ holdDown
  /\ holdDown' = FALSE
  /\ IF session.activation = "hold"
     THEN FinishListening ELSE UNCHANGED dictationVars
  /\ UNCHANGED <<handlerVars, modelVars,
                 pillWindow, recoveryInFlight, updatePreparing, quitting>>

-----------------------------------------------------------------------------
(* Leaving a dictation early.                                               *)

\* abort() kills the worker process, and with it the warm model and the token.
SessionCancel ==
  /\ FromPill
  /\ insertionOwner' = NoId
  /\ IF session.state = "transcribing"
     THEN workerWarm' = FALSE /\ workerLive' = NoId
     ELSE CancelLiveWorker /\ UNCHANGED workerWarm
  /\ EnterResting("idle", NoId)
  /\ UNCHANGED <<delivered, call, liveOpening, used, modelVars, shellVars>>

SessionFail(id) ==
  /\ FromPill
  /\ IsActive(id) /\ session.id = id
  /\ FailSession
  /\ UNCHANGED <<handlerVars, modelVars, shellVars>>

SessionCancelLive(id) ==
  /\ FromPill
  /\ activeLiveSession = id
  /\ CancelLiveWorker
  /\ insertionOwner' = NoId
  /\ EnterResting("idle", NoId)
  /\ UNCHANGED <<handlerVars, modelVars, shellVars>>

\* Mistake: the watchdog reports the stall and leaves the session where it is.
WatchdogOnlyRecords ==
  /\ watchdog # NoId
  /\ watchdog' = NoId
  /\ UNCHANGED <<session, notice, activeSessionId, activeLiveSession, insertionOwner,
                 workerLive, handlerVars, modelVars, shellVars>>

\* Thirty seconds in `finalizing', or a slow WAV write: only time decides.
WatchdogFires ==
  /\ watchdog # NoId
  /\ IF session.state = "finalizing" /\ session.id = watchdog
     THEN FailSession
     ELSE watchdog' = NoId /\ UNCHANGED <<session, notice, activeSessionId,
            activeLiveSession, insertionOwner, workerLive>>
  /\ UNCHANGED <<handlerVars, modelVars, shellVars>>

\* Mistake: only a success dismisses itself.
NoticeFiresOnSuccess ==
  /\ notice # NoNotice
  /\ IF session.state = "success" /\ session.id = notice.id
     THEN EnterResting("idle", NoId) /\ UNCHANGED <<insertionOwner, workerLive>>
     ELSE notice' = NoNotice /\ UNCHANGED <<session, watchdog, activeSessionId,
            activeLiveSession, insertionOwner, workerLive>>
  /\ UNCHANGED <<handlerVars, modelVars, shellVars>>

\* sameNotice: a success is told apart by its dictation, an error by its text.
NoticeFires ==
  /\ notice # NoNotice
  /\ IF session.state = notice.state
        /\ (notice.state = "success" => session.id = notice.id)
     THEN /\ EnterResting("idle", NoId)
          /\ insertionOwner' = IF notice.state = "error" THEN NoId ELSE insertionOwner
          /\ UNCHANGED workerLive
     ELSE notice' = NoNotice /\ UNCHANGED <<session, watchdog, activeSessionId,
            activeLiveSession, insertionOwner, workerLive>>
  /\ UNCHANGED <<handlerVars, modelVars, shellVars>>

-----------------------------------------------------------------------------
(* sessionBeginLive: opening the Live stream while the user speaks.         *)

SessionBeginLive(id) ==
  /\ FromPill /\ ~updatePreparing
  /\ session.state = "listening" /\ session.id = id /\ IsActive(id)
  /\ activeLiveSession = NoId
  /\ asrMode = "live"
  /\ liveOpening[id] = "none"
  /\ \/ /\ liveOpening' = [liveOpening EXCEPT ![id] = "resolving"]
        /\ UNCHANGED dictationVars
     \/ /\ liveOpening' = [liveOpening EXCEPT ![id] = "done"]   \* unsupported language
        /\ FailSession
  /\ UNCHANGED <<delivered, call, workerWarm, used, modelVars, shellVars>>

BeginLiveResolved(id) ==
  /\ liveOpening[id] = "resolving"
  /\ liveOpening' = [liveOpening EXCEPT ![id] = IF IsActive(id) THEN "opening" ELSE "done"]
  /\ UNCHANGED <<dictationVars, delivered, call, workerWarm, used, modelVars, shellVars>>

\* Mistake: a stream that opened too late is kept.
BeginLiveOpenedLate(id) ==
  /\ liveOpening[id] = "opening"
  /\ workerLive = NoId /\ ~quitting
  /\ liveOpening' = [liveOpening EXCEPT ![id] = "done"]
  /\ workerWarm' = TRUE
  /\ workerLive' = id
  /\ activeLiveSession' = IF IsActive(id) THEN id ELSE activeLiveSession
  /\ UNCHANGED <<session, watchdog, notice, activeSessionId, insertionOwner,
                 delivered, call, used, modelVars, shellVars>>

\* The supervisor refuses a second token; the handler aborts the stream it got
\* when the dictation is no longer the one listening.
BeginLiveOpened(id) ==
  /\ liveOpening[id] = "opening"
  /\ workerLive = NoId /\ ~quitting
  /\ liveOpening' = [liveOpening EXCEPT ![id] = "done"]
  /\ workerWarm' = TRUE
  /\ IF session.state = "listening" /\ session.id = id /\ IsActive(id)
     THEN activeLiveSession' = id /\ workerLive' = id
     ELSE UNCHANGED <<activeLiveSession, workerLive>>
  /\ UNCHANGED <<session, watchdog, notice, activeSessionId, insertionOwner,
                 delivered, call, used, modelVars, shellVars>>

\* The handler reports the failure to the pill, which answers with sessionFail.
BeginLiveFails(id) ==
  /\ liveOpening[id] \in {"resolving", "opening"}
  /\ liveOpening' = [liveOpening EXCEPT ![id] = "done"]
  /\ UNCHANGED <<dictationVars, delivered, call, workerWarm, used, modelVars, shellVars>>

-----------------------------------------------------------------------------
(* sessionTranscribe and sessionFinishLive.                                 *)

Goto(k, id, stage) == call' = [call EXCEPT ![k][id] = stage]

\* The `finally' of sessionTranscribe still has a WAV to delete.
AfterThrow(k) == IF k = "finishLive" THEN "done" ELSE "discarding"

\* The handlers' catch: fail the dictation only while it is still this one.
Throws(k, id) ==
  /\ Goto(k, id, AfterThrow(k))
  /\ IF IsActive(id)
     THEN FailSession
     ELSE /\ activeLiveSession' = IF k = "finishLive" /\ activeLiveSession = id
                                  THEN NoId ELSE activeLiveSession
          /\ UNCHANGED <<session, watchdog, notice, activeSessionId,
                         insertionOwner, workerLive>>

\* assertActiveSession after an await, then the next await.
Continues(k, id, stage) ==
  IF IsActive(id)
  THEN Goto(k, id, stage) /\ UNCHANGED dictationVars
  ELSE Throws(k, id)

SessionTranscribe(k, id) ==
  /\ FromPill /\ ~updatePreparing
  /\ id \in used /\ call[k][id] = "none"
  /\ ~(session.state = "listening" /\ session.id = id)
  /\ \/ /\ Goto(k, id, IF Admits(id) THEN "staging" ELSE "done")
        /\ UNCHANGED dictationVars
     \/ \* A payload that does not parse names no dictation to check.
        /\ Goto(k, id, "done")
        /\ IF session.state = "finalizing" THEN FailSession ELSE UNCHANGED dictationVars
  /\ UNCHANGED <<delivered, liveOpening, workerWarm, used, modelVars, shellVars>>

\* Mistake: admission is not checked again after the file was written.
AudioStagedUnchecked(k, id) ==
  /\ k \in AudioCalls /\ call[k][id] = "staging" /\ asrMode = "after-stop"
  /\ Goto(k, id, "resolving")
  /\ EnterBusy("transcribing", id)
  /\ UNCHANGED <<insertionOwner, workerLive, delivered, liveOpening, workerWarm, used,
                 modelVars, shellVars>>

\* prepareTranscription returns: admission was checked again after the write.
\* A mode or language that no longer fits throws right after the transition.
AudioStaged(k, id) ==
  /\ k \in AudioCalls /\ call[k][id] = "staging"
  /\ \/ /\ ~Admits(id)
        /\ Goto(k, id, "discarding")
        /\ UNCHANGED dictationVars
     \/ /\ Admits(id) /\ asrMode = "after-stop"
        /\ Goto(k, id, "resolving")
        /\ EnterBusy("transcribing", id)
        /\ UNCHANGED <<insertionOwner, workerLive>>
     \/ /\ Admits(id)
        /\ Throws(k, id)
  /\ UNCHANGED <<delivered, liveOpening, workerWarm, used, modelVars, shellVars>>

\* Mistake: the file is cleaned up and the dictation is not failed.
AudioStagingFailsQuietly(k, id) ==
  /\ k \in AudioCalls /\ call[k][id] = "staging"
  /\ Goto(k, id, "discarding")
  /\ UNCHANGED <<dictationVars, delivered, liveOpening, workerWarm, used, modelVars, shellVars>>

\* The dictation is failed first and the file is deleted afterwards.
AudioStagingFails(k, id) ==
  /\ k \in AudioCalls /\ call[k][id] = "staging"
  /\ Goto(k, id, "discarding")
  /\ IF Admits(id) THEN FailSession ELSE UNCHANGED dictationVars
  /\ UNCHANGED <<delivered, liveOpening, workerWarm, used, modelVars, shellVars>>

ModelResolved(k, id) ==
  /\ k \in AudioCalls /\ call[k][id] = "resolving"
  /\ Continues(k, id, "recognizing") \/ Throws(k, id)
  /\ UNCHANGED <<delivered, liveOpening, workerWarm, used, modelVars, shellVars>>

SessionFinishLive(id) ==
  /\ FromPill
  /\ activeLiveSession = id /\ Admits(id)
  /\ call["finishLive"][id] = "none"
  /\ Goto("finishLive", id, "recognizing")
  /\ EnterBusy("transcribing", id)
  /\ UNCHANGED <<insertionOwner, workerLive, delivered, liveOpening, workerWarm,
                 used, modelVars, shellVars>>

\* The worker's final result.  An aborted request cannot be told from a slow
\* one here: the supervisor may not have sent it yet when abort() ran.
Recognized(k, id) ==
  /\ call[k][id] = "recognizing" /\ ~quitting
  /\ workerWarm' = TRUE
  /\ IF IsActive(id)
     THEN /\ Goto(k, id, "targeting")
          /\ activeLiveSession' = IF k = "finishLive" THEN NoId ELSE activeLiveSession
          /\ workerLive' = IF k = "finishLive" /\ workerLive = id THEN NoId ELSE workerLive
          /\ UNCHANGED <<session, watchdog, notice, activeSessionId, insertionOwner>>
     ELSE Throws(k, id)
  /\ UNCHANGED <<delivered, liveOpening, used, modelVars, shellVars>>

RecognitionFails(k, id) ==
  /\ call[k][id] = "recognizing"
  /\ workerWarm' \in {workerWarm, FALSE}
  /\ Throws(k, id)
  /\ UNCHANGED <<delivered, liveOpening, used, modelVars, shellVars>>

\* completeDictationFinal: with one of LocalScribe's own windows focused the
\* text is only copied, and the snapshot stays "transcribing" meanwhile.
Targeted(k, id) ==
  /\ call[k][id] = "targeting"
  /\ \/ \E stage \in {"copying", "probing"} : Continues(k, id, stage)
     \/ Throws(k, id)                                      \* no speech detected
  /\ UNCHANGED <<delivered, liveOpening, workerWarm, used, modelVars, shellVars>>

\* Mistake: no assertActiveSession after the paste probe.
ProbedUnchecked(k, id) ==
  /\ call[k][id] = "probing"
  /\ Goto(k, id, "inserting")
  /\ EnterBusy("inserting", id)
  /\ UNCHANGED <<insertionOwner, workerLive, delivered, liveOpening, workerWarm, used,
                 modelVars, shellVars>>

Probed(k, id) ==
  /\ call[k][id] = "probing"
  /\ IF IsActive(id)
     THEN /\ Goto(k, id, "inserting")
          /\ EnterBusy("inserting", id)
          /\ UNCHANGED <<insertionOwner, workerLive>>
     ELSE Throws(k, id)
  /\ UNCHANGED <<delivered, liveOpening, workerWarm, used, modelVars, shellVars>>

\* The insertion coordinator touches the clipboard only while the generation it
\* bound at the call is still current; otherwise it resolves having done nothing.
InsertionResolves(k, id) ==
  /\ call[k][id] \in {"copying", "inserting"}
  /\ delivered' = IF insertionOwner = id THEN [delivered EXCEPT ![id] = @ + 1] ELSE delivered
  /\ Goto(k, id, "inserted")
  /\ UNCHANGED <<dictationVars, liveOpening, workerWarm, used, modelVars, shellVars>>

\* Mistake: a failed insertion is reported like a successful one.
InsertionFailsQuietly(k, id) ==
  /\ call[k][id] \in {"copying", "inserting"}
  /\ Goto(k, id, "inserted")
  /\ UNCHANGED <<dictationVars, delivered, liveOpening, workerWarm, used, modelVars, shellVars>>

InsertionFails(k, id) ==
  /\ call[k][id] \in {"copying", "inserting"}
  /\ Throws(k, id)
  /\ UNCHANGED <<delivered, liveOpening, workerWarm, used, modelVars, shellVars>>

\* History is written synchronously after the success notice and cannot undo it.
Completed(k, id) ==
  /\ call[k][id] = "inserted"
  /\ IF IsActive(id)
     THEN /\ Goto(k, id, AfterThrow(k))
          /\ EnterResting("success", id)
          /\ UNCHANGED <<insertionOwner, workerLive>>
     ELSE Throws(k, id)
  /\ UNCHANGED <<delivered, liveOpening, workerWarm, used, modelVars, shellVars>>

AudioDiscarded(k, id) ==
  /\ k \in AudioCalls /\ call[k][id] = "discarding"
  /\ Goto(k, id, "done")
  /\ UNCHANGED <<dictationVars, delivered, liveOpening, workerWarm, used, modelVars, shellVars>>

-----------------------------------------------------------------------------
(* runExclusiveModelOperation, and the saved-data reset that uses it.       *)

canSwitchModelNow == ~quitting /\ ~updatePreparing /\ session.state = "idle"

RequestModelOp(kind) ==
  /\ kind \in {"switch", "library"}
  /\ ~quitting /\ ~updatePreparing /\ resetting = "no"
  /\ Len(modelOps) < MaxModelOps
  /\ modelOps' = Append(modelOps, kind)
  /\ UNCHANGED <<dictationVars, handlerVars, opRunning, resetting, asrMode, shellVars>>

\* Apply, Install and Remove check again when their turn comes.
StartModelOp ==
  /\ opRunning = "none" /\ modelOps # <<>>
  /\ modelOps' = Tail(modelOps)
  /\ opRunning' = IF Head(modelOps) = "switch" /\ ~canSwitchModelNow
                  THEN "none" ELSE Head(modelOps)
  /\ UNCHANGED <<dictationVars, handlerVars, resetting, asrMode, shellVars>>

\* A switch stops the worker and may leave any model resident; it commits the
\* new mode or, after a failure, keeps the old one.
ModelOpSettles ==
  /\ opRunning # "none"
  /\ opRunning' = "none"
  /\ resetting' = IF opRunning = "reset" THEN "no" ELSE resetting
  /\ IF opRunning = "switch"
     THEN asrMode' \in Modes /\ workerWarm' \in {~quitting, FALSE} /\ workerLive' = NoId
     ELSE UNCHANGED <<asrMode, workerWarm, workerLive>>
  /\ UNCHANGED <<session, watchdog, notice, activeSessionId, activeLiveSession,
                 insertionOwner, delivered, call, liveOpening, used, modelOps, shellVars>>

RequestReset ==
  /\ ~quitting /\ ~updatePreparing /\ MaxModelOps > 0
  /\ resetting = "no" /\ ~modelOperationInProgress
  /\ session.state \in Resting
  /\ resetting' = "asking"
  /\ UNCHANGED <<dictationVars, handlerVars, modelOps, opRunning, asrMode, shellVars>>

AnswerReset ==
  /\ resetting = "asking"
  /\ \/ resetting' = "no" /\ UNCHANGED modelOps
     \/ ~quitting /\ resetting' = "confirmed" /\ modelOps' = Append(modelOps, "reset")
  /\ UNCHANGED <<dictationVars, handlerVars, opRunning, asrMode, shellVars>>

-----------------------------------------------------------------------------
(* Windows, worker process, updates and Quit.                               *)

PillLoaded ==
  /\ pillWindow = "loading"
  /\ pillWindow' = "ready"
  /\ recoveryInFlight' = FALSE
  /\ UNCHANGED <<dictationVars, handlerVars, modelVars, updatePreparing, quitting, holdDown>>

\* One automatic replacement per generation; the microtask that creates it runs
\* before any other callback, and not at all while an update is prepared.
PillCrashes ==
  /\ pillWindow # "none" /\ ~quitting
  /\ pillWindow' \in IF recoveryInFlight \/ updatePreparing
                     THEN {"none"} ELSE {"loading", "none"}
  /\ recoveryInFlight' = TRUE
  /\ IF activeSessionId # NoId THEN FailSession ELSE UNCHANGED dictationVars
  /\ UNCHANGED <<handlerVars, modelVars, updatePreparing, quitting, holdDown>>

WorkerExits ==
  /\ workerWarm
  /\ workerWarm' = FALSE
  /\ workerLive' = NoId
  /\ UNCHANGED <<session, watchdog, notice, activeSessionId, activeLiveSession,
                 insertionOwner, delivered, call, liveOpening, used, modelVars, shellVars>>

\* Mistake: a waiting model operation does not hold an update back.
appUpdateIsIdleDespiteQueue ==
  /\ ~quitting /\ ~updatePreparing /\ resetting = "no"
  /\ opRunning = "none"
  /\ session.state \in Resting

appUpdateIsIdle ==
  /\ ~quitting /\ ~updatePreparing /\ resetting = "no"
  /\ ~modelOperationInProgress
  /\ session.state \in Resting

PrepareUpdate ==
  /\ appUpdateIsIdle
  /\ updatePreparing' = TRUE
  /\ UNCHANGED <<dictationVars, handlerVars, modelVars,
                 pillWindow, recoveryInFlight, quitting, holdDown>>

CancelUpdate ==
  /\ updatePreparing /\ ~quitting
  /\ updatePreparing' = FALSE
  /\ UNCHANGED <<dictationVars, handlerVars, modelVars,
                 pillWindow, recoveryInFlight, quitting, holdDown>>

\* Mistake: Quit hides the dictation without giving it up.
BeginShutdownKeepsDictation ==
  /\ ~quitting
  /\ quitting' = TRUE
  /\ updatePreparing' \in {updatePreparing, FALSE}
  /\ holdDown' = FALSE
  /\ session' = [state |-> "idle", id |-> NoId, activation |-> "none"]
  /\ watchdog' = NoId
  /\ notice' = NoNotice
  /\ workerWarm' = FALSE
  /\ workerLive' = NoId
  /\ UNCHANGED <<activeSessionId, insertionOwner, activeLiveSession, delivered, call,
                 liveOpening, used, modelVars, pillWindow, recoveryInFlight>>

\* beginShutdown writes the snapshot directly: setSession is not called and
\* activeLiveSession keeps its value.  An ordinary quit cancels a pending
\* update first, a retiring update keeps its admission.
BeginShutdown ==
  /\ ~quitting
  /\ quitting' = TRUE
  /\ updatePreparing' \in {updatePreparing, FALSE}
  /\ holdDown' = FALSE
  /\ session' = [state |-> "idle", id |-> NoId, activation |-> "none"]
  /\ watchdog' = NoId
  /\ notice' = NoNotice
  /\ activeSessionId' = NoId
  /\ insertionOwner' = NoId
  /\ workerWarm' = FALSE
  /\ workerLive' = NoId
  /\ UNCHANGED <<activeLiveSession, delivered, call, liveOpening, used, modelVars,
                 pillWindow, recoveryInFlight>>

-----------------------------------------------------------------------------
User     == Toggle \/ HoldPress \/ HoldRelease \/ SessionCancel
Timers   == WatchdogFires \/ NoticeFires
Renderer == \E id \in SessionIds :
              \/ SessionFail(id) \/ SessionCancelLive(id) \/ SessionBeginLive(id)
              \/ SessionFinishLive(id)
              \/ \E k \in AudioCalls : SessionTranscribe(k, id)

\* The resumption of a suspended handler.
OpeningSteps(id) == BeginLiveResolved(id) \/ BeginLiveOpened(id) \/ BeginLiveFails(id)
CallSteps(k, id) == \/ AudioStaged(k, id) \/ AudioStagingFails(k, id)
                    \/ ModelResolved(k, id) \/ AudioDiscarded(k, id)
                    \/ Recognized(k, id) \/ RecognitionFails(k, id)
                    \/ Targeted(k, id) \/ Probed(k, id)
                    \/ InsertionResolves(k, id) \/ InsertionFails(k, id)
                    \/ Completed(k, id)

Handlers == \E id \in SessionIds :
              OpeningSteps(id) \/ \E k \in Kinds : CallSteps(k, id)
ModelOperations == \/ \E kind \in OpKinds : RequestModelOp(kind)
                   \/ StartModelOp \/ ModelOpSettles \/ RequestReset \/ AnswerReset
Shell == PillLoaded \/ PillCrashes \/ WorkerExits \/ PrepareUpdate \/ CancelUpdate
         \/ BeginShutdown

Next == User \/ Timers \/ Renderer \/ Handlers \/ ModelOperations \/ Shell

Spec == Init /\ [][Next]_vars

\* Timers fire; every await of a handler settles, because each worker request,
\* helper process and file operation behind one carries its own timeout.
Fairness ==
  /\ WF_vars(WatchdogFires)
  /\ WF_vars(NoticeFires)
  /\ \A k \in Kinds, id \in SessionIds : WF_vars(CallSteps(k, id))

FairSpec == Spec /\ Fairness

-----------------------------------------------------------------------------
(* Safety.                                                                  *)

\* A snapshot that names a running dictation names the one every handler
\* compares itself with: else its transcript is dropped as "cancelled" and no
\* catch ever fails it (main.ts setSession, assertActiveSession).
BusyDictationIsActive == session.state \in Busy => activeSessionId = session.id

\* No state is entered without its way out: `finalizing' with the watchdog armed
\* for that very dictation, a notice with the timer armed for that very notice.
EveryWaitIsTimed ==
  /\ session.state = "finalizing" => watchdog = session.id
  /\ session.state \in {"success", "error"} =>
       notice.state = session.state /\ notice.id = session.id

\* The supervisor never holds a Live stream that no dictation can finish or
\* cancel, whichever of cancel, failure, stop and the opening answer comes first.
LiveStreamHasOwner == workerLive # NoId => workerLive = activeLiveSession

\* The insertion generation belongs to the active dictation, and a call that is
\* about to insert holds it only while it is that dictation's: a failed or
\* cancelled one can never insert late.
InsertionFollowsDictation ==
  /\ activeSessionId # NoId => insertionOwner = activeSessionId
  /\ \A k \in Kinds, id \in SessionIds :
       call[k][id] \in {"copying", "inserting"} /\ insertionOwner = id => IsActive(id)

\* The same text is never inserted twice, even when both final-result calls
\* are made for one dictation.
DeliveredAtMostOnce == \A id \in SessionIds : delivered[id] <= 1

\* "Inserted" or "Copied" is shown only for text that reached the clipboard.
SuccessMeansDelivered == session.state = "success" => delivered[session.id] > 0

\* Apply, Install or Remove never runs under a dictation that uses the worker,
\* and a saved-data reset never runs under one that would write history.
ModelWorkExcludesDictation ==
  opRunning \in {"switch", "reset"} => session.state \notin Busy

\* While an update is being prepared nothing that it would lose can start.
UpdateExcludesWork ==
  updatePreparing /\ ~quitting =>
    /\ session.state \notin Busy
    /\ ~modelOperationInProgress
    /\ resetting = "no"

\* Guarantee 1 of prepareTranscription: whatever made the call end, the
\* dictation it was for is no longer waiting in `finalizing'.
RejectedAudioLeavesFinalizing ==
  \A k \in AudioCalls, id \in SessionIds :
    call[k][id] \in {"discarding", "done"} =>
      ~(session.state = "finalizing" /\ session.id = id)

\* A recording started by holding a key is not left running after its release.
HoldEndsWithKey == session.state = "listening" /\ session.activation = "hold" => holdDown

-----------------------------------------------------------------------------
(* Why the safety properties hold: the conjunctions below are inductive.    *)

\* The call has moved its dictation out of `finalizing' and is not over.
InFlight(k, id) == call[k][id] \in {"resolving", "recognizing", "targeting", "copying",
                                    "probing", "inserting", "inserted"}

\* Handlers only ever work on dictations that were begun.
CallsAreOfBegunDictations ==
  /\ activeSessionId \in used \union {NoId}
  /\ session.state \in Busy => session.id \in SessionIds
  /\ \A k \in Kinds, id \in SessionIds : call[k][id] # "none" => id \in used
  /\ session.state = "listening" =>
       \A k \in Kinds : call[k][session.id] = "none"

\* At most one call of the active dictation is in flight, and the snapshot shows it.
OneCallInFlight ==
  \A k \in Kinds, id \in SessionIds :
    IsActive(id) /\ InFlight(k, id) =>
      /\ session.id = id /\ session.state \in {"transcribing", "inserting"}
      /\ \A j \in Kinds : InFlight(j, id) => j = k

\* A call left behind by its dictation no longer holds the insertion generation.
StaleCallsAreFenced ==
  \A k \in Kinds, id \in SessionIds :
    InFlight(k, id) /\ call[k][id] # "inserted" /\ insertionOwner = id => IsActive(id)

\* What was delivered, and which call still has to report it.
DeliveryIsTracked ==
  /\ \A id \in SessionIds \ used : delivered[id] = 0
  /\ \A id \in SessionIds : IsActive(id) =>
       (delivered[id] > 0 <=> \E k \in Kinds : call[k][id] = "inserted")
  /\ session.state = "success" => session.id \in SessionIds

\* An open stream belongs to the dictation in progress; Quit leaves nothing.
LiveFollowsDictation ==
  /\ activeLiveSession # NoId /\ ~quitting =>
       activeLiveSession = activeSessionId /\ session.state \in Busy
  /\ quitting => /\ session = [state |-> "idle", id |-> NoId, activation |-> "none"]
                 /\ activeSessionId = NoId
                 /\ insertionOwner = NoId /\ workerLive = NoId
                 /\ watchdog = NoId /\ notice = NoNotice

\* Only the Live mode opens a stream, and it is closed before its text is used.
StreamIsClosedFirst ==
  /\ activeLiveSession # NoId /\ ~quitting => asrMode = "live"
  /\ \A k \in Kinds, id \in SessionIds :
       IsActive(id) /\ InFlight(k, id) /\ activeLiveSession # NoId =>
         k = "finishLive" /\ call[k][id] = "recognizing"

\* A stream is only being opened for a dictation of the Live mode.
OpeningIsLive ==
  \A id \in SessionIds :
    /\ liveOpening[id] # "none" => id \in used
    /\ liveOpening[id] \in {"resolving", "opening"} /\ IsActive(id) =>
         asrMode = "live" /\ session.state \in Busy

\* Together with the properties above: what every reachable state satisfies.
SessionInvariant ==
  /\ BusyDictationIsActive /\ EveryWaitIsTimed /\ LiveStreamHasOwner
  /\ InsertionFollowsDictation /\ DeliveredAtMostOnce /\ SuccessMeansDelivered
  /\ RejectedAudioLeavesFinalizing
  /\ CallsAreOfBegunDictations /\ OneCallInFlight /\ StaleCallsAreFenced
  /\ DeliveryIsTracked /\ LiveFollowsDictation /\ StreamIsClosedFirst

\* A reset is alone in the queue from its confirmation to its end.
ResetIsAlone ==
  /\ resetting = "asking" => opRunning = "none" /\ modelOps = <<>>
  /\ resetting = "confirmed" => \/ opRunning = "none" /\ modelOps = <<"reset">>
                                \/ opRunning = "reset" /\ modelOps = <<>>
  /\ resetting = "no" => /\ opRunning # "reset"
                         /\ \A i \in 1 .. Len(modelOps) : modelOps[i] # "reset"
  /\ resetting # "no" => session.state \notin Busy

ExclusionInvariant ==
  ModelWorkExcludesDictation /\ UpdateExcludesWork /\ ResetIsAlone /\ OpeningIsLive

-----------------------------------------------------------------------------
(* What a step may never do.                                                *)

\* Text reaches the clipboard only while its own dictation is being completed:
\* not after a cancel, a failure, a newer dictation or Quit.
DeliversOnlyLiveDictation ==
  [][\A id \in SessionIds :
       delivered'[id] # delivered[id] =>
         session.state \in {"transcribing", "inserting"} /\ session.id = id]_vars

\* A dictation that was left is never shown as running again: no suspended
\* handler can revive it.
NoRevival ==
  [][session'.state \in Busy /\ session'.id # session.id => session'.id \notin used]_vars

\* A pending history write, timer or answer changes nothing the user sees
\* once Quit has begun.
QuitIsFinal == [][quitting => UNCHANGED <<session, activeSessionId, delivered>>]_vars

\* main.ts:1762-1767: cancelling kills the warm model only in `transcribing',
\* because 'Only "transcribing" has a transcribe request actually in flight' and
\* elsewhere that discards it "for nothing, against the invariant that an applied
\* model stays warm between dictations".
CancelKeepsIdleModel ==
  [][session.state = "transcribing" /\ session'.state = "idle" /\ ~quitting'
       /\ workerWarm /\ ~workerWarm' =>
       \E k \in Kinds, id \in SessionIds : call[k][id] = "recognizing"]_vars

-----------------------------------------------------------------------------
(* Liveness, under FairSpec.                                                *)

\* Once the recording is stopped the dictation ends, whatever the renderer
\* does: `finalizing' cannot wedge the hotkeys and the model manager.
StoppedDictationEnds ==
  \A id \in SessionIds :
    session.state \in Busy \ {"listening"} /\ session.id = id
      ~> session.state \in Resting \/ session.id # id

\* A notice clears itself, so model changes are never refused for good.
NoticesClear == session.state \in {"success", "error"} ~> session.state \notin {"success", "error"}

-----------------------------------------------------------------------------
(* What the user sees of each dictation, for DictationLifecycle.            *)

Phase(id) ==
  IF id \notin used THEN "new"
  ELSE IF delivered[id] > 0 THEN "delivered"
  ELSE IF session.id # id \/ session.state \notin Busy THEN "ended"
  ELSE IF session.state = "listening" THEN "recording" ELSE "processing"

Lifecycle == INSTANCE DictationLifecycle WITH
               Dictations <- SessionIds, phase <- [id \in SessionIds |-> Phase(id)]

\* Every step of the state machine is a step of the user's view, or invisible.
ImplementsLifecycle == Lifecycle!Spec

\* ... and under fairness a stopped dictation is carried to its end.
ImplementsFairLifecycle == Lifecycle!FairSpec
=============================================================================
