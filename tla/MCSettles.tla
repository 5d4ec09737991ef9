------------------------------ MODULE MCSettles ------------------------------
(****************************************************************************)
(* What must happen at last: the end of a dictation, of an insertion, of a  *)
(* supervised operation, of a recording and of a hold, of the preparation   *)
(* of an update, of a save of notes and of what the other surfaces and      *)
(* queues have begun. They share no state, so a behaviour of all of them is *)
(* one of each: `part' picks the component that moves, once and for all,    *)
(* and the variables of the others are Off (those of DictationSession are   *)
(* at their start).                                                         *)
(****************************************************************************)
EXTENDS DictationSession

CONSTANTS
  Parts,  \* the components to check, each by itself
  Off,    \* the value of the variables of the others
  NoTarget, Hidden, Mixed, NoModel, NoSession, Absent, NoPreparation

VARIABLES
  part,  \* the component that moves
  \* SafeInsertion
  captureGeneration, activeSessionGeneration, pendingTarget, capturedTargetAppId, capture,
  stage, bound, local, outcome, queue, keystroke, clipboard, focus,
  \* WorkerSupervisor
  process, hello, pending, settled, op, retiring, retired, supervisorQueue, calls, activeModel,
  latest, liveSession, phase, chunk, written, owner, anchor, worker, work, out, holds, decoder,
  sent, fed, heard,
  \* AudioRecorder
  state, sid, starts, acquisitions, stops, joined, cancelling, rec, open, sinks, failing,
  recorderDelivered,
  \* HoldGesture
  down, button, wire, toggleSent, matcher, monitor, gesture, toggleLocked, captureActive,
  toggled, fresh, modified,
  \* UpdateInstall
  updatePhase, selected, check, action, nativeAttempted, nativeActive, nativeAvailable, native,
  staged, offered, approved, installStarted, disposed, attempt, attempts, prepared, window,
  request, draining, unsaved, inbox, replies, busy, updateQuitting, release, exited,
  \* NotesEditor
  loading, shown, disk, notesUsed, persisted, notesPending, timer, sequence, writing, saveState,
  deleted, deleting, notesUnsaved, creating, notesCalls, drains, notesRequest, answered,
  \* LiveTransport
  transportSequence, transportQueue, transportWriting, transportPhase, cancelled, failure,
  received, sink,
  \* ShortcutCapture
  captureId, capturing, validating, begin, ending, captureCalls, answers, captureCaptureActive,
  timedOut,
  \* SpeechWindows
  stream, doing, windowsPending, firstWindow, acknowledged, sampleCount, awaited, windowsFed,
  ended, done, lost, reports, answer, losses,
  \* ModelScreen
  screenDisk, library, selection, loaded, language, page, mounts, catalog, catalogError, first,
  draft, screenBusy, painted, stopping, feedback, screenCall, dialog, frozen, consented, doubt,
  presses, moves,
  \* SettingsDraft
  saved, effective, draftRequest, toDialog, draftOpen, pushed, settings, draftPersisted, dirty,
  submitted, saving, status, wanted, touched, edits, others,
  \* DiagnosticsTrail
  current, previous, bytes, started, trailQueue, pc, made, reading, awaits, asked, clears,
  failures, restarts, trailAnswer,
  \* PillHover
  pointer, moved, pillSession, mode, mounted, visual, over, inside, waiting, forgotten,
  choosing, left, up, pillDown

Insertion == INSTANCE SafeInsertion WITH Insertions <- {"i1", "i2"}, UserCopies <- {"u1"},
  Unrestorable <- {}, Apps <- {"app"}, Windows <- {"window"}, Controls <- {"control"},
  Together <- {{"app", "window", "control"}}, Lapses <- {{}}, Injections <- {"acknowledging"},
  MaxGeneration <- 1, MaxSequence <- 1
Supervisor == INSTANCE WorkerSupervisor WITH Models <- {"small", "large"}, LiveModels <- {},
  Artifact <- [m \in {"small", "large"} |-> m], Sessions <- {"s1"}, Kinds <- {"ready"},
  Capacity <- 1, MaxCalls <- 2, MaxProcesses <- 3, MaxFrames <- 0, MaxLost <- 0,
  Misbehaves <- FALSE, Coalesces <- TRUE, queue <- supervisorQueue
Recorder == INSTANCE AudioRecorder WITH MaxSessions <- 2, MaxGenerations <- 4, Live <- TRUE,
  Patient <- FALSE, delivered <- recorderDelivered
Hold == INSTANCE HoldGesture WITH Keys <- {"leftControl", "option"},
  requiredGroups <- {{"leftControl"}, {"option"}}, ToggleKeys <- {"leftControl", "space"},
  ToggleKey <- "space", ModifierOnly <- TRUE, Hooked <- FALSE, MaxEvents <- 2
Update == INSTANCE UpdateInstall WITH Editors <- {"settings", "notes"}, MaxVersion <- 1,
  MaxAttempts <- 1, phase <- updatePhase, quitting <- updateQuitting
Saves == INSTANCE NotesEditor WITH Notes <- {"n1"}, Bodies <- {"a", "b"}, Empty <- "a",
  Requests <- {"r1"}, NoRequest <- NoPreparation, MaxEdits <- 2, DeleteFails <- TRUE,
  used <- notesUsed, pending <- notesPending, unsaved <- notesUnsaved, calls <- notesCalls,
  request <- notesRequest
Transport == INSTANCE LiveTransport WITH MaxPending <- 2, MaxFrames <- 4,
  sequence <- transportSequence, queue <- transportQueue, writing <- transportWriting,
  phase <- transportPhase
Capture == INSTANCE ShortcutCapture WITH Recorders <- {"hold"}, MaxAttempts <- 3,
  MayFail <- TRUE, calls <- captureCalls, captureActive <- captureCaptureActive
Windows == INSTANCE SpeechWindows WITH First <- 3, Advance <- 2, Sizes <- {1, 4}, MaxUnits <- 6,
  MaxStreams <- 2, MaxLosses <- 1, pending <- windowsPending, fed <- windowsFed
Page == INSTANCE ModelScreen WITH Families <- {"parakeet"}, Languages <- {"en", "de"},
  LanguagesOf <- [parakeet |-> {"en"}], ModesOf <- [parakeet |-> {"after-stop"}], Slots <- {1},
  MaxPresses <- 2, MaxMoves <- 1, disk <- screenDisk, busy <- screenBusy, call <- screenCall
Draft == INSTANCE SettingsDraft WITH Fields <- {"launch", "shortcut"}, MaxEdits <- 1,
  MaxOthers <- 1, MaxMessages <- 2, Racing <- TRUE, request <- draftRequest, open <- draftOpen,
  persisted <- draftPersisted
Trail == INSTANCE DiagnosticsTrail WITH MaxBytes <- 1, MaxRecords <- 2, MaxClears <- 1,
  MaxFailures <- 1, MaxRestarts <- 0, queue <- trailQueue, answer <- trailAnswer
Pill == INSTANCE PillHover WITH Slow <- {"messages"}, MaxUnread <- 1, session <- pillSession,
  down <- pillDown

insertionVars == <<captureGeneration, activeSessionGeneration, pendingTarget,
  capturedTargetAppId, capture, stage, bound, local, outcome, queue, keystroke, clipboard, focus>>
supervisorVars == <<process, hello, pending, settled, op, retiring, retired, supervisorQueue,
  calls, activeModel, latest, liveSession, phase, chunk, written, owner, anchor, worker, work,
  out, holds, decoder, sent, fed, heard>>
recorderVars == <<state, sid, starts, acquisitions, stops, joined, cancelling, rec, open, sinks,
  failing, recorderDelivered>>
holdVars == <<down, button, wire, toggleSent, matcher, monitor, gesture, toggleLocked,
  captureActive, toggled, fresh, modified>>
updateVars == <<updatePhase, selected, check, action, nativeAttempted, nativeActive,
  nativeAvailable, native, staged, offered, approved, installStarted, disposed, attempt,
  attempts, prepared, window, request, draining, unsaved, inbox, replies, busy, updateQuitting,
  release, exited>>
savesVars == <<loading, shown, disk, notesUsed, persisted, notesPending, timer, sequence,
  writing, saveState, deleted, deleting, notesUnsaved, creating, notesCalls, drains,
  notesRequest, answered>>
transportVars == <<transportSequence, transportQueue, transportWriting, transportPhase,
  cancelled, failure, received, sink>>
captureVars == <<captureId, capturing, validating, begin, ending, captureCalls, answers,
  captureCaptureActive, timedOut>>
windowsVars == <<stream, doing, windowsPending, firstWindow, acknowledged, sampleCount, awaited,
  windowsFed, ended, done, lost, reports, answer, losses>>
pageVars == <<screenDisk, library, selection, loaded, language, page, mounts, catalog,
  catalogError, first, draft, screenBusy, painted, stopping, feedback, screenCall, dialog,
  frozen, consented, doubt, presses, moves>>
draftVars == <<saved, effective, draftRequest, toDialog, draftOpen, pushed, settings,
  draftPersisted, dirty, submitted, saving, status, wanted, touched, edits, others>>
trailVars == <<current, previous, bytes, started, trailQueue, pc, made, reading, awaits, asked,
  clears, failures, restarts, trailAnswer>>
pillVars == <<pointer, moved, pillSession, mode, mounted, visual, over, inside, waiting,
  forgotten, choosing, left, up, pillDown>>

InsertionOff ==
  /\ captureGeneration = Off /\ activeSessionGeneration = Off /\ pendingTarget = Off
  /\ capturedTargetAppId = Off /\ capture = Off /\ stage = Off /\ bound = Off /\ local = Off
  /\ outcome = Off /\ queue = Off /\ keystroke = Off /\ clipboard = Off /\ focus = Off
SupervisorOff ==
  /\ process = Off /\ hello = Off /\ pending = Off /\ settled = Off /\ op = Off
  /\ retiring = Off /\ retired = Off /\ supervisorQueue = Off /\ calls = Off
  /\ activeModel = Off /\ latest = Off /\ liveSession = Off /\ phase = Off /\ chunk = Off
  /\ written = Off /\ owner = Off /\ anchor = Off /\ worker = Off /\ work = Off /\ out = Off
  /\ holds = Off /\ decoder = Off /\ sent = Off /\ fed = Off /\ heard = Off
RecorderOff ==
  /\ state = Off /\ sid = Off /\ starts = Off /\ acquisitions = Off /\ stops = Off
  /\ joined = Off /\ cancelling = Off /\ rec = Off /\ open = Off /\ sinks = Off /\ failing = Off
  /\ recorderDelivered = Off
HoldOff ==
  /\ down = Off /\ button = Off /\ wire = Off /\ toggleSent = Off /\ matcher = Off
  /\ monitor = Off /\ gesture = Off /\ toggleLocked = Off /\ captureActive = Off
  /\ toggled = Off /\ fresh = Off /\ modified = Off
UpdateOff ==
  /\ updatePhase = Off /\ selected = Off /\ check = Off /\ action = Off /\ nativeAttempted = Off
  /\ nativeActive = Off /\ nativeAvailable = Off /\ native = Off /\ staged = Off
  /\ offered = Off /\ approved = Off /\ installStarted = Off /\ disposed = Off /\ attempt = Off
  /\ attempts = Off /\ prepared = Off /\ window = Off /\ request = Off /\ draining = Off
  /\ unsaved = Off /\ inbox = Off /\ replies = Off /\ busy = Off /\ updateQuitting = Off
  /\ release = Off /\ exited = Off
SavesOff ==
  /\ loading = Off /\ shown = Off /\ disk = Off /\ notesUsed = Off /\ persisted = Off
  /\ notesPending = Off /\ timer = Off /\ sequence = Off /\ writing = Off /\ saveState = Off
  /\ deleted = Off /\ deleting = Off /\ notesUnsaved = Off /\ creating = Off /\ notesCalls = Off
  /\ drains = Off /\ notesRequest = Off /\ answered = Off
TransportOff ==
  /\ transportSequence = Off /\ transportQueue = Off /\ transportWriting = Off
  /\ transportPhase = Off /\ cancelled = Off /\ failure = Off /\ received = Off /\ sink = Off
CaptureOff ==
  /\ captureId = Off /\ capturing = Off /\ validating = Off /\ begin = Off /\ ending = Off
  /\ captureCalls = Off /\ answers = Off /\ captureCaptureActive = Off /\ timedOut = Off
WindowsOff ==
  /\ stream = Off /\ doing = Off /\ windowsPending = Off /\ firstWindow = Off
  /\ acknowledged = Off /\ sampleCount = Off /\ awaited = Off /\ windowsFed = Off /\ ended = Off
  /\ done = Off /\ lost = Off /\ reports = Off /\ answer = Off /\ losses = Off
PageOff ==
  /\ screenDisk = Off /\ library = Off /\ selection = Off /\ loaded = Off /\ language = Off
  /\ page = Off /\ mounts = Off /\ catalog = Off /\ catalogError = Off /\ first = Off
  /\ draft = Off /\ screenBusy = Off /\ painted = Off /\ stopping = Off /\ feedback = Off
  /\ screenCall = Off /\ dialog = Off /\ frozen = Off /\ consented = Off /\ doubt = Off
  /\ presses = Off /\ moves = Off
DraftOff ==
  /\ saved = Off /\ effective = Off /\ draftRequest = Off /\ toDialog = Off /\ draftOpen = Off
  /\ pushed = Off /\ settings = Off /\ draftPersisted = Off /\ dirty = Off /\ submitted = Off
  /\ saving = Off /\ status = Off /\ wanted = Off /\ touched = Off /\ edits = Off
  /\ others = Off
TrailOff ==
  /\ current = Off /\ previous = Off /\ bytes = Off /\ started = Off /\ trailQueue = Off
  /\ pc = Off /\ made = Off /\ reading = Off /\ awaits = Off /\ asked = Off /\ clears = Off
  /\ failures = Off /\ restarts = Off /\ trailAnswer = Off
PillOff ==
  /\ pointer = Off /\ moved = Off /\ pillSession = Off /\ mode = Off /\ mounted = Off
  /\ visual = Off /\ over = Off /\ inside = Off /\ waiting = Off /\ forgotten = Off
  /\ choosing = Off /\ left = Off /\ up = Off /\ pillDown = Off

MCInit ==
  /\ part \in Parts
  /\ \/ part = "dictation" /\ Init /\ InsertionOff /\ SupervisorOff /\ RecorderOff /\ HoldOff
        /\ UpdateOff /\ SavesOff /\ TransportOff /\ CaptureOff /\ WindowsOff /\ PageOff
        /\ DraftOff /\ TrailOff /\ PillOff
     \/ part = "insertion" /\ Insertion!Init /\ Init /\ SupervisorOff /\ RecorderOff
        /\ HoldOff /\ UpdateOff /\ SavesOff /\ TransportOff /\ CaptureOff /\ WindowsOff
        /\ PageOff /\ DraftOff /\ TrailOff /\ PillOff
     \/ part = "supervisor" /\ Supervisor!Init /\ Init /\ InsertionOff /\ RecorderOff
        /\ HoldOff /\ UpdateOff /\ SavesOff /\ TransportOff /\ CaptureOff /\ WindowsOff
        /\ PageOff /\ DraftOff /\ TrailOff /\ PillOff
     \/ part = "recorder" /\ Recorder!Init /\ Init /\ InsertionOff /\ SupervisorOff
        /\ HoldOff /\ UpdateOff /\ SavesOff /\ TransportOff /\ CaptureOff /\ WindowsOff
        /\ PageOff /\ DraftOff /\ TrailOff /\ PillOff
     \/ part = "hold" /\ Hold!Init /\ Init /\ InsertionOff /\ SupervisorOff /\ RecorderOff
        /\ UpdateOff /\ SavesOff /\ TransportOff /\ CaptureOff /\ WindowsOff /\ PageOff
        /\ DraftOff /\ TrailOff /\ PillOff
     \/ part = "update" /\ Update!Init /\ Init /\ InsertionOff /\ SupervisorOff
        /\ RecorderOff /\ HoldOff /\ SavesOff /\ TransportOff /\ CaptureOff /\ WindowsOff
        /\ PageOff /\ DraftOff /\ TrailOff /\ PillOff
     \/ part = "notes" /\ Saves!Init /\ Init /\ InsertionOff /\ SupervisorOff /\ RecorderOff
        /\ HoldOff /\ UpdateOff /\ TransportOff /\ CaptureOff /\ WindowsOff /\ PageOff
        /\ DraftOff /\ TrailOff /\ PillOff
     \/ part = "transport" /\ Transport!Init /\ Init /\ InsertionOff /\ SupervisorOff
        /\ RecorderOff /\ HoldOff /\ UpdateOff /\ SavesOff /\ CaptureOff /\ WindowsOff
        /\ PageOff /\ DraftOff /\ TrailOff /\ PillOff
     \/ part = "capture" /\ Capture!Init /\ Init /\ InsertionOff /\ SupervisorOff
        /\ RecorderOff /\ HoldOff /\ UpdateOff /\ SavesOff /\ TransportOff /\ WindowsOff
        /\ PageOff /\ DraftOff /\ TrailOff /\ PillOff
     \/ part = "windows" /\ Windows!Init /\ Init /\ InsertionOff /\ SupervisorOff
        /\ RecorderOff /\ HoldOff /\ UpdateOff /\ SavesOff /\ TransportOff /\ CaptureOff
        /\ PageOff /\ DraftOff /\ TrailOff /\ PillOff
     \/ part = "page" /\ Page!Init /\ Init /\ InsertionOff /\ SupervisorOff /\ RecorderOff
        /\ HoldOff /\ UpdateOff /\ SavesOff /\ TransportOff /\ CaptureOff /\ WindowsOff
        /\ DraftOff /\ TrailOff /\ PillOff
     \/ part = "draft" /\ Draft!Init /\ Init /\ InsertionOff /\ SupervisorOff /\ RecorderOff
        /\ HoldOff /\ UpdateOff /\ SavesOff /\ TransportOff /\ CaptureOff /\ WindowsOff
        /\ PageOff /\ TrailOff /\ PillOff
     \/ part = "trail" /\ Trail!Init /\ Init /\ InsertionOff /\ SupervisorOff /\ RecorderOff
        /\ HoldOff /\ UpdateOff /\ SavesOff /\ TransportOff /\ CaptureOff /\ WindowsOff
        /\ PageOff /\ DraftOff /\ PillOff
     \/ part = "pill" /\ Pill!Init /\ Init /\ InsertionOff /\ SupervisorOff /\ RecorderOff
        /\ HoldOff /\ UpdateOff /\ SavesOff /\ TransportOff /\ CaptureOff /\ WindowsOff
        /\ PageOff /\ DraftOff /\ TrailOff

MCNext ==
  /\ UNCHANGED part
  /\ \/ part = "dictation" /\ Next /\ UNCHANGED <<insertionVars, supervisorVars,
          recorderVars, holdVars, updateVars, savesVars, transportVars, captureVars,
          windowsVars, pageVars, draftVars, trailVars, pillVars>>
     \/ part = "insertion" /\ Insertion!Next /\ UNCHANGED <<vars, supervisorVars,
          recorderVars, holdVars, updateVars, savesVars, transportVars, captureVars,
          windowsVars, pageVars, draftVars, trailVars, pillVars>>
     \/ part = "supervisor" /\ Supervisor!Next /\ UNCHANGED <<vars, insertionVars,
          recorderVars, holdVars, updateVars, savesVars, transportVars, captureVars,
          windowsVars, pageVars, draftVars, trailVars, pillVars>>
     \/ part = "recorder" /\ Recorder!Next /\ UNCHANGED <<vars, insertionVars,
          supervisorVars, holdVars, updateVars, savesVars, transportVars, captureVars,
          windowsVars, pageVars, draftVars, trailVars, pillVars>>
     \/ part = "hold" /\ Hold!Next /\ UNCHANGED <<vars, insertionVars, supervisorVars,
          recorderVars, updateVars, savesVars, transportVars, captureVars, windowsVars,
          pageVars, draftVars, trailVars, pillVars>>
     \/ part = "update" /\ Update!Next /\ UNCHANGED <<vars, insertionVars, supervisorVars,
          recorderVars, holdVars, savesVars, transportVars, captureVars, windowsVars,
          pageVars, draftVars, trailVars, pillVars>>
     \/ part = "notes" /\ Saves!Next /\ UNCHANGED <<vars, insertionVars, supervisorVars,
          recorderVars, holdVars, updateVars, transportVars, captureVars, windowsVars,
          pageVars, draftVars, trailVars, pillVars>>
     \/ part = "transport" /\ Transport!Next /\ UNCHANGED <<vars, insertionVars,
          supervisorVars, recorderVars, holdVars, updateVars, savesVars, captureVars,
          windowsVars, pageVars, draftVars, trailVars, pillVars>>
     \/ part = "capture" /\ Capture!Next /\ UNCHANGED <<vars, insertionVars, supervisorVars,
          recorderVars, holdVars, updateVars, savesVars, transportVars, windowsVars,
          pageVars, draftVars, trailVars, pillVars>>
     \/ part = "windows" /\ Windows!Next /\ UNCHANGED <<vars, insertionVars, supervisorVars,
          recorderVars, holdVars, updateVars, savesVars, transportVars, captureVars,
          pageVars, draftVars, trailVars, pillVars>>
     \/ part = "page" /\ Page!Next /\ UNCHANGED <<vars, insertionVars, supervisorVars,
          recorderVars, holdVars, updateVars, savesVars, transportVars, captureVars,
          windowsVars, draftVars, trailVars, pillVars>>
     \/ part = "draft" /\ Draft!Next /\ UNCHANGED <<vars, insertionVars, supervisorVars,
          recorderVars, holdVars, updateVars, savesVars, transportVars, captureVars,
          windowsVars, pageVars, trailVars, pillVars>>
     \/ part = "trail" /\ Trail!Next /\ UNCHANGED <<vars, insertionVars, supervisorVars,
          recorderVars, holdVars, updateVars, savesVars, transportVars, captureVars,
          windowsVars, pageVars, draftVars, pillVars>>
     \/ part = "pill" /\ Pill!Next /\ UNCHANGED <<vars, insertionVars, supervisorVars,
          recorderVars, holdVars, updateVars, savesVars, transportVars, captureVars,
          windowsVars, pageVars, draftVars, trailVars>>

MCVars == <<part, vars, insertionVars, supervisorVars, recorderVars, holdVars, updateVars,
         savesVars, transportVars, captureVars, windowsVars, pageVars, draftVars, trailVars,
         pillVars>>
MCSpec == MCInit /\ [][MCNext]_MCVars

-----------------------------------------------------------------------------
\* The fairness of each component, of the steps it takes in its own part.
InsertionFair ==
  /\ \A g \in Insertion!Generations :
       WF_insertionVars(part = "insertion" /\ Insertion!Capturing(g))
  /\ \A i \in {"i1", "i2"} :
       /\ WF_insertionVars(part = "insertion" /\ Insertion!Inserting(i))
       /\ WF_insertionVars(part = "insertion" /\ Insertion!Helping(i))

SupervisorFair ==
  /\ WF_supervisorVars(part = "supervisor" /\ Supervisor!RunNext)
  /\ \A s \in Supervisor!Supervisors :
       /\ WF_supervisorVars(part = "supervisor" /\ Supervisor!Runs(s))
       /\ WF_supervisorVars(part = "supervisor" /\ Supervisor!Timers(s))
       /\ WF_supervisorVars(/\ part = "supervisor" /\ Supervisor!TurnOver
                            /\ Supervisor!TimesOut(s) \/ Supervisor!GuardAnswers(s))
  /\ \A p \in Supervisor!Processes :
       WF_supervisorVars(part = "supervisor" /\ Supervisor!TurnOver /\ Supervisor!GroupKilled(p))

RecorderFair ==
  /\ WF_recorderVars(part = "recorder" /\ Recorder!Continuation)
  /\ \A g \in Recorder!Generations :
       /\ WF_recorderVars(part = "recorder" /\ Recorder!InputAnswered(g))
       /\ WF_recorderVars(part = "recorder" /\ Recorder!ModuleAnswered(g))
       /\ WF_recorderVars(part = "recorder" /\ Recorder!ThrowCloses(g))
  /\ \A s \in Recorder!Sessions :
       /\ WF_recorderVars(part = "recorder" /\ Recorder!StopCloses(s))
       /\ WF_recorderVars(part = "recorder" /\ Recorder!StopFinishes(s))
       /\ WF_recorderVars(part = "recorder" /\ Recorder!StopAborts(s))
       /\ WF_recorderVars(part = "recorder" /\ Recorder!SinkOpens(s))
  /\ WF_recorderVars(part = "recorder" /\ Recorder!CancelCloses)
  /\ WF_recorderVars(part = "recorder" /\ Recorder!CleanedUp)

HoldFair ==
  /\ WF_holdVars(part = "hold" /\ Hold!Look) /\ WF_holdVars(part = "hold" /\ Hold!Hear)
  /\ WF_holdVars(part = "hold" /\ Hold!Toggle) /\ WF_holdVars(part = "hold" /\ Hold!HoldTimerFires)

UpdateFair ==
  /\ WF_updateVars(part = "update" /\ ~exited /\ Update!Continues)
  /\ WF_updateVars(part = "update" /\ ~exited /\ Update!TurnOver /\ Update!PreparationTimesOut)
  /\ WF_updateVars(part = "update" /\ ~exited /\ Update!TurnOver /\ Update!Released)
  /\ WF_updateVars(part = "update" /\ ~exited /\ Update!TurnOver /\ Update!FailureShown)
  /\ WF_updateVars(/\ part = "update" /\ ~exited /\ Update!TurnOver
                   /\ Update!Installs \/ Update!NativeError)
  /\ \A e \in {"settings", "notes"} :
       WF_updateVars(part = "update" /\ ~exited /\ Update!EditorHears(e))

SavesFair ==
  /\ WF_savesVars(part = "notes" /\ Saves!MainAnswers)
  /\ WF_savesVars(part = "notes" /\ Saves!CloseDrained)
  /\ WF_savesVars(part = "notes" /\ Saves!SaveTimerFires("n1"))
  /\ \A d \in Saves!Drains : WF_savesVars(part = "notes" /\ Saves!DrainAgain(d))
  /\ WF_savesVars(part = "notes" /\ Saves!PrepareDrained("r1"))

OthersFair ==
  /\ WF_transportVars(part = "transport" /\ Transport!WriteEnds)
  /\ WF_transportVars(part = "transport" /\ Transport!FinishContinues)
  /\ WF_transportVars(part = "transport" /\ Transport!SinkFinishes)
  /\ WF_transportVars(part = "transport" /\ Transport!BreakAborts)
  /\ WF_windowsVars(part = "windows" /\ Windows!Commands)
  /\ WF_trailVars(part = "trail" /\ Trail!Work)
  /\ WF_captureVars(part = "capture" /\ Capture!Handle)
  /\ WF_captureVars(part = "capture" /\ Capture!Answered)
  /\ WF_pageVars(part = "page" /\ Page!FirstAnswer)
  /\ WF_pageVars(part = "page" /\ Page!Answers(1))
  /\ WF_draftVars(part = "draft" /\ Draft!Main)
  /\ WF_draftVars(/\ part = "draft"
                  /\ \/ Draft!DeliverChanged \/ Draft!DeliverInitial \/ Draft!DeliverUnheard
                     \/ Draft!DeliverAnswer \/ Draft!Confirm)
  /\ WF_pillVars(part = "pill" /\ Pill!Poll) /\ WF_pillVars(part = "pill" /\ Pill!SetMode)
  /\ WF_pillVars(part = "pill" /\ Pill!Toggled) /\ WF_pillVars(part = "pill" /\ Pill!Hear)

MCFairSpec ==
  /\ MCSpec /\ Fairness
  /\ InsertionFair /\ SupervisorFair /\ RecorderFair /\ HoldFair /\ UpdateFair /\ SavesFair
  /\ OthersFair

-----------------------------------------------------------------------------
\* P holds, of the component that moves.  As it never changes, one leads-to with a
\* disjunct per component is one leads-to of each.
At(x, P) == part = x /\ P

\* A dictation that was stopped ends, whatever the renderer and the workers do, and
\* a notice clears itself: neither the shortcuts nor the models stay blocked.
DictationEnds == StoppedDictationEnds /\ NoticesClear

\* What is under way comes to an end: a queued insertion; a supervised operation, and
\* the workers after Quit; a cancel and a stop of the recorder; the sink of a recording
\* that is over, a command of the helper and a queued entry of the trail; and a hold
\* whose keys stay up.
WorkSettles ==
  /\ \/ At("insertion", stage["i1"] = "queued")
     \/ At("supervisor", supervisorQueue # <<>> \/ op[Supervisor!Inference].at # "idle")
     \/ At("recorder", Recorder!CancelPending)
     \/ At("transport", transportPhase # "recording")
     \/ At("windows", doing \in {"append", "window", "finish"})
     \/ At("trail", \E i \in DOMAIN trailQueue : trailQueue[i] = Trail!Record(1))
     ~> \/ At("insertion", stage["i1"] = "done")
        \/ At("supervisor", supervisorQueue = <<>> /\ op[Supervisor!Inference].at = "idle")
        \/ At("recorder", ~Recorder!CancelPending)
        \/ At("transport", sink # "open")
        \/ At("windows", doing \in {"none", "failed"})
        \/ At("trail", \A i \in DOMAIN trailQueue : trailQueue[i] # Trail!Record(1))
  /\ \/ At("insertion", stage["i2"] = "queued")
     \/ At("supervisor", retired[Supervisor!Inference])
     \/ At("recorder", rec.stop = 1)
     ~> \/ At("insertion", stage["i2"] = "done")
        \/ At("supervisor", \A p \in Supervisor!Processes : worker[p] # "up")
        \/ At("recorder", rec.stop # 1)
  /\ <>[]At("hold", ~Hold!allRequired(down)) => <>[]At("hold", ~gesture.holdStarted)

\* No surface waits for good: the preparation of an update ends, an editor that was
\* frozen for it thaws and Quit exits; an edited note is saved or shown as failed, and
\* every drain is answered; an operation of the model page, a save of the dialog and the
\* check of a recorded shortcut end; and the pill is not left enlarged.
SurfacesSettle ==
  /\ \/ At("update", Update!isPreparing)
     \/ At("notes", notesPending["n1"] # Absent)
     \/ At("page", screenBusy)
     \/ At("draft", saving # "no")
     \/ At("capture", validating["hold"])
     \/ At("pill", /\ pillSession = "idle" /\ mode = "hover"
                   /\ pointer \notin Pill!Covers("hover"))
     ~> \/ At("update", ~Update!isPreparing \/ attempt.retiring)
        \/ At("notes", notesPending["n1"] = Absent \/ saveState["n1"] = "save-error")
        \/ At("page", ~screenBusy)
        \/ At("draft", saving = "no")
        \/ At("capture", ~validating["hold"])
        \/ At("pill", \/ pillSession # "idle" \/ mode # "hover"
                      \/ pointer \in Pill!Covers("hover"))
  /\ \/ At("update", Update!Frozen("notes"))
     \/ At("notes", notesRequest = "r1")
     ~> \/ At("update", ~Update!Frozen("notes") \/ updateQuitting)
        \/ At("notes", answered["r1"] # "none" \/ notesRequest # "r1")
  /\ At("update", updateQuitting) ~> At("update", exited)

=============================================================================
