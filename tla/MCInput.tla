------------------------------- MODULE MCInput -------------------------------
(****************************************************************************)
(* What a dictation is started with and how its audio is taken: the hold    *)
(* gesture under the keyboard hook and under the macOS helper, the          *)
(* shortcuts, the recording of a new shortcut, the recorder of the pill,    *)
(* its Live transport and encoder, and the pill under the pointer. They     *)
(* share no state, so a behaviour of all of them is one of each: `part'     *)
(* picks the component that moves, once and for all, and the variables of   *)
(* the others are Off (those of LiveTransport are at their start).          *)
(****************************************************************************)
EXTENDS LiveTransport

CONSTANTS
  Parts,  \* the components to check, each by itself
  Off     \* the value of the variables of the others

VARIABLES
  part,  \* the component that moves
  \* HoldGesture
  down, button, wire, toggleSent, matcher, monitor, gesture, toggleLocked, captureActive,
  toggled, fresh, modified,
  \* HotkeyService
  s, row, login, granted, servicePhase, answer,
  \* ShortcutCapture
  captureId, capturing, validating, begin, ending, calls, answers, captureCaptureActive,
  timedOut,
  \* AudioRecorder
  state, sid, starts, acquisitions, stops, joined, cancelling, rec, open, sinks, failing,
  delivered,
  \* LiveEncoder
  rateIn, seen, nextPosition, previous, frame, frames, finished,
  \* PillHover
  pointer, moved, session, mode, mounted, visual, over, inside, waiting, forgotten, choosing,
  left, up, pillDown

Hook == INSTANCE HoldGesture WITH Keys <- {"leftControl", "rightControl", "space"},
  requiredGroups <- {{"leftControl", "rightControl"}}, ToggleKeys <- {"leftControl", "space"},
  ToggleKey <- "space", ModifierOnly <- TRUE, Hooked <- TRUE, MaxEvents <- 3
Helper == INSTANCE HoldGesture WITH Keys <- {"leftControl", "rightControl", "space"},
  requiredGroups <- {{"leftControl", "rightControl"}}, ToggleKeys <- {"leftControl", "space"},
  ToggleKey <- "space", ModifierOnly <- TRUE, Hooked <- FALSE, MaxEvents <- 3
Shortcuts == INSTANCE HotkeyService WITH Holds <- {"common", "rare"},
  Toggles <- {"toggleA", "toggleB"}, Native <- {"common"}, Clashes <- {<<"rare", "toggleB">>},
  MaxFailures <- 2, MayFail <- {"register", "probe", "hookStart", "monitor"},
  phase <- servicePhase
Saving == INSTANCE HotkeyService WITH Holds <- {"common", "rare"},
  Toggles <- {"toggleA", "toggleB"}, Native <- {"common"}, Clashes <- {<<"rare", "toggleB">>},
  MaxFailures <- 2, MayFail <- {"save", "hookStart", "monitor", "login"}, phase <- servicePhase
Capture == INSTANCE ShortcutCapture WITH Recorders <- {"hold", "toggle"}, MaxAttempts <- 3,
  MayFail <- TRUE, captureActive <- captureCaptureActive
CaptureOne == INSTANCE ShortcutCapture WITH Recorders <- {"hold"}, MaxAttempts <- 7,
  MayFail <- TRUE, captureActive <- captureCaptureActive
Recording == INSTANCE AudioRecorder WITH MaxSessions <- 3, MaxGenerations <- 6, Live <- FALSE,
  Patient <- TRUE
Streaming == INSTANCE AudioRecorder WITH MaxSessions <- 3, MaxGenerations <- 6, Live <- TRUE,
  Patient <- TRUE
Interrupted == INSTANCE AudioRecorder WITH MaxSessions <- 3, MaxGenerations <- 4, Live <- TRUE,
  Patient <- FALSE
Encoder == INSTANCE LiveEncoder WITH RatesIn <- {1, 2, 3, 5}, RateOut <- 2, FrameSize <- 3,
  Chunks <- {0, 1, 2, 5}, MaxSamples <- 30
Pill == INSTANCE PillHover WITH Slow <- {}, MaxUnread <- 3, down <- pillDown
Picker == INSTANCE PillHover WITH Slow <- {"messages"}, MaxUnread <- 2, down <- pillDown

hookVars == <<down, button, wire, toggleSent, matcher, monitor, gesture, toggleLocked,
  captureActive, toggled, fresh, modified>>
shortcutsVars == <<s, row, login, granted, servicePhase, answer>>
captureVars == <<captureId, capturing, validating, begin, ending, calls, answers,
  captureCaptureActive, timedOut>>
recordingVars == <<state, sid, starts, acquisitions, stops, joined, cancelling, rec, open,
  sinks, failing, delivered>>
encoderVars == <<rateIn, seen, nextPosition, previous, frame, frames, finished>>
pillVars == <<pointer, moved, session, mode, mounted, visual, over, inside, waiting, forgotten,
  choosing, left, up, pillDown>>

HookOff ==
  /\ down = Off /\ button = Off /\ wire = Off /\ toggleSent = Off /\ matcher = Off
  /\ monitor = Off /\ gesture = Off /\ toggleLocked = Off /\ captureActive = Off
  /\ toggled = Off /\ fresh = Off /\ modified = Off
ShortcutsOff ==
  /\ s = Off /\ row = Off /\ login = Off /\ granted = Off /\ servicePhase = Off /\ answer = Off
CaptureOff ==
  /\ captureId = Off /\ capturing = Off /\ validating = Off /\ begin = Off /\ ending = Off
  /\ calls = Off /\ answers = Off /\ captureCaptureActive = Off /\ timedOut = Off
RecordingOff ==
  /\ state = Off /\ sid = Off /\ starts = Off /\ acquisitions = Off /\ stops = Off
  /\ joined = Off /\ cancelling = Off /\ rec = Off /\ open = Off /\ sinks = Off /\ failing = Off
  /\ delivered = Off
EncoderOff ==
  /\ rateIn = Off /\ seen = Off /\ nextPosition = Off /\ previous = Off /\ frame = Off
  /\ frames = Off /\ finished = Off
PillOff ==
  /\ pointer = Off /\ moved = Off /\ session = Off /\ mode = Off /\ mounted = Off
  /\ visual = Off /\ over = Off /\ inside = Off /\ waiting = Off /\ forgotten = Off
  /\ choosing = Off /\ left = Off /\ up = Off /\ pillDown = Off

MCInit ==
  /\ part \in Parts
  /\ \/ part = "transport" /\ Init /\ HookOff /\ ShortcutsOff /\ CaptureOff /\ RecordingOff
        /\ EncoderOff /\ PillOff
     \/ part = "hooked" /\ Hook!Init /\ Init /\ ShortcutsOff /\ CaptureOff /\ RecordingOff
        /\ EncoderOff /\ PillOff
     \/ part = "monitored" /\ Helper!Init /\ Init /\ ShortcutsOff /\ CaptureOff
        /\ RecordingOff /\ EncoderOff /\ PillOff
     \/ part = "shortcuts" /\ Shortcuts!Init /\ Init /\ HookOff /\ CaptureOff /\ RecordingOff
        /\ EncoderOff /\ PillOff
     \/ part = "saving" /\ Saving!Init /\ Init /\ HookOff /\ CaptureOff /\ RecordingOff
        /\ EncoderOff /\ PillOff
     \/ part = "capture" /\ Capture!Init /\ Init /\ HookOff /\ ShortcutsOff /\ RecordingOff
        /\ EncoderOff /\ PillOff
     \/ part = "captureOne" /\ CaptureOne!Init /\ Init /\ HookOff /\ ShortcutsOff
        /\ RecordingOff /\ EncoderOff /\ PillOff
     \/ part = "recording" /\ Recording!Init /\ Init /\ HookOff /\ ShortcutsOff /\ CaptureOff
        /\ EncoderOff /\ PillOff
     \/ part = "streaming" /\ Streaming!Init /\ Init /\ HookOff /\ ShortcutsOff /\ CaptureOff
        /\ EncoderOff /\ PillOff
     \/ part = "interrupted" /\ Interrupted!Init /\ Init /\ HookOff /\ ShortcutsOff
        /\ CaptureOff /\ EncoderOff /\ PillOff
     \/ part = "encoder" /\ Encoder!Init /\ Init /\ HookOff /\ ShortcutsOff /\ CaptureOff
        /\ RecordingOff /\ PillOff
     \/ part = "pill" /\ Pill!Init /\ Init /\ HookOff /\ ShortcutsOff /\ CaptureOff
        /\ RecordingOff /\ EncoderOff
     \/ part = "picker" /\ Picker!Init /\ Init /\ HookOff /\ ShortcutsOff /\ CaptureOff
        /\ RecordingOff /\ EncoderOff

MCNext ==
  /\ UNCHANGED part
  /\ \/ part = "transport" /\ Next /\ UNCHANGED <<hookVars, shortcutsVars, captureVars,
          recordingVars, encoderVars, pillVars>>
     \/ part = "hooked" /\ Hook!Next /\ UNCHANGED <<vars, shortcutsVars, captureVars,
          recordingVars, encoderVars, pillVars>>
     \/ part = "monitored" /\ Helper!Next /\ UNCHANGED <<vars, shortcutsVars, captureVars,
          recordingVars, encoderVars, pillVars>>
     \/ part = "shortcuts" /\ Shortcuts!Next /\ UNCHANGED <<vars, hookVars, captureVars,
          recordingVars, encoderVars, pillVars>>
     \/ part = "saving" /\ Saving!Next /\ UNCHANGED <<vars, hookVars, captureVars,
          recordingVars, encoderVars, pillVars>>
     \/ part = "capture" /\ Capture!Next /\ UNCHANGED <<vars, hookVars, shortcutsVars,
          recordingVars, encoderVars, pillVars>>
     \/ part = "captureOne" /\ CaptureOne!Next /\ UNCHANGED <<vars, hookVars, shortcutsVars,
          recordingVars, encoderVars, pillVars>>
     \/ part = "recording" /\ Recording!Next /\ UNCHANGED <<vars, hookVars, shortcutsVars,
          captureVars, encoderVars, pillVars>>
     \/ part = "streaming" /\ Streaming!Next /\ UNCHANGED <<vars, hookVars, shortcutsVars,
          captureVars, encoderVars, pillVars>>
     \/ part = "interrupted" /\ Interrupted!Next /\ UNCHANGED <<vars, hookVars,
          shortcutsVars, captureVars, encoderVars, pillVars>>
     \/ part = "encoder" /\ Encoder!Next /\ UNCHANGED <<vars, hookVars, shortcutsVars,
          captureVars, recordingVars, pillVars>>
     \/ part = "pill" /\ Pill!Next /\ UNCHANGED <<vars, hookVars, shortcutsVars, captureVars,
          recordingVars, encoderVars>>
     \/ part = "picker" /\ Picker!Next /\ UNCHANGED <<vars, hookVars, shortcutsVars,
          captureVars, recordingVars, encoderVars>>

MCVars == <<part, vars, hookVars, shortcutsVars, captureVars, recordingVars, encoderVars,
         pillVars>>
MCSpec == MCInit /\ [][MCNext]_MCVars

-----------------------------------------------------------------------------
ASSUME /\ Hook!HoldAssumption /\ Helper!HoldAssumption
       /\ Shortcuts!HotkeyAssumption /\ Saving!HotkeyAssumption
       /\ Capture!CaptureAssumption /\ CaptureOne!CaptureAssumption
       /\ Recording!RecorderAssumption /\ Streaming!RecorderAssumption /\ Interrupted!RecorderAssumption
       /\ Encoder!EncoderAssumption /\ Pill!PillAssumption /\ Picker!PillAssumption

\* One press of keys is a toggle or a hold and never both, in whichever order they
\* are delivered; and what was modified before it began does not begin (prepareToggle).
ToggleOrHold ==
  /\ [][part = "hooked" => Hook!ToggleOrHold /\ Hook!ModifiedIsNoHold]_hookVars
  /\ [][part = "monitored" => Helper!ToggleOrHold /\ Helper!ModifiedIsNoHold]_hookVars

\* What the service believes is what the process holds, one reporter of the hold
\* shortcut and one toggle, and the saved shortcuts are those in use, whichever
\* native call fails on the way (hotkeyService.ts reconfigure, restore).
ShortcutsAgree ==
  /\ part = "shortcuts" => /\ Shortcuts!TypeOK /\ Shortcuts!OneReporter
                           /\ Shortcuts!ToggleOwned /\ Shortcuts!AllOrNothing
  /\ part = "saving" => /\ Saving!OneReporter /\ Saving!ToggleOwned /\ Saving!AllOrNothing

\* A toggle that works is kept by whatever fails, and what a refused change
\* leaves is what was there before, unless the user is told to restart.
RefusalChangesNothing ==
  /\ [][part = "shortcuts" => Shortcuts!KeepsToggle]_shortcutsVars
  /\ [][part = "saving" => Saving!KeepsToggle /\ Saving!RefusalChangesNothing]_shortcutsVars

\* What keys began ends with them: push-to-talk goes on only while its keys are down or
\* their release is on its way, whether the hook or the helper sees the keyboard; a
\* shortcut is saved only from an attempt whose capture began, at rest the shortcuts
\* work again, and one recorder is never refused for its own capture
\* (HoldShortcutGesture; ShortcutRecorder finishCapture, endNativeCapture).
KeysArePaired ==
  /\ part = "hooked" => Hook!TypeOK /\ Hook!HoldHasKeys
  /\ part = "monitored" => Helper!TypeOK /\ Helper!HoldHasKeys
  /\ part = "capture" => /\ Capture!TypeOK /\ Capture!SavedWasCaptured
                         /\ Capture!ReleasedAtRest
  /\ part = "captureOne" => CaptureOne!NeverRefusesItself /\ CaptureOne!ReleasedAtRest

\* Where nobody dictates again during a cancellation: one microphone at most, none when
\* nothing is going on, the recording that goes on hears, a session's audio is its own,
\* and every Live sink that was opened is closed; and where somebody does: one microphone
\* at most, none while a stop or a cancellation closes, and no mixed audio
\* (audioRecorder.ts).  However the
\* recording is cut into chunks, the samples handed out are those of the uncut
\* recording, each once, in full frames (liveAudioEncoder.ts).
RecordingIsSound ==
  /\ part = "recording" => /\ Recording!MicrophoneReleased /\ Recording!OneMicrophone
                           /\ Recording!RecordsWhileListening /\ Recording!AudioIsOwn
  /\ part = "streaming" => /\ Streaming!TypeOK /\ Streaming!MicrophoneReleased
                           /\ Streaming!OneMicrophone /\ Streaming!SinksClosed /\ Streaming!AudioIsOwn
  /\ part = "interrupted" => /\ Interrupted!MicrophoneIsHeld /\ Interrupted!OneMicrophone
                             /\ Interrupted!AudioIsOfOne
  /\ part = "encoder" => Encoder!ChunksDoNotMatter /\ Encoder!FramesAreFull

\* At rest the page draws what the window is large enough for, and an open picker
\* is never cut off, though messages are slow (pillLayout.ts, main.ts).
PillFitsItsWindow ==
  /\ part = "pill" => Pill!TypeOK /\ Pill!AgreeAtRest
  /\ part = "picker" => Picker!TypeOK /\ Picker!PickerIsDrawn

=============================================================================
