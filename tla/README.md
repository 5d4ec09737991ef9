# LocalScribe: a verification project

LocalScribe is a macOS dictation application: an Electron main process
(`src/src/main.ts` and `src/src/main/`), three renderer windows (the *pill*,
Settings, Notes), one long-lived Python speech worker and small native helpers.
This project models its stateful parts in TLA+, checks them with TLC and proves the
main safety properties of most of them, for every value of their constants, with
TLAPS.

Paths are relative to the repository unless they name a module. PROJECT.json lists
the components, the runs, the mutants, the lines each definition translates, the
hazards and the theorems.

## 1. Inventory

| Component | State it keeps | Operations | Interacts with |
|---|---|---|---|
| Dictation session (`main.ts`, `main/session/`, `shared/dictationSession.ts`) | `session` snapshot, `activeSessionId`, `activeLiveSession`, finalize watchdog, notice timer | `beginListening`, `finishListening`, IPC handlers `session:*`, `failSession`, `beginShutdown` | awaits the worker and the insertion coordinator; broadcasts snapshots; called by hotkeys, menus, pill |
| Exclusive model operations (`main.ts`, `modelOperations.ts`, `modelSelection.ts`) | promise tail, operation count, `resettingSavedData`, selection, warm model | Apply, Install, Remove, Add, Reset saved data | stop and start the worker; exclude dictations |
| Model catalog and verification (`modelSpec.ts`) | memory of digests, previous Auto tier | choice of a tier, verification of files | file system, worker |
| Worker supervisor (`main/worker/workerSupervisor.ts`) | child process, pending requests, serialized tail, Live token, loaded model, `retired` | `ensureReady`, `transcribe`, `beginLive`, `writeLiveFrame`, `finishLiveWithResult`, `cancelLive`, `installModel`, `abort`, `retire`, `shutdown` | line protocol with the Python worker |
| Python worker and native speech helper (`worker/`, `tools/fluidaudio-*`) | role, runtime, Live stream, model directories | request loop, loading, installation, windows of live audio | supervisor, disk |
| Safe insertion (`main/insertion/`, `active-target.swift`) | capture generation, pending target, serial queue | `beginSession`, `cancelSession`, `insert` | system clipboard, native helper, target application |
| Updates (`main/updates/`, `updatePreparation.ts`) | admission attempt, pending editors, retiring | check, download, `prepare`, `acknowledge`, `cancel`, `retire` | Settings and Notes windows, Squirrel, Quit |
| Hotkeys (`main/hotkeys/`), settings transaction | gesture, registrations, mode, capture, settings row | key callbacks, `reconfigure`, `beginCapture` | session, native key monitor, other programs' shortcuts |
| Pill, recorder, Live transport (`renderer/pill`, `audioRecorder.ts`, `liveAudioTransport.ts`) | recorder generation, bounded frame queue, pill size | start, stop, cancel, `offer`, `finish` | session IPC, microphone, pointer |
| Persistence (`main/persistence/`) | encrypted rows, log, key, schema version | reads, saves, deletions, reset, migrations, export | disk, crashes |
| Diagnostics trail, audio cache | queue and two files; directories and leases | record, clear, read; make, repair, sweep | disk, other processes |
| Notes, Settings dialog, Models page, shortcut recorder, windows | drafts, saves in flight, page state | edits, saves, presses, broadcasts | main process over IPC |
| Text pipeline (`shared/text`, `textPipeline.ts`), settings rules (`contracts.ts`, `shortcuts.ts`) | none | pure functions | |
| Window security and IPC authorization, presentation, packaging | | | not modelled (section 8) |

**Where the difficulty is.** The main process is single-threaded, so a callback is
atomic; but every handler awaits (a file, the worker, a native probe, the
clipboard), and between two awaits anything may happen: cancel, failure, a newer
dictation, a dead pill or worker, a model operation, an update, Quit. The code
answers with re-checks after each await, generations, queues and timers; whether
they are in *all* the right places is the question the models ask. Beside it there
are crashes in the middle of installations, migrations and exports, several
processes over one cache directory, other programs that copy, move the focus, write
the model files or take a shortcut, and answers that come late to a window that was
edited meanwhile.

**What makes each part correct:** a shown dictation is the one its handlers compare
with, no wait is without a timer, no text arrives late, twice, or is reported when it
was not; model work never meets a dictation; one supervised request runs at a time
and every one settles; a paste goes where its dictation began and the clipboard gets
back exactly what it held; an update replaces only saved editors; a hold ends with
its keys; a finished stream had every frame; shortcuts, row and registration change
together; nothing stored is lost by a crash, a key or a reset; a good model is never
lost and never taken for another; a late answer never undoes a later edit. The
hazards behind them, with their lines, are in PROJECT.json.

## 2. Modules and how they are put together

*Components.* One module each, named after the code, with the source's own names.
An action is a callback, a handler's turn between two awaits, or a step of the
environment. Each module ends with its properties. A definition whose comment starts
with "Mistake" is a plausible wrong version of its neighbour, kept to show that a
property notices it (section 4).

| Module | Models |
|---|---|
| `DictationSession`, `DictationLifecycle` | the dictation state machine of the main process; abstractly, what the user is promised about a dictation |
| `SafeInsertion` | the insertion coordinator, its helper process, the clipboard and the focus |
| `WorkerSupervisor` | the supervisor, its processes and the worker's side of the protocol |
| `SpeechWorker`, `SpeechWindows` | the worker's request loop with the native helper; the helper's windows of live audio |
| `UpdateInstall`, `NotesEditor`, `AppWindows` | updates with the editors' drains; the notes; the windows and their replacement |
| `HoldGesture`, `HotkeyService`, `ShortcutCapture` | push-to-talk from key to gesture; who owns the shortcuts; the recording of one |
| `AudioRecorder`, `LiveTransport`, `FrameStream`, `LiveEncoder`, `PillHover` | microphone; bounded Live queue and the stream it implements; resampling and framing; the pill's size |
| `SavedData`, `TextRules`, `StoreUpgrade`, `HistoryExport`, `DiagnosticsTrail`, `AudioCache` | what is kept on the disk |
| `ModelInstall`, `ModelRouting`, `ModelFiles` | the installation of a model, the selection of one, the verification of its files |
| `ModelScreen`, `SettingsDraft`, `AppSettings`, `SpokenText`, `TextMarks` | the model page, the settings dialog, the rules of settings, cleanup and formatting of text |

*What is composed.* `DictationSession` sees an insertion as one step that delivers iff
its session is still current, and the worker as answers; `SafeInsertion` and
`WorkerSupervisor` open those steps. `DictationSession` implements
`DictationLifecycle`, `LiveTransport` implements `FrameStream`.

*Model-checking modules.* `MCDictation` gives values to one component; `SafeInsertion`
needs none, its two configurations name the values. The others (`MCWorker`, `MCUpdates`, `MCInput`, `MCStores`, `MCModels`,
`MCScreens`, `MCSettles`) put the components of one theme side by side: they share no
state, so `part` chooses once which of them moves, and the variables of the others
are `Off` (those of the component the module extends, the one that is proved about,
stay at their start). `Parts` in the configuration names the components to explore: a
single one can be checked by itself. An instance of a component is named for its
question (`Reads`, `Deletes`, ... of `SavedData`), with its constants in the
`INSTANCE`; where one would be too large, a filter of its next-state relation
(`CacheNext`, `RepairNext`, `LifecycleNext`, `LiveNext`, `ReadsNext`, `RulesNext`)
keeps to a part of its behaviours, and says which.

### DictationSession

*State.* `session`, `activeSessionId`, `activeLiveSession` are the variables of
`main.ts`; `watchdog` and `notice` say what the two timers are armed for.
`insertionOwner` is the dictation whose generation the insertion coordinator
currently accepts, `workerLive` the dictation whose Live token the supervisor
holds, `workerWarm` whether a model is resident. `call[k][id]` is the program
counter of one handler invocation: `k` is `"finishLive"` or one of the
`AudioCalls` that the pill may make for the same dictation (nothing in
`sessionTranscribe` forbids a second one while the first is staging its file);
`liveOpening[id]` is the same for `sessionBeginLive`. `modelOps`, `opRunning`
and `resetting` are the exclusive queue, `pillWindow` and `recoveryInFlight`
the pill and its one-replacement latch. `used` (ids handed out) and
`delivered` (how often a dictation's text reached the clipboard) are history
variables: `randomUUID` never repeats, and the clipboard is outside.

*Actions.* One per handler and one per continuation after an await. The parts
of `setSession` that are synchronous with the transition (timers, clearing the
owners in a resting state) are in `Snapshot`, `EnterResting`, `EnterBusy`;
`FailSession` is `failSession`. The catch and finally blocks are `Throws`. A
`sessionTranscribe` call runs

    none -> staging -> resolving -> recognizing -> targeting -> probing -> inserting -> inserted -> discarding -> done
                                                            \-> copying ----------------^

and leaves for `discarding` from everywhere; `finishLive` starts at
`recognizing` and has no file to discard.

*Environment.* The pill may send any call at any time the handler accepts it,
including never (it is a renderer that can hang) and twice; the worker may
answer, fail or exit; hotkeys, menus, the two timers, an update and Quit are
always possible. Data (text, settings, languages, error messages) is left out;
where it decides a branch, both branches are possible.

*Abstracted.* An `insert` call is one step: it delivers iff the generation it
was created under is still current. The supervisor's queue is not modelled: an
aborted request and a slow one look alike to the handler; it is WorkerSupervisor. Two error notices with the same text are one notice to
the code (`sameNotice` compares messages); the model gives all error notices the
same text, the case in which a timer could take one for another.

### DictationLifecycle

Each dictation is new, recording, processing, delivered or ended; at most one
is recording or processing; delivery happens once and from processing only;
nothing leaves delivered or ended. `DictationSession!Phase` is the refinement
mapping: delivered once its text reached the clipboard, otherwise recording or
processing as the snapshot says, otherwise ended.

### SafeInsertion

*State.* `captureGeneration`, `activeSessionGeneration`, `pendingTarget`,
`capturedTargetAppId` are the coordinator's fields. `capture[g]` is the target
promise of generation `g`: the stage of its one or two looks, what the first
saw, and what it resolved to. `stage[i]` is the await at which `insert()` call
`i` is suspended, `bound[i]` what it closed over, `local[i]` its local variables
with the answer it is waiting for, `queue` the calls behind the one that runs
(`SerialTaskQueue`). `keystroke[i]` is the Command-V it asked for. A dictation's
text is named by the call that carries it.

*The clipboard* is the sequence of all it ever held: the last element is its
content, the length is the system's change count. That is what makes the
properties sayable: the count `n` stands for the text `clipboard[n]`.

*The helper* is spawned once per question, so a question has two steps: what the
helper sees (`HelperSees`, `HelperAnswers`) and what the continuation does with
it (`FirstCapture`, `SequenceAfterWrite`, ...). Anything may happen between the
two. A paste is the helper's own sequence: it matches the focus with the target
(`HelperMatchesTarget`), reads the change count (`HelperClearsSequence`), and
posts the key event (`HelperPosts`). `active-target.swift` does the first two
twice; the second round alone decides, and the first can only fail earlier, so
the model has one round. A helper that dies, times out or prints something
unusable is a failed answer; it may die after it has posted.

*The snapshot* of the clipboard reads one format after another, synchronously:
no callback of the main process runs meanwhile (`MainFree`), other programs do.
It is `Mixed` if one of them copied in between. `Unrestorable` contents are those
with a format that the adapter does not write back.

*Targets.* `Sees` is what the helper may report of the focus: nothing, or the
place with any of the `Lapses` (an unknown window or control, an uneditable
control, a cold accessibility tree that the report itself activated).

*Restoring.* `restoreSnapshot` is reached only when the injector acknowledges that the
target has read the clipboard. The injector in use
(`nativePlatformBridge.ts`, `parsePaste`) never does: today a paste always ends
in `pasted-with-copy`. The coordinator is written for both and so is the model
(`Injections`).

*Abstracted.* Reasons and notices of a result other than `session_invalidated`;
the text itself; which field of a target differs.

### WorkerSupervisor

*State.* `process`, `hello`, `pending`, `retired`, `activeModel`, `liveSession`
are the fields of a `WorkerSupervisor` object; the first four per object, since
an installation runs a second one (`Installer`) with the same code. `op[s]` is
the operation whose promise chain runs on it, cut at its awaits; `queue` the
operations serialized behind it. `settled[s]` is the answer a promise has got
and its operation has not yet acted on: Node handles all lines of a stdout chunk
before any continuation runs, so there the order is not what one reads.
`retiring` are the process trees that are being torn down. Of each process the
model has the anchor, the Python worker behind it, the request the worker is at,
the lines not yet read, the model whose files it has open and the Live decoder.
Audio is counted in frames: `chunk` frames are buffered, `sent` travel with an
append, `fed` were heard by the decoder, `heard` are behind the final text.

*Actions.* `RunNext` starts the next queued operation; `EnsureReady`, `Stop`,
`StartWaitEnds`, `HelloAnswered`, `LoadAnswered`, `SendOwn`, `OwnAnswered` and
the like are its turns; `TimesOut`, `UserAborts`, `Quit`, `AnchorLost` and
`HandleLine` are the events that come between. `TurnOver` says that no promise is
left to continue: events wait for it, except that, with `Coalesces`, a line may
be read between an answer and the operation that awaits it.

*Abstracted.* The validation of an answer: it is `ok`, or `wrong` (the operation
aborts the process), or a line breaks the protocol. The transport writes one
frame at a time (`liveAudioTransport.ts`), so the branches of `writeLiveFrame`
for a bad sequence or an overfull buffer are not taken. A killed group is gone at
once. The reset of the native decoder is assumed to succeed (a hazard without a
property says so). Install progress and the probe of the runtime on disk only
show as an answer or an error.


### The other modules, and what they leave out

* `UpdateInstall`: messages to and from an editor's window are queues; the download is
  Squirrel's and may answer anything; a version is a number.
* `NotesEditor`: each note's edit, pending write and saved body; selection and search
  are left out.
* `AppWindows`: `Prompt` says whether a microtask comes before a user's action.
* `HoldGesture`: the keys are seen by the hook (every change) or by the helper (a look
  every 8 ms); reports travel. `HotkeyService`: the code is synchronous, so an
  operation is a function from a service to a service, and what fails is a set of its
  native calls; a failing rollback of the login item is not followed further.
* `ShortcutCapture`: calls and answers of the window in order; which keys make which
  shortcut is left out.
* `AudioRecorder`: continuations of settled promises run before the next task.
  `Patient` restricts it to a user who waits for the end of a cancellation; without it
  two defects appear (section 7). Two parts of the run `input` have it, for the properties
  that these defects break; the part `interrupted` checks without it what holds all the same.
* `LiveEncoder`: positions are scaled by `RateOut`; clamping to 16 bits is left out.
* `PillHover`: messages in order per direction, `Slow` names those that take time; a
  resting pointer gives no event.
* `SavedData`: dictionary, snippets and notes are one library, as the reset treats
  them; `disk` is what the file or its log still holds; deleting an entry of the library
  by itself is left out, and never truncates the log (`database.ts:702`, `797`, `982`).
  `TextRules`: a phrase is a canonical key and a variant; a profile beyond the limit of a
  list is saved but neither found nor shown, so what is promised of saved profiles is
  promised within the limit (`WithinLimit`). `StoreUpgrade`: a transaction that fails leaves
  nothing, so failure and crash look alike; another process may read the database at any
  time, and the truncation of the log then does nothing, which the code does not look at.
  `missed` remembers that it did not take place.
* `HistoryExport`: the identity checks between two looks at a path are left out.
* `DiagnosticsTrail`: a line is one byte; redaction is formatting.
* `AudioCache`: a directory's name is never drawn twice; a crash between the creation
  and the lease leaves a directory that nobody cleans.
* `ModelInstall`: one worker at a time on an artifact; a rename is durable; directories
  that a failed removal leaves behind stay. `ModelRouting`: calls of the worker are
  served in order and are one step with their outcome; `Settled` assumes that the look
  at a few files ends before a model is loaded; `SelectedFilesStay` is about families
  of one tier.
* `ModelFiles`: a file is two blocks; a probe's looks at one file are one step.
* `SpeechWorker`: a handler is one step with the outcome of each command to the helper
  chosen freely; answers beyond the line limit are left out. `SpeechWindows`: the
  recognizer is outside the repository; a unit is one second.
* `SettingsDraft`: one ordered channel to the dialog; `Racing` lets other surfaces save
  while a save is in flight. `ModelScreen`: one package per family; a button is disabled
  only when the next rendering is painted.
* `SpokenText`, `TextMarks`: one entry of each sort stands for the tables of commands and
  fillers, one character for each sort.

## 3. Runs

| Run | Checks | Shows |
|---|---|---|
| `dictation` | `SessionInvariant`, `ExclusionInvariant`, `DeliversOnlyLiveDictation`, `ImplementsLifecycle` | Two dictations over every interleaving of shortcuts, timers, the renderer, the suspended handlers, crashes and Quit, and around one dictation model operations, a reset and an update: what is shown, sent, inserted and allowed stays of one live dictation, and the session implements its abstract life cycle. |
| `cancel_keeps_model` (must fail) | `CancelKeepsIdleModel` | Cancelling while the snapshot still says transcribing kills the warm worker although no request is in flight. |
| `insertion_clipboard` | `InsertionSafety`, `PasteSeesOwnText`, `RestoresOnlyConsumed` | Two queued insertions with another program copying between any two steps, two kinds of injection and a session that ends: the write is verified, the snapshot is what was replaced, the text is pasted only while it is on the clipboard, and restored only once read. |
| `insertion_target` | `PasteGoesWhereDictationBegan` | One insertion while the focus moves between four places that differ in one part at a time, with cold and incomplete looks: the key event goes to the control the dictation began in. |
| `worker` | `SupervisorSafety`, `TranscriptsAreWhole`, `NothingIsDropped` | The supervisor with aborts, crashes, time limits, an installation and Quit; the supervisor with two Live sessions; the Python worker with failing decoders; and the helper that recognizes a stream window by window. |
| `worker_loaded_stale` (must fail) | `LoadedMeansLive` | The answer to load_model and the report of the worker's exit arrive in one chunk: the supervisor takes a model for loaded that no process holds. |
| `updates` | `RetiresSavedEditors`, `FrozenForAReason`, `InstallsReleased`, `EditorsAreKept`, `TypingIsKept` | The preparation of an update over two editors that answer, drain, crash and open, its cancellation, its timeout, installation and Quit; the notes of an editor that is edited, flushed and asked to freeze; and the windows, that fail and are replaced. |
| `input` | `ShortcutsAgree`, `KeysArePaired`, `RecordingIsSound`, `PillFitsItsWindow`, `ToggleOrHold`, `RefusalChangesNothing`, `ImplementsStream` | The hold gesture under the hook and under the helper, the shortcuts under failing native calls, the recording of shortcuts, the recorder with and without Live, the Live transport against the abstract stream, the encoder over all chunkings, and the pill under the pointer. |
| `stores` | `SavedDataStays`, `ExportIsWhole`, `CleaningIsSound`, `RecordsAreAccountedFor`, `RequestsAreServed` | The encrypted store read with lost keys, deleted from and reset; its rules and profiles; its upgrade with a crash at every step; the export of the history, the diagnostics trail and the audio cache with several processes. |
| `models` | `GoodCopyIsKept`, `VerdictsAreTrue`, `SelectionIsKept`, `AutoIsSteady` | The installation of a model with crashes and failing steps at every point, the selection and Apply with Auto, overlapping starts, repairs and removals, and the verification of files that are written while they are read. |
| `screens` | `PageIsTrue`, `DialogIsTrue`, `SettingsAreValid`, `TextIsWhatWasSaid`, `OnlyWhatWasMeant` | The model page with overlapping presses and late answers, the settings dialog beside other surfaces, all pairs of shortcuts and damaged settings, and all short texts through cleanup and formatting. |
| `settles` | `DictationEnds`, `WorkSettles`, `SurfacesSettle` | Under the fairness of timers, callbacks and bounded calls, everything begun ends, in thirteen components: dictations, notices, insertions, supervised operations, the workers after Quit, recordings, holds, Live sinks, queues, preparations of an update, drains and saves, and the operations of the pages. |

An invariant of a themed run is a conjunction over its parts, one line each, of the
properties that the component's own module states and comments; a conjunct is
evaluated when its component moves.

**Bounds.** Two of whatever must overlap, three where the third meets what two left
behind, and one more than a limit where the limit is the question:

* `dictation`: two dictations, because a handler only compares its own id with the
  current one (the proofs hold for any number); a queue of two model operations, the
  least where one runs while another waits; `OneMatter` explores model work around one
  dictation and two dictations without it.
* `insertion_clipboard`: two insertions are what a serial queue needs to matter; change
  count 4 lets a copy fall between any two reads. `insertion_target`: places that
  differ in one part at a time, with cold and incomplete looks.
* `worker`: two calls of every kind over three processes, each allowed to break the
  protocol; in the Live part two sessions on two Live models (they are alike, so the first is the
  one loaded first) with three frames, two of which fill a request, and a well-behaved worker;
  three faults of the helper; windows of 5 and 3 units over 14.
* `updates`: two editors, two preparations, two notes with two edits, four windows with
  two failures. `input`: three key events, two failing native calls, three recordings
  (four acquisitions where cancellations are not waited for),
  a queue of 4 with 12 frames, every chunking of 30 samples.
* `stores`: three rows with a page of two and limits below and at their number, two
  processes with reused PIDs and two sweeps, a crash after every step of an upgrade.
* `models`: four transactions with three errors and two crashes; two families of one tier
  with the memory unreadable or enough, one family of two tiers with readings below, at
  and above what each needs and every operation, and two dictations whose starts overlap,
  then without operations (a start that is still answered beside an operation is in the
  part before); two files with a memory of one digest, and two verifications at once over
  two changes of a file.
* `screens`: two presses and two or three moves, three edits; every text of up to four
  tokens or five characters, every pair of the listed shortcuts.
* `settles`: the least instance in which a component has something to wait for.

That the bounds reach the interesting case is tested, not assumed: section 4.

**Deadlock** is checked in the two insertion runs, where the focus can always move.
Elsewhere the system may really stop: the process exits after Quit, a bounded number
of edits, crashes or requests is used up, and a part whose environment has nothing
left to do rests.

**Symmetry** is used in `dictation` only: ids are model values no action tells apart.

**Fairness** (`settles`). Weak fairness of what the runtime itself continues: Node and
the renderer run settled promises and expired timers (watchdog and notice timer,
request time limits, the preparation's timeout, the hold timer, save timers); the
helper of an insertion is spawned with a time limit; killed process groups end; the
ordered channel between main and a page is delivered; the diagnostics queue is
worked off. `DictationSession`'s is stated in its `FairSpec`, the others in
`InsertionFair`, `SupervisorFair`, `RecorderFair`, `HoldFair`, `UpdateFair`,
`SavesFair`, `OthersFair` of `MCSettles`. None is assumed of the user, the pill, the
target application, other programs or the speech worker: `finalizing` must end though
the pill never answers, and an acknowledged paste may never come.

## 4. Is a property able to fail?

Every property of a passing run has a mutant in PROJECT.json: a mapped definition,
replaced by a "Mistake" definition of the same module, with which TLC finds the
property violated under the run's own configuration. A conjunction over several
components could hide one that cannot fail; so each component has further "Mistake"
definitions, one for nearly every conjunct (`NotRestored`, `StillOpen`, `CutFirst`,
`OnlyFirst`, ...). Replacing their neighbours in the same way makes the bundled property
fail in the run as well. The exceptions:

* what is proved and no run repeats: `HoldEndsWithKey` of `DictationSession`;
  `DictationKeepsItsPill` of `AppWindows`; `OnlyCurrentSessionActs`, `NamedAppIsCurrent`,
  `ColdCaptureHasNoAuthority` and `EndedSessionStaysEnded` of `SafeInsertion`;
  `NothingLost`, `Bounded` and `TypeOK` of `LiveTransport`; `TypeOK` of `UpdateInstall`;
* definitions of a component's module that no configuration lists, because `settles`
  would become too large or because another property says more, and which can be checked
  with the module alone: `ReadyIsStaged` of `UpdateInstall`; `HoldComesBack` and
  `CapturesEnd` of `HotkeyService`; `InstalledAtLast` of `ModelInstall`;
  `ImplementsFairLifecycle` of
  `DictationSession`.

## 5. Proofs

Every theorem holds for all values of the constants, from the named assumption of its
module alone. The proofs are in `DictationSafetyProofs` (the session, and its microphone),
`InsertionSafetyProofs` (the insertion, and the shortcuts),
`WorkerSupervisorProofs`, `UpdateInstallProofs` (updates, the Notes window, the windows),
`StoreProofs` (all that is kept on the disk), `ModelProofs` (verification and installation), `ScreenProofs` (the
settings dialog and the Models page), and, being short, for the Live transport at the end of `LiveTransport` itself. Where one module
proves about several components, it extends the first and has an instance of each other
one (`Mic`, `Hold`, `Service`, `Capture`, `Pad`, `Screen`, `Export`, `Saved`, `RuleStore`, `Upgrade`, `Trail`, `Install`,
`Page`).

What they assume: `SessionAssumption` (the null id is no dictation, the queue bound is
a number), `InsertionAssumption` (sets that name different things are disjoint),
`WorkerAssumption`, `RecorderAssumption`, `HoldAssumption`, `HotkeyAssumption`,
`CaptureAssumption`, `UpdateAssumption`, `NotesAssumption`, `WindowsAssumption`,
`CacheAssumption`, `ExportAssumption`,
`TextRulesAssumption`, `StoreUpgradeAssumption`, `TrailAssumption`, `TransportAssumption`,
`DraftAssumption`, `ScreenAssumption`, `ModelInstallAssumption` and `FilesAssumption` (bounds are numbers, sets of names finite where they are counted,
null values outside the sets they complete). TLC evaluates each in a run. The bounds
that make an instance finite (`MaxProcesses`, `MaxClock`, ...) are constants of these
theorems: they hold for every bound, however large.

### The session and the insertion

* `DictationSafetyProofs`: the checked properties are not inductive. What has to
  be added, all in `DictationSession` and checked by the runs first:
  - `CallsAreOfBegunDictations`: handlers only work on ids that were handed out,
    and none works on a dictation still listening, so a new dictation meets no
    handler of its own;
  - `OneCallInFlight`: of the active dictation at most one call has passed the
    second admission check, and while it is in flight the snapshot says so. This
    is what makes the repeated calls safe: the first to pass moves the snapshot
    out of `finalizing`, and every later one is refused;
  - `StaleCallsAreFenced`: a call whose dictation was left holds no insertion
    generation;
  - `DeliveryIsTracked`: the active dictation's text was delivered exactly when a
    call of it still has to report it;
  - `LiveFollowsDictation`, `StreamIsClosedFirst`: the Live stream belongs to the
    dictation in progress and is closed before its text is used; Quit leaves no
    owner at all;
  - `ResetIsAlone`, `OpeningIsLive`: for the exclusion of model operations.

  `SessionInvariant` and `ExclusionInvariant` join them; `IndInv` adds the type
  invariant. One lemma per action or shared helper shows that it is kept
  (`...Keeps`). Every step also either *settles* (the dictation goes on or is
  given up) or *begins* a new one when nothing excludes it; this two-way split
  (`Settles`, `Begins`) carries `ExclusionInvariant`, `NoRevival` and the
  refinement.
  Theorems: `TypeCorrect`, `DictationStaysCoherent`, `DeliveredOnce`, `InsertionIsFenced`,
  `WorkIsExclusive`, `HoldIsReleased`,
  `WaitsAreTimed`, `StreamsAreOwned`, `RefusedAudioEndsWait`, `SuccessIsTrue`,
  `UpdatesAreAlone`, and, of the invariants the run checks, `SessionIsCoherent` and
  `ExclusionIsCoherent` (invariants); `NoLateDelivery`,
  `LeftStaysLeft`, `QuitIsQuiet` (action properties); `RefinesLifecycle`
  (`Spec => Lifecycle!Spec`: the first state maps to the first, a beginning step
  to `Begin` or `End`, a settling one to `Stop`, `End` or a stutter, the
  insertion to `Deliver`).

* `InsertionSafetyProofs`: what the properties of one insertion say is
  stable under everything the others and the world do (`LocalFrame`), because
  the clipboard's history only grows; its own steps and the helper's answers keep
  it (`OwnStep`, `HelperLocal`). What has to be added to the properties:
  - `SnapshotIsBracketed`: the argument of the protocol. As long as the last count
    read before the snapshot is still the change count, the snapshot is the
    clipboard's content, so equal counts around it prove it unmixed; and once the
    text is written, it stands somewhere above the count read before, so a count
    exactly one above is the text's (`VerifyLocal`);
  - `KeystrokeIsPosted`: a posted key event precedes each report of a paste;
  - `QueueHoldsWaiting`, `OneRuns`, `TextsComeFromWriters`: one insertion at a
    time, and text in a snapshot is that of one which is done;
  - `GenerationsAgree`, `TargetIsSettled`, `UsableTargetsAreWarm`: an insertion's
    target is that of its own generation, settled, and seen warm;
  - `SnapshotIsCurrent`: no session ends during a synchronous snapshot.
  Theorems: `TypeCorrect`, `InsertionSafe`, `InsertionIsSafe`, `WriteIsVerified`, `SnapshotIsExact`,
  `ResultsAreTrue`, `SnapshotsAreSettled`, `NameIsCurrent`, `ColdHasNoAuthority`
  (invariants); `EndedForGood`, `PasteIsTargeted`, `PasteIsOwnText`,
  `RestoreFollowsRead`, `OnlyCurrentActs` (action properties).


### The microphone

`Invariant`. `Acquiring`: an acquisition is the recorder's pending start until it has
succeeded or failed, and only the newest may take the microphone's place. `Fields`: the
open microphone is the one of the recorder's stream, and what is recorded is of the session
that acquired it. `Stopping`: a stop that closes has no acquisition under way, so nothing
it closed comes back. `Cancels`: a cancellation has outdated every acquisition.
`OneMicrophoneIsOpen` and `MicrophoneStaysHeld` (an open microphone is the recorder's, none
is open while a stop or a cancellation closes, no session is given a mixture) hold for any
number of sessions and acquisitions, streaming or not, whatever the user does.

That the microphone is released at rest, a recording hears, sinks are closed and audio is
given to its own session (`MicrophoneReleased`, `RecordsWhileListening`, `SinksClosed`,
`AudioIsOwn`) is not true of the code when somebody dictates during a cancellation
(section 7): these four are model-checked under `Patient` and not proved.

### The shortcuts

* `HoldEndsWithItsKeys`, for any keys, whether the hook or the helper reports them. A key
  the matcher takes for pressed is down or its release is behind it on the wire
  (`HookTells`); a chord the helper has reported it still sees, or its end is behind it
  (`HelperTells`).
* `ShortcutsStayTrue`, `SavedShortcutsWork`, `RefusalLeavesAll`, for any shortcuts. After
  each operation the service says the truth of what the process holds (`Agrees`: the
  listeners, the helper's shortcut, the accelerator), which every operation hands to the
  next and back (`ResumeIs`, `Retargeted`, `Changed`, `Activates`). The first needs that
  what is stopped stops (`StopsWork`): the code itself takes its bookkeeping for lost
  otherwise and asks for a restart. The second and third, that the row is written or
  what was in use can be started again (`RowIsSaved`): with both failing the new shortcuts
  stay over the old row, the disagreement named in section 7. The third, also that the
  login item can be put back.
* `CapturesArePaired`, for any number of recorders. Messages are in their order
  (`InOrder`), each on its way is of an attempt that waits for it (`AllTold`), and the
  capture of the main process is of an attempt that records, will call its end, or has
  called it (`CaptureIsOwned`). It rests on the timer for nothing.
* `OneRecorderIsAccepted`, for one recorder (`OneRecorder`: with two the other's capture
  may refuse it). Attempts are begun and settled in turn (`InTurn`), so when one is
  finished no begin is pending, and its end is the last message of both lines
  (`FinishIsLast`): by its answer the capture is over.

### The Live transport

While nothing has failed, the queue holds the frames behind the one being written, in
order (`QueuesRest`); what is written is the next frame the sink misses (`WritesNext`), and
phase, sink and failure go together (`Phases`). From it: `TransportBounded`,
`SinkGetsEverything`, `TransportLosesNothing`, `SinkIsLeftAlone` and, step by step,
`TransportImplementsStream`: an accepted frame is a `FrameStream` take, a written one a
hand-over, the sink's end its outcome, all else a stutter.

### Updates

The argument is by the numbers of the preparations. `Numbers`: no message, reply or
drain carries a number not yet given, and `Admission`: the preparation in progress has
the newest. `Mail`: a preparation is asked for once, and its release is not on its way
while it lasts. `Saved`: so an editor whose reply counts is frozen for this preparation,
holds nothing unsaved, and nothing on its way can thaw it. `Reasons`: what froze an
editor is the preparation in progress, or its release is behind it in the mail.
Theorems: `UpdateTypes`, `UpdateSavesDrafts` (retirement meets only saved editors),
`FreezesForAReason`, `ReplacesReleased`.

### The Notes window

`PadInvariant`, over what is in flight between the window and the main process.
`InFlight`: a note has at most one write and one deletion under way, the write ahead of the
deletion, and the window knows of each. `Carries`: a write of the newest edit carries what
is shown. `NoteAgrees`: what waits to be written is what is shown, and has a timer, a
write under way or an error that says so. `SavedIsKnown`: what the window takes for saved is
what is in the database, which is only true where no deletion is refused (a refused one
brings a note back as it was stored). `CloseAgrees`: the main process is asked once to
close the window, and not while an update is prepared. Theorems, for any notes, texts,
edits and drains: `NotesAreSaved` (nothing is forgotten, "Saved" is true, what is
prepared stays saved; where no deletion is refused) and `TypedStays` (also where one is).

### The windows

`ScreenInvariant`: each window that is not destroyed is the one its surface has (`Owned`),
and it is the newest of the surface (`Newest`), which is barred from another replacement
exactly while it came by itself and has not loaded. `Replaces` and `Waits`: what a replacement
took over from the window before it, when it was made and while its microtask waits.
`Attended`: what an update asked to save are all the editors' windows there are; a
dictation has its pill; the focus is the user's. `Missed`: where microtasks come first, a
surface without a window waits for one, never had one, or lost one that never loaded.
Theorems, for any editors, failures and number of windows: `WindowsAreTrue`,
`EditorsComeBack` (with `Prompt`; without it a preparation may begin before the microtask,
which then makes no window) and `PillIsKept`.

### The audio cache

The argument is by leases. `Processes`: running processes have different PIDs and
different names, and one request at a time repairs. `Leases`: the lease under the name
of a running process is absent, half written, or its own. `Stale`: so a lease that
reads as that of a dead process is under nobody's name and stays what was seen until
it is removed, also when its PID is given again meanwhile. `HalfLeases`: a half-written
lease is being written, by the start or by the one repair; `Repaired`: a repair from
which nothing was taken finds what it made. Theorems: `CleaningStaysSound`,
`ServesRequests`.

### The worker supervisor

`SupervisorIsSafe`: for any selections, sessions, calls and number of processes, with
workers that break the protocol and anchors that are lost, at most one inference worker
is up (`OneRuntime`), what an operation awaits is pending or answered
(`EveryAwaitIsSettled`), and Quit leaves no process (`QuitKeepsNoProcess`). Where every
line of stdout has a turn of its own (`~Coalesces`), what runs also runs on the model it
asked for; the run `worker_loaded_stale` shows the order of two lines that breaks this.
The parts: `Chain` (an operation's point in its promise chain fixes what is pending and
settled), `Installing` (the second supervisor object lives inside the first one's
installation), `Trees` (a worker that is up is its supervisor's process or being torn
down, and nothing is spawned while something is), `Loaded` (the active model is the one
the process was told to load).

### The history export

`Told`: whose file is anywhere has read what was stored and readable when its place was
chosen. `Written`: how far the writing is says what the temporary file holds. `Once`: an
export is asked for once, and its file takes the target's place at its end. So
`ExportStaysWhole`, for any number of exports over one target, with deletions, lost keys,
failing steps and a crash.

### The private records

`ResetInvariant`: from its start to its end a reset is alone with the records, so the
copy taken is what is deleted. `ResetIsRecoverable` (a reset removes nothing its copy has
not) and `DeletionIsForGood` (what was removed never returns). They need no assumption.

### The text rules

`RulesInvariant`: the table is finite, and no two profiles are for one application.
`ProfilesStaySingle` (however damaged the stored rows are) and `SavesAreSound`.

### The upgrade of the store

`InOrder` (migrations are applied in order, and all of them before anything else),
`NotesAreSomewhere`, `RulesAreSomewhere`, `ProfilesAreSomewhere`, `SettingsAreSomewhere`
(the ledger says where each old record is) and `PlainTextIsBounded` (plain text of a sealed
rule is on the disk only until the truncation, or where that was missed). Theorems:
`UpgradeKeepsAll`, `PlainTextStaysOnlyIfMissed`, `NewerStaysUntouched`, whatever fails,
whoever else reads and wherever the launches end.

### The diagnostics trail

`AtWork`: what the entry under way has done, and what is in the queue behind it.
`Counting`: the recorder is wrong about the file by the lines it could not count, and the
file exceeds its size by those and by the headers of new launches. `TrailStaysBounded`,
`TrailIsTrue`, for any size.

### The settings dialog

`DraftInvariant`. `OneAsked`: one request is under way, and it waits for one answer.
`LastIsSaved` and `CopyIsSaved`: the last announcement on the way, or the dialog's copy
when there is none, is what is saved. `OnlyTouched`: only what the user touched is in the
draft or in a request. They hold beside other surfaces that save at any time. Where no
other surface saves during a save (`~Racing`) there is more: what was sent is in the draft
until it is saved (`Patched`), all that reaches the dialog agrees with what is saved
(`Agree`), and a wanted value is in the draft, on its way or saved (`Drafted`,
`ShortcutKept`). Theorems:
`DialogStaysTrue`, `OnlyEditsAreSaved`, `EditsStayOnScreen`.

### The Models page

The argument of `PageInvariant` is that one operation runs at a time although several can
be under way: `OnePage`: it runs on the page that is mounted, and what could take that page
away (the dialog, a frozen window, another section) finds it busy. `FirstRead`: before the
first reading is answered there is nothing to press. `Consent`: the dialog opens over a
choice only with the user's leave to lose it. `Told`: the catalog shown is out of date only
between an operation and the reading that ends it, so what is applied is what is there
(`Fits`). `Remaining`: what "Download all" has not done is still in its list. Theorems:
`PageStaysTrue` (`PageIsTrue` for this component) and `NothingIsGivenUp`
(`OnlyWhatWasMeant`), for any models, languages, presses and moves.

### The verification of model files

`VerdictsStayTrue`, for any files and any number of verifications and probes at once. The
argument is by change times: none that an inode or a stamp bears is later than the
clock (`Clocks`), and every write gives a later one. `Memos`: so a digest remembered
under what is still some inode's identity is that of its content. `Looks`: the blocks
read under a stamp that is still the inode's identity are the inode's, whatever was
written in between. `Counted`: what an undisturbed run has counted as good is what is
exact of the files it has seen. `Says`: so what it answers is true. `Bounded`: the
memory is emptied when it is full.

### The installation of a model

`Ours`: only a transaction that is ours is worked on. `NoneForgotten`: each of ours is
still to be seen or worked on. `VerifiedIsThere`: what was verified is there as long as
nothing has touched it. `LoadsOnlyVerified` and `InstallsWhole` hold for any number of
crashes and errors. For `GoodCopyStays` three more: a copy that is set aside is exact, and
was only replaced because a read of it failed (`Costs`); what each step of a recovery or a
replacement has before it (`Before`); and where a good copy is while it is not installed,
which takes two failed reads to be one place only (`Kept`). So a good copy that is installed
outlives two failed reads: with three, a recovery that can read neither of two copies removes
both. One that still has its download cache outlives one: a failed read while the cache is
removed (`worker.py:869`) has it replaced, and a recovery accepts only exact directories, so
it no longer counts once it is moved aside. How many reads fail in all is not bounded by an
assumption; the bounds are the property's own.

### What is only model-checked, and why

* Liveness, and the fair refinement of the session: fairness and ENABLED are out of the
  prover's reach.
* What a recursive function computes for every input: the text pipeline
  (`TextIsWhatWasSaid`), the encoder and the repair of settings (`SettingsAreValid`) are
  inductions over data, which the installed provers cannot do.
* `SavedDataStays` and `RecordsAreAccountedFor`, which join several components, are proved
  component by component, except what a listing or an export of the store tells
  (`ListTellsAll`, `ExportTellsAll`) and `SavedData`'s `TypeOK`: they rest on a recursive
  function over the records. `GoodCopyIsKept` is proved as it is checked: its bounds on failed
  reads are part of it. `ExportIsWhole`, `DialogIsTrue`,
  `TypingIsKept` and `EditorsAreKept` are proved, the last of the notes where no deletion is
  refused, as in the run.
* `RecordingIsSound` for the encoder, whose samples are computed by recursion over data
  and its parts `MicrophoneReleased`, `RecordsWhileListening`, `SinksClosed` and `AudioIsOwn`,
  which hold only under `Patient` (the rest of it is `OneMicrophoneIsOpen` and `MicrophoneStaysHeld`);
* of `RefusalChangesNothing` the part `KeepsToggle`, which is not true of all shortcuts
  (section 7): the run has one hold shortcut that the helper watches. `ShortcutsAgree` with
  the row and the hook both failing is checked there too, and is not claimed in general.
  The rest of both, and all of `KeysArePaired`, is proved.
* `TranscriptsAreWhole`, `PillFitsItsWindow`, and the action properties `NothingIsDropped`, `ToggleOrHold`,
  `SelectionIsKept`, `AutoIsSteady`: no inductive invariant has been written for them.

## 6. Hazards without a property

* `src/src/main/insertion/safeInsertion.ts:365`: Between the last sequence read and the restore another program may copy, and its content is lost. The helper process cannot compare and write at once, and no document promises it; SafeInsertion contains the loss. The injector in use never acknowledges, so that restore is out of its reach today.
* `src/worker/localscribe_worker/worker.py:2185`: The native helper dies while its model counts as loaded: a load of the same model is answered with model_ready, and every dictation fails until another model is selected or the worker ends. The code has no recovery here; OneModelAtATime and TextIsOfTheSession are checked with the helper dying anywhere.

Others met while modelling, which the code decides so or the model assumes away: the
native decoder's reset raises and every later Live session is refused (`worker.py:2436`,
assumed to succeed); the rule one past the limit is saved but never listed
(`database.ts:629`), and so is a profile (`database.ts:811`); a `begin_live` refused because
the cancellation before it is still queued (`main.ts:1828`): that Live dictation fails, and
only a decoder that stays open without an owner is excluded (`DecoderHasOwner`); a rotation between the two files of a reading
(`diagnosticsRecorder.ts:88`, a reading is best effort); an audio directory left by a
crash before its lease, which is never taken for a dead one (`audioCache.ts:98`); and two
readings of the catalog answered out of order (`StyleSettings.tsx:657`, assumed in
order).

## 7. Findings

Two runs refute what a comment of the code says:

* `cancel_keeps_model` (`CancelKeepsIdleModel`, `src/src/main.ts:1770`): sessionCancel aborts the worker whenever the snapshot says "transcribing". The comment at src/src/main.ts:1762 says: 'Only "transcribing" has a transcribe request actually in flight', and at 1766 that cancelling elsewhere discards "a warm model for nothing, against the invariant that an applied model stays warm between dictations". The snapshot is already "transcribing" while the model resolution is awaited, before any request is sent, and still is after the worker returned, while the target application is looked up, the paste probe runs, or the text is copied with an own window focused: a cancel then kills the warm, idle worker. The run shows it with a dictation cancelled while its handler awaits something other than the worker.
* `worker_loaded_stale` (`LoadedMeansLive`, `src/src/main/worker/workerSupervisor.ts:1143`): activeModel is set after the await of load_model, with no look at whether the process is still there. When model_ready and the anchor's worker_exited line come in one stdout chunk, handleStdoutChunk (src/src/main/worker/workerSupervisor.ts:1369) handles both before the awaiting operation resumes: the process is given up first and the model recorded as loaded afterwards. ensureReady of that selection then returns at once and every transcription fails with "ASR worker is not running" until another selection is loaded or the application restarts. src/src/main/worker/workerSupervisor.ts:665 says of loadedSelection: "Returns the model held by the live worker".

Modelling met more disagreements between code and comments. Each module excludes the case
by a constant, a guard or the form of its property, as its comments say, and has the
stated property as a definition that TLC refutes when the module is checked alone:

* `WorkerSupervisor!ReplacedArtifactIsUnread` (`src/src/main/worker/workerSupervisor.ts:693`): an installation unloads first only if the loaded model is the one repaired; after an abort the old process may still read the files for up to two seconds.
* `UpdateInstall!OnlyApprovedDownloads` (`src/src/main/updates/macUpdates.ts:261`): the download takes whatever release the last check found, which may not be the one the user approved.
* `NotesEditor!RevertIsKept` (`src/src/renderer/scratchpad/ScratchpadWindow.tsx:451`): a note reverted and deleted while its write is in flight keeps the unreverted text when the deletion is refused.
* `HoldGesture!SuppressionEnds` (`src/src/main/hotkeys/holdShortcutGesture.ts:50`): a toggle that shares a key with an incomplete hold shortcut suppresses the next hold, since nothing ends the suppression.
* `HotkeyService!AllOrNothing` (`src/src/main/settings/settingsTransaction.ts:47`): when the settings row cannot be written and the previous toggle was taken meanwhile, the new shortcuts stay active over the old row.
* `HotkeyService!RestartRequired` (`src/src/main/hotkeys/hotkeyService.ts:163`): after a native failure that asks for a restart, the Accessibility check starts the service again.
* `HotkeyService!SavingRetries` (`src/src/main/settings/settingsTransaction.ts:39`): saving an unchanged shortcut does not retry its registration.
* `ShortcutCapture!CapturesAlone` (`src/src/renderer/settings/components/ShortcutRecorder.tsx:169`): a recorder cancelled and started again before its first answer loses the capture to the first attempt's end.
* `AudioRecorder!MicrophoneReleased` (`src/src/renderer/audioRecorder.ts:331`): a start that waits for an earlier cancellation opens the microphone for a dictation that is over.
* `AudioRecorder!AudioIsOwn` (`src/src/renderer/audioRecorder.ts:244`): a stop returns the pending stop of an earlier dictation, and with it that dictation's audio.
* `SavedData!DeletionIsPhysical` (`src/src/main/persistence/database.ts:577`): a deletion that is repeated because its checkpoint was busy skips the checkpoint and reports success.
* `StoreUpgrade` (`src/src/main/persistence/database.ts:1063`, and `src/src/main/persistence/database.ts:1249`): a launch that ends between sealing the rules and truncating the log leaves plain text that no later launch removes, and so does another process that reads the database during the truncation, whose busy answer is ignored. `PlainTextOnlyIfMissed` allows exactly these two, until the last connection closes in order.
* `AppSettings!NoSharedChord` (`src/src/shared/shortcuts.ts:304`): Alt+AltGr+K and AltGr+K count as different keys although the right Option key is in both.
* `ModelRouting!AutoAlwaysStarts` (`src/src/main.ts:503`): a reading of the memory stored by a cancelled dictation makes every later Auto dictation fail.
* `ModelRouting!WarmFilesStay` (`src/src/main.ts:2436`): the files of the warm tier can be removed when a cancelled Auto dictation has stored another tier.
* `SettingsDraft!LastEditIsKept` (`src/src/renderer/settings/screens/StyleSettings.tsx:675`): a field put back during a save is dropped when another surface saves first; so is one of which two announcements are still on their way.
* `SettingsDraft!LaunchEditStays` (`src/src/renderer/settings/screens/StyleSettings.tsx:675`): any announced setting drops the unsaved request to register the login item again.
* `ModelScreen!AllIsSaidTruly` (`src/src/renderer/settings/screens/StyleSettings.tsx:1122`): the final line of Download all is chosen from the list made at the press, although a package has gone missing since.
* `SpokenText!ScratchKeepsTheRest` (`src/src/shared/text/commands.ts:105`): scratch that removes the closing mark of the sentence before.
* `TextMarks!BreaksAreKept` (`src/src/shared/text/tokens.ts:133`): a line break before a dash or a closing quote is trimmed.
* `TextMarks!RunsAreWhole` (`src/src/shared/text/tokens.ts:30`): 3:30pm is read as two words.
* `AppWindows!PillReturns` (`src/src/main.ts:884`): a pill lost during an update preparation is never replaced when the preparation is cancelled.
* `PillHover!AgreeAtRest` (`src/src/main.ts:2198`): a request that meets the begin of a dictation leaves the window larger than what the page draws.
* `HotkeyService!KeepsToggle` (`src/src/main/hotkeys/hotkeyService.ts:346`): where no hold shortcut is one the helper can watch, a change that fails and cannot be undone leaves the service stopped; the next change then starts nothing, since it starts the mode it found, yet clears the degraded state, reports success and gives the toggle up, until the Accessibility check starts the service.
* `WorkerSupervisor!CancelsOwnDecoder` (`src/src/main/worker/workerSupervisor.ts:936`): `cancel_live` names no session, and the worker resets whatever decoder runs (`src/worker/localscribe_worker/worker.py:2436`); one that arrives after a change of the Live model resets the decoder of the next session. The property allows exactly that case.

## 8. Not modelled

Window security and IPC authorization (stateless checks), the user interface beyond the
surfaces above (presentation of state that main owns), build, packaging and audit
scripts. Within the modelled parts: the bytes and permissions of files, SQLite itself,
parsing of metadata, feeds and helper output (they show as an answer or an error),
redaction, labels, layout and statistics. Inference, the operating system's clipboard,
accessibility, audio and update service are environment.

## 9. What is left

Inductive invariants for `DecoderHasOwner` and `FinalHearsEveryFrame` of the supervisor;
the composition of `DictationSession` with an
abstract insertion that `SafeInsertion` implements.
