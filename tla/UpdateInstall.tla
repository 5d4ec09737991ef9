----------------------------- MODULE UpdateInstall -----------------------------
(***************************************************************************)
(* In-app updates: discovery, download and restart                         *)
(* (src/main/updates/macUpdates.ts), the admission that drains the editors *)
(* first (updateAdmission.ts, renderer/updatePreparation.ts), and the      *)
(* retirement of the application around them (src/main.ts).                *)
(*                                                                         *)
(* The one action in flight is `action', cut at its awaits.  A settled     *)
(* promise is continued before the next event (TurnOver).  Messages to     *)
(* and from an editor's window are queues.  Squirrel, which downloads and  *)
(* installs, may answer anything: its refetch cannot be pinned.            *)
(*                                                                         *)
(* A definition whose comment starts with "Mistake" is a plausible wrong   *)
(* version of the one after it; no specification uses it.                  *)
(***************************************************************************)
EXTENDS Integers, Sequences

CONSTANTS
  Editors,      \* the windows that hold drafts: Settings and Notes
  MaxVersion,   \* releases newer than the one that runs are 1 .. MaxVersion
  MaxAttempts   \* bound on the preparations begun

ASSUME UpdateAssumption == MaxVersion \in Nat /\ MaxAttempts \in Nat

VARIABLES
  phase,        \* what the user is shown
  selected,     \* the release found last, or NoVersion
  check,        \* the metadata check in flight
  action,       \* the download or restart in flight
  nativeAttempted, nativeActive, nativeAvailable,
  native,       \* Squirrel: what it is doing
  staged,       \* the release Squirrel installs on the next quit
  offered,      \* the release a dialog or the Settings page offers
  approved,     \* the release offered when the user approved it
  installStarted, disposed,
  attempt,      \* the preparation that holds admission, or NoAttempt
  attempts,     \* preparations begun: their request ids
  prepared,     \* what became of the promise of prepare(), until it is acted on
  window,       \* whether each editor's window exists
  request,      \* the request an editor is frozen for
  draining,     \* the requests whose prepare() an editor has not answered
  unsaved,      \* whether an editor holds edits that are not saved
  inbox,        \* messages on their way to an editor
  replies,      \* acknowledgements of an editor on their way to the main process
  busy,         \* a dictation or a model operation is in progress
  quitting, release, exited

discoveryVars == <<phase, selected, check, offered>>
nativeVars    == <<nativeAttempted, nativeActive, nativeAvailable, native, staged, approved>>
admissionVars == <<attempt, attempts, prepared>>
editorVars    == <<window, request, draining, unsaved, inbox, replies>>
runtimeVars   == <<quitting, release, exited>>
vars == <<discoveryVars, action, nativeVars, installStarted, disposed, admissionVars,
          editorVars, busy, runtimeVars>>

-----------------------------------------------------------------------------
Versions  == 1 .. MaxVersion
NoVersion == 0
Requests  == 1 .. MaxAttempts
NoRequest == 0

NoAttempt == [id |-> NoRequest, editors |-> {}, pending |-> {}, retiring |-> FALSE,
              watched |-> FALSE]

Phases == {"idle", "checking", "available", "current", "error", "downloading", "ready",
           "installing"}

Actions == {"none", "queued", "awaitsCheck", "validating", "downloading", "install",
            "preparing", "releasing"}

Messages == [kind : {"prepare", "cancel"}, id : Requests]
Replies  == [id : Requests, prepared : BOOLEAN]

TypeOK ==
  /\ phase \in Phases /\ selected \in Versions \union {NoVersion}
  /\ check \in {"none", "queued", "running"} /\ action \in Actions
  /\ {nativeAttempted, nativeActive, nativeAvailable} \subseteq BOOLEAN
  /\ native \in {"idle", "checking", "downloading", "over", "failed"}
  /\ {staged, offered, approved} \subseteq Versions \union {NoVersion}
  /\ {installStarted, disposed, busy, quitting, exited} \subseteq BOOLEAN
  /\ attempt \in [id : Requests \union {NoRequest}, editors : SUBSET Editors,
                  pending : SUBSET Editors, retiring : BOOLEAN, watched : BOOLEAN]
  /\ attempts \in 0 .. MaxAttempts /\ prepared \in {"none", "resolved", "rejected"}
  /\ window \in [Editors -> BOOLEAN]
  /\ request \in [Editors -> Requests \union {NoRequest}]
  /\ draining \in [Editors -> SUBSET Requests]
  /\ unsaved \in [Editors -> BOOLEAN]
  /\ inbox \in [Editors -> Seq(Messages)] /\ replies \in [Editors -> Seq(Replies)]
  /\ release \in {"none", "running", "done", "failed"}

Init ==
  /\ phase = "idle" /\ selected = NoVersion /\ check = "none" /\ action = "none"
  /\ nativeAttempted = FALSE /\ nativeActive = FALSE /\ nativeAvailable = FALSE
  /\ native = "idle" /\ staged = NoVersion
  /\ offered = NoVersion /\ approved = NoVersion
  /\ installStarted = FALSE /\ disposed = FALSE
  /\ attempt = NoAttempt /\ attempts = 0 /\ prepared = "none"
  /\ window \in [Editors -> BOOLEAN]
  /\ request = [e \in Editors |-> NoRequest]
  /\ draining = [e \in Editors |-> {}]
  /\ unsaved = [e \in Editors |-> FALSE]
  /\ inbox = [e \in Editors |-> <<>>] /\ replies = [e \in Editors |-> <<>>]
  /\ busy = FALSE
  /\ quitting = FALSE /\ release = "none" /\ exited = FALSE

-----------------------------------------------------------------------------
isPreparing == attempt # NoAttempt

isIdle == ~quitting /\ ~isPreparing /\ ~busy

publish(p) == phase' = IF disposed THEN phase ELSE p

Open == {e \in Editors : window[e]}

-----------------------------------------------------------------------------
(* Discovery *)

\* Mistake: only a check that runs keeps a second one away.
MayCheckAnytime == check = "none"
MayCheck == /\ check = "none" /\ action = "none"
            /\ phase \notin {"downloading", "ready", "installing"}

\* A check that may not start, or joins the one in flight, changes nothing.
Check ==
  /\ ~quitting /\ MayCheck
  /\ check' = "queued"
  /\ UNCHANGED <<phase, selected, offered, action, nativeVars, installStarted, disposed,
                 admissionVars, editorVars, busy, runtimeVars>>

CheckStarts ==
  /\ check = "queued"
  /\ IF disposed
     THEN check' = "none" /\ UNCHANGED <<phase, selected>>
     ELSE check' = "running" /\ selected' = NoVersion /\ publish("checking")
  /\ UNCHANGED <<offered, action, nativeVars, installStarted, disposed, admissionVars,
                 editorVars, busy, runtimeVars>>

\* The newest release and its feed were read, or something failed.
CheckEnds ==
  /\ check = "running"
  /\ check' = "none"
  /\ \/ \E v \in Versions \union {NoVersion} :
          /\ selected' = IF disposed THEN selected ELSE v
          /\ publish(IF v = NoVersion THEN "current" ELSE "available")
     \/ publish("error") /\ UNCHANGED selected
  /\ UNCHANGED <<offered, action, nativeVars, installStarted, disposed, admissionVars,
                 editorVars, busy, runtimeVars>>

\* The menu's dialog, or the page, names the release and waits for an answer.
Offers ==
  /\ ~quitting /\ phase \in {"available", "ready"} /\ offered # selected
  /\ offered' = selected
  /\ UNCHANGED <<phase, selected, check, action, nativeVars, installStarted, disposed,
                 admissionVars, editorVars, busy, runtimeVars>>

-----------------------------------------------------------------------------
(* Download *)

\* downloadAndRestart(); a second call joins the action in flight.
DownloadAndRestart ==
  /\ ~quitting /\ action = "none" /\ offered # NoVersion /\ attempts < MaxAttempts
  /\ action' = "queued"
  /\ approved' = offered
  /\ UNCHANGED <<discoveryVars, nativeAttempted, nativeActive, nativeAvailable, native, staged,
                 installStarted, disposed, admissionVars, editorVars, busy, runtimeVars>>

\* Its first turn, or the one after the check it had to wait for.
ActionStarts ==
  /\ action = "queued" \/ (action = "awaitsCheck" /\ check = "none")
  /\ \/ /\ action = "queued" /\ check # "none"
        /\ action' = "awaitsCheck" /\ UNCHANGED phase
     \/ /\ check = "none"
        /\ IF disposed THEN action' = "none" /\ UNCHANGED phase
           ELSE IF phase = "ready" THEN action' = "install" /\ UNCHANGED phase
           ELSE IF selected = NoVersion \/ phase # "available"
                THEN action' = "none" /\ UNCHANGED phase
           ELSE IF nativeAttempted THEN action' = "none" /\ publish("error")
           ELSE IF ~isIdle THEN action' = "none" /\ publish("available")
           ELSE action' = "validating" /\ UNCHANGED phase
  /\ UNCHANGED <<selected, check, offered, nativeVars, installStarted, disposed, admissionVars,
                 editorVars, busy, runtimeVars>>

\* The feed was validated again: Squirrel is told to fetch it.
FeedValidated ==
  /\ action = "validating"
  /\ \/ /\ disposed \/ ~isIdle
        /\ action' = "none" /\ publish("available")
        /\ UNCHANGED nativeVars
     \/ /\ ~disposed /\ isIdle
        /\ action' = "downloading" /\ publish("downloading")
        /\ nativeAttempted' = TRUE /\ nativeActive' = TRUE /\ nativeAvailable' = FALSE
        /\ native' = "checking"
        /\ UNCHANGED <<staged, approved>>
     \/ /\ action' = "none" /\ publish("error")
        /\ UNCHANGED nativeVars
  /\ UNCHANGED <<selected, check, offered, installStarted, disposed, admissionVars, editorVars,
                 busy, runtimeVars>>

\* completeNative(): the action that awaits the download goes on.
CompleteNative ==
  /\ nativeActive' = FALSE
  /\ action' = IF action = "downloading" THEN "install" ELSE action

UpdateAvailable ==
  /\ native = "checking"
  /\ native' = "downloading"
  /\ nativeAvailable' = (nativeAvailable \/ (~disposed /\ nativeActive))
  /\ UNCHANGED <<discoveryVars, action, nativeAttempted, nativeActive, staged, approved,
                 installStarted, disposed, admissionVars, editorVars, busy, runtimeVars>>

Matches(v) == v = selected

UpdateDownloaded ==
  /\ native = "downloading"
  /\ native' = "over"
  /\ \E v \in Versions :
       /\ staged' = v
       /\ IF disposed \/ ~nativeActive \/ ~nativeAvailable \/ selected = NoVersion
          THEN UNCHANGED <<phase, nativeActive, action>>
          ELSE publish(IF Matches(v) THEN "ready" ELSE "error") /\ CompleteNative
  /\ UNCHANGED <<selected, check, offered, nativeAttempted, nativeAvailable, approved,
                 installStarted, disposed, admissionVars, editorVars, busy, runtimeVars>>

UpdateNotAvailable ==
  /\ native = "checking"
  /\ native' = "over"
  /\ IF disposed \/ ~nativeActive
     THEN UNCHANGED <<phase, nativeActive, action>>
     ELSE publish("error") /\ CompleteNative
  /\ UNCHANGED <<selected, check, offered, nativeAttempted, nativeAvailable, staged, approved,
                 installStarted, disposed, admissionVars, editorVars, busy, runtimeVars>>

\* Mistake: only an error of the download is looked at.
Listens == nativeActive
ListensInstalling == nativeActive \/ phase = "installing"

\* Squirrel reports an error, of the download or of the installation.
NativeError ==
  /\ native \in {"checking", "downloading"} \/ (installStarted /\ native # "failed")
  /\ native' = "failed"
  /\ IF disposed \/ ~ListensInstalling
     THEN UNCHANGED <<phase, installStarted, nativeActive, action>>
     ELSE /\ installStarted' = FALSE
          /\ publish("error")
          /\ CompleteNative
  /\ UNCHANGED <<selected, check, offered, nativeAttempted, nativeAvailable, staged, approved,
                 disposed, admissionVars, editorVars, busy, runtimeVars>>

-----------------------------------------------------------------------------
(* Admission *)

Post(editors, kind, id) ==
  inbox' = [e \in Editors |-> IF e \in editors /\ window[e]
                              THEN Append(inbox[e], [kind |-> kind, id |-> id]) ELSE inbox[e]]

\* Mistake: the editors are not told that the update was cancelled.
ToReleaseNone == {}
ToRelease == attempt.editors

\* cancel(): admission is open again, the editors are released.
CancelAttempt ==
  IF ~isPreparing \/ attempt.retiring
  THEN UNCHANGED <<attempt, prepared, inbox>>
  ELSE /\ attempt' = NoAttempt
       /\ prepared' = "rejected"
       /\ Post(ToRelease, "cancel", attempt.id)

\* Mistake: the first request has no id of its own.
SameRequest == attempts
NextRequest == attempts + 1

\* installReady() up to the await of prepareInstall().
InstallReady ==
  /\ action = "install"
  /\ IF disposed \/ phase # "ready" \/ ~isIdle
     THEN action' = "none" /\ UNCHANGED <<admissionVars, inbox>>
     ELSE /\ attempts' = attempts + 1
          /\ attempt' = [id |-> NextRequest, editors |-> Open, pending |-> Open, retiring |-> FALSE,
                         watched |-> Open # {}]
          /\ prepared' = IF Open = {} THEN "resolved" ELSE prepared
          /\ Post(Open, "prepare", NextRequest)
          /\ action' = "preparing"
  /\ UNCHANGED <<discoveryVars, nativeVars, installStarted, disposed, window, request, draining,
                 unsaved, replies, busy, runtimeVars>>

IsCurrent(reply) == isPreparing /\ reply.id = attempt.id

\* Mistake: the first acknowledgement stops the timer.
TimerStops(left) == FALSE
TimerRuns(left) == left # {}

\* acknowledge(): the last one resolves the promise and stops the timer.
Acknowledge(e) ==
  /\ replies[e] # <<>>
  /\ replies' = [replies EXCEPT ![e] = Tail(@)]
  /\ LET reply == Head(replies[e]) IN
     IF ~window[e] \/ quitting \/ ~IsCurrent(reply) \/ attempt.retiring
        \/ e \notin attempt.pending
     THEN UNCHANGED <<attempt, prepared, inbox>>
     ELSE IF ~reply.prepared THEN CancelAttempt
     ELSE LET left == attempt.pending \ {e} IN
          /\ attempt' = [attempt EXCEPT !.pending = left, !.watched = TimerRuns(left)]
          /\ prepared' = IF left = {} THEN "resolved" ELSE prepared
          /\ UNCHANGED inbox
  /\ UNCHANGED <<discoveryVars, action, nativeVars, installStarted, disposed, attempts, window,
                 request, draining, unsaved, busy, runtimeVars>>

PreparationTimesOut ==
  /\ isPreparing /\ attempt.watched
  /\ CancelAttempt
  /\ UNCHANGED <<discoveryVars, action, nativeVars, installStarted, disposed, attempts, window,
                 request, draining, unsaved, replies, busy, runtimeVars>>

\* Mistake: a preparation whose editor is gone goes on.
LossIgnored(e) == FALSE
LossCancels(e) == e \in attempt.editors

\* An editor's renderer dies, or its page is loaded anew: it has forgotten
\* what it was frozen for, and its drafts.
EditorLost(e) ==
  /\ window[e]
  /\ \/ window' = [window EXCEPT ![e] = FALSE]
     \/ ~quitting /\ UNCHANGED window
  /\ request' = [request EXCEPT ![e] = NoRequest]
  /\ draining' = [draining EXCEPT ![e] = {}]
  /\ unsaved' = [unsaved EXCEPT ![e] = FALSE]
  /\ replies' = [replies EXCEPT ![e] = <<>>]
  /\ IF isPreparing /\ ~attempt.retiring /\ LossCancels(e)
     THEN /\ attempt' = NoAttempt /\ prepared' = "rejected"
          /\ inbox' = [d \in Editors |->
               IF d = e THEN <<>>
               ELSE IF d \in ToRelease /\ window[d]
                    THEN Append(inbox[d], [kind |-> "cancel", id |-> attempt.id]) ELSE inbox[d]]
     ELSE inbox' = [inbox EXCEPT ![e] = <<>>] /\ UNCHANGED <<attempt, prepared>>
  /\ UNCHANGED <<discoveryVars, action, nativeVars, installStarted, disposed, attempts, busy,
                 runtimeVars>>

MayOpen == ~quitting /\ ~isPreparing

OpenEditor(e) ==
  /\ ~window[e] /\ MayOpen
  /\ window' = [window EXCEPT ![e] = TRUE]
  /\ UNCHANGED <<discoveryVars, action, nativeVars, installStarted, disposed, admissionVars,
                 request, draining, unsaved, inbox, replies, busy, runtimeVars>>

-----------------------------------------------------------------------------
(* An editor's window: registerUpdatePreparation() *)

Frozen(e) == request[e] # NoRequest

Edit(e) ==
  /\ window[e] /\ ~Frozen(e) /\ ~unsaved[e]
  /\ unsaved' = [unsaved EXCEPT ![e] = TRUE]
  /\ UNCHANGED <<discoveryVars, action, nativeVars, installStarted, disposed, admissionVars,
                 window, request, draining, inbox, replies, busy, runtimeVars>>

Reply(e, id, yes) ==
  replies' = [replies EXCEPT ![e] = Append(@, [id |-> id, prepared |-> yes])]

Releases(e, id) == request[e] = id

EditorHears(e) ==
  /\ window[e] /\ inbox[e] # <<>>
  /\ inbox' = [inbox EXCEPT ![e] = Tail(@)]
  /\ LET id == Head(inbox[e]).id IN
     CASE Head(inbox[e]).kind = "cancel" ->
            /\ request' = [request EXCEPT ![e] = IF Releases(e, id) THEN NoRequest ELSE @]
            /\ UNCHANGED <<draining, replies>>
       [] Head(inbox[e]).kind = "prepare" /\ Frozen(e) ->
            Reply(e, id, FALSE) /\ UNCHANGED <<request, draining>>
       [] OTHER ->
            /\ request' = [request EXCEPT ![e] = id]
            /\ draining' = [draining EXCEPT ![e] = @ \union {id}]
            /\ UNCHANGED replies
  /\ UNCHANGED <<discoveryVars, action, nativeVars, installStarted, disposed, admissionVars,
                 window, unsaved, busy, runtimeVars>>

\* prepare() of an editor answers: it saved everything, or could not.
EditorDrained(e, id) ==
  /\ window[e] /\ id \in draining[e]
  /\ draining' = [draining EXCEPT ![e] = @ \ {id}]
  /\ \E saved \in BOOLEAN :
       /\ unsaved' = [unsaved EXCEPT ![e] = @ /\ ~saved]
       /\ Reply(e, id, saved /\ request[e] = id)
       /\ request' = [request EXCEPT ![e] = IF saved \/ @ # id THEN @ ELSE NoRequest]
  /\ UNCHANGED <<discoveryVars, action, nativeVars, installStarted, disposed, admissionVars,
                 window, inbox, busy, runtimeVars>>

-----------------------------------------------------------------------------
(* Retirement *)

\* Mistake: work is refused only once the application quits.
MayBeginPreparing == ~quitting
MayBegin == ~quitting /\ ~isPreparing

BeginWork ==
  /\ ~busy /\ MayBegin
  /\ busy' = TRUE
  /\ UNCHANGED <<discoveryVars, action, nativeVars, installStarted, disposed, admissionVars,
                 editorVars, runtimeVars>>

EndWork ==
  /\ busy
  /\ busy' = FALSE
  /\ UNCHANGED <<discoveryVars, action, nativeVars, installStarted, disposed, admissionVars,
                 editorVars, runtimeVars>>

\* prepareAppUpdateInstall() after its await: admission retires, everything is
\* shut down, the runtime is released.
Prepared ==
  /\ action = "preparing" /\ prepared # "none"
  /\ prepared' = "none"
  /\ IF prepared = "resolved" /\ isPreparing /\ ~quitting
     THEN /\ attempt' = [attempt EXCEPT !.retiring = TRUE]
          /\ quitting' = TRUE /\ release' = "running"
          /\ action' = "releasing" /\ UNCHANGED phase
     ELSE /\ action' = "none" /\ publish("ready")
          /\ UNCHANGED <<attempt, quitting, release>>
  /\ UNCHANGED <<selected, check, offered, nativeVars, installStarted, disposed, attempts,
                 editorVars, busy, exited>>

\* releaseRuntimeResources() settles: the worker has exited, the database is
\* closed.  An update goes on to quitAndInstall(), which may throw; a failed
\* release and a normal quit end the process.
Released ==
  /\ release = "running" /\ ~exited
  /\ \E ok \in BOOLEAN, throws \in BOOLEAN :
       /\ release' = IF ok THEN "done" ELSE "failed"
       /\ IF action = "releasing" /\ ok
          THEN IF disposed \/ phase # "ready"
               THEN action' = "none" /\ UNCHANGED <<phase, installStarted, exited>>
               ELSE /\ installStarted' = ~throws
                    /\ publish(IF throws THEN "error" ELSE "installing")
                    /\ action' = "none"
                    /\ UNCHANGED exited
          ELSE exited' = TRUE /\ UNCHANGED <<action, phase, installStarted>>
  /\ UNCHANGED <<selected, check, offered, nativeVars, disposed, admissionVars, editorVars, busy,
                 quitting>>

\* Squirrel ends the process and installs.
Installs ==
  /\ installStarted /\ native # "failed" /\ ~exited
  /\ exited' = TRUE
  /\ UNCHANGED <<discoveryVars, action, nativeVars, installStarted, disposed, admissionVars,
                 editorVars, busy, quitting, release>>

\* The subscriber of main.ts: an update that failed after its retirement ends
\* the process.
FailureShown ==
  /\ attempt.retiring /\ phase = "error" /\ ~exited
  /\ exited' = TRUE
  /\ UNCHANGED <<discoveryVars, action, nativeVars, installStarted, disposed, admissionVars,
                 editorVars, busy, quitting, release>>

\* before-quit.  When the application is quitting already the event is let
\* through, and the process ends.
Quit ==
  /\ ~exited
  /\ IF quitting
     THEN exited' = TRUE /\ UNCHANGED <<disposed, nativeActive, action, attempt, prepared, inbox,
                                        busy, quitting, release>>
     ELSE /\ disposed' = TRUE /\ CompleteNative
          /\ CancelAttempt
          /\ quitting' = TRUE /\ busy' = FALSE /\ release' = "running"
          /\ UNCHANGED exited
  /\ UNCHANGED <<discoveryVars, nativeAttempted, nativeAvailable, native, staged, approved,
                 installStarted, attempts, window, request, draining, unsaved, replies>>

-----------------------------------------------------------------------------
\* No promise of the action in flight has been settled and not continued.
TurnOver == prepared = "none" /\ action \notin {"queued", "install"} /\ check # "queued"
            /\ ~(action = "awaitsCheck" /\ check = "none")

Continues == CheckStarts \/ ActionStarts \/ InstallReady \/ Prepared

EditorStep(e) == Edit(e) \/ EditorHears(e) \/ \E id \in Requests : EditorDrained(e, id)

Events ==
  \/ Check \/ CheckEnds \/ Offers \/ DownloadAndRestart \/ FeedValidated
  \/ UpdateAvailable \/ UpdateDownloaded \/ UpdateNotAvailable \/ NativeError
  \/ PreparationTimesOut
  \/ \E e \in Editors : Acknowledge(e) \/ EditorLost(e) \/ OpenEditor(e)
  \/ BeginWork \/ EndWork \/ Released \/ Installs \/ FailureShown \/ Quit

Next == ~exited /\ (Continues \/ (TurnOver /\ Events) \/ \E e \in Editors : EditorStep(e))

Spec == Init /\ [][Next]_vars

\* Settled promises continue, the preparation's timer and the bounded waits of
\* the release fire, messages arrive, dialogs are answered, and Squirrel ends
\* an installation with an exit or an error.
Fairness ==
  /\ WF_vars(~exited /\ Continues)
  /\ WF_vars(~exited /\ TurnOver /\ PreparationTimesOut)
  /\ WF_vars(~exited /\ TurnOver /\ Released)
  /\ WF_vars(~exited /\ TurnOver /\ FailureShown)
  /\ WF_vars(~exited /\ TurnOver /\ (Installs \/ NativeError))
  /\ \A e \in Editors : WF_vars(~exited /\ EditorHears(e))

FairSpec == Spec /\ Fairness

-----------------------------------------------------------------------------
(* Properties *)

\* When the application retires for an update, which closes the database,
\* every editor there is has been frozen for this very preparation and holds
\* nothing unsaved; and it stays so until the process ends (createUpdateAdmission).
RetiresSavedEditors ==
  attempt.retiring => \A e \in Open : request[e] = attempt.id /\ ~unsaved[e]

\* An editor is frozen for the preparation in progress or its release is on
\* its way: no order of cancellation, loss, late answers and new preparations
\* leaves one frozen for good (registerUpdatePreparation, cancel).
FrozenForAReason ==
  \A e \in Open : Frozen(e) =>
    \/ isPreparing /\ attempt.id = request[e] /\ e \in attempt.editors
    \/ \E i \in DOMAIN inbox[e] : inbox[e][i] = [kind |-> "cancel", id |-> request[e]]

\* Squirrel installs what the user is told is ready, whatever checks and
\* downloads overlap (onDownloaded, check).
ReadyIsStaged == phase \in {"ready", "installing"} => staged = selected

\* The process is replaced only with its runtime released and no work in it.
InstallsReleased ==
  /\ attempt.retiring => ~busy
  /\ installStarted => attempt.retiring /\ release = "done"

\* "Only explicitly approved downloads reach" Squirrel.
OnlyApprovedDownloads == [][nativeActive' /\ ~nativeActive => selected = approved]_vars

\* A preparation ends: the editors' answers or the timer cancel it, or the
\* application retires.
PreparationEnds == isPreparing ~> (~isPreparing \/ attempt.retiring)

\* A frozen editor is released or the application quits.
EditorsThaw == \A e \in Editors : Frozen(e) ~> (~Frozen(e) \/ quitting)

\* An application that has begun to quit or to restart ends, however the
\* installation fails.
QuittingExits == quitting ~> exited
=============================================================================
