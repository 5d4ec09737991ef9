------------------------------ MODULE HoldGesture ------------------------------
(***************************************************************************)
(* From keys to push-to-talk: what sees the keyboard, the matcher of the   *)
(* hold shortcut (src/main/hotkeys/holdChordMatcher.ts, or the hold monitor *)
(* of resources/native/macos/active-target.swift) and the gesture that     *)
(* tells a hold from a longer shortcut (holdShortcutGesture.ts).           *)
(*                                                                         *)
(* The keyboard is seen either by a global hook, which reports every       *)
(* change, or by the helper process, which looks at it every 8 ms and      *)
(* reports what it makes of it.  Either report is on its way for a while,  *)
(* and so is the toggle shortcut, which Electron delivers by itself.  The  *)
(* grace period of 160 ms is longer than any of them takes: HoldTimerFires *)
(* waits for what is on its way.                                           *)
(*                                                                         *)
(* A definition whose comment starts with "Mistake" is a plausible wrong   *)
(* version of the one after it; no specification uses it.                  *)
(***************************************************************************)
EXTENDS Integers, Sequences

CONSTANTS
  Keys,          \* physical keys
  requiredGroups,\* the groups of keys that make the hold chord
  ToggleKeys, ToggleKey, \* the toggle shortcut, and its key that is no modifier
  ModifierOnly,  \* whether the hold chord has modifiers only
  Hooked,        \* the hook sees the keyboard; otherwise the helper does
  MaxEvents      \* bound on the reports on their way

HoldAssumption ==
  /\ requiredGroups \subseteq SUBSET Keys /\ requiredGroups # {}
  /\ ToggleKeys \subseteq Keys /\ ToggleKey \in ToggleKeys
  /\ {ModifierOnly, Hooked} \subseteq BOOLEAN /\ MaxEvents \in Nat

VARIABLES
  down,          \* the keys that are held down
  button,        \* a mouse button is held down
  wire,          \* reports on their way to the main process
  toggleSent,    \* the toggle shortcut is on its way: of this press, or of an older one
  matcher,       \* HoldChordMatcher
  monitor,       \* the helper's loop
  gesture,       \* HoldShortcutGesture
  toggleLocked,
  captureActive, \* a new shortcut is being recorded
  toggled,       \* a toggle was taken since the keys were let go or the gesture reset
  fresh,         \* keys that were pressed since then
  modified       \* another key or the mouse was used since then

inputVars == <<down, button>>
ghostVars == <<toggled, fresh, modified>>
vars == <<inputVars, wire, toggleSent, matcher, monitor, gesture, toggleLocked, captureActive,
          ghostVars>>

-----------------------------------------------------------------------------
Required == UNION requiredGroups

anyRequired(keys) == \E g \in requiredGroups : g \intersect keys # {}
allRequired(keys) == \A g \in requiredGroups : g \intersect keys # {}

NoMatch   == [pressed |-> {}, chordMatched |-> FALSE, suppressedUntilRelease |-> FALSE]
NoGesture == [keyPressed |-> FALSE, holdStarted |-> FALSE, cancelled |-> FALSE,
              suppressUntilRelease |-> FALSE, holdTimer |-> FALSE]
Stopped   == [running |-> FALSE, chordWasDown |-> FALSE, suppressedUntilRelease |-> FALSE,
              seen |-> {}]

Reports == IF Hooked THEN [event : {"keydown", "keyup"}, key : Keys] \union [event : {"mousedown"}]
           ELSE [event : {"hold-down", "hold-up", "modified-input"}]

TypeOK ==
  /\ down \in SUBSET Keys /\ wire \in Seq(Reports)
  /\ toggleSent \in {"no", "now", "late"} /\ fresh \in SUBSET Keys
  /\ {button, toggleLocked, captureActive, toggled, modified} \subseteq BOOLEAN
  /\ matcher \in [pressed : SUBSET Keys, chordMatched : BOOLEAN, suppressedUntilRelease : BOOLEAN]
  /\ monitor \in [running : BOOLEAN, chordWasDown : BOOLEAN, suppressedUntilRelease : BOOLEAN,
                  seen : SUBSET Keys]
  /\ gesture \in [keyPressed : BOOLEAN, holdStarted : BOOLEAN, cancelled : BOOLEAN,
                  suppressUntilRelease : BOOLEAN, holdTimer : BOOLEAN]

Init ==
  /\ down = {} /\ button = FALSE /\ wire = <<>> /\ toggleSent = "no"
  /\ matcher = NoMatch /\ monitor = [Stopped EXCEPT !.running = ~Hooked] /\ gesture = NoGesture
  /\ toggleLocked = FALSE /\ captureActive = FALSE
  /\ toggled = FALSE /\ fresh = {} /\ modified = FALSE

-----------------------------------------------------------------------------
(* HoldShortcutGesture: each operation maps a gesture to the next one.     *)

\* Mistake: a press that a toggle came before is a press like any other.
StartsFresh(g) == FALSE
StartsSuppressed(g) == g.suppressUntilRelease

keyDown(g) ==
  IF g.keyPressed THEN g
  ELSE [g EXCEPT !.keyPressed = TRUE, !.holdStarted = FALSE, !.cancelled = StartsSuppressed(g),
                 !.holdTimer = ~StartsSuppressed(g)]

\* Mistake: a pending hold starts although it was modified.
ModifiedIgnored(g) == g
modifiedInput(g) ==
  IF ~g.keyPressed \/ g.holdStarted THEN g
  ELSE [g EXCEPT !.cancelled = TRUE, !.holdTimer = FALSE]

MayToggle(g) == ~g.holdStarted

toggleUsesHoldKey == ToggleKeys \intersect Required # {}

prepareToggle(g) ==
  IF ~MayToggle(g) THEN g
  ELSE [g EXCEPT !.cancelled = TRUE, !.holdTimer = FALSE,
                 !.suppressUntilRelease = @ \/ toggleUsesHoldKey]

keyUp(g) == IF ~g.keyPressed /\ ~g.suppressUntilRelease THEN g ELSE NoGesture

-----------------------------------------------------------------------------
(* The keyboard *)

\* Mistake: the hook still reports beside the helper.
ReportBoth(event) == wire' = Append(wire, event)
\* What the hook reports at once; the helper looks for itself.
Report(event) == wire' = IF Hooked THEN Append(wire, event) ELSE wire

\* A toggle on its way no longer belongs to the press of keys there is.
Late == IF toggleSent = "now" THEN "late" ELSE toggleSent

Released(keys) == ~anyRequired(keys)

Press(k) ==
  /\ k \notin down /\ Len(wire) < MaxEvents
  /\ down' = down \union {k}
  /\ Report([event |-> "keydown", key |-> k])
  /\ toggleSent' = IF k = ToggleKey /\ ToggleKeys \subseteq down' THEN "now" ELSE toggleSent
  /\ fresh' = fresh \union {k}
  /\ modified' = (modified \/ (Hooked /\ k \notin Required /\ anyRequired(fresh)))
  /\ UNCHANGED <<button, matcher, monitor, gesture, toggleLocked, captureActive, toggled>>

LetGo(k) ==
  /\ k \in down /\ Len(wire) < MaxEvents
  /\ down' = down \ {k}
  /\ Report([event |-> "keyup", key |-> k])
  /\ fresh' = fresh \ {k}
  /\ toggleSent' = IF Released(fresh') THEN Late ELSE toggleSent
  /\ toggled' = (toggled /\ ~Released(fresh'))
  /\ modified' = (modified /\ ~Released(fresh'))
  /\ UNCHANGED <<button, matcher, monitor, gesture, toggleLocked, captureActive>>

Click ==
  /\ ~button /\ Len(wire) < MaxEvents
  /\ button' = TRUE
  /\ Report([event |-> "mousedown"])
  /\ modified' = (modified \/ (Hooked /\ anyRequired(fresh)))
  /\ UNCHANGED <<down, toggleSent, matcher, monitor, gesture, toggleLocked, captureActive, toggled,
                 fresh>>

EndClick ==
  /\ button
  /\ button' = FALSE
  /\ UNCHANGED <<down, wire, toggleSent, matcher, monitor, gesture, toggleLocked, captureActive,
                 ghostVars>>

-----------------------------------------------------------------------------
(* The helper *)

\* Mistake: only the release of every key ends the chord it reports.
AllReleased(m) == m.chordWasDown /\ ~anyRequired(down) /\ ~m.suppressedUntilRelease
ReleasedNow(m) == m.chordWasDown /\ ~allRequired(down)

Another == down \ Required # {}

Tampered ==
  \/ anyRequired(down) /\ ~allRequired(down) /\ Another
  \/ ModifierOnly /\ allRequired(down) /\ Another
  \/ anyRequired(down) /\ button

\* One turn of monitorHoldShortcut().
Look ==
  LET m == monitor IN
  /\ m.running /\ Len(wire) < MaxEvents
  /\ IF m.suppressedUntilRelease
     THEN /\ monitor' = [m EXCEPT !.seen = down,
                           !.chordWasDown = @ /\ ~ReleasedNow(m),
                           !.suppressedUntilRelease = anyRequired(down)]
          /\ wire' = IF ReleasedNow(m) THEN Append(wire, [event |-> "hold-up"]) ELSE wire
          /\ UNCHANGED modified
     ELSE IF Tampered
     THEN /\ monitor' = [m EXCEPT !.seen = down, !.suppressedUntilRelease = TRUE]
          /\ wire' = Append(wire, [event |-> "modified-input"])
          /\ modified' = TRUE
     ELSE IF allRequired(down) /\ ~m.chordWasDown
     THEN /\ monitor' = [m EXCEPT !.seen = down, !.chordWasDown = TRUE]
          /\ wire' = Append(wire, [event |-> "hold-down"])
          /\ UNCHANGED modified
     ELSE IF ReleasedNow(m)
     THEN /\ monitor' = [m EXCEPT !.seen = down, !.chordWasDown = FALSE,
                           !.suppressedUntilRelease = TRUE]
          /\ wire' = Append(wire, [event |-> "hold-up"])
          /\ UNCHANGED modified
     ELSE monitor' = [m EXCEPT !.seen = down] /\ UNCHANGED <<wire, modified>>
  /\ UNCHANGED <<inputVars, toggleSent, matcher, gesture, toggleLocked, captureActive, toggled,
                 fresh>>

\* The gesture was reset: what came before counts no more.
Forgets == toggleSent' = Late /\ toggled' = FALSE /\ fresh' = {} /\ modified' = FALSE

\* Mistake: a hold goes on when the helper that saw it dies.
DeathIgnored(g) == g
AfterDeath(g) == NoGesture

\* The helper dies: handleFallbackMonitorStopped().  A later tick of the
\* permission check starts another.
MonitorStops ==
  /\ monitor.running
  /\ monitor' = Stopped /\ wire' = <<>>
  /\ gesture' = AfterDeath(gesture) /\ Forgets
  /\ UNCHANGED <<inputVars, matcher, toggleLocked, captureActive>>

\* Mistake: a helper is started beside the hook.
NeedsAny     == ~monitor.running
NeedsMonitor == ~Hooked /\ ~monitor.running

MonitorRestarts ==
  /\ NeedsMonitor
  /\ monitor' = [Stopped EXCEPT !.running = TRUE]
  /\ UNCHANGED <<inputVars, wire, toggleSent, matcher, gesture, toggleLocked, captureActive,
                 ghostVars>>

-----------------------------------------------------------------------------
(* HoldChordMatcher: each report yields a matcher and a gesture.           *)

Modify(m) == /\ matcher' = [m EXCEPT !.suppressedUntilRelease = TRUE]
             /\ gesture' = modifiedInput(gesture)

\* Mistake: a chord that is complete no longer looks at other keys.
ExtraIgnored(k) == FALSE
Extra(k) == ModifierOnly /\ anyRequired(matcher.pressed) /\ k \notin Required

HookDown(k) ==
  LET m == [matcher EXCEPT !.pressed = @ \union {k}] IN
  IF m.suppressedUntilRelease THEN matcher' = m /\ UNCHANGED gesture
  ELSE IF Extra(k) THEN Modify(m)
  ELSE IF allRequired(m.pressed)
  THEN /\ matcher' = [m EXCEPT !.chordMatched = TRUE]
       /\ gesture' = IF m.chordMatched THEN gesture ELSE keyDown(gesture)
  ELSE IF anyRequired(matcher.pressed) /\ k \notin Required THEN Modify(m)
  ELSE matcher' = m /\ UNCHANGED gesture

HookUp(k) ==
  LET left == matcher.pressed \ {k}
      ends == matcher.chordMatched /\ ~allRequired(left) IN
  /\ matcher' = [pressed |-> left, chordMatched |-> matcher.chordMatched /\ ~ends,
                 suppressedUntilRelease |->
                   (matcher.suppressedUntilRelease \/ ends) /\ anyRequired(left)]
  /\ gesture' = IF ends THEN keyUp(gesture) ELSE gesture

\* The main process hears a report, unless a shortcut is being recorded.
Hear ==
  /\ wire # <<>>
  /\ wire' = Tail(wire)
  /\ LET r == Head(wire) IN
     CASE captureActive \/ (r.event = "keydown" /\ r.key \in matcher.pressed) ->
            UNCHANGED <<matcher, gesture>>
       [] ~captureActive /\ r.event = "keydown" /\ r.key \notin matcher.pressed -> HookDown(r.key)
       [] ~captureActive /\ r.event = "keyup" -> HookUp(r.key)
       [] ~captureActive /\ r.event = "mousedown" ->
            IF anyRequired(matcher.pressed) THEN Modify(matcher) ELSE UNCHANGED <<matcher, gesture>>
       [] ~captureActive /\ r.event = "hold-down" ->
            gesture' = keyDown(gesture) /\ UNCHANGED matcher
       [] ~captureActive /\ r.event = "hold-up" ->
            gesture' = keyUp(gesture) /\ UNCHANGED matcher
       [] ~captureActive /\ r.event = "modified-input" ->
            gesture' = modifiedInput(gesture) /\ UNCHANGED matcher
  /\ UNCHANGED <<inputVars, toggleSent, monitor, toggleLocked, captureActive, ghostVars>>

-----------------------------------------------------------------------------
(* The main process *)

\* Nothing of what the keyboard did is still on its way.
Settled == wire = <<>> /\ toggleSent = "no" /\ (monitor.running => monitor.seen = down)

\* The grace period is over: push-to-talk begins.
HoldTimerFires ==
  /\ gesture.holdTimer /\ Settled
  /\ gesture' = [gesture EXCEPT !.holdTimer = FALSE,
                   !.holdStarted = @ \/ (gesture.keyPressed /\ ~gesture.cancelled)]
  /\ UNCHANGED <<inputVars, wire, toggleSent, matcher, monitor, toggleLocked, captureActive,
                 ghostVars>>

\* A release is on its way that the toggle has overtaken.
ReleaseOnWire == \E i \in DOMAIN wire : wire[i].event \in {"keyup", "hold-up"}

\* handleToggle()
Toggle ==
  /\ toggleSent # "no"
  /\ toggleSent' = "no"
  /\ IF captureActive THEN UNCHANGED <<gesture, toggleLocked, toggled>>
     ELSE /\ gesture' = prepareToggle(gesture)
          /\ toggleLocked' = (toggleLocked \/ MayToggle(gesture))
          /\ toggled' = (toggled \/ (/\ toggleSent = "now" /\ ~ReleaseOnWire
                                    /\ ~toggleLocked /\ MayToggle(gesture)))
  /\ UNCHANGED <<inputVars, wire, matcher, monitor, captureActive, fresh, modified>>

ToggleLockEnds ==
  /\ toggleLocked
  /\ toggleLocked' = FALSE
  /\ UNCHANGED <<inputVars, wire, toggleSent, matcher, monitor, gesture, captureActive, ghostVars>>

\* Mistake: a capture forgets the hold without ending it.
CaptureKeeps(g) == [g EXCEPT !.keyPressed = FALSE]
CaptureEnds(g) == NoGesture

\* beginCapture()
BeginCapture ==
  /\ ~captureActive
  /\ captureActive' = TRUE
  /\ matcher' = NoMatch /\ gesture' = CaptureEnds(gesture) /\ Forgets
  /\ UNCHANGED <<inputVars, wire, monitor, toggleLocked>>

\* endCapture(), by the recorder or after 20 s.
EndCapture ==
  /\ captureActive
  /\ captureActive' = FALSE
  /\ matcher' = NoMatch /\ gesture' = NoGesture /\ Forgets
  /\ UNCHANGED <<inputVars, wire, monitor, toggleLocked>>

-----------------------------------------------------------------------------
Next ==
  \/ \E k \in Keys : Press(k) \/ LetGo(k)
  \/ Click \/ EndClick \/ Look \/ MonitorStops \/ MonitorRestarts \/ Hear
  \/ HoldTimerFires \/ Toggle \/ ToggleLockEnds \/ BeginCapture \/ EndCapture

Spec == Init /\ [][Next]_vars

\* The helper looks, reports arrive and timers fire.
FairSpec ==
  Spec /\ WF_vars(Look) /\ WF_vars(Hear) /\ WF_vars(Toggle) /\ WF_vars(HoldTimerFires)

-----------------------------------------------------------------------------
(* Properties *)

\* Push-to-talk goes on only while its keys are down: otherwise their release
\* was reported, or the helper is about to see it (keyUp, reset).
HoldHasKeys ==
  gesture.holdStarted =>
    \/ allRequired(down)
    \/ ReleaseOnWire
    \/ monitor.running /\ monitor.chordWasDown

\* One press of keys is a toggle or a hold, never both, in whichever order
\* Electron and the reports deliver it (prepareToggle), unless the toggle has
\* overtaken even the release of an earlier press.
ToggleOrHold == gesture'.holdStarted /\ ~gesture.holdStarted => ~toggled

\* A hold that was modified before it began does not begin: Command and A is
\* no dictation (modifiedInput, cancelPendingHoldOnExtraKey).
ModifiedIsNoHold ==
  ModifierOnly /\ gesture'.holdStarted /\ ~gesture.holdStarted => ~modified

\* "overlapsHoldKey handles Electron delivering a chord before uiohook": once
\* everything has been delivered and the keys are released, nothing keeps the
\* next hold from starting.
SuppressionEnds == Settled /\ Released(down) /\ ~captureActive => ~gesture.suppressUntilRelease

\* A hold whose keys stay released ends.
HoldsEnd == <>[](~allRequired(down)) => <>[](~gesture.holdStarted)
=============================================================================
