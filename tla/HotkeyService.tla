----------------------------- MODULE HotkeyService -----------------------------
(***************************************************************************)
(* Who owns the shortcuts: HotkeyService (src/main/hotkeys/hotkeyService.ts *)
(* from start() to stop()), the settings transaction that changes them      *)
(* (src/main/settings/settingsTransaction.ts) and the check that looks     *)
(* every two seconds whether Accessibility was granted                      *)
(* (accessibilityReconciler.ts).                                           *)
(*                                                                         *)
(* The code is synchronous, so an operation is a function from a service to *)
(* a service, and what can go wrong in it is a set of native calls that    *)
(* fail: <<"register", 2>> is the second time the operation registers.     *)
(*                                                                         *)
(* A definition whose comment starts with "Mistake" is a plausible wrong   *)
(* version of the one after it; no specification uses it.                  *)
(***************************************************************************)
EXTENDS Naturals

CONSTANTS
  Holds, Toggles,  \* hold and toggle shortcuts
  Native,          \* the hold shortcuts the helper process can watch
  Clashes,         \* pairs of a hold and a toggle shortcut on the same keys
  MayFail,         \* the native calls that can fail
  MaxFailures      \* bound on the failures of one operation

HotkeyAssumption ==
  /\ Native \subseteq Holds /\ Clashes \subseteq Holds \X Toggles
  /\ MayFail \subseteq {"register", "probe", "unregister", "off", "hookStart", "hookStop",
                        "monitor", "suspend", "save", "login", "loginRestore"}
  /\ MaxFailures \in Nat

\* The calls that fail: at most MaxFailures of them, each a native call and its turn.
Failures == UNION {{{f[i] : i \in 1..n} : f \in [1..n -> MayFail \X (1..4)]} : n \in 0..MaxFailures}

VARIABLES
  s,        \* the service, and what the native libraries hold for it
  row,      \* the settings row: its shortcuts and launchAtLogin
  login,    \* the login item of macOS
  granted,  \* Accessibility is granted
  phase,    \* of the process
  answer    \* to the last request to save settings

vars == <<s, row, login, granted, phase, answer>>

NoHold == "none"

Services ==
  [mode : {"stopped", "full", "fallback"}, hold : Holds, toggle : Toggles,
   registered : BOOLEAN, failure : BOOLEAN, degraded : BOOLEAN,
   monitorStarted : BOOLEAN, watched : Holds \union {NoHold},
   captureActive : BOOLEAN, captureSuspended : BOOLEAN, captureTimer : BOOLEAN, threw : BOOLEAN,
   \* the hook, its listeners, the registered accelerators, and whether they sleep
   hooked : BOOLEAN, listeners : Nat, owned : SUBSET Toggles, suspended : BOOLEAN]

Rows == [hold : Holds, toggle : Toggles, launch : BOOLEAN]

TypeOK ==
  /\ s \in Services /\ ~s.threw /\ row \in Rows
  /\ {login, granted} \subseteq BOOLEAN
  /\ phase \in {"starting", "running", "quit"}
  /\ answer \in [to : Rows, result : {"none", "saved", "refused"}]

Init ==
  /\ row \in {r \in Rows : <<r.hold, r.toggle>> \notin Clashes /\ ~r.launch}
  /\ s = [mode |-> "stopped", hold |-> row.hold, toggle |-> row.toggle,
          registered |-> FALSE, failure |-> FALSE, degraded |-> FALSE,
          monitorStarted |-> FALSE, watched |-> NoHold,
          captureActive |-> FALSE, captureSuspended |-> FALSE, captureTimer |-> FALSE,
          threw |-> FALSE,
          hooked |-> FALSE, listeners |-> 0, owned |-> {}, suspended |-> FALSE]
  /\ login = row.launch /\ granted \in BOOLEAN /\ phase = "starting"
  /\ answer = [to |-> row, result |-> "none"]

-----------------------------------------------------------------------------
(* What an operation is made of: each maps a service to the next one, and  *)
(* does nothing after a call that threw.                                   *)

Throw(x) == [x EXCEPT !.threw = TRUE]

\* resumeShortcutsAfterCapture()
Resume(x, n, F) ==
  IF ~x.captureSuspended THEN x
  ELSE [x EXCEPT !.captureSuspended = FALSE, !.suspended = <<"suspend", n>> \in F]

endCapture(x, n, F) ==
  Resume([x EXCEPT !.captureActive = FALSE, !.captureTimer = FALSE], n, F)

\* Mistake: another hold shortcut keeps the helper that runs.
MonitorLeft(x) == x
stopFallbackMonitor(x) == [x EXCEPT !.monitorStarted = FALSE, !.watched = NoHold]

\* Mistake: listeners are taken off although the hook was never started.
StopHookAlways(x, n, F) == [x EXCEPT !.listeners = @ - 1, !.hooked = FALSE]
StopHook(x, n, F) ==
  IF x.mode # "full" THEN x
  ELSE [x EXCEPT !.listeners = IF <<"off", n>> \in F THEN @ ELSE @ - 1,
                 !.hooked = <<"hookStop", n>> \in F,
                 !.threw = {<<"off", n>>, <<"hookStop", n>>} \intersect F # {}]

\* Mistake: the accelerator stays registered when it is given up.
UnregisterLeft(x, n, F) == [x EXCEPT !.registered = FALSE, !.failure = FALSE]
Unregister(x, n, F) ==
  [x EXCEPT !.owned = IF ~x.registered \/ <<"unregister", n>> \in F THEN @ ELSE @ \ {x.toggle},
            !.threw = @ \/ (x.registered /\ <<"unregister", n>> \in F),
            !.registered = FALSE, !.failure = FALSE]

stopForReconfigure(x, preserve, n, F) ==
  LET unhooked == StopHook(endCapture(x, n, F), n, F)
      stopped == stopFallbackMonitor([unhooked EXCEPT !.mode = "stopped"])
  IN IF preserve THEN stopped ELSE Unregister(stopped, n, F)

registerToggle(x, require, n, F) ==
  IF x.registered THEN x
  ELSE IF x.failure \/ x.toggle \in x.owned \/ <<"register", n>> \in F
  THEN [x EXCEPT !.failure = TRUE, !.threw = require]
  ELSE [x EXCEPT !.registered = TRUE, !.owned = @ \union {x.toggle}]

\* Mistake: a monitor is started only when the mode changes.
WatchesOnce(x, n, F) ==
  x.hold \in Native /\ ~x.monitorStarted /\ x.mode # "fallback" /\ <<"monitor", n>> \notin F
Watches(x, n, F) == x.hold \in Native /\ ~x.monitorStarted /\ <<"monitor", n>> \notin F

startFallbackMode(x, require, n, F) ==
  IF x.mode = "full" THEN x
  ELSE LET r == IF x.mode = "fallback" THEN x ELSE registerToggle(x, require, n, F)
           watches == Watches(x, n, F)
       IN IF r.threw THEN r
          ELSE [r EXCEPT !.mode = "fallback", !.monitorStarted = @ \/ watches,
                         !.watched = IF watches THEN x.hold ELSE @]

startFull(x, require, n, F) ==
  LET cleared == IF x.mode = "fallback" THEN stopForReconfigure(x, TRUE, n, F)
                 ELSE stopFallbackMonitor(x)
      r == IF cleared.threw THEN cleared ELSE registerToggle(cleared, require, n, F)
  IN IF x.mode = "full" THEN x
     ELSE IF r.threw THEN r
     ELSE IF <<"hookStart", n>> \in F THEN Throw(r)
     ELSE [r EXCEPT !.mode = "full", !.listeners = @ + 1, !.hooked = TRUE]

startMode(x, mode, n, F) ==
  IF x.hold \in Native \/ mode = "fallback" THEN startFallbackMode(x, TRUE, n, F)
  ELSE IF mode = "full" THEN startFull(x, TRUE, n, F)
  ELSE x

-----------------------------------------------------------------------------
(* The operations of the service *)

Sound(x) == IF x.threw THEN x ELSE [x EXCEPT !.degraded = FALSE]

GivesUpHook(x, n, F) == IF x.mode = "full" THEN stopForReconfigure(x, TRUE, n, F) ELSE x

startFallback(x, n, F) ==
  LET y == GivesUpHook(x, n, F) IN
  IF y.threw THEN y ELSE Sound(startFallbackMode(y, FALSE, n, F))

start(x, n, F) == IF x.hold \in Native THEN startFallback(x, n, F) ELSE Sound(startFull(x, FALSE, n, F))

Owns(x, t) == x.registered /\ t = x.toggle

assertToggleCanRegister(x, t, n, F) ==
  IF Owns(x, t) \/ (t \notin x.owned /\ <<"probe", n>> \notin F) THEN x ELSE Throw(x)

\* Mistake: a shortcut that cannot be registered is not taken back.
NotRestored(x, before, preserve, n, F) == x
\* The new shortcuts did not start: the old ones are put back.
Restore(x, before, preserve, n, F) ==
  LET down == [stopForReconfigure([x EXCEPT !.threw = FALSE], preserve, n, F)
                 EXCEPT !.hold = before.hold, !.toggle = before.toggle]
      up == startMode(down, before.mode, n, F)
  IN IF down.threw THEN [down EXCEPT !.degraded = TRUE]
     ELSE Throw([up EXCEPT !.degraded = up.threw])

reconfigure(x, h, t, n, F) ==
  LET retried == IF x.registered \/ ~x.failure THEN x
                 ELSE registerToggle([x EXCEPT !.failure = FALSE], TRUE, n, F)
      probed == assertToggleCanRegister(x, t, n, F)
      preserve == Owns(x, t)
      down == stopForReconfigure(x, preserve, n, F)
      up == startMode([down EXCEPT !.hold = h, !.toggle = t], x.mode, n, F)
  IN IF x.captureActive \/ <<h, t>> \in Clashes THEN Throw(x)
     ELSE IF h = x.hold /\ t = x.toggle THEN retried
     ELSE IF probed.threw THEN probed
     ELSE IF down.threw THEN [down EXCEPT !.degraded = TRUE]
     ELSE IF up.threw THEN Restore(up, x, preserve, n + 1, F)
     ELSE [up EXCEPT !.degraded = FALSE]

Done(x) == s' = [x EXCEPT !.threw = FALSE]

-----------------------------------------------------------------------------
\* reconcileAccessibilityHotkeys(), and the same at startup.
Reconciled(x, F) ==
  IF ~granted THEN startFallback(x, 1, F)
  ELSE LET y == start(x, 1, F)
       IN IF y.threw THEN startFallback([y EXCEPT !.threw = FALSE], 2, F) ELSE y

Startup(F) ==
  /\ phase = "starting"
  /\ phase' = "running"
  /\ Done(Reconciled(s, F))
  /\ UNCHANGED <<row, login, granted, answer>>

Tick(F) ==
  /\ phase = "running"
  /\ Done(Reconciled(s, F))
  /\ UNCHANGED <<row, login, granted, phase, answer>>

Grant ==
  /\ granted' = ~granted
  /\ UNCHANGED <<s, row, login, phase, answer>>

\* The helper dies.
MonitorStops ==
  /\ s.watched # NoHold
  /\ s' = stopFallbackMonitor(s)
  /\ UNCHANGED <<row, login, granted, phase, answer>>

\* Mistake: a capture that cannot suspend the shortcuts stays active.
CaptureStuck(x) == [x EXCEPT !.captureActive = TRUE]
CaptureGivesUp(x) == [x EXCEPT !.captureActive = FALSE]

BeginCapture(F) ==
  /\ phase = "running" /\ ~s.captureActive
  /\ LET x == [s EXCEPT !.captureActive = TRUE, !.captureSuspended = TRUE] IN
     Done(IF <<"suspend", 1>> \in F THEN CaptureGivesUp(Resume(x, 2, F))
          ELSE [x EXCEPT !.suspended = TRUE, !.captureTimer = TRUE])
  /\ UNCHANGED <<row, login, granted, phase, answer>>

\* By the recorder, or by the timer CAPTURE_TIMEOUT_MS after it began.
EndCapture(F) ==
  /\ s.captureActive \/ s.captureSuspended
  /\ Done(endCapture(s, 1, F))
  /\ UNCHANGED <<row, login, granted, phase, answer>>

CaptureTimerFires == s.captureTimer /\ \E F \in Failures : EndCapture(F)

-----------------------------------------------------------------------------
(* persistSettingsTransaction(): the shortcuts, then the row.              *)
Shortcuts(r) == <<r.hold, r.toggle>>

Activated(r, F) ==
  IF Shortcuts(r) # Shortcuts(row) THEN reconfigure(s, r.hold, r.toggle, 1, F) ELSE s

\* Mistake: the shortcuts are not restored when the row cannot be written.
NotTakenBack(x, r, F) == Throw(x)
TakenBack(x, r, F) ==
  IF Shortcuts(r) # Shortcuts(row)
  THEN Throw(reconfigure(x, row.hold, row.toggle, 3, F)) ELSE Throw(x)

Committed(r, F) ==
  LET x == Activated(r, F)
  IN IF x.threw \/ <<"save", 1>> \notin F THEN x ELSE TakenBack(x, r, F)

\* Mistake: the login item is left as it was asked for.
LoginLeft(r, F) == r.launch
LoginRestored(r, F) == IF <<"loginRestore", 1>> \in F THEN r.launch ELSE row.launch

\* settings:patch and shortcuts:update
Save(r, F) ==
  /\ phase = "running"
  /\ LET x == Committed(r, F)
         touched == r.launch # row.launch
         refused == touched /\ <<"login", 1>> \in F
         ok == ~refused /\ ~x.threw
     IN /\ IF refused THEN UNCHANGED s ELSE Done(x)
        /\ row' = IF ok THEN r ELSE row
        /\ login' = IF ~touched \/ refused THEN login
                    ELSE IF ok THEN r.launch ELSE LoginRestored(r, F)
        /\ answer' = [to |-> r, result |-> IF ok THEN "saved" ELSE "refused"]
  /\ UNCHANGED <<granted, phase>>

Quit(F) ==
  /\ phase = "running"
  /\ phase' = "quit"
  /\ Done(stopForReconfigure(s, FALSE, 1, F))
  /\ UNCHANGED <<row, login, granted, answer>>

Terminated == phase = "quit" /\ UNCHANGED vars

-----------------------------------------------------------------------------
Next ==
  \/ \E F \in Failures :
       Startup(F) \/ Tick(F) \/ BeginCapture(F) \/ EndCapture(F) \/ Quit(F)
  \/ \E F \in Failures, r \in Rows : Save(r, F)
  \/ Grant \/ MonitorStops \/ Terminated

Spec == Init /\ [][Next]_vars

\* The two-second check goes on, and what it tries does not always fail; a
\* capture is ended by its timer.
FairSpec ==
  /\ Spec
  /\ SF_vars(Startup({})) /\ SF_vars(Tick({})) /\ WF_vars(CaptureTimerFires)

-----------------------------------------------------------------------------
(* Properties *)

\* The process holds what the service believes: the hook with one set of
\* listeners in full mode only, the helper for the current hold shortcut.
OneReporter ==
  /\ s.listeners = (IF s.mode = "full" THEN 1 ELSE 0) /\ s.hooked = (s.mode = "full")
  /\ s.watched = (IF s.monitorStarted THEN s.hold ELSE NoHold)
  /\ ~(s.mode = "full" /\ s.monitorStarted)

\* The accelerators registered with macOS are the toggle, and nothing that was
\* given up on the way (stopForReconfigure, assertToggleCanRegister).
ToggleOwned == s.owned = (IF s.registered THEN {s.toggle} ELSE {})

\* A toggle that works is kept by whatever fails, unless the user is told to
\* restart: "restores the live shortcuts when final registration loses a race".
KeepsToggle ==
  s.registered /\ ~s.degraded /\ phase' = "running" => s'.registered \/ s'.degraded

\* What a change that was refused leaves is what was there before.
RefusalChangesNothing ==
     answer' # answer /\ answer'.result = "refused" =>
       row' = row /\ login' = login /\ (s'.degraded \/ Shortcuts(s') = Shortcuts(s))

\* "keeping shortcut activation and persistence all-or-nothing"
AllOrNothing == s.degraded \/ Shortcuts(s) = Shortcuts(row)

\* "Restart LocalScribe before using dictation shortcuts": until then nothing
\* is started again over what a failed teardown may have left behind.
RestartRequired == s.degraded /\ phase' = "running" => s'.degraded

\* "A user deliberately saving an unchanged shortcut is the one safe time to
\* retry a registration that was unavailable at app startup."
SavingRetries ==
  answer' # answer /\ answer'.result = "saved" => ~s'.failure

\* While the helper can watch the hold shortcut or Accessibility is granted,
\* push-to-talk comes back after whatever failed (isGlobalHoldReady).
HoldReady == s.mode = "full" \/ s.monitorStarted
HoldComesBack ==
  <>[](phase # "quit" /\ (s.hold \in Native \/ granted)) => []<>(phase = "starting" \/ HoldReady)

\* A capture ends, whatever the window that began it does.
CapturesEnd == s.captureActive ~> ~s.captureActive
=============================================================================
