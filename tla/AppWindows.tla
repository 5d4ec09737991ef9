------------------------------ MODULE AppWindows ------------------------------
(***************************************************************************)
(* The windows of the application (src/main.ts): the pill, Settings and    *)
(* Notes, what shows and hides them, and what becomes of one whose page    *)
(* does not load or whose process dies (installRendererFailureHandlers,    *)
(* session/rendererResilience.ts).                                         *)
(*                                                                         *)
(* A window is a number, in the order of their making.  The pill records,  *)
(* so a dictation is either `busy', or over with a notice, or idle.        *)
(* Chromium reports a failure later than it happens, and may report both   *)
(* failures of one window.  A replacement is made in a microtask: Prompt   *)
(* says whether nothing comes before it, as the engine runs them, or       *)
(* whether a user's action may, as the code's own comment has it.          *)
(*                                                                         *)
(* A definition whose comment starts with "Mistake" is a plausible wrong   *)
(* version of the one after it; no specification uses it.                  *)
(***************************************************************************)
EXTENDS Naturals

CONSTANTS
  Editors,     \* the surfaces that hold drafts: Settings and Notes
  Settings,    \* the one of them a start may open
  Pill,        \* the surface that records
  MaxWindows,  \* bound: windows made
  MaxFailures, \* bound: pages that fail and processes that die
  Prompt       \* whether a microtask comes before every other event

WindowsAssumption ==
  /\ Settings \in Editors /\ Pill \notin Editors /\ Prompt \in BOOLEAN
  /\ MaxWindows \in Nat \ {0, 1} /\ MaxFailures \in Nat

VARIABLES
  made,       \* windows made so far
  window,     \* each of them
  owner,      \* the current window of each surface, or NoWindow
  latch,      \* rendererRecoveryInFlight
  failures,   \* failures so far
  reports,    \* failures on their way: <<window, kind>>
  queue,      \* the microtasks that replace a window
  focus,      \* the window the user types into, or NoWindow
  session,    \* the dictation: idle, busy, or over with a notice
  active,     \* whether a dictation is claimed: activeSessionId
  showIdle,   \* the setting showPillWhenIdle
  preparing,  \* whether an update is being prepared
  drained,    \* the editors' windows it asked to save
  quitting

windowVars  == <<made, window, owner, focus>>
failureVars == <<latch, failures, reports, queue>>
sessionVars == <<session, active>>
updateVars  == <<preparing, drained>>
vars == <<windowVars, failureVars, sessionVars, showIdle, updateVars, quitting>>

-----------------------------------------------------------------------------
Surfaces == Editors \union {Pill}
NoWindow == 0
Windows  == 1 .. made

\* One window: whom it replaced, whether its page loaded and was painted once, how it is
\* shown when it is painted, and whether the user asked for it.
Window ==
  [surface : Surfaces, of : 0 .. MaxWindows, page : {"loading", "loaded", "failed", "crashed"},
   loaded : BOOLEAN, painted : BOOLEAN, ready : {"active", "inactive", "hidden"},
   shown : BOOLEAN, asked : BOOLEAN, destroyed : BOOLEAN]

Live(w) == ~window[w].destroyed

TypeOK ==
  /\ made \in 0 .. MaxWindows /\ window \in [Windows -> Window]
  /\ owner \in [Surfaces -> Windows \union {NoWindow}] /\ focus \in Windows \union {NoWindow}
  /\ latch \subseteq Surfaces /\ failures \in 0 .. MaxFailures
  /\ reports \subseteq Windows \X {"load", "gone"}
  /\ queue \subseteq [surface : Surfaces, of : Windows, ready : {"inactive", "hidden"}]
  /\ session \in {"idle", "busy", "notice"} /\ drained \subseteq Windows
  /\ {active, showIdle, preparing, quitting} \subseteq BOOLEAN
  /\ \A s \in Surfaces : owner[s] # NoWindow => Live(owner[s]) /\ window[owner[s]].surface = s
  /\ focus # NoWindow => Live(focus) /\ window[focus].surface # Pill

\* A new window, hidden until it is shown or painted.
New(s, of, ready) ==
  [surface |-> s, of |-> of, page |-> "loading", loaded |-> FALSE, painted |-> FALSE,
   ready |-> ready, shown |-> FALSE, asked |-> FALSE, destroyed |-> FALSE]


\* syncPillVisibility: the pill is shown during a dictation, and when the user wants it idle.
ShouldShow == session # "idle" \/ showIdle

SyncPill(windows, pill, should) ==
  IF pill = NoWindow THEN windows ELSE [windows EXCEPT ![pill].shown = should]

\* The start makes the pill, and Settings unless the login item started the program.
Init ==
  \E opened \in BOOLEAN :
    /\ made = (IF opened THEN 2 ELSE 1)
    /\ window = [w \in 1 .. made |->
                   IF w = 1 THEN New(Pill, NoWindow, "hidden") ELSE New(Settings, NoWindow, "active")]
    /\ owner = [s \in Surfaces |->
                  IF s = Pill THEN 1 ELSE IF s = Settings /\ opened THEN 2 ELSE NoWindow]
    /\ focus = NoWindow /\ latch = {} /\ failures = 0 /\ reports = {} /\ queue = {}
    /\ session = "idle" /\ active = FALSE /\ showIdle \in BOOLEAN
    /\ preparing = FALSE /\ drained = {} /\ quitting = FALSE

\* What comes from outside waits for the microtasks.
Event == Prompt => queue = {}

-----------------------------------------------------------------------------
(* The page of a window.                                                   *)

\* did-finish-load: the surface may be replaced by itself again.
FinishLoad(w) ==
  /\ Event /\ Live(w) /\ window[w].page = "loading"
  /\ window' = [window EXCEPT ![w].page = "loaded", ![w].loaded = TRUE]
  /\ latch' = IF owner[window[w].surface] = w THEN latch \ {window[w].surface} ELSE latch
  /\ UNCHANGED <<made, owner, focus, failures, reports, queue, sessionVars, showIdle, updateVars, quitting>>

FailLoad(w) ==
  /\ Event /\ Live(w) /\ window[w].page = "loading"
  /\ failures < MaxFailures /\ failures' = failures + 1
  /\ window' = [window EXCEPT ![w].page = "failed"]
  /\ reports' = reports \union {<<w, "load">>}
  /\ UNCHANGED <<made, owner, focus, latch, queue, sessionVars, showIdle, updateVars, quitting>>

\* The renderer process dies; its end is reported later.
Crash(w) ==
  /\ Event /\ Live(w) /\ window[w].page # "crashed"
  /\ failures < MaxFailures /\ failures' = failures + 1
  /\ window' = [window EXCEPT ![w].page = "crashed"]
  /\ reports' = reports \union {<<w, "gone">>}
  /\ UNCHANGED <<made, owner, focus, latch, queue, sessionVars, showIdle, updateVars, quitting>>

\* ready-to-show, once: an editor appears as it was made to, the pill as the dictation says.
Paint(w) ==
  /\ Event /\ Live(w) /\ ~window[w].painted /\ window[w].page \in {"loading", "loaded"}
  /\ LET painted == [window EXCEPT ![w].painted = TRUE]
         s == window[w].surface
         appears == s # Pill /\ window[w].ready # "hidden" /\ ~quitting /\ ~preparing
     IN  /\ window' = IF s = Pill
                      THEN IF quitting THEN painted ELSE SyncPill(painted, owner[Pill], ShouldShow)
                      ELSE IF appears THEN [painted EXCEPT ![w].shown = TRUE] ELSE painted
         /\ focus' = IF appears /\ window[w].ready = "active" THEN w ELSE focus
  /\ UNCHANGED <<made, owner, failureVars, sessionVars, showIdle, updateVars, quitting>>

-----------------------------------------------------------------------------
(* The failure of a window.                                                *)

\* rendererFailureRecoveryPolicy: whom a failure ends, and whether it is repaired by itself.
MistakeFailsDictation(s) == FALSE
FailsDictation(s) == s = Pill /\ active

MistakeRecreates(s) == TRUE
Recreates(s) == s \notin latch

\* A failure that was handled, or of a window that is not the current one any more, is none.
Handled(w) ==
  window[w].destroyed \/ owner[window[w].surface] \notin {NoWindow, w}

\* The surface is without a window at once, and the focus falls back to another program.
MistakeWithout(s, w) == owner
Without(s, w) == [owner EXCEPT ![s] = IF @ = w THEN NoWindow ELSE @]

\* The preparation of an update ends with an editor it waits for.
MistakeEndsPreparation(w) == FALSE
EndsPreparation(w) == w \in drained

\* The failed window is destroyed; a dictation ends with its pill; the replacement is left
\* to a microtask.
Recover(w) ==
  LET s == window[w].surface
  IN  /\ window' = [window EXCEPT ![w].destroyed = TRUE, ![w].page = "crashed", ![w].painted = TRUE]
      /\ owner' = Without(s, w)
      /\ focus' = IF focus = w THEN NoWindow ELSE focus
      /\ IF EndsPreparation(w)
         THEN preparing' = FALSE /\ drained' = {}
         ELSE UNCHANGED updateVars
      /\ IF FailsDictation(s)
         THEN session' = "notice" /\ active' = FALSE
         ELSE UNCHANGED sessionVars
      /\ IF Recreates(s)
         THEN /\ latch' = latch \union {s}
              /\ queue' = queue \union {[surface |-> s, of |-> w,
                                         ready |-> IF window[w].shown THEN "inactive" ELSE "hidden"]}
         ELSE UNCHANGED <<latch, queue>>

Report(r) ==
  /\ Event
  /\ reports' = reports \ {r}
  /\ IF quitting \/ Handled(r[1])
     THEN UNCHANGED <<window, owner, focus, updateVars, sessionVars, latch, queue>>
     ELSE Recover(r[1])
  /\ UNCHANGED <<made, failures, showIdle, quitting>>

\* A user's action may have made a newer window; that one is kept.
MistakeMayReplace(t) == ~quitting /\ ~preparing
MayReplace(t) == ~quitting /\ ~preparing /\ owner[t.surface] = NoWindow

\* A window that was seen appears again without the focus; the pill appears as ever.
MistakeShowsAll(t) == IF t.surface = Pill THEN "hidden" ELSE "inactive"
MistakeReadiness(t) == IF t.ready = "inactive" THEN "active" ELSE t.ready
Readiness(t) == IF t.surface = Pill THEN "hidden" ELSE t.ready

Replace(t) ==
  /\ queue' = queue \ {t}
  /\ IF MayReplace(t)
     THEN /\ made < MaxWindows
          /\ made' = made + 1
          /\ window' = [w \in 1 .. made + 1 |->
                          IF w = made + 1 THEN New(t.surface, t.of, Readiness(t)) ELSE window[w]]
          /\ owner' = [owner EXCEPT ![t.surface] = made + 1]
     ELSE UNCHANGED <<made, window, owner>>
  /\ UNCHANGED <<focus, latch, failures, reports, sessionVars, showIdle, updateVars, quitting>>

-----------------------------------------------------------------------------
(* The user.                                                               *)

\* showHub and showScratchpad: the window is made again if there is none, shown and focused.
MistakeOpens(s) == ~quitting
Opens(s) == ~quitting /\ ~preparing

Open(s) ==
  /\ Event /\ Opens(s)
  /\ LET w == IF owner[s] = NoWindow THEN made + 1 ELSE owner[s]
         there == IF w \in Windows THEN window[w] ELSE New(s, NoWindow, "active")
     IN  /\ w <= MaxWindows
         /\ made' = IF w \in Windows THEN made ELSE w
         /\ latch' = IF w \in Windows THEN latch ELSE latch \ {s}
         /\ window' = [v \in 1 .. made' |->
                         IF v = w THEN [there EXCEPT !.shown = TRUE, !.asked = TRUE] ELSE window[v]]
         /\ owner' = [owner EXCEPT ![s] = w]
         /\ focus' = w
  /\ UNCHANGED <<failures, reports, queue, sessionVars, showIdle, updateVars, quitting>>

\* Closing an editor's window only hides it.
Close(s) ==
  /\ Event /\ ~quitting /\ owner[s] # NoWindow /\ window[owner[s]].shown
  /\ window' = [window EXCEPT ![owner[s]].shown = FALSE]
  /\ focus' = IF focus = owner[s] THEN NoWindow ELSE focus
  /\ UNCHANGED <<made, owner, failureVars, sessionVars, showIdle, updateVars, quitting>>

\* beginListening: the dictation is claimed before the pill is placed, and without a pill
\* that throws.
Begin ==
  /\ Event /\ ~quitting /\ ~preparing /\ session # "busy"
  /\ active' = TRUE
  /\ IF owner[Pill] = NoWindow
     THEN UNCHANGED <<window, session>>
     ELSE session' = "busy" /\ window' = SyncPill(window, owner[Pill], TRUE)
  /\ UNCHANGED <<made, owner, focus, failureVars, showIdle, updateVars, quitting>>

\* A dictation ends idle or with a notice, which is dismissed later (setSession).
MistakeShown(next) == ShouldShow
Shown(next) == next # "idle" \/ showIdle

End(next) ==
  /\ Event /\ ~quitting
  /\ \/ session = "busy" /\ next \in {"idle", "notice"}
     \/ session = "notice" /\ next = "idle"
  /\ session' = next /\ active' = FALSE
  /\ window' = SyncPill(window, owner[Pill], Shown(next))
  /\ UNCHANGED <<made, owner, focus, failureVars, showIdle, updateVars, quitting>>

\* The setting is saved.
ChooseIdle ==
  /\ Event /\ ~quitting
  /\ showIdle' = ~showIdle
  /\ window' = SyncPill(window, owner[Pill], session # "idle" \/ showIdle')
  /\ UNCHANGED <<made, owner, focus, failureVars, sessionVars, updateVars, quitting>>

-----------------------------------------------------------------------------
(* Updates and the end.                                                    *)

Prepare ==
  /\ Event /\ ~quitting /\ ~preparing /\ session # "busy"
  /\ preparing' = TRUE
  /\ drained' = {owner[s] : s \in Editors} \ {NoWindow}
  /\ UNCHANGED <<windowVars, failureVars, sessionVars, showIdle, quitting>>

\* An editor refuses, or the time is over.
CancelPreparation ==
  /\ Event /\ preparing /\ ~quitting
  /\ preparing' = FALSE /\ drained' = {}
  /\ UNCHANGED <<windowVars, failureVars, sessionVars, showIdle, quitting>>

\* beginShutdown, for an update that keeps its preparation or for a quit that ends it.
Quit ==
  /\ Event /\ ~quitting
  /\ quitting' = TRUE
  /\ session' = "idle" /\ active' = FALSE
  /\ \/ preparing /\ UNCHANGED updateVars
     \/ preparing' = FALSE /\ drained' = {}
  /\ UNCHANGED <<windowVars, failureVars, showIdle>>

-----------------------------------------------------------------------------
Next ==
  \/ \E w \in Windows : FinishLoad(w) \/ FailLoad(w) \/ Crash(w) \/ Paint(w)
  \/ \E r \in reports : Report(r)
  \/ \E t \in queue : Replace(t)
  \/ \E s \in Editors : Open(s) \/ Close(s)
  \/ \E next \in {"idle", "notice"} : End(next)
  \/ Begin \/ ChooseIdle \/ Prepare \/ CancelPreparation \/ Quit

Spec == Init /\ [][Next]_vars

-----------------------------------------------------------------------------
(* Properties.                                                             *)

\* A surface never has two windows, whatever fails and whatever the user opens in between.
OneWindowEach ==
  \A v, w \in Windows : Live(v) /\ Live(w) /\ window[v].surface = window[w].surface => v = w

\* A window that came by itself and never loaded is not replaced by itself: a page that
\* always fails does not make one window after another.
RecoveryIsBounded ==
  \A w \in Windows :
    LET v == window[w].of
    IN  v # NoWindow => window[v].loaded \/ window[v].of = NoWindow

\* A replacement takes the focus only when the user asks for the window.
RecoveryKeepsFocus ==
  focus # NoWindow => window[focus].of = NoWindow \/ window[focus].asked

\* A window the user had closed stays closed when its page is replaced.
HiddenStaysHidden ==
  \A w \in Windows :
    Live(w) /\ window[w].shown /\ window[w].surface # Pill /\ window[w].of # NoWindow
      => window[w].asked \/ window[window[w].of].shown

\* While an update is prepared and while the program retires for it, no window holds drafts
\* the update did not ask to save; and until then none it asked is lost unnoticed.
EveryEditorIsDrained ==
  LET editors == {w \in Windows : Live(w) /\ window[w].surface # Pill}
  IN  preparing => editors \subseteq drained /\ (quitting \/ drained \subseteq editors)

\* The pill is on the screen when a dictation or a notice is on, and otherwise if it shall be.
PillShowsState ==
  LET w == owner[Pill]
  IN  w # NoWindow /\ ~quitting => (window[w].painted => window[w].shown = ShouldShow)

\* A dictation never outlives the pill that records it, and never goes on with another.
DictationKeepsItsPill ==
  session = "busy" /\ session' = "busy" => owner[Pill] # NoWindow /\ owner'[Pill] = owner[Pill]

\* A surface lost its window and nothing brings it back by itself.
Abandoned(s) ==
  /\ owner[s] = NoWindow /\ ~preparing /\ ~quitting
  /\ \A t \in queue : t.surface # s

\* Only a window that came by itself and never loaded stays away.
Returns(s) ==
  LET ofs == {w \in Windows : window[w].surface = s}
      last  == CHOOSE w \in ofs : \A v \in ofs : v <= w
  IN  Abandoned(s) /\ ofs # {} => ~window[last].loaded /\ window[last].of # NoWindow

\* Settings and Notes come back after a failure, also one while an update is prepared.
EditorsReturn == \A s \in Editors : Returns(s)

\* So does the pill, without which nothing can be dictated (main.ts:836).
PillReturns == Returns(Pill)

=============================================================================
