----------------------------- MODULE SafeInsertion -----------------------------
(***************************************************************************)
(* The insertion coordinator of the main process                           *)
(* (src/main/insertion/safeInsertion.ts and serialTaskQueue.ts) against    *)
(* the two things it shares with every other program: the clipboard and    *)
(* the keyboard focus.                                                     *)
(*                                                                         *)
(* The coordinator sees both only through a helper process that it spawns  *)
(* once per question.  A question takes two steps, the helper's look at    *)
(* the world and the continuation that gets to act on what it saw, and     *)
(* everything else may happen in between.                                  *)
(*                                                                         *)
(* The clipboard is the sequence of all it ever held: its last element is  *)
(* its content and its length the system's change count.  A dictation's    *)
(* text is named by the insertion that carries it.                         *)
(*                                                                         *)
(* A definition whose comment starts with "Mistake" is a plausible wrong   *)
(* version of the one after it; no specification uses it.                  *)
(***************************************************************************)
EXTENDS Integers, Sequences

CONSTANTS
  Insertions,      \* calls of insert(), each with the text it carries
  UserCopies,      \* what the user and other programs put on the clipboard
  Unrestorable,    \* those with a format the adapter cannot write back
  Apps, Windows, Controls,
  Together,        \* applications with a window of theirs and a control in it
  Lapses,          \* what the helper may fail to see of a place
  Injections,      \* what the injector may say of a posted key event
  NoTarget, Hidden, Mixed,
  MaxGeneration,   \* bound on begun and cancelled sessions
  MaxSequence      \* bound on the change count when others copy

ASSUME InsertionAssumption ==
  /\ Lapses \subseteq SUBSET {"window", "control", "editable", "cold"}
  /\ Injections \subseteq {"injected", "acknowledging"}
  /\ Insertions \intersect UserCopies = {}
  /\ Mixed \notin Insertions \union UserCopies
  /\ Hidden \notin Windows \union Controls
  /\ MaxGeneration \in Nat
  /\ MaxSequence \in Nat

\* The controls the focus can be in.
Places ==
  {place \in [app : Apps, window : Windows, control : Controls] :
     {place.app, place.window, place.control} \in Together}

VARIABLES
  captureGeneration,
  activeSessionGeneration,
  pendingTarget,        \* generation whose target promise is pending, or none
  capturedTargetAppId,
  capture,              \* each generation's target promise
  stage,                \* the await each insertion is suspended at
  bound,                \* what insert() bound each insertion to
  local,                \* its local variables and the answer it waits for
  outcome,              \* what its promise resolved to
  queue,                \* insertions behind the one that runs
  keystroke,            \* fate of the Command-V each insertion asked for
  clipboard,            \* all the system clipboard ever held
  focus                 \* the control the keyboard goes to

sessionVars == <<captureGeneration, activeSessionGeneration, pendingTarget,
                 capturedTargetAppId, capture>>
taskVars    == <<stage, bound, local, outcome, queue>>
worldVars   == <<clipboard, focus>>
vars        == <<sessionVars, taskVars, keystroke, worldVars>>

\* All but `capture' and the name it gives the application.
notCapture == <<captureGeneration, activeSessionGeneration, pendingTarget,
                taskVars, keystroke, worldVars>>

-----------------------------------------------------------------------------
NoGeneration == -1    \* null as a session's generation
NoPromise    == 0     \* null as a target promise; generations start at 1
NoSequence   == 0     \* a failed sequence read; the change count starts at 1

Generations == 1 .. MaxGeneration
Contents    == UserCopies \union Insertions

\* What the helper reports of a place: `editable' is false when it is unknown
\* too, and `cold' says that the report came out of activating the
\* application's accessibility tree.
Sightings == [app : Apps, window : Windows \union {Hidden},
              control : Controls \union {Hidden}, editable : BOOLEAN, cold : BOOLEAN]

\* The awaits of insert().  "snapshotting" is the synchronous snapshot, which
\* other programs, though no other callback, can interrupt.
Running == {"target", "before", "snapshotting", "after", "written", "recheck",
            "beforePaste", "pasting", "acknowledging", "beforeRestore"}
Stages  == Running \union {"new", "queued", "done"}

\* How far the helper is with a paste.
PasteSteps == {"asked", "matched", "cleared", "failed", "thrown", "injected",
               "acknowledging"}

\* "invalidated" is a result of "copied" for the reason session_invalidated.
Outcomes == {"none", "copied", "invalidated", "pasted-with-copy", "pasted"}

Captures == [stage  : {"none", "first", "firstSeen", "second", "secondSeen",
                       "resolved", "settled"},
             first  : Sightings \union {NoTarget},
             target : Sightings \union {NoTarget}]

Bindings == [generation : {NoGeneration} \union (0 .. MaxGeneration),
             target     : {NoPromise} \union Generations,
             autoPaste  : BOOLEAN]

Locals == [answered : BOOLEAN, read : Nat, before : Nat, written : Nat,
           snapshot : Contents \union {Mixed},
           current  : Sightings \union {NoTarget},
           paste    : PasteSteps]

SessionTypeOK ==
  /\ captureGeneration \in 0 .. MaxGeneration
  /\ activeSessionGeneration \in {NoGeneration} \union (0 .. MaxGeneration)
  /\ pendingTarget \in {NoPromise} \union Generations
  /\ capturedTargetAppId \in Apps \union {NoTarget}
  /\ capture \in [Generations -> Captures]

TaskTypeOK ==
  /\ stage \in [Insertions -> Stages]
  /\ bound \in [Insertions -> Bindings]
  /\ local \in [Insertions -> Locals]
  /\ outcome \in [Insertions -> Outcomes]
  /\ queue \in Seq(Insertions)

WorldTypeOK ==
  /\ keystroke \in [Insertions -> {"none", "posted", "consumed"}]
  /\ clipboard \in Seq(Contents \union {Mixed}) /\ clipboard # <<>>
  /\ focus \in Places

TypeOK == SessionTypeOK /\ TaskTypeOK /\ WorldTypeOK

Fresh == [answered |-> FALSE, read |-> NoSequence, before |-> NoSequence,
          written |-> NoSequence, snapshot |-> Mixed, current |-> NoTarget,
          paste |-> "asked"]

Init ==
  /\ captureGeneration = 0
  /\ activeSessionGeneration = 0
  /\ pendingTarget = NoPromise
  /\ capturedTargetAppId = NoTarget
  /\ capture = [g \in Generations |->
                  [stage |-> "none", first |-> NoTarget, target |-> NoTarget]]
  /\ stage = [i \in Insertions |-> "new"]
  /\ bound = [i \in Insertions |->
                [generation |-> NoGeneration, target |-> NoPromise, autoPaste |-> FALSE]]
  /\ local = [i \in Insertions |-> Fresh]
  /\ outcome = [i \in Insertions |-> "none"]
  /\ queue = <<>>
  /\ keystroke = [i \in Insertions |-> "none"]
  /\ \E c \in UserCopies : clipboard = <<c>>
  /\ focus \in Places

changeCount == Len(clipboard)
Content     == clipboard[Len(clipboard)]

\* No callback of the main process runs while it takes a snapshot.
MainFree == \A i \in Insertions : stage[i] # "snapshotting"

-----------------------------------------------------------------------------
(* Targets *)

\* What the helper may report when the focus is at `place'.
Sees(place) ==
  {NoTarget} \union
  { [app      |-> place.app,
     window   |-> IF "window" \in l THEN Hidden ELSE place.window,
     control  |-> IF "control" \in l THEN Hidden ELSE place.control,
     editable |-> "editable" \notin l,
     cold     |-> "cold" \in l] : l \in Lapses }

initialTargetUsable(t) ==
  t # NoTarget /\ t.editable /\ t.window # Hidden /\ t.control # Hidden

ShouldRetryCold(t) == t # NoTarget /\ t.cold

\* Mistake: the activation-derived observation may name another window.
sameCaptureAnchorAnyWindow(first, second) ==
  /\ second # NoTarget
  /\ first.app = second.app
  /\ first.window # Hidden
  /\ first.control \in {Hidden, second.control}

sameCaptureAnchor(first, second) ==
  /\ second # NoTarget
  /\ first.app = second.app
  /\ first.window # Hidden /\ first.window = second.window
  /\ first.control \in {Hidden, second.control}

\* Mistake: the same window is good enough.
sameTargetAnyControl(expected, t) ==
  /\ t # NoTarget
  /\ t.editable
  /\ expected.app = t.app
  /\ expected.window = t.window

sameTarget(expected, t) ==
  /\ t # NoTarget
  /\ t.editable
  /\ expected.app = t.app
  /\ expected.window = t.window
  /\ expected.control = t.control

\* Mistake: the observation keeps the control it happened to report.
WithAuthority(t) == t

WithoutAuthority(t) == [t EXCEPT !.editable = FALSE, !.control = Hidden]

isCurrentSession(g) ==
  /\ g # NoGeneration
  /\ g = captureGeneration
  /\ g = activeSessionGeneration

-----------------------------------------------------------------------------
(* Sessions and their target capture *)

beginSession ==
  /\ MainFree
  /\ captureGeneration < MaxGeneration
  /\ captureGeneration' = captureGeneration + 1
  /\ activeSessionGeneration' = captureGeneration + 1
  /\ capturedTargetAppId' = NoTarget
  /\ pendingTarget' = captureGeneration + 1
  /\ capture' = [capture EXCEPT ![captureGeneration + 1].stage = "first"]
  /\ UNCHANGED <<taskVars, keystroke, worldVars>>

\* Mistake: cancelling takes the session's generation back.
generationTakenBack == captureGeneration - 1

generationAfterCancel == captureGeneration + 1

cancelSession ==
  /\ MainFree
  /\ captureGeneration < MaxGeneration
  /\ captureGeneration' = generationAfterCancel
  /\ activeSessionGeneration' = NoGeneration
  /\ pendingTarget' = NoPromise
  /\ capturedTargetAppId' = NoTarget
  /\ UNCHANGED <<capture, taskVars, keystroke, worldVars>>

\* The helper looks at the focus for a target promise.
HelperSees(g) ==
  /\ \E t \in Sees(focus) :
       \/ /\ capture[g].stage = "first"
          /\ capture' = [capture EXCEPT ![g].stage = "firstSeen", ![g].first = t]
       \/ /\ capture[g].stage = "second"
          /\ capture' = [capture EXCEPT ![g].stage = "secondSeen", ![g].target = t]
  /\ UNCHANGED <<capturedTargetAppId, notCapture>>

Resolve(g, t) == capture' = [capture EXCEPT ![g].stage = "resolved", ![g].target = t]

FirstCapture(g) ==
  /\ MainFree
  /\ capture[g].stage = "firstSeen"
  /\ LET first == capture[g].first IN
       \/ ~isCurrentSession(g) /\ Resolve(g, NoTarget)
       \/ isCurrentSession(g) /\ ~ShouldRetryCold(first) /\ Resolve(g, first)
       \/ /\ isCurrentSession(g) /\ ShouldRetryCold(first)
          /\ capture' = [capture EXCEPT ![g].stage = "second"]
  /\ UNCHANGED <<capturedTargetAppId, notCapture>>

SecondCapture(g) ==
  /\ MainFree
  /\ capture[g].stage = "secondSeen"
  /\ LET first == capture[g].first  second == capture[g].target IN
       \/ ~isCurrentSession(g) /\ Resolve(g, NoTarget)
       \/ /\ isCurrentSession(g) /\ ~sameCaptureAnchor(first, second)
          /\ Resolve(g, WithoutAuthority(first))
       \/ /\ isCurrentSession(g) /\ sameCaptureAnchor(first, second) /\ ShouldRetryCold(second)
          /\ Resolve(g, WithoutAuthority(second))
       \/ /\ isCurrentSession(g) /\ sameCaptureAnchor(first, second) /\ ~ShouldRetryCold(second)
          /\ Resolve(g, second)
  /\ UNCHANGED <<capturedTargetAppId, notCapture>>

AppOf(t) == IF t = NoTarget THEN NoTarget ELSE t.app

\* Mistake: a capture that resolves late still names the application.
NameTargetUnchecked(g) ==
  /\ MainFree
  /\ capture[g].stage = "resolved"
  /\ capture' = [capture EXCEPT ![g].stage = "settled"]
  /\ capturedTargetAppId' = AppOf(capture[g].target)
  /\ UNCHANGED notCapture

\* The `then' of the target promise.
NameTarget(g) ==
  /\ MainFree
  /\ capture[g].stage = "resolved"
  /\ capture' = [capture EXCEPT ![g].stage = "settled"]
  /\ capturedTargetAppId' = IF isCurrentSession(g) THEN AppOf(capture[g].target)
                            ELSE capturedTargetAppId
  /\ UNCHANGED notCapture

-----------------------------------------------------------------------------
(* insert() *)

Current(i) == isCurrentSession(bound[i].generation)
Expected(i) == capture[bound[i].target].target

\* Suspends i at its next await.
Await(i, s, l) ==
  /\ stage' = [stage EXCEPT ![i] = s]
  /\ local' = [local EXCEPT ![i] = [l EXCEPT !.answered = FALSE]]
  /\ UNCHANGED <<bound, outcome>>

Finish(i, o) ==
  /\ stage' = [stage EXCEPT ![i] = "done"]
  /\ outcome' = [outcome EXCEPT ![i] = o]
  /\ local' = [local EXCEPT ![i] = Fresh]
  /\ UNCHANGED bound

Writes(text) == clipboard' = Append(clipboard, text)

\* Leaves the text for the user to paste.
CopyOnly(i) == Writes(i) /\ Finish(i, "copied")

insert(i, autoPaste) ==
  /\ MainFree
  /\ stage[i] = "new"
  /\ bound' = [bound EXCEPT ![i] = [generation |-> activeSessionGeneration,
                                    target |-> pendingTarget,
                                    autoPaste |-> autoPaste]]
  /\ pendingTarget' = NoPromise
  /\ stage' = [stage EXCEPT ![i] = "queued"]
  /\ queue' = Append(queue, i)
  /\ UNCHANGED <<captureGeneration, activeSessionGeneration, capturedTargetAppId,
                 capture, local, outcome, keystroke, worldVars>>

\* Mistake: the next insertion does not wait for the one that runs.
QueueIgnored == TRUE

QueueIdle == \A j \in Insertions : stage[j] \notin Running

\* The serial queue runs its oldest task once the one before has settled.
Start(i) ==
  /\ MainFree /\ QueueIdle
  /\ queue # <<>> /\ i = Head(queue)
  /\ queue' = Tail(queue)
  /\ \/ ~Current(i) /\ Finish(i, "invalidated") /\ UNCHANGED clipboard
     \/ Current(i) /\ (~bound[i].autoPaste \/ bound[i].target = NoPromise) /\ CopyOnly(i)
     \/ /\ Current(i) /\ bound[i].autoPaste /\ bound[i].target # NoPromise
        /\ Await(i, "target", Fresh) /\ UNCHANGED clipboard
  /\ UNCHANGED <<sessionVars, keystroke, focus>>

\* The await `s' of i has settled and its continuation may run.
Resumes(i, s) ==
  /\ MainFree
  /\ stage[i] = s
  /\ IF s = "target" THEN capture[bound[i].target].stage = "settled"
                     ELSE local[i].answered

\* Mistake: a continuation does not check its session again.
ContinuesUnchecked(i, s) == Resumes(i, s)

Continues(i, s) == Resumes(i, s) /\ Current(i)

\* An await settled after the session was cancelled or replaced.
SessionInvalidated(i) ==
  /\ ~Current(i)
  /\ \/ /\ \E s \in {"target", "before", "after", "written", "recheck",
                     "beforePaste", "pasting"} : Resumes(i, s)
        /\ local[i].paste # "thrown"
        /\ Finish(i, "invalidated")
     \/ Resumes(i, "beforeRestore") /\ Finish(i, "pasted-with-copy")
  /\ UNCHANGED <<sessionVars, queue, keystroke, worldVars>>

TargetCaptured(i) ==
  /\ Continues(i, "target")
  /\ \/ ~initialTargetUsable(Expected(i)) /\ CopyOnly(i)
     \/ /\ initialTargetUsable(Expected(i))
        /\ Await(i, "before", local[i]) /\ UNCHANGED clipboard
  /\ UNCHANGED <<sessionVars, queue, keystroke, focus>>

\* The snapshot starts with the first format it reads.
SnapshotStarts(i) ==
  /\ Continues(i, "before")
  /\ Await(i, "snapshotting",
           [local[i] EXCEPT !.before = local[i].read, !.snapshot = Content])
  /\ UNCHANGED <<sessionVars, queue, keystroke, worldVars>>

\* It throws, or ends up mixed if another program copied meanwhile.
SnapshotEnds(i) ==
  /\ stage[i] = "snapshotting"
  /\ \/ CopyOnly(i)
     \/ /\ Await(i, "after", [local[i] EXCEPT
             !.snapshot = IF Content = local[i].snapshot THEN Content ELSE Mixed])
        /\ UNCHANGED clipboard
  /\ UNCHANGED <<sessionVars, queue, keystroke, focus>>

\* Mistake: it is enough that both reads succeeded.
stableThoughChanged(l) == NoSequence \notin {l.before, l.read}

stable(l) == l.read # NoSequence /\ l.read = l.before

SequenceAfterSnapshot(i) ==
  /\ Continues(i, "after")
  /\ \/ ~stable(local[i]) /\ CopyOnly(i)
     \/ /\ stable(local[i])
        /\ Writes(i)
        /\ Await(i, "written", [local[i] EXCEPT !.before = local[i].read])
  /\ UNCHANGED <<sessionVars, queue, keystroke, focus>>

\* Mistake: any later count shows that the text was written.
clipboardAdvanced(before, after) == after > before

clipboardAdvancedExactlyOnce(before, after) == after = before + 1

SequenceAfterWrite(i) ==
  /\ Continues(i, "written")
  /\ \/ /\ ~clipboardAdvancedExactlyOnce(local[i].before, local[i].read)
        /\ Finish(i, "copied")
     \/ /\ clipboardAdvancedExactlyOnce(local[i].before, local[i].read)
        /\ Await(i, "recheck", [local[i] EXCEPT !.written = local[i].read])
  /\ UNCHANGED <<sessionVars, queue, keystroke, worldVars>>

TargetRechecked(i) ==
  /\ Continues(i, "recheck")
  /\ Await(i, "beforePaste", local[i])
  /\ UNCHANGED <<sessionVars, queue, keystroke, worldVars>>

SequenceBeforePaste(i) ==
  /\ Continues(i, "beforePaste")
  /\ LET unchanged == /\ sameTarget(Expected(i), local[i].current)
                      /\ local[i].read = local[i].written
     IN \/ ~unchanged /\ Finish(i, "copied")
        \/ unchanged /\ Await(i, "pasting", local[i])
  /\ UNCHANGED <<sessionVars, queue, keystroke, worldVars>>

\* Mistake: a helper that timed out is taken to have pasted.
unacknowledgedOutcomeHopeful(answer) ==
  IF answer = "thrown" THEN "copied" ELSE "pasted-with-copy"

unacknowledgedOutcome(answer) ==
  IF answer = "injected" THEN "pasted-with-copy" ELSE "copied"

PasteAnswered(i) ==
  /\ Resumes(i, "pasting")
  /\ Current(i) \/ local[i].paste = "thrown"
  /\ \/ /\ local[i].paste # "acknowledging"
        /\ Finish(i, unacknowledgedOutcome(local[i].paste))
     \/ /\ local[i].paste = "acknowledging"
        /\ Await(i, "acknowledging", local[i])
  /\ UNCHANGED <<sessionVars, queue, keystroke, worldVars>>

\* Mistake: a target that got the key event counts as having read.
hasReadOnceSent(i) == TRUE

hasRead(i) == keystroke[i] = "consumed"

\* The target acknowledged that it has read the clipboard.
Acknowledged(i) ==
  /\ MainFree /\ stage[i] = "acknowledging"
  /\ hasRead(i)
  /\ \/ ~Current(i) /\ Finish(i, "pasted-with-copy")
     \/ Current(i) /\ Await(i, "beforeRestore", local[i])
  /\ UNCHANGED <<sessionVars, queue, keystroke, worldVars>>

\* Mistake: the acknowledgement is awaited without a limit.
waitEndsWhenRead(i) == stage[i] = "acknowledging" /\ hasRead(i)

waitEnds(i) == stage[i] = "acknowledging"

\* pasteSettleMs passed first, or the acknowledgement was rejected.
NotAcknowledged(i) ==
  /\ MainFree /\ waitEnds(i)
  /\ Finish(i, "pasted-with-copy")
  /\ UNCHANGED <<sessionVars, queue, keystroke, worldVars>>

SequenceBeforeRestore(i) ==
  /\ Continues(i, "beforeRestore")
  /\ LET restores == /\ local[i].snapshot \notin Unrestorable
                     /\ local[i].read = local[i].written
     IN clipboard' = IF restores THEN Append(clipboard, local[i].snapshot) ELSE clipboard
  /\ Finish(i, "pasted")
  /\ UNCHANGED <<sessionVars, queue, keystroke, focus>>

-----------------------------------------------------------------------------
(* The helper process and the rest of the system *)

\* The helper answers what i awaits, with what it sees now or not at all.
HelperAnswers(i) ==
  /\ ~local[i].answered
  /\ \/ /\ stage[i] \in {"before", "after", "written", "beforePaste", "beforeRestore"}
        /\ \E n \in {NoSequence, changeCount} :
             local' = [local EXCEPT ![i].read = n, ![i].answered = TRUE]
     \/ /\ stage[i] = "recheck"
        /\ \E t \in Sees(focus) :
             local' = [local EXCEPT ![i].current = t, ![i].answered = TRUE]
  /\ UNCHANGED <<sessionVars, stage, bound, outcome, queue, keystroke, worldVars>>

HelperPastes(i, step) ==
  /\ stage[i] = "pasting" /\ ~local[i].answered
  /\ local' = [local EXCEPT ![i].paste = step,
                            ![i].answered = step \notin {"matched", "cleared"}]
  /\ UNCHANGED <<sessionVars, stage, bound, outcome, queue, worldVars>>

\* It looks at the focus one last time before it posts the key event,
HelperMatchesTarget(i) ==
  /\ stage[i] = "pasting" /\ local[i].paste = "asked"
  /\ \E t \in Sees(focus) : sameTarget(Expected(i), t)
  /\ HelperPastes(i, "matched") /\ UNCHANGED keystroke

\* Mistake: the helper posts without reading the change count again.
sequenceUnread(i) == TRUE

sequenceHolds(i) == changeCount = local[i].written

\* then at the clipboard,
HelperClearsSequence(i) ==
  /\ local[i].paste = "matched"
  /\ sequenceHolds(i)
  /\ HelperPastes(i, "cleared") /\ UNCHANGED keystroke

\* and then posts it: the system offers no way to do all three at once.  It may
\* still die before it has reported.
HelperPosts(i) ==
  /\ local[i].paste = "cleared"
  /\ \E answer \in Injections \union {"failed"} : HelperPastes(i, answer)
  /\ keystroke' = [keystroke EXCEPT ![i] = "posted"]

\* A check failed, the helper died or timed out first, or the injector threw.
HelperPasteFails(i) ==
  /\ \E answer \in {"failed", "thrown"} : HelperPastes(i, answer)
  /\ UNCHANGED keystroke

\* The target handles the key event and reads the clipboard.
Consume(i) ==
  /\ keystroke[i] = "posted"
  /\ keystroke' = [keystroke EXCEPT ![i] = "consumed"]
  /\ UNCHANGED <<sessionVars, taskVars, worldVars>>

\* The user or another program copies something.
OthersCopy(c) ==
  /\ changeCount < MaxSequence
  /\ clipboard' = Append(clipboard, c)
  /\ UNCHANGED <<sessionVars, taskVars, keystroke, focus>>

FocusMoves(place) ==
  /\ focus' = place
  /\ UNCHANGED <<sessionVars, taskVars, keystroke, clipboard>>

-----------------------------------------------------------------------------
Capturing(g) ==
  HelperSees(g) \/ FirstCapture(g) \/ SecondCapture(g) \/ NameTarget(g)

Inserting(i) ==
  \/ Start(i) \/ SessionInvalidated(i)
  \/ TargetCaptured(i) \/ SnapshotStarts(i) \/ SnapshotEnds(i)
  \/ SequenceAfterSnapshot(i) \/ SequenceAfterWrite(i)
  \/ TargetRechecked(i) \/ SequenceBeforePaste(i) \/ PasteAnswered(i)
  \/ Acknowledged(i) \/ NotAcknowledged(i) \/ SequenceBeforeRestore(i)

Helping(i) ==
  \/ HelperAnswers(i)
  \/ HelperMatchesTarget(i) \/ HelperClearsSequence(i)
  \/ HelperPosts(i) \/ HelperPasteFails(i)

World ==
  \/ \E c \in UserCopies : OthersCopy(c)
  \/ \E place \in Places : FocusMoves(place)
  \/ \E i \in Insertions : Consume(i)

Next ==
  \/ beginSession
  \/ cancelSession
  \/ \E i \in Insertions, autoPaste \in BOOLEAN : insert(i, autoPaste)
  \/ \E g \in Generations : Capturing(g)
  \/ \E i \in Insertions : Inserting(i) \/ Helping(i)
  \/ World

Spec == Init /\ [][Next]_vars

\* Callbacks run, every helper is spawned with a timeout, and the wait for an
\* acknowledgement has a timer.  Nothing is assumed of the world.
Fairness ==
  /\ \A g \in Generations : WF_vars(Capturing(g))
  /\ \A i \in Insertions : WF_vars(Inserting(i)) /\ WF_vars(Helping(i))

FairSpec == Spec /\ Fairness

-----------------------------------------------------------------------------
(* Properties *)

\* insert() past its check of the clipboard write, with an answer about the
\* target still to come or already used.
Verified == {"recheck", "beforePaste", "pasting", "acknowledging", "beforeRestore"}

\* Once insert() has accepted the change count after its write, that count
\* stands for its own text, not for a copy another program slipped in: the
\* comparisons before the paste and before the restore rest on it.
VerifiedWriteIsOurs ==
  \A i \in Insertions : stage[i] \in Verified =>
    local[i].written \in 1 .. Len(clipboard) /\ clipboard[local[i].written] = i

\* What insert() may put back is exactly what its own write replaced, neither
\* a mixture nor something older, whatever was copied around the snapshot.
SnapshotIsWhatWasReplaced ==
  \A i \in Insertions : stage[i] \in Verified =>
    /\ local[i].written > 1
    /\ local[i].snapshot = clipboard[local[i].written - 1]

\* targetAppId(), which picks the user's profile, names the application the
\* current session captured, never one a cancelled or replaced session saw.
NamedAppIsCurrent ==
  capturedTargetAppId # NoTarget =>
    /\ captureGeneration \in Generations
    /\ isCurrentSession(captureGeneration)
    /\ capture[captureGeneration].stage = "settled"
    /\ capture[captureGeneration].target # NoTarget
    /\ capturedTargetAppId = capture[captureGeneration].target.app

\* A report that came out of activating an application's accessibility tree
\* never entitles to a paste: what does was seen without activation, in the
\* application and window the first look found.
ColdCaptureHasNoAuthority ==
  \A i \in Insertions : stage[i] \in Running \ {"target"} =>
    LET c == capture[bound[i].target] IN
      /\ c.target # NoTarget /\ ~c.target.cold
      /\ c.target.app = c.first.app
      /\ c.target.window = c.first.window

\* What insert() reports happened: a paste was posted, and for "pasted" also
\* read; after "copied" or "pasted-with-copy" the text has been on the
\* clipboard, and this insertion has not taken it back.
OutcomeIsTrue ==
  \A i \in Insertions :
    /\ outcome[i] \in {"pasted", "pasted-with-copy"} => keystroke[i] # "none"
    /\ outcome[i] = "pasted" => keystroke[i] = "consumed"
    /\ outcome[i] \notin {"none", "invalidated"} =>
         \E n \in 1 .. Len(clipboard) : clipboard[n] = i

\* What a running insertion took for the user's own clipboard may be an earlier
\* dictation left there, but never one that is still being inserted: its own
\* restore, or ours, would then bring back the wrong content.
SnapshotsNoPendingDictation ==
  \A i, j \in Insertions :
    i # j /\ stage[i] \in Running /\ local[i].snapshot = j => stage[j] = "done"

\* A dictation that was cancelled or replaced changes the clipboard no more
\* and asks for no paste, at whichever await it was suspended.
OnlyCurrentSessionActs ==
  [][\A i \in Insertions :
       (stage'[i] # stage[i] /\ (clipboard' # clipboard \/ stage'[i] = "pasting"))
         => Current(i)]_vars

\* An insertion whose session has ended is never taken for a current one
\* again, however many sessions begin and end afterwards.
EndedSessionStaysEnded ==
  [][\A i \in Insertions : stage[i] # "new" /\ ~Current(i) => ~Current(i)']_vars

\* The helper lets a paste through only while the focus is in the control
\* captured when this dictation, not another, began.
PasteGoesWhereDictationBegan ==
  [][\A i \in Insertions :
       (local'[i].paste = "matched" /\ local[i].paste # "matched") =>
         /\ bound[i].target = bound[i].generation
         /\ Expected(i).app = focus.app
         /\ Expected(i).window = focus.window
         /\ Expected(i).control = focus.control]_vars

\* At the helper's last look the clipboard holds the dictation to be pasted.
PasteSeesOwnText ==
  [][\A i \in Insertions :
       (local'[i].paste = "cleared" /\ local[i].paste # "cleared") => Content = i]_vars

\* The user's clipboard comes back only after the target has read the
\* dictation, so that the target cannot paste the user's content instead.
RestoresOnlyConsumed ==
  [][\A i \in Insertions :
       (stage[i] = "beforeRestore" /\ stage'[i] # stage[i] /\ clipboard' # clipboard) =>
         /\ keystroke[i] = "consumed"
         /\ Content' = clipboard[local[i].written - 1]]_vars

\* Every insertion resolves, whatever the helper, the target and the sessions
\* do: the queue behind it is never stuck.
InsertionsSettle ==
  \A i \in Insertions : stage[i] = "queued" ~> stage[i] = "done"

-----------------------------------------------------------------------------
(* The inductive invariant behind the safety properties *)

\* Only the newest generation is ever active, and what the coordinator, an
\* insertion or a target promise refers to is that one or an older one.
GenerationsAgree ==
  /\ activeSessionGeneration \in {NoGeneration, captureGeneration}
  /\ pendingTarget # NoPromise => pendingTarget = activeSessionGeneration
  /\ \A g \in Generations : g > captureGeneration => capture[g].stage = "none"
  /\ \A i \in Insertions :
       /\ bound[i].generation <= captureGeneration
       /\ bound[i].target <= captureGeneration
       /\ bound[i].target # NoPromise => bound[i].target = bound[i].generation

\* A resolved target that could authorize a paste was seen without activation
\* and in the window of the first look.
UsableTargetsAreWarm ==
  \A g \in Generations :
    LET c == capture[g] IN
    c.stage \in {"resolved", "settled"} /\ initialTargetUsable(c.target) =>
      /\ c.first # NoTarget /\ ~c.target.cold
      /\ c.target.app = c.first.app
      /\ c.target.window = c.first.window

\* An insertion past its target's promise holds a usable target.
TargetIsSettled(i) ==
  stage[i] \in Running =>
    /\ bound[i].target # NoPromise
    /\ stage[i] # "target" => /\ capture[bound[i].target].stage = "settled"
                              /\ initialTargetUsable(Expected(i))

OneRuns ==
  \A i, j \in Insertions : stage[i] \in Running /\ stage[j] \in Running => i = j

\* The queue holds insertions that have not started, each of them once.
QueueHoldsWaiting ==
  /\ \A n \in 1 .. Len(queue) : stage[queue[n]] = "queued"
  /\ \A m, n \in 1 .. Len(queue) : queue[m] = queue[n] => m = n

\* Text on the clipboard, or in a snapshot, is that of an insertion which has
\* written it.
TextsComeFromWriters ==
  /\ \A n \in 1 .. Len(clipboard) : clipboard[n] \in Insertions =>
       stage[clipboard[n]] \in Verified \union {"written", "done"}
  /\ \A i \in Insertions :
       stage[i] \in Running /\ local[i].snapshot \in Insertions =>
         stage[local[i].snapshot] = "done"

\* As long as no count was read that says otherwise, the snapshot is what the
\* clipboard held at the count read before it.
SnapshotIsBracketed(i) ==
  LET l == local[i] IN
  /\ l.before <= Len(clipboard) /\ l.read <= Len(clipboard)
  /\ stage[i] = "snapshotting" => (l.before = Len(clipboard) => l.snapshot = Content)
  /\ stage[i] = "after" /\ ~l.answered =>
       (l.before = Len(clipboard) => l.snapshot = Content)
  /\ stage[i] = "after" /\ l.answered /\ stable(l) => l.snapshot = clipboard[l.before]
  /\ stage[i] = "written" =>
       /\ l.before > 0 /\ l.snapshot = clipboard[l.before]
       /\ \E n \in l.before + 1 .. Len(clipboard) : clipboard[n] = i
       /\ l.answered /\ l.read = l.before + 1 => clipboard[l.read] = i

\* A key event was posted before anything is reported or awaited about it.
KeystrokeIsPosted(i) ==
  /\ stage[i] \notin {"pasting", "acknowledging", "beforeRestore"}
       => local[i].paste = "asked"
  /\ stage[i] = "pasting" /\ local[i].paste \in {"injected", "acknowledging"}
       => keystroke[i] # "none"
  /\ stage[i] = "acknowledging" => keystroke[i] # "none"
  /\ stage[i] = "beforeRestore" => keystroke[i] = "consumed"

\* Nothing runs between the start of a snapshot and its end.
SnapshotIsCurrent(i) == stage[i] = "snapshotting" => Current(i)

InsertionInvariant ==
  /\ GenerationsAgree /\ UsableTargetsAreWarm
  /\ OneRuns /\ QueueHoldsWaiting /\ TextsComeFromWriters
  /\ \A i \in Insertions : /\ TargetIsSettled(i) /\ SnapshotIsBracketed(i)
                           /\ KeystrokeIsPosted(i) /\ SnapshotIsCurrent(i)

\* What one insertion promises in every state, together: a verified write is still its
\* own text, the snapshot is what the text replaced, no snapshot holds the text of a
\* dictation that is not settled, and the outcome says what happened.
InsertionSafety ==
  /\ VerifiedWriteIsOurs /\ SnapshotIsWhatWasReplaced
  /\ SnapshotsNoPendingDictation /\ OutcomeIsTrue

=============================================================================
