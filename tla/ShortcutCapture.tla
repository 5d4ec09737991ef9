---------------------------- MODULE ShortcutCapture ----------------------------
(***************************************************************************)
(* Recording a shortcut: the recorders of the settings window              *)
(* (renderer/settings/components/ShortcutRecorder.tsx) and the capture of  *)
(* the main process (beginCapture, endCapture and shortcuts:update).  The  *)
(* calls of the window arrive in the order they were made, and so do their *)
(* answers; the calls that follow an answer are made with it.              *)
(*                                                                         *)
(* An attempt is one recording; an attempt that ends releases the capture  *)
(* of the main process, after its own beginCapture was answered.           *)
(*                                                                         *)
(* A definition whose comment starts with "Mistake" is a plausible wrong   *)
(* version of the one after it; no specification uses it.                  *)
(***************************************************************************)
EXTENDS Naturals, Sequences

CONSTANTS
  Recorders,   \* of the window: one for each shortcut
  MaxAttempts, \* bound on the captureId of a recorder
  MayFail      \* whether macOS can refuse to suspend the shortcuts

CaptureAssumption == MaxAttempts \in Nat /\ MayFail \in BOOLEAN

Attempts == 1..MaxAttempts

VARIABLES
  captureId,  \* per recorder
  capturing,  \* capturingRef
  validating,
  begin,      \* per attempt: startPromise
  ending,     \* per attempt: endNativeCapture() and what follows it
  calls,      \* to the main process
  answers,    \* to the window
  captureActive,
  timedOut    \* the main process ended the capture by itself

vars == <<captureId, capturing, validating, begin, ending, calls, answers, captureActive, timedOut>>
refs == <<captureId, capturing, validating>>

Calls == [call : {"begin", "end", "accept"}, by : Recorders, attempt : Attempts]

TypeOK ==
  /\ captureId \in [Recorders -> 0..MaxAttempts + 1]
  /\ {capturing, validating} \subseteq [Recorders -> BOOLEAN]
  /\ begin \in [Recorders \X Attempts -> {"none", "pending", "ok", "failed"}]
  /\ ending \in [Recorders \X Attempts ->
       [then : {"no", "cancel", "finish"},
        at : {"none", "awaitsBegin", "endSent", "acceptSent", "settled"}]]
  /\ calls \in Seq(Calls)
  /\ \A i \in DOMAIN answers :
       answers[i] \in [call : {"begin", "end", "accept"}, by : Recorders, attempt : Attempts,
                       ok : BOOLEAN]
  /\ {captureActive, timedOut} \subseteq BOOLEAN

Init ==
  /\ captureId = [r \in Recorders |-> 0]
  /\ capturing = [r \in Recorders |-> FALSE] /\ validating = [r \in Recorders |-> FALSE]
  /\ begin = [p \in Recorders \X Attempts |-> "none"]
  /\ ending = [p \in Recorders \X Attempts |-> [then |-> "no", at |-> "none"]]
  /\ calls = <<>> /\ answers = <<>> /\ captureActive = FALSE /\ timedOut = FALSE

-----------------------------------------------------------------------------
(* The window *)

Call(what, r, a) == [call |-> what, by |-> r, attempt |-> a]

BeginSettled(r, a) == begin[<<r, a>>] \in {"ok", "failed"}

\* endNativeCapture()
EndNative(r, a, then) ==
  IF BeginSettled(r, a)
  THEN /\ ending' = [ending EXCEPT ![<<r, a>>] = [then |-> then, at |-> "endSent"]]
       /\ calls' = Append(calls, Call("end", r, a))
  ELSE /\ ending' = [ending EXCEPT ![<<r, a>>] = [then |-> then, at |-> "awaitsBegin"]]
       /\ UNCHANGED calls

\* Clicking a recorder takes the focus from the other one, which cancels it.
StartCapture(r) ==
  /\ ~validating[r] /\ \A o \in Recorders : ~capturing[o]
  /\ captureId[r] < MaxAttempts
  /\ captureId' = [captureId EXCEPT ![r] = @ + 1]
  /\ capturing' = [capturing EXCEPT ![r] = TRUE]
  /\ begin' = [begin EXCEPT ![<<r, captureId[r] + 1>>] = "pending"]
  /\ calls' = Append(calls, Call("begin", r, captureId[r] + 1))
  /\ UNCHANGED <<validating, ending, answers, captureActive, timedOut>>

\* Escape, a second click, lost focus, or a recorder that is taken away.
CancelCapture(r) ==
  /\ capturing[r]
  /\ capturing' = [capturing EXCEPT ![r] = FALSE]
  /\ captureId' = [captureId EXCEPT ![r] = @ + 1]
  /\ EndNative(r, captureId[r], "cancel")
  /\ UNCHANGED <<validating, begin, answers, captureActive, timedOut>>

\* A key of the new shortcut is released.
FinishCapture(r) ==
  /\ capturing[r]
  /\ capturing' = [capturing EXCEPT ![r] = FALSE]
  /\ validating' = [validating EXCEPT ![r] = TRUE]
  /\ EndNative(r, captureId[r], "finish")
  /\ UNCHANGED <<captureId, begin, answers, captureActive, timedOut>>

\* Mistake: a refused beginCapture does not invalidate its attempt.
StillValid(r, a, ok) == captureId[r]
\* Mistake: it invalidates whichever attempt there is.
InvalidatesAny(r, a, ok) == IF ok THEN captureId[r] ELSE captureId[r] + 1
Invalidated(r, a, ok) == IF ~ok /\ captureId[r] = a THEN a + 1 ELSE captureId[r]

BeginAnswered(r, a, ok) ==
  /\ begin' = [begin EXCEPT ![<<r, a>>] = IF ok THEN "ok" ELSE "failed"]
  /\ captureId' = [captureId EXCEPT ![r] = Invalidated(r, a, ok)]
  /\ capturing' = [capturing EXCEPT ![r] = @ /\ (ok \/ captureId[r] # a)]
  /\ IF ending[<<r, a>>].at = "awaitsBegin"
     THEN /\ ending' = [ending EXCEPT ![<<r, a>>].at = "endSent"]
          /\ calls' = Append(calls, Call("end", r, a))
     ELSE UNCHANGED <<ending, calls>>
  /\ UNCHANGED validating

\* Mistake: an attempt that became invalid stays busy.
BusyForever(r, a) == validating
NoLongerBusy(r, a) == [validating EXCEPT ![r] = FALSE]

EndAnswered(r, a) ==
  /\ IF ending[<<r, a>>].then = "finish" /\ captureId[r] = a
     THEN /\ ending' = [ending EXCEPT ![<<r, a>>].at = "acceptSent"]
          /\ calls' = Append(calls, Call("accept", r, a))
          /\ UNCHANGED validating
     ELSE /\ ending' = [ending EXCEPT ![<<r, a>>].at = "settled"]
          /\ validating' = IF ending[<<r, a>>].then = "finish" THEN NoLongerBusy(r, a) ELSE validating
          /\ UNCHANGED calls
  /\ UNCHANGED <<captureId, capturing, begin>>

AcceptAnswered(r, a) ==
  /\ ending' = [ending EXCEPT ![<<r, a>>].at = "settled"]
  /\ validating' = [validating EXCEPT ![r] = FALSE]
  /\ UNCHANGED <<captureId, capturing, begin, calls>>

Answered ==
  /\ answers # <<>>
  /\ answers' = Tail(answers)
  /\ LET m == Head(answers) IN
     \/ m.call = "begin" /\ BeginAnswered(m.by, m.attempt, m.ok)
     \/ m.call = "end" /\ EndAnswered(m.by, m.attempt)
     \/ m.call = "accept" /\ AcceptAnswered(m.by, m.attempt)
  /\ UNCHANGED <<captureActive, timedOut>>

-----------------------------------------------------------------------------
(* The main process *)

\* Mistake: an answered attempt leaves the capture of the main process.
LeavesCapture(active) == active
EndsCapture(active) == FALSE

Handle ==
  /\ calls # <<>>
  /\ calls' = Tail(calls)
  /\ LET m == Head(calls) IN
     \E ok \in BOOLEAN :
       /\ ok \/ (m.call = "begin" /\ MayFail /\ ~captureActive)
             \/ (m.call = "accept" /\ captureActive)
       /\ m.call = "accept" => ok = ~captureActive
       /\ answers' = Append(answers, [call |-> m.call, by |-> m.by, attempt |-> m.attempt,
                                      ok |-> ok])
       /\ captureActive' = CASE m.call = "begin" -> ok
                             [] m.call = "end" -> EndsCapture(captureActive)
                             [] m.call = "accept" -> captureActive
       /\ timedOut' = (timedOut /\ ~(m.call = "begin" /\ ok))
  /\ UNCHANGED <<refs, begin, ending>>

\* CAPTURE_TIMEOUT_MS
CaptureTimerFires ==
  /\ captureActive
  /\ captureActive' = FALSE /\ timedOut' = TRUE
  /\ UNCHANGED <<refs, begin, ending, calls, answers>>

-----------------------------------------------------------------------------
Next ==
  \/ \E r \in Recorders : StartCapture(r) \/ CancelCapture(r) \/ FinishCapture(r)
  \/ Answered \/ Handle \/ CaptureTimerFires

Spec == Init /\ [][Next]_vars

\* Calls are handled and answers arrive.
FairSpec == Spec /\ WF_vars(Handle) /\ WF_vars(Answered)

-----------------------------------------------------------------------------
(* Properties *)

\* "apply a shortcut that was never captured exclusively": what is saved was
\* recorded by an attempt whose capture began (finishCapture).
SavedWasCaptured ==
  \A p \in Recorders \X Attempts : ending[p].at = "acceptSent" => begin[p] = "ok"

\* When everything has been answered and nobody records, the shortcuts work
\* again, though the timer did nothing (endNativeCapture).
ReleasedAtRest ==
  calls = <<>> /\ answers = <<>> /\ (\A r \in Recorders : ~capturing[r]) => ~captureActive

\* "Ignore keyboard input while a renderer records a new shortcut": a recorder
\* whose capture began has it until it ends, or until the timeout.
CapturesAlone ==
  \A r \in Recorders :
    capturing[r] /\ begin[<<r, captureId[r]>>] = "ok" => captureActive \/ timedOut

\* With one recorder, what it recorded is never refused for its own capture
\* (reconfigure: "Finish recording the shortcut before saving it.").
NeverRefusesItself ==
  \A i \in DOMAIN answers : answers[i].call = "accept" => answers[i].ok

\* "keep the recorder's busy state paired even when an awaited capture step
\* races": the recorder can be used again.
BusyEnds == \A r \in Recorders : validating[r] ~> ~validating[r]
=============================================================================
