---------------------------- MODULE SpeechWindows ----------------------------
(***************************************************************************)
(* Live dictation with the windowed model in the native helper             *)
(* (AdditionalRuntimes.swift, PhononRuntime): audio is collected, given to *)
(* the upstream recognizer a window at a time, and each window waited for. *)
(*                                                                         *)
(* The recognizer is not in the repository: it takes a first window of     *)
(* First units and further ones of Advance, works on them by itself, may   *)
(* fail silently on one, and reports each it has done.  The reports are    *)
(* read by a task of their own and may come late, also after the stream    *)
(* was replaced by a new one.  A unit is the greatest common part of the   *)
(* two sizes, one second.                                                  *)
(*                                                                         *)
(* A definition whose comment starts with "Mistake" is a plausible wrong   *)
(* version of the one after it; no specification uses it.                  *)
(***************************************************************************)
EXTENDS Naturals, Sequences, FiniteSets

CONSTANTS
  First, Advance, \* sizes of the first window and of the others
  Sizes,          \* sizes of an append
  MaxUnits,       \* bound: audio of a stream
  MaxStreams,     \* bound: streams
  MaxLosses       \* bound: windows the recognizer fails on

WindowsAssumption ==
  /\ {First, Advance} \subseteq Nat \ {0} /\ Advance <= First /\ First <= 2 * Advance
  /\ Sizes \subseteq Nat \ {0} /\ {MaxUnits, MaxStreams, MaxLosses} \subseteq Nat

VARIABLES
  stream,       \* generation: the number of the current stream
  doing,        \* the command in progress
  pending,      \* audio collected, not yet given away
  firstWindow,
  acknowledged,
  sampleCount,
  awaited,      \* the number of reports waited for
  fed,          \* audio the recognizer has, of this stream
  ended,        \* whether it was told that this is all
  done,         \* windows it has worked on
  lost,         \* those of them it failed on
  reports,      \* reports under way, by the stream they are of
  answer, losses

counts == <<pending, firstWindow, acknowledged, sampleCount>>
engine == <<fed, ended, done, lost>>
vars   == <<stream, doing, counts, awaited, engine, reports, answer, losses>>

Ceiling(n) == (n + Advance - 1) \div Advance

\* The windows that the recognizer can work on: it looks ahead past each one
\* until it is told that no more follows.
Ready == IF ended THEN Ceiling(fed)
         ELSE IF fed < First THEN 0 ELSE 1 + (fed - First) \div Advance

TypeOK ==
  /\ stream \in 0 .. MaxStreams /\ doing \in {"none", "append", "window", "finish", "acknowledged", "failed"}
  /\ sampleCount \in 0 .. MaxUnits /\ pending + fed \in {sampleCount, sampleCount + Advance, sampleCount + First}
  /\ done <= Ready /\ acknowledged + lost + reports[stream] = done
  /\ answer \in {"none", "partial", "final", "error"}

Init ==
  /\ stream = 0 /\ doing = "none" /\ pending = 0 /\ firstWindow = TRUE /\ acknowledged = 0 /\ sampleCount = 0
  /\ awaited = 0 /\ fed = 0 /\ ended = FALSE /\ done = 0 /\ lost = 0
  /\ reports = [s \in 0 .. MaxStreams |-> 0] /\ answer = "none" /\ losses = 0

-----------------------------------------------------------------------------
(* The commands: reset() opens a stream, append() and finish() follow.     *)

\* Mistake: a new stream counts on from the old one.
CountOn    == acknowledged' = acknowledged
CountAnew  == acknowledged' = 0

Reset ==
  /\ doing \in {"none", "failed"} /\ stream < MaxStreams /\ stream' = stream + 1 /\ doing' = "none"
  /\ pending' = 0 /\ firstWindow' = TRUE /\ CountAnew /\ sampleCount' = 0 /\ awaited' = 0
  /\ fed' = 0 /\ ended' = FALSE /\ done' = 0 /\ lost' = 0 /\ answer' = "none"
  /\ UNCHANGED <<reports, losses>>

Append_(n) ==
  /\ stream > 0 /\ doing = "none" /\ ~ ended /\ sampleCount + n <= MaxUnits /\ doing' = "append"
  /\ sampleCount' = sampleCount + n /\ pending' = pending + n /\ answer' = "none"
  /\ UNCHANGED <<stream, firstWindow, acknowledged, awaited, engine, reports, losses>>

Required == IF firstWindow THEN First ELSE Advance

\* Mistake: a window is given away without waiting for the one before.
NoWait   == awaited' = awaited
WaitNext == awaited' = acknowledged + 1

GiveWindow ==
  /\ doing = "append" /\ pending >= Required /\ doing' = "window"
  /\ fed' = fed + Required /\ WaitNext
  /\ UNCHANGED <<stream, counts, ended, done, lost, reports, answer, losses>>

WindowDone ==
  /\ doing = "window" /\ acknowledged >= awaited /\ doing' = "append"
  /\ pending' = pending - Required /\ firstWindow' = FALSE
  /\ UNCHANGED <<stream, acknowledged, sampleCount, awaited, engine, reports, answer, losses>>

AppendAnswers ==
  /\ doing = "append" /\ pending < Required /\ doing' = "none" /\ answer' = "partial"
  /\ UNCHANGED <<stream, counts, awaited, engine, reports, losses>>

\* Mistake: the remaining audio is only flushed when a window is full.
FlushFull == fed' = fed + (pending - (pending % Advance)) /\ pending' = pending % Advance
FlushRest == fed' = fed + pending /\ pending' = 0

\* Mistake: the reports of full windows are enough.
AwaitFull == awaited' = sampleCount \div Advance
AwaitAll  == awaited' = Ceiling(sampleCount)

Finish ==
  /\ stream > 0 /\ doing = "none" /\ ~ ended /\ doing' = "finish" /\ FlushRest /\ ended' = TRUE /\ AwaitAll
  /\ answer' = "none"
  /\ UNCHANGED <<stream, firstWindow, acknowledged, sampleCount, done, lost, reports, losses>>

\* The recognizer's own finish ends when it has worked on every window.
FinishAnswers ==
  /\ doing = "finish" /\ done = Ready /\ acknowledged >= awaited /\ doing' = "none" /\ answer' = "final"
  /\ UNCHANGED <<stream, counts, awaited, engine, reports, losses>>

\* Mistake: only the wait of a finish is limited.
LimitedFinish == {"finish"}
Limited == {"window", "finish"}

\* The wait for a report ends after 30 or 5 seconds.
TimesOut ==
  /\ doing \in Limited /\ acknowledged < awaited /\ doing' = "failed" /\ answer' = "error"
  /\ UNCHANGED <<stream, counts, awaited, engine, reports, losses>>

-----------------------------------------------------------------------------
(* The recognizer and the task that reads its reports.                     *)

Work ==
  /\ done < Ready /\ done' = done + 1
  /\ \/ lost' = lost /\ reports' = [reports EXCEPT ![stream] = @ + 1] /\ losses' = losses
     \/ losses < MaxLosses /\ losses' = losses + 1 /\ lost' = lost + 1 /\ reports' = reports
  /\ UNCHANGED <<stream, doing, counts, awaited, fed, ended, answer>>

\* Mistake: a report counts whatever stream it is of.
AnyStream(s) == TRUE
Current(s) == s = stream

Acknowledge(s) ==
  /\ reports[s] > 0 /\ reports' = [reports EXCEPT ![s] = @ - 1]
  /\ acknowledged' = (IF Current(s) THEN acknowledged + 1 ELSE acknowledged)
  /\ UNCHANGED <<stream, doing, pending, firstWindow, sampleCount, awaited, engine, answer, losses>>

-----------------------------------------------------------------------------

Commands == GiveWindow \/ WindowDone \/ AppendAnswers \/ FinishAnswers \/ TimesOut

Next ==
  \/ Reset \/ Finish \/ Commands \/ Work
  \/ \E n \in Sizes : Append_(n)
  \/ \E s \in 1 .. MaxStreams : Acknowledge(s)

Spec == Init /\ [][Next]_vars /\ WF_vars(Commands)

-----------------------------------------------------------------------------

\* A final text covers all the audio of its stream: every window was worked on
\* and none was lost, whatever reports of the stream before still come.
FinalIsWhole == answer = "final" => fed = sampleCount /\ done = Ceiling(sampleCount) /\ lost = 0

\* At most one window is with the recognizer while audio is collected, and what
\* waits stays below a window and an append.
OneWindowAtATime ==
  /\ ~ ended => Ready <= done + 1
  /\ doing = "none" /\ ~ ended => pending < Required

\* A partial text never skips a window: one that failed ends the append.
PartialSkipsNothing == answer = "partial" => lost = 0

\* Every command is answered, with an error when a report stays away.
EveryCommandIsAnswered == doing \in {"append", "window", "finish"} ~> doing \in {"none", "failed"}

=============================================================================
