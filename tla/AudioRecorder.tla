----------------------------- MODULE AudioRecorder -----------------------------
(***************************************************************************)
(* The microphone: AudioRecorder (src/renderer/audioRecorder.ts) as the    *)
(* pill drives it (src/renderer/pill/Pill.tsx, applySnapshot and           *)
(* startListeningRecorder).  Sessions are numbered, each may start and     *)
(* stop the recorder once; a generation is one acquisition of the          *)
(* microphone.                                                             *)
(*                                                                         *)
(* An action is a task of the renderer's event loop or the continuation of *)
(* an await.  A continuation whose promise has settled (Ready) runs before *)
(* the next task.                                                          *)
(*                                                                         *)
(* A definition whose comment starts with "Mistake" is a plausible wrong   *)
(* version of the one after it; no specification uses it.                  *)
(***************************************************************************)
EXTENDS Naturals, FiniteSets

CONSTANTS
  MaxSessions, MaxGenerations, \* bounds
  Live,        \* the audio streams to a Live decoder
  Patient      \* nobody dictates again while a cancellation is going on

RecorderAssumption ==
  MaxSessions \in Nat \ {0} /\ MaxGenerations \in Nat \ {0} /\ {Live, Patient} \subseteq BOOLEAN

Sessions == 1..MaxSessions
Generations == 1..MaxGenerations

VARIABLES
  state, sid,   \* the session, as the pill knows it
  starts,       \* per session: its call of start()
  acquisitions, \* per generation: startInternal()
  stops,        \* per session: its stopInternal()
  joined,       \* per session: the stop it waits for
  cancelling,   \* the pending cancelInternal()
  rec,          \* the fields of AudioRecorder
  open,         \* the generations whose microphone is open
  sinks,        \* per session: its Live sink
  failing,      \* sessions whose failure is on its way to the main process
  delivered     \* per session: the sessions whose samples were delivered as its audio

ops == <<starts, acquisitions, stops, joined, cancelling>>
vars == <<state, sid, ops, rec, open, sinks, failing, delivered>>

None == 0
NoCancel == [at |-> "none", start |-> None, stop |-> None, cleanup |-> FALSE]

TypeOK ==
  /\ state \in {"idle", "listening", "finalizing", "transcribing"} /\ sid \in 0..MaxSessions
  /\ starts \in [Sessions -> {"none", "opening", "loop", "joined", "done"}]
  /\ acquisitions \in [Generations ->
       [at : {"none", "input", "default", "module", "closing", "ok", "failed"},
        by : 0..MaxSessions, error : {"none", "cancelled", "failed"}]]
  /\ stops \in [Sessions ->
       [at : {"none", "awaitsStart", "closing", "finishing", "aborting", "done"},
        on : 0..MaxGenerations, result : {"none", "audio", "cancelled", "failed"},
        audio : SUBSET Sessions]]
  /\ joined \in [Sessions -> 0..MaxSessions]
  /\ cancelling \in [at : {"none", "awaitsStop", "closing", "awaitsStart", "closingAgain"},
                     start : 0..MaxGenerations, stop : 0..MaxSessions, cleanup : BOOLEAN]
  /\ rec \in [generation : 0..MaxGenerations, context : 0..MaxGenerations,
              stream : 0..MaxGenerations, node : 0..MaxGenerations, chunks : SUBSET Sessions,
              limitError : BOOLEAN, limitSet : BOOLEAN, stopping : BOOLEAN,
              start : 0..MaxGenerations, startPending : 0..MaxGenerations,
              stop : 0..MaxSessions, cleanup : BOOLEAN, live : 0..MaxSessions,
              listener : 0..MaxSessions]
  /\ open \subseteq Generations
  /\ sinks \in [Sessions -> {"none", "open", "closed"}]
  /\ failing \subseteq Sessions /\ delivered \in [Sessions -> SUBSET Sessions]

Init ==
  /\ state = "idle" /\ sid = 0 /\ cancelling = NoCancel /\ open = {} /\ failing = {}
  /\ starts = [s \in Sessions |-> "none"] /\ joined = [s \in Sessions |-> None]
  /\ acquisitions = [g \in Generations |-> [at |-> "none", by |-> None, error |-> "none"]]
  /\ stops = [s \in Sessions |-> [at |-> "none", on |-> None, result |-> "none", audio |-> {}]]
  /\ sinks = [s \in Sessions |-> "none"] /\ delivered = [s \in Sessions |-> {}]
  /\ rec = [generation |-> 0, context |-> None, stream |-> None, node |-> None, chunks |-> {},
            limitError |-> FALSE, limitSet |-> FALSE, stopping |-> FALSE, start |-> None,
            startPending |-> None, stop |-> None, cleanup |-> FALSE, live |-> None,
            listener |-> None]

-----------------------------------------------------------------------------
(* What a settled promise is, and what continues then.                     *)

StartSettled(g) == g # None => acquisitions[g].at \in {"ok", "failed"}
StopSettled(s) == s # None => stops[s].at = "done"
CancelPending == cancelling.at # "none"

MayStart == ~CancelPending /\ rec.stop = None /\ ~rec.cleanup

\* Mistake: a stop waits for the cancellation that waits for it.
StopAfterCancel == ~rec.cleanup /\ ~CancelPending
MayStop == ~rec.cleanup

Ready ==
  \/ \E s \in Sessions : starts[s] = "loop" /\ MayStart
  \/ \E s \in Sessions : starts[s] = "joined" /\ \E g \in Generations :
       acquisitions[g].by = s /\ StartSettled(g)
  \/ \E s \in Sessions :
       stops[s].at = "awaitsStart" /\ StartSettled(stops[s].on) /\ MayStop
  \/ cancelling.at = "awaitsStop" /\ StopSettled(cancelling.stop)
       /\ ~(cancelling.cleanup /\ rec.cleanup)
  \/ cancelling.at = "awaitsStart" /\ StartSettled(cancelling.start)

-----------------------------------------------------------------------------
(* Pieces of the recorder                                                  *)

\* resetCaptureLimit()
LimitReset(r) == [r EXCEPT !.limitError = FALSE, !.limitSet = FALSE, !.listener = None]
Released(r) == [r EXCEPT !.context = None, !.stream = None, !.node = None, !.chunks = {}]

\* resetAfterStop()
AfterStop(r) ==
  LimitReset([Released(r) EXCEPT !.start = None, !.live = None, !.cleanup = FALSE,
                !.stopping = FALSE])

\* Mistake: teardown() leaves the transport alone.
SinkKept == sinks

\* Mistake: the sink is left in a state of its own.
SinkMarked == IF rec.live = None THEN sinks ELSE [sinks EXCEPT ![rec.live] = "aborted"]
SinkAborted == IF rec.live = None THEN sinks ELSE [sinks EXCEPT ![rec.live] = "closed"]

\* Mistake: the tracks of a recorder that is torn down stay open.
StillOpen == open
Closed == open \ {rec.stream}

\* teardown() up to its await, and after it.
Teardown == rec' = [Released(rec) EXCEPT !.live = None] /\ open' = Closed /\ sinks' = SinkAborted
TornDown(r) == [LimitReset(r) EXCEPT !.stopping = FALSE]

-----------------------------------------------------------------------------
(* start(): it waits for what is going on, joins what is there, or acquires. *)

Acquire(s, g) ==
  /\ acquisitions' = [acquisitions EXCEPT ![g] = [at |-> "input", by |-> s, error |-> "none"]]
  /\ rec' = [LimitReset(rec) EXCEPT !.generation = g, !.start = g, !.startPending = g,
               !.chunks = {}, !.live = IF Live THEN s ELSE None, !.listener = s]

StartContinues(s) ==
  /\ starts[s] = "loop" /\ MayStart
  /\ \/ /\ rec.start # None
        /\ starts' = [starts EXCEPT ![s] = "done"] /\ UNCHANGED <<acquisitions, rec>>
     \/ /\ rec.start = None /\ rec.context # None
        /\ starts' = [starts EXCEPT ![s] = "done"] /\ UNCHANGED <<acquisitions, rec>>
     \/ /\ rec.start = None /\ rec.context = None /\ rec.generation < MaxGenerations
        /\ starts' = [starts EXCEPT ![s] = "joined"]
        /\ Acquire(s, rec.generation + 1)
  /\ UNCHANGED <<state, sid, stops, joined, cancelling, open, sinks, failing, delivered>>

Own(s) == CHOOSE g \in Generations : acquisitions[g].by = s

\* handleFailure(): the failure of a session is on its way to the main process.
Fails(s) == failing' = failing \union {s}

\* The pill's start returns or throws: a cancelled one is no failure.
StartReturns(s) ==
  /\ starts[s] = "joined" /\ StartSettled(Own(s))
  /\ starts' = [starts EXCEPT ![s] = "done"]
  /\ IF acquisitions[Own(s)].error = "failed" THEN Fails(s) ELSE UNCHANGED failing
  /\ UNCHANGED <<state, sid, acquisitions, stops, joined, cancelling, rec, open, sinks, delivered>>

Stale(g) == g # rec.generation

\* The acquisition throws: start() tears down before it rejects.
Throws(g, alsoClosed) ==
  /\ rec' = [Released(rec) EXCEPT !.live = None]
  /\ open' = Closed \ alsoClosed /\ sinks' = SinkAborted
  /\ acquisitions' = [acquisitions EXCEPT ![g].at = "closing",
                        ![g].error = IF Stale(g) THEN "cancelled" ELSE "failed"]

\* openInputStream(): the saved device is gone, and the default one is asked for.
FallsBack(g) ==
  /\ acquisitions[g].at = "input" /\ ~Stale(g)
  /\ acquisitions' = [acquisitions EXCEPT ![g].at = "default"]

\* getUserMedia() answers, after a question to the user or at once.
InputAnswered(g) ==
  /\ acquisitions[g].at \in {"input", "default"} /\ ~Ready
  /\ \/ FallsBack(g) /\ UNCHANGED <<rec, open, sinks>>
     \/ Throws(g, {})
     \/ /\ ~Stale(g)
        /\ rec' = [rec EXCEPT !.stream = g, !.context = g]
        /\ open' = open \union {g}
        /\ acquisitions' = [acquisitions EXCEPT ![g].at = "module"]
        /\ UNCHANGED sinks
  /\ UNCHANGED <<state, sid, starts, stops, joined, cancelling, failing, delivered>>

\* addModule() answers.
ModuleAnswered(g) ==
  /\ acquisitions[g].at = "module" /\ ~Ready
  /\ \/ Throws(g, {})
     \/ /\ ~rec.limitError /\ ~Stale(g)
        /\ rec' = [rec EXCEPT !.node = g, !.limitSet = TRUE, !.startPending = None]
        /\ acquisitions' = [acquisitions EXCEPT ![g].at = "ok"]
        /\ UNCHANGED <<open, sinks>>
  /\ UNCHANGED <<state, sid, starts, stops, joined, cancelling, failing, delivered>>

ThrowCloses(g) ==
  /\ acquisitions[g].at = "closing" /\ ~Ready
  /\ acquisitions' = [acquisitions EXCEPT ![g].at = "failed",
                        ![g].error = IF Stale(g) THEN "cancelled" ELSE @]
  /\ rec' = [TornDown(rec) EXCEPT !.start = IF @ = g THEN None ELSE @,
               !.startPending = IF @ = g THEN None ELSE @]
  /\ UNCHANGED <<state, sid, starts, stops, joined, cancelling, open, sinks, failing, delivered>>

-----------------------------------------------------------------------------
(* While it records                                                        *)

\* A callback fails only the listening session that installed it.
Notified == IF state = "listening" /\ rec.listener = sid THEN failing \union {sid} ELSE failing

\* failCapture(): the limit is reached, Live is too slow, or the device is gone.
FailCapture ==
  /\ IF rec.stopping
     THEN rec' = [rec EXCEPT !.limitError = TRUE] /\ UNCHANGED <<open, sinks, failing>>
     ELSE /\ rec' = [Released(rec) EXCEPT !.limitError = TRUE, !.cleanup = TRUE, !.live = None,
                       !.start = IF rec.startPending = None THEN None ELSE @]
          /\ open' = Closed /\ sinks' = SinkAborted
          /\ failing' = Notified

Hears == rec.node # None /\ rec.node = rec.generation /\ rec.context = rec.node

Chunk ==
  /\ Hears /\ ~rec.limitError /\ ~Ready
  /\ \/ /\ rec' = [rec EXCEPT !.chunks = @ \union {acquisitions[rec.context].by}]
        /\ UNCHANGED <<open, sinks, failing>>
     \/ FailCapture
  /\ UNCHANGED <<state, sid, ops, delivered>>

TrackEnds ==
  /\ rec.stream \in open /\ rec.stream = rec.generation /\ ~rec.stopping /\ ~rec.limitError
  /\ ~Ready
  /\ FailCapture
  /\ UNCHANGED <<state, sid, ops, delivered>>

CleanedUp ==
  /\ rec.cleanup /\ ~Ready
  /\ rec' = [rec EXCEPT !.cleanup = FALSE]
  /\ UNCHANGED <<state, sid, ops, open, sinks, failing, delivered>>

-----------------------------------------------------------------------------
(* stop()                                                                  *)

\* What the sessions that wait for a stop do with its result.
Hand(s, result, audio) ==
  LET waits == {w \in Sessions : joined[w] = s}
      now == {w \in waits : state = "finalizing" /\ sid = w}
  IN /\ joined' = [w \in Sessions |-> IF w \in waits THEN None ELSE joined[w]]
     /\ delivered' = [w \in Sessions |->
          IF w \in now /\ result = "audio" THEN audio ELSE delivered[w]]
     /\ failing' = failing \union (IF result = "failed" THEN now ELSE {})
     /\ state' = IF now # {} /\ result = "audio" THEN "transcribing" ELSE state

StopEnds(s, result, audio, r) ==
  /\ stops' = [stops EXCEPT ![s].at = "done", ![s].result = result, ![s].audio = audio]
  /\ rec' = [r EXCEPT !.stop = None]
  /\ Hand(s, result, audio)

StopContinues(s) ==
  /\ stops[s].at = "awaitsStart" /\ StartSettled(stops[s].on) /\ MayStop
  /\ LET g == stops[s].on
         error == IF g = None THEN "none" ELSE acquisitions[g].error
     IN \/ /\ error # "none"
           /\ StopEnds(s, error, {}, rec) /\ UNCHANGED open
        \/ /\ error = "none" /\ rec.limitError
           /\ StopEnds(s, "failed", {}, AfterStop(rec)) /\ UNCHANGED open
        \/ /\ error = "none" /\ ~rec.limitError /\ (rec.context = None \/ rec.stream = None)
           /\ StopEnds(s, "failed", {}, rec) /\ UNCHANGED open
        \/ /\ error = "none" /\ ~rec.limitError /\ rec.context # None /\ rec.stream # None
           /\ rec' = [rec EXCEPT !.stopping = TRUE]
           /\ open' = Closed
           /\ stops' = [stops EXCEPT ![s].at = "closing"]
           /\ UNCHANGED <<joined, delivered, failing, state>>
  /\ UNCHANGED <<sid, starts, acquisitions, cancelling, sinks>>

\* The context is closed, or cannot be; the recording may be too short or silent.
StopCloses(s) ==
  /\ stops[s].at = "closing" /\ ~Ready
  /\ \/ /\ rec.live # None
        /\ stops' = [stops EXCEPT ![s].at = "aborting"]
        /\ rec' = [rec EXCEPT !.live = None] /\ sinks' = SinkAborted
        /\ UNCHANGED <<joined, delivered, failing, state>>
     \/ /\ rec.live = None
        /\ StopEnds(s, "failed", {}, AfterStop(rec)) /\ UNCHANGED sinks
     \/ /\ rec.live # None /\ ~rec.limitError
        /\ stops' = [stops EXCEPT ![s].at = "finishing"]
        /\ UNCHANGED <<rec, joined, delivered, failing, state, sinks>>
     \/ /\ ~Live /\ ~rec.limitError
        /\ StopEnds(s, "audio", rec.chunks, AfterStop(rec)) /\ UNCHANGED sinks
  /\ UNCHANGED <<sid, starts, acquisitions, cancelling, open>>

\* The Live transport is drained and finished, or failed.
StopFinishes(s) ==
  /\ stops[s].at = "finishing" /\ ~Ready
  /\ \/ /\ StopEnds(s, "audio", rec.chunks, AfterStop(rec))
        /\ sinks' = [sinks EXCEPT ![rec.live] = "closed"]
     \/ /\ stops' = [stops EXCEPT ![s].at = "aborting"]
        /\ rec' = [rec EXCEPT !.live = None] /\ sinks' = SinkAborted
        /\ UNCHANGED <<joined, delivered, failing, state>>
  /\ rec.live # None
  /\ UNCHANGED <<sid, starts, acquisitions, cancelling, open>>

StopAborts(s) ==
  /\ stops[s].at = "aborting" /\ ~Ready
  /\ StopEnds(s, "failed", {}, AfterStop(rec))
  /\ UNCHANGED <<sid, starts, acquisitions, cancelling, open, sinks>>

-----------------------------------------------------------------------------
(* cancel(): one that is pending is joined.                                *)

Cancel ==
  \/ CancelPending /\ UNCHANGED <<cancelling, rec>>
  \/ /\ ~CancelPending /\ rec.generation < MaxGenerations
     /\ cancelling' = [at |-> "awaitsStop", start |-> rec.start, stop |-> rec.stop,
                       cleanup |-> rec.cleanup]
     /\ rec' = [rec EXCEPT !.generation = @ + 1]

\* Mistake: a cancellation does not wait for the microphone to be answered.
CancelForgets(c) == None
CancelWaits(c) == c.start

CancelContinues ==
  /\ cancelling.at = "awaitsStop" /\ StopSettled(cancelling.stop)
  /\ ~(cancelling.cleanup /\ rec.cleanup)
  /\ Teardown
  /\ cancelling' = [cancelling EXCEPT !.at = "closing"]
  /\ UNCHANGED <<state, sid, starts, acquisitions, stops, joined, failing, delivered>>

CancelEnds(r) ==
  /\ rec' = [r EXCEPT !.start = IF @ = cancelling.start THEN None ELSE @]
  /\ cancelling' = NoCancel

CancelCloses ==
  /\ cancelling.at \in {"closing", "closingAgain"} /\ ~Ready
  /\ IF cancelling.at = "closing" /\ CancelWaits(cancelling) # None
     THEN rec' = TornDown(rec) /\ cancelling' = [cancelling EXCEPT !.at = "awaitsStart"]
     ELSE CancelEnds(TornDown(rec))
  /\ UNCHANGED <<state, sid, starts, acquisitions, stops, joined, open, sinks, failing, delivered>>

CancelTearsDownAgain ==
  /\ cancelling.at = "awaitsStart" /\ StartSettled(cancelling.start)
  /\ Teardown
  /\ cancelling' = [cancelling EXCEPT !.at = "closingAgain"]
  /\ UNCHANGED <<state, sid, starts, acquisitions, stops, joined, failing, delivered>>

-----------------------------------------------------------------------------
(* The pill                                                                *)

Listen ==
  /\ state \in {"idle", "transcribing"} /\ sid < MaxSessions /\ ~Ready
  /\ Patient => ~CancelPending
  /\ state' = "listening" /\ sid' = sid + 1
  /\ starts' = [starts EXCEPT ![sid + 1] = IF Live THEN "opening" ELSE "loop"]
  /\ UNCHANGED <<acquisitions, stops, joined, cancelling, rec, open, sinks, failing, delivered>>

SinkWanted(s) == state = "listening" /\ sid = s

SinkOpens(s) ==
  /\ starts[s] = "opening" /\ ~Ready
  /\ \/ /\ Fails(s)
        /\ starts' = [starts EXCEPT ![s] = "done"] /\ UNCHANGED sinks
     \/ /\ SinkWanted(s)
        /\ starts' = [starts EXCEPT ![s] = "loop"] /\ sinks' = [sinks EXCEPT ![s] = "open"]
        /\ UNCHANGED failing
     \/ /\ ~SinkWanted(s)
        /\ starts' = [starts EXCEPT ![s] = "done"] /\ sinks' = [sinks EXCEPT ![s] = "closed"]
        /\ UNCHANGED failing
  /\ UNCHANGED <<state, sid, acquisitions, stops, joined, cancelling, rec, open, delivered>>

Finalize ==
  /\ state = "listening" /\ ~Ready
  /\ state' = "finalizing"
  /\ IF rec.stop # None
     THEN joined' = [joined EXCEPT ![sid] = rec.stop] /\ UNCHANGED <<stops, rec>>
     ELSE /\ joined' = [joined EXCEPT ![sid] = sid]
          /\ stops' = [stops EXCEPT ![sid].at = "awaitsStart", ![sid].on = rec.start]
          /\ rec' = [rec EXCEPT !.stop = sid]
  /\ UNCHANGED <<sid, starts, acquisitions, cancelling, open, sinks, failing, delivered>>

\* The session ends: by the user, a failure, the watchdog, or its success.
Leave ==
  /\ state # "idle" /\ ~Ready
  /\ state' = "idle"
  /\ failing' = failing \ {sid}
  /\ IF state = "transcribing" THEN UNCHANGED <<cancelling, rec>> ELSE Cancel
  /\ UNCHANGED <<sid, starts, acquisitions, stops, joined, open, sinks, delivered>>

-----------------------------------------------------------------------------
Continuation ==
  \/ \E s \in Sessions : StartContinues(s) \/ StartReturns(s) \/ StopContinues(s)
  \/ CancelContinues \/ CancelTearsDownAgain

Answer ==
  \/ \E g \in Generations : InputAnswered(g) \/ ModuleAnswered(g) \/ ThrowCloses(g)
  \/ \E s \in Sessions : SinkOpens(s) \/ StopCloses(s) \/ StopFinishes(s) \/ StopAborts(s)
  \/ CancelCloses \/ CleanedUp

Next == Continuation \/ Answer \/ Chunk \/ TrackEnds \/ Listen \/ Finalize \/ Leave

Spec == Init /\ [][Next]_vars

\* Promises of the browser settle: each kind of answer on its own.
FairSpec ==
  /\ Spec
  /\ WF_vars(Continuation)
  /\ \A g \in Generations :
       WF_vars(InputAnswered(g)) /\ WF_vars(ModuleAnswered(g)) /\ WF_vars(ThrowCloses(g))
  /\ \A s \in Sessions : WF_vars(StopCloses(s)) /\ WF_vars(StopFinishes(s)) /\ WF_vars(StopAborts(s))
  /\ WF_vars(CancelCloses) /\ WF_vars(CleanedUp)
  /\ \A s \in Sessions : WF_vars(SinkOpens(s))

-----------------------------------------------------------------------------
(* Properties *)

AtRest ==
  /\ ~CancelPending /\ rec.stop = None /\ ~rec.cleanup
  /\ \A s \in Sessions : starts[s] \in {"none", "done"}

\* "Stop/Cancel release microphone and recorder state": once nothing is going
\* on and nobody dictates, no microphone is open, whatever was pending when the
\* dictation ended.
MicrophoneReleased == AtRest /\ state \in {"idle", "transcribing"} => open = {}

\* A microphone of an older generation is never open beside the current one.
OneMicrophone == Cardinality(open) <= 1

\* Whatever interleaves: an open microphone is the one the recorder has, which its next
\* stop or cancellation closes; and while one of them closes none is open, though a
\* start that it interrupted is still to be answered.
MicrophoneIsHeld ==
  /\ open \subseteq {rec.stream}
  /\ \/ \E s \in Sessions : stops[s].at \in {"closing", "finishing", "aborting"}
     \/ cancelling.at \in {"closing", "awaitsStart", "closingAgain"}
     => open = {}

\* No session is given a mixture of what was said to several.
AudioIsOfOne == \A s \in Sessions : \A a, b \in delivered[s] : a = b

\* "Recorder generations reject stale queued audio": what is delivered as the
\* audio of a session was recorded for it.
AudioIsOwn == \A s \in Sessions : delivered[s] \subseteq {s}

\* A recording that goes on hears: no late teardown of another one has taken
\* its context or its limits (teardown, resetCaptureLimit).
RecordsWhileListening ==
  state = "listening" /\ AtRest /\ sid \notin failing => Hears /\ rec.limitSet

\* Every Live sink that was opened is finished or aborted.
SinksClosed ==
  AtRest => \A s \in Sessions : sinks[s] = "open" => rec.live = s

\* What was asked of the recorder comes to an end.
RecorderSettles ==
  /\ CancelPending ~> ~CancelPending
  /\ \A s \in Sessions : rec.stop = s ~> rec.stop # s
=============================================================================
