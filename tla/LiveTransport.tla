----------------------------- MODULE LiveTransport -----------------------------
(***************************************************************************)
(* LivePcmTransport (src/shared/liveAudioTransport.ts) for one recording,  *)
(* as AudioRecorder uses it: frames are offered while the microphone is    *)
(* open, stop() offers the encoder's last frame and finishes, a failure or *)
(* a cancellation aborts the sink.  A frame is its sequence number.        *)
(*                                                                         *)
(* drain() awaits one write at a time; its continuation, the finally that  *)
(* clears `draining' and the finish() that awaits it run in one task.      *)
(*                                                                         *)
(* A definition whose comment starts with "Mistake" is a plausible wrong   *)
(* version of the one after it; no specification uses it.                  *)
(***************************************************************************)
EXTENDS Integers, Sequences, TLAPS

CONSTANTS
  MaxPending, \* maxPendingFrames
  MaxFrames   \* bound: frames of the recording

ASSUME TransportAssumption == MaxPending \in Nat \ {0} /\ MaxFrames \in Nat

VARIABLES
  sequence,  \* frames accepted by offer()
  queue,
  writing,   \* the frame in sink.write(), or None
  phase,     \* of the recorder: "recording", "ending" (finish() awaits the
             \* queue), "finishing" (sink.finish()), "broken" (the error is on
             \* its way to cancelLiveTransport()), "done"
  cancelled, failure,
  received,  \* the frames the sink accepted
  sink       \* "open", "finished" or "aborted"

vars == <<sequence, queue, writing, phase, cancelled, failure, received, sink>>

None == -1
draining == writing # None

TypeOK ==
  /\ sequence \in Nat /\ queue \in Seq(Nat) /\ writing \in Nat \union {None}
  /\ phase \in {"recording", "ending", "finishing", "broken", "done"}
  /\ cancelled \in BOOLEAN /\ failure \in BOOLEAN
  /\ received \in Seq(Nat) /\ sink \in {"open", "finished", "aborted"}

Init ==
  /\ sequence = 0 /\ queue = <<>> /\ writing = None /\ phase = "recording"
  /\ cancelled = FALSE /\ failure = FALSE /\ received = <<>> /\ sink = "open"

-----------------------------------------------------------------------------
\* Mistake: the bound is checked after the frame was queued.
RoomAfter == Len(queue) <= MaxPending
Room == Len(queue) < MaxPending

\* Mistake: a second drain starts beside the first.
EnqueuedTwice == queue' = queue /\ writing' = sequence

\* ensureDrain(): an idle transport writes the frame at once.
Enqueued ==
  IF draining
  THEN queue' = Append(queue, sequence) /\ UNCHANGED writing
  ELSE writing' = Head(Append(queue, sequence)) /\ queue' = Tail(Append(queue, sequence))

\* Mistake: the sink of a failed recording is in a state of its own.
FailsMarked ==
  /\ failure' = TRUE /\ queue' = <<>> /\ cancelled' = TRUE
  /\ sink' = "failed" /\ phase' = "done"

\* fail() while the microphone is open: failCapture() cancels the transport.
FailsRecording ==
  /\ failure' = TRUE /\ queue' = <<>> /\ cancelled' = TRUE
  /\ sink' = "aborted" /\ phase' = "done"

Offer ==
  /\ phase = "recording" /\ sequence < MaxFrames
  /\ IF Room
     THEN sequence' = sequence + 1 /\ Enqueued /\ UNCHANGED <<phase, cancelled, failure, sink>>
     ELSE FailsRecording /\ UNCHANGED <<sequence, writing>>
  /\ UNCHANGED received

\* stop(): what is left in the encoder, then finish(), which awaits the drain.
\* A frame that finds the queue full fails the recording after its last word.
Finish ==
  /\ phase = "recording"
  /\ \/ phase' = "ending" /\ UNCHANGED <<sequence, queue, writing, failure>>
     \/ /\ sequence < MaxFrames /\ Room
        /\ sequence' = sequence + 1 /\ Enqueued /\ phase' = "ending" /\ UNCHANGED failure
     \/ /\ sequence < MaxFrames /\ ~Room
        /\ failure' = TRUE /\ queue' = <<>> /\ phase' = "broken" /\ UNCHANGED <<sequence, writing>>
  /\ UNCHANGED <<cancelled, received, sink>>

\* Mistake: a failed write is skipped.
WriteSkipped == UNCHANGED <<failure, cancelled, sink, phase>>

\* Mistake: a failed write ends the recording and leaves the sink.
WriteForgets == failure' = TRUE /\ phase' = "done" /\ UNCHANGED <<cancelled, sink>>

\* fail(): once, and only what is not cancelled.
WriteFailed ==
  CASE cancelled \/ failure   -> UNCHANGED <<failure, cancelled, sink, phase>>
    [] phase = "recording"    -> failure' = TRUE /\ cancelled' = TRUE /\ sink' = "aborted" /\ phase' = "done"
    [] OTHER                  -> failure' = TRUE /\ phase' = "broken" /\ UNCHANGED <<cancelled, sink>>

\* Mistake: the drain goes on after a cancellation.
DrainOn ==
  IF queue # <<>> THEN writing' = Head(queue) /\ queue' = Tail(queue)
  ELSE writing' = None /\ UNCHANGED queue

\* The next frame of drain(), unless there is none or it is over.
DrainNext ==
  IF queue # <<>> /\ ~cancelled' /\ ~failure'
  THEN writing' = Head(queue) /\ queue' = Tail(queue)
  ELSE writing' = None /\ queue' = IF cancelled' \/ failure' THEN <<>> ELSE queue

WriteEnds ==
  /\ draining
  /\ \/ /\ received' = Append(received, writing)
        /\ UNCHANGED <<failure, cancelled, sink, phase>>
     \/ UNCHANGED received /\ WriteFailed
  /\ DrainNext
  /\ UNCHANGED sequence

\* Mistake: finish() does not await the drain.
FinishAtOnce == TRUE
Drained == ~draining

\* finish() goes on to sink.finish() when the drain is over.
FinishContinues ==
  /\ phase = "ending" /\ Drained
  /\ phase' = "finishing"
  /\ UNCHANGED <<sequence, queue, writing, cancelled, failure, received, sink>>

\* sink.finish() answers; a recording that failed meanwhile is not finished.
SinkFinishes ==
  /\ phase = "finishing"
  /\ \/ phase' = "done" /\ sink' = "finished"
     \/ phase' = "broken" /\ UNCHANGED sink
  /\ UNCHANGED <<sequence, queue, writing, cancelled, failure, received>>

\* stopInternal() cancels the transport of a recording that failed at its end.
BreakAborts ==
  /\ phase = "broken"
  /\ cancelled' = TRUE /\ queue' = <<>> /\ sink' = "aborted" /\ phase' = "done"
  /\ UNCHANGED <<sequence, writing, failure, received>>

\* The dictation is cancelled, or the capture fails, or it is too short.
Cancel ==
  /\ phase = "recording"
  /\ cancelled' = TRUE /\ queue' = <<>> /\ sink' = "aborted" /\ phase' = "done"
  /\ UNCHANGED <<sequence, writing, failure, received>>

Next ==
  \/ Offer \/ Finish \/ WriteEnds \/ FinishContinues \/ SinkFinishes \/ BreakAborts \/ Cancel

Spec == Init /\ [][Next]_vars

\* Promises of the sink settle, and stop() continues when they do.
FairSpec ==
  Spec /\ WF_vars(WriteEnds) /\ WF_vars(FinishContinues) /\ WF_vars(SinkFinishes)
       /\ WF_vars(BreakAborts)

-----------------------------------------------------------------------------
(* Properties *)

\* "Without ever growing unbounded renderer memory": at most the allowed number
\* of frames waits, beside the one being written.
Bounded == Len(queue) <= MaxPending

\* What waits, after what is written, is what was accepted and not yet sent, in
\* order and without a gap, as long as the recording has not failed.
OnItsWay == (IF draining THEN <<writing>> ELSE <<>>) \o queue
NothingLost ==
  ~cancelled /\ ~failure =>
    /\ Len(received) + Len(OnItsWay) = sequence
    /\ \A i \in DOMAIN OnItsWay : OnItsWay[i] = Len(received) + i - 1

\* The sink gets a prefix of the frames, each once and in order.
InOrder == \A i \in DOMAIN received : received[i] = i - 1

\* "Rather than dropping speech and falsely presenting an incomplete transcript
\* as final": the sink is finished only when it has every frame.
WholeWhenFinished == sink = "finished" => Len(received) = sequence

\* A finished or aborted sink is never used again by anything but the write
\* that was on its way.
NothingAfterwards == [][sink # "open" => sink' = sink /\ writing' \in {writing, None}]_vars

\* A recording that was stopped or that failed finishes or aborts its sink.
SinkSettles == phase # "recording" ~> sink # "open"

Stream == INSTANCE FrameStream WITH
  taken <- sequence,
  outcome <- CASE sink = "finished" -> "whole" [] sink = "aborted" \/ failure -> "broken" [] OTHER -> "open"

\* The transport implements FrameStream.
ImplementsStream == Stream!Spec

-----------------------------------------------------------------------------
(* Proofs: for every bound on the queue, the transport keeps its types and  *)
(* its bound, loses nothing while it has not failed, hands the sink a       *)
(* prefix in order, finishes it only with every frame, and implements       *)
(* FrameStream.                                                             *)

\* How the phase, the sink and the queue go together.
Phases ==
  /\ phase \in {"recording", "ending", "finishing"} => sink = "open" /\ ~cancelled /\ ~failure
  /\ phase = "finishing" => ~draining
  /\ phase = "broken" => sink = "open"
  /\ sink = "finished" => phase = "done" /\ ~draining /\ ~cancelled /\ ~failure
  /\ sink = "aborted" => cancelled
  /\ ~draining => queue = <<>>

\* What is written is the next frame the sink misses, also after a failure.
WritesNext == draining => writing = Len(received) /\ Len(received) < sequence

\* The queue holds the frames behind it.
QueuesRest ==
  ~cancelled /\ ~failure =>
    /\ sequence = Len(received) + Len(queue) + (IF draining THEN 1 ELSE 0)
    /\ \A i \in 1..Len(queue) : queue[i] = Len(received) + i

Inv == TypeOK /\ Bounded /\ Phases /\ WritesNext /\ QueuesRest /\ InOrder /\ WholeWhenFinished

-----------------------------------------------------------------------------
LEMMA EmptyQueue == <<>> \in Seq(Nat) /\ Len(<<>>) = 0 /\ Len(<<>>) <= MaxPending
BY TransportAssumption

LEMMA InvInit == Init => Inv
<1> SUFFICES ASSUME Init PROVE Inv  OBVIOUS
<1>1. TypeOK /\ Bounded  BY EmptyQueue DEF Init, TypeOK, Bounded, None
<1>2. ~draining  BY DEF Init, draining
<1>3. 1..Len(<<>>) = {} /\ DOMAIN <<>> = {}  OBVIOUS
<1>4. Phases /\ WritesNext  BY <1>2 DEF Init, Phases, WritesNext
<1>5. QueuesRest /\ InOrder /\ WholeWhenFinished
  BY <1>2, <1>3, EmptyQueue DEF Init, QueuesRest, InOrder, WholeWhenFinished
<1> QED  BY <1>1, <1>4, <1>5 DEF Inv

\* A frame that is accepted goes to the end of the queue, or is written.
LEMMA InvEnqueued ==
  ASSUME Inv, phase = "recording", Room, Enqueued, sequence' = sequence + 1,
         phase' \in {"recording", "ending"}, UNCHANGED <<cancelled, failure, received, sink>>
  PROVE  Inv'
<1> USE DEF Inv
<1>1. ~cancelled /\ ~failure /\ sink = "open"  BY DEF Phases
<1>2. CASE draining
  <2>1. queue' = Append(queue, sequence) /\ writing' = writing  BY <1>2 DEF Enqueued
  <2>2. Len(queue') = Len(queue) + 1 /\ \A i \in 1..Len(queue) : queue'[i] = queue[i]
    BY <2>1 DEF TypeOK
  <2>3. queue'[Len(queue) + 1] = sequence  BY <2>1 DEF TypeOK
  <2>4. TypeOK'  BY <2>1 DEF TypeOK
  <2>5. QueuesRest'
    <3>1. sequence = Len(received) + Len(queue) + 1  BY <1>1, <1>2 DEF QueuesRest
    <3>2. draining' /\ Len(queue) \in Nat /\ Len(received) \in Nat
      BY <1>2, <2>1 DEF draining, TypeOK
    <3>3. \A i \in 1..Len(queue') : queue'[i] = Len(received) + i
      <4> TAKE i \in 1..Len(queue')
      <4>1. CASE i = Len(queue) + 1  BY <2>3, <3>1, <3>2, <4>1
      <4>2. CASE i # Len(queue) + 1
        <5>1. i \in 1..Len(queue)  BY <2>2, <3>2, <4>2
        <5> QED  BY <1>1, <2>2, <5>1 DEF QueuesRest
      <4> QED  BY <4>1, <4>2
    <3> QED  BY <2>2, <3>1, <3>2, <3>3 DEF QueuesRest
  <2>6. Bounded'  BY <2>2, TransportAssumption DEF Room, TypeOK, Bounded
  <2>7. Phases' /\ WritesNext' /\ InOrder' /\ WholeWhenFinished'
    BY <1>1, <1>2, <2>1 DEF Phases, WritesNext, InOrder, WholeWhenFinished, draining, TypeOK
  <2> QED  BY <2>4, <2>5, <2>6, <2>7
<1>3. CASE ~draining
  <2>1. queue = <<>>  BY <1>3 DEF Phases
  <2>2. Append(queue, sequence) = <<sequence>>  BY <2>1 DEF TypeOK
  <2>3. queue' = <<>> /\ writing' = sequence  BY <1>3, <2>2 DEF Enqueued, TypeOK
  <2>4. sequence = Len(received)  BY <1>1, <1>3, <2>1 DEF QueuesRest, TypeOK
  <2>5. TypeOK'  BY <2>3 DEF TypeOK
  <2>6. QueuesRest' /\ Bounded'
    <3>1. draining' /\ Len(queue') = 0 /\ 1..Len(queue') = {}
      BY <2>3, EmptyQueue DEF draining, None, TypeOK
    <3>2. sequence' = Len(received') + Len(queue') + 1  BY <2>4, <3>1 DEF TypeOK
    <3> QED  BY <2>3, <3>1, <3>2, EmptyQueue DEF QueuesRest, Bounded
  <2>7. Phases' /\ WritesNext' /\ InOrder' /\ WholeWhenFinished'
    BY <1>1, <2>3, <2>4 DEF Phases, WritesNext, InOrder, WholeWhenFinished, draining, TypeOK, None
  <2> QED  BY <2>5, <2>6, <2>7
<1> QED  BY <1>2, <1>3

\* A recording that fails or is cancelled before it is finished.
LEMMA InvStops ==
  ASSUME Inv, sink = "open", queue' = <<>>, UNCHANGED <<sequence, writing, received>>,
         \/ failure' = TRUE /\ sink' = sink /\ phase' = "broken" /\ UNCHANGED cancelled
         \/ cancelled' = TRUE /\ sink' = "aborted" /\ phase' = "done"
            /\ failure' \in {failure, TRUE}
  PROVE  Inv'
<1> USE DEF Inv
<1>1. TypeOK' /\ Bounded'  BY EmptyQueue DEF TypeOK, Bounded
<1>2. Phases' /\ WritesNext' /\ QueuesRest'
  BY DEF TypeOK, Phases, WritesNext, QueuesRest, draining
<1>3. InOrder' /\ WholeWhenFinished'  BY DEF InOrder, WholeWhenFinished
<1> QED  BY <1>1, <1>2, <1>3

LEMMA InvWriteEnds == Inv /\ WriteEnds => Inv'
<1> SUFFICES ASSUME Inv, WriteEnds PROVE Inv'  OBVIOUS
<1> USE DEF Inv
<1>0. draining /\ writing = Len(received) /\ Len(received) < sequence /\ writing \in Nat
  BY DEF WriteEnds, WritesNext, TypeOK, draining
<1>1. sequence' = sequence  BY DEF WriteEnds
<1>2. sink # "finished" /\ phase # "finishing"  BY <1>0 DEF Phases
<1>3. CASE received' = Append(received, writing) /\ UNCHANGED <<failure, cancelled, sink, phase>>
  <2>1. Len(received') = Len(received) + 1 /\ received' \in Seq(Nat)  BY <1>0, <1>3 DEF TypeOK
  <2>2. InOrder'  BY <1>0, <1>3, <2>1 DEF InOrder, TypeOK
  <2>3. CASE queue # <<>> /\ ~cancelled /\ ~failure
    <3>1. writing' = Head(queue) /\ queue' = Tail(queue)  BY <1>3, <2>3 DEF WriteEnds, DrainNext
    <3>2. /\ Len(queue) \in Nat \ {0} /\ Head(queue) = queue[1] /\ Len(queue') = Len(queue) - 1
          /\ queue' \in Seq(Nat) /\ \A i \in 1..(Len(queue) - 1) : queue'[i] = queue[i + 1]
      BY <2>3, <3>1 DEF TypeOK
    <3>3. queue[1] = Len(received) + 1 /\ sequence = Len(received) + Len(queue) + 1
      BY <1>0, <2>3, <3>2 DEF QueuesRest
    <3>4. writing' = Len(received') /\ writing' \in Nat /\ Len(received') < sequence
      BY <2>1, <3>1, <3>2, <3>3 DEF TypeOK
    <3>5. TypeOK' /\ Bounded'
      BY <1>1, <1>3, <2>1, <3>2, <3>4, TransportAssumption DEF TypeOK, Bounded
    <3>6. QueuesRest'
      <4>1. \A i \in 1..Len(queue') : queue'[i] = Len(received') + i
        <5> TAKE i \in 1..Len(queue')
        <5>1. i + 1 \in 1..Len(queue) /\ i \in 1..(Len(queue) - 1)  BY <3>2
        <5>2. queue[i + 1] = Len(received) + (i + 1)  BY <2>3, <5>1 DEF QueuesRest
        <5> QED  BY <2>1, <3>2, <5>1, <5>2 DEF TypeOK
      <4>2. draining'  BY <3>4 DEF draining, None
      <4> QED  BY <1>1, <2>1, <3>2, <3>3, <4>1, <4>2 DEF QueuesRest, TypeOK
    <3>7. Phases' /\ WritesNext' /\ WholeWhenFinished'
      BY <1>1, <1>2, <1>3, <3>4 DEF Phases, WritesNext, WholeWhenFinished, draining, None
    <3> QED  BY <2>2, <3>5, <3>6, <3>7
  <2>4. CASE ~(queue # <<>> /\ ~cancelled /\ ~failure)
    <3>1. writing' = None /\ queue' = <<>>  BY <1>3, <2>4 DEF WriteEnds, DrainNext
    <3>2. TypeOK' /\ Bounded'
      BY <1>1, <1>3, <2>1, <3>1, TransportAssumption DEF TypeOK, Bounded
    <3>3. QueuesRest'
      BY <1>0, <1>1, <1>3, <2>1, <2>4, <3>1 DEF QueuesRest, TypeOK, draining
    <3>4. Phases' /\ WritesNext' /\ WholeWhenFinished'
      BY <1>1, <1>2, <1>3, <3>1 DEF Phases, WritesNext, WholeWhenFinished, draining
    <3> QED  BY <2>2, <3>2, <3>3, <3>4
  <2> QED  BY <2>3, <2>4
<1>4. CASE UNCHANGED received /\ WriteFailed
  <2>1. cancelled' \/ failure'  BY <1>4 DEF WriteFailed, TypeOK
  <2>2. writing' = None /\ queue' = <<>>  BY <2>1 DEF WriteEnds, DrainNext
  <2>3. TypeOK' /\ Bounded'
    <3>1. phase' \in {"recording", "ending", "finishing", "broken", "done"} /\ failure' \in BOOLEAN
          /\ cancelled' \in BOOLEAN /\ sink' \in {"open", "finished", "aborted"}
      BY <1>4 DEF WriteFailed, TypeOK
    <3> QED  BY <1>1, <1>4, <2>2, <3>1, EmptyQueue DEF TypeOK, Bounded
  <2>4. Phases'
    BY <1>2, <1>4, <2>2 DEF Phases, WriteFailed, TypeOK, draining
  <2>5. QueuesRest' /\ WritesNext' /\ InOrder' /\ WholeWhenFinished'
    BY <1>1, <1>2, <1>4, <2>1, <2>2 DEF QueuesRest, WritesNext, InOrder, WholeWhenFinished,
      WriteFailed, draining
  <2> QED  BY <2>3, <2>4, <2>5
<1> QED  BY <1>3, <1>4 DEF WriteEnds

LEMMA InvNext == Inv /\ [Next]_vars => Inv'
<1> SUFFICES ASSUME Inv, [Next]_vars PROVE Inv'  OBVIOUS
<1>1. CASE Offer
  <2>1. CASE Room  BY <1>1, <2>1, InvEnqueued DEF Offer
  <2>2. CASE ~Room  BY <1>1, <2>2, InvStops DEF Offer, FailsRecording, Inv, Phases
  <2> QED  BY <2>1, <2>2
<1>2. CASE Finish
  <2>1. CASE phase' = "ending" /\ UNCHANGED <<sequence, queue, writing, failure>>
    BY <1>2, <2>1 DEF Finish, Inv, TypeOK, Bounded, Phases, WritesNext, QueuesRest, InOrder,
      WholeWhenFinished, draining
  <2>2. CASE Room /\ sequence' = sequence + 1 /\ Enqueued /\ phase' = "ending" /\ UNCHANGED failure
    BY <1>2, <2>2, InvEnqueued DEF Finish
  <2>3. CASE failure' = TRUE /\ queue' = <<>> /\ phase' = "broken" /\ UNCHANGED <<sequence, writing>>
    BY <1>2, <2>3, InvStops DEF Finish, Inv, Phases
  <2> QED  BY <1>2, <2>1, <2>2, <2>3 DEF Finish
<1>3. CASE WriteEnds  BY <1>3, InvWriteEnds
<1>4. CASE FinishContinues
  BY <1>4 DEF FinishContinues, Drained, Inv, TypeOK, Bounded, Phases, WritesNext, QueuesRest,
    InOrder, WholeWhenFinished, draining
<1>5. CASE SinkFinishes
  <2> USE DEF Inv
  <2>1. Len(queue) = 0 /\ ~draining /\ ~cancelled /\ ~failure /\ sink = "open"
    BY <1>5 DEF SinkFinishes, Phases, TypeOK
  <2>2. Len(received) = sequence  BY <2>1 DEF QueuesRest, TypeOK
  <2> QED
    BY <1>5, <2>1, <2>2 DEF SinkFinishes, TypeOK, Bounded, Phases, WritesNext, QueuesRest, InOrder,
      WholeWhenFinished, draining
<1>6. CASE BreakAborts  BY <1>6, InvStops DEF BreakAborts, Inv, Phases
<1>7. CASE Cancel  BY <1>7, InvStops DEF Cancel, Inv, Phases
<1>8. CASE UNCHANGED vars
  BY <1>8 DEF vars, Inv, TypeOK, Bounded, Phases, WritesNext, QueuesRest, InOrder,
    WholeWhenFinished, draining
<1> QED  BY <1>1, <1>2, <1>3, <1>4, <1>5, <1>6, <1>7, <1>8 DEF Next

LEMMA InvAlways == Spec => []Inv
BY InvInit, InvNext, PTL DEF Spec

-----------------------------------------------------------------------------
\* The transport keeps its types, and at most maxPendingFrames frames wait
\* (offer).
THEOREM TransportBounded == Spec => [](TypeOK /\ Bounded)
<1>1. Inv => TypeOK /\ Bounded  BY DEF Inv
<1> QED  BY <1>1, InvAlways, PTL

\* What the sink accepted is a prefix of the frames, and a finished sink has
\* every frame (drain, finish).
THEOREM SinkGetsEverything == Spec => [](InOrder /\ WholeWhenFinished)
<1>1. Inv => InOrder /\ WholeWhenFinished  BY DEF Inv
<1> QED  BY <1>1, InvAlways, PTL

\* No frame is dropped between the microphone and the sink while the recording
\* has not failed (offer, drain).
THEOREM TransportLosesNothing == Spec => []NothingLost
<1>1. Inv => NothingLost
  <2> SUFFICES ASSUME Inv, ~cancelled, ~failure PROVE
        /\ Len(received) + Len(OnItsWay) = sequence
        /\ \A i \in DOMAIN OnItsWay : OnItsWay[i] = Len(received) + i - 1
    BY DEF NothingLost
  <2> USE DEF Inv
  <2>1. CASE draining
    <3>1. Len(OnItsWay) = Len(queue) + 1 /\ DOMAIN OnItsWay = 1..(Len(queue) + 1)
      BY <2>1 DEF OnItsWay, TypeOK
    <3>2. OnItsWay[1] = writing /\ \A i \in 2..(Len(queue) + 1) : OnItsWay[i] = queue[i - 1]
      BY <2>1 DEF OnItsWay, TypeOK
    <3>3. \A i \in DOMAIN OnItsWay : OnItsWay[i] = Len(received) + i - 1
      <4> TAKE i \in DOMAIN OnItsWay
      <4>1. CASE i = 1  BY <2>1, <3>2, <4>1 DEF WritesNext, TypeOK
      <4>2. CASE i # 1
        <5>1. i \in 2..(Len(queue) + 1) /\ i - 1 \in 1..Len(queue)  BY <3>1, <4>2 DEF TypeOK
        <5>2. queue[i - 1] = Len(received) + (i - 1)  BY <5>1 DEF QueuesRest
        <5> QED  BY <3>2, <5>1, <5>2 DEF TypeOK
      <4> QED  BY <4>1, <4>2
    <3> QED  BY <2>1, <3>1, <3>3 DEF QueuesRest, TypeOK
  <2>2. CASE ~draining
    <3>1. queue = <<>>  BY <2>2 DEF Phases
    <3>2. OnItsWay = <<>>  BY <2>2, <3>1 DEF OnItsWay
    <3> QED  BY <2>2, <3>1, <3>2 DEF QueuesRest, TypeOK
  <2> QED  BY <2>1, <2>2
<1> QED  BY <1>1, InvAlways, PTL

\* A sink that was finished or aborted is not used again (cancel, drain).
THEOREM SinkIsLeftAlone == Spec => NothingAfterwards
<1>1. Inv /\ [Next]_vars => [sink # "open" => sink' = sink /\ writing' \in {writing, None}]_vars
  <2> SUFFICES ASSUME Inv, Next, sink # "open" PROVE sink' = sink /\ writing' \in {writing, None}
    OBVIOUS
  <2>1. phase = "done" /\ (sink = "aborted" => cancelled) /\ (sink = "finished" => ~draining)
    BY DEF Inv, Phases, TypeOK
  <2>2. WriteEnds  BY <2>1 DEF Next, Offer, Finish, FinishContinues, SinkFinishes, BreakAborts, Cancel
  <2>3. cancelled  BY <2>1, <2>2 DEF WriteEnds, Inv, TypeOK
  <2>4. cancelled' /\ sink' = sink  BY <2>1, <2>2, <2>3 DEF WriteEnds, WriteFailed
  <2> QED  BY <2>2, <2>4 DEF WriteEnds, DrainNext
<1> QED  BY <1>1, InvAlways, PTL DEF Spec, NothingAfterwards

-----------------------------------------------------------------------------
\* A step of the transport is a step of the stream, or none.
LEMMA StreamStep == Inv /\ [Next]_vars => [Stream!Next]_(Stream!vars)
<1> SUFFICES ASSUME Inv, [Next]_vars PROVE [Stream!Next]_(Stream!vars)  OBVIOUS
<1> USE DEF Stream!Next, Stream!vars, Stream!Take, Stream!Receive, Stream!Complete, Stream!Break
<1>0. phase \in {"recording", "ending", "finishing"} => sink = "open" /\ ~failure  BY DEF Inv, Phases
<1>1. CASE Offer
  BY <1>0, <1>1 DEF Offer, FailsRecording
<1>2. CASE Finish  BY <1>0, <1>2 DEF Finish
<1>3. CASE WriteEnds
  <2>1. draining /\ writing = Len(received) /\ Len(received) < sequence
    BY <1>3 DEF Inv, WritesNext, WriteEnds
  <2>2. sink # "finished"  BY <2>1 DEF Inv, Phases
  <2> QED  BY <1>3, <2>1, <2>2 DEF WriteEnds, WriteFailed, Inv, TypeOK, Phases
<1>4. CASE FinishContinues  BY <1>4 DEF FinishContinues
<1>5. CASE SinkFinishes
  <2>1. Len(received) = sequence
    <3>1. Len(queue) = 0 /\ ~draining /\ ~cancelled /\ ~failure
      BY <1>5 DEF SinkFinishes, Inv, Phases, TypeOK
    <3> QED  BY <3>1 DEF Inv, QueuesRest, TypeOK
  <2> QED  BY <1>0, <1>5, <2>1 DEF SinkFinishes
<1>6. CASE BreakAborts  BY <1>6 DEF BreakAborts, Inv, Phases
<1>7. CASE Cancel  BY <1>0, <1>7 DEF Cancel
<1>8. CASE UNCHANGED vars  BY <1>8 DEF vars
<1> QED  BY <1>1, <1>2, <1>3, <1>4, <1>5, <1>6, <1>7, <1>8 DEF Next

\* LivePcmTransport implements FrameStream: what reaches the sink is what was
\* taken from the microphone, in order, and whole when it is said to be whole.
THEOREM TransportImplementsStream == Spec => ImplementsStream
<1>1. Init => Stream!Init  BY DEF Init, Stream!Init
<1> QED  BY <1>1, StreamStep, InvAlways, PTL DEF Spec, ImplementsStream, Stream!Spec
=============================================================================
