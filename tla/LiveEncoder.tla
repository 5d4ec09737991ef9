------------------------------ MODULE LiveEncoder ------------------------------
(***************************************************************************)
(* LivePcmFrameEncoder and StreamingLinearResampler                        *)
(* (src/shared/liveAudioTransport.ts): chunks of any size at the device's  *)
(* rate become frames of a fixed size at the protocol's rate.              *)
(*                                                                         *)
(* The ratio of the rates is rateIn / RateOut, and positions and samples   *)
(* are scaled by RateOut.  The i-th sample the microphone delivers is i    *)
(* (scaled: i * RateOut), so that a linear interpolation returns the       *)
(* position it was taken at.  Clamping and the width of PCM16 are left     *)
(* out.                                                                    *)
(***************************************************************************)
EXTENDS Integers, SequencesExt

CONSTANTS
  RatesIn,         \* input sample rates
  RateOut,         \* AUDIO_SAMPLE_RATE_HZ
  FrameSize,       \* LIVE_AUDIO_FRAME_SAMPLES
  Chunks,          \* the lengths of the chunks of the worklet
  MaxSamples       \* bound: samples of a recording

EncoderAssumption ==
  /\ RatesIn \union {RateOut, FrameSize} \subseteq Nat \ {0} /\ Chunks \subseteq Nat /\ MaxSamples \in Nat

VARIABLES
  rateIn,                       \* the rate the context has
  seen, nextPosition, previous, \* the resampler; nextPosition is scaled
  frame,                        \* the samples of the frame being filled
  frames,                       \* the frames handed out
  finished

vars == <<rateIn, seen, nextPosition, previous, frame, frames, finished>>

Init ==
  /\ rateIn \in RatesIn
  /\ seen = 0 /\ nextPosition = 0 /\ previous = 0 /\ frame = <<>> /\ frames = <<>>
  /\ finished = FALSE

-----------------------------------------------------------------------------
\* Mistake: the sample left of a chunk is taken to be silence.
SampleForgets(i) == IF i < seen THEN 0 ELSE i

\* The sample at index i of the recording, as push() sees it during a chunk.
Sample(i) == IF i < seen THEN previous ELSE i

\* Scaled interpolation at scaled position p.
Interpolated(p) ==
  LET left == p \div RateOut
      fraction == p % RateOut
  IN Sample(left) * (RateOut - fraction) + (left + 1) * fraction

\* Mistake: positions up to the last sample, whose right neighbour is missing.
HorizonPast(end) == end * RateOut
Horizon(end) == (end - 1) * RateOut

\* How many positions of the chunk that ends at end are due.
Due(end) ==
  IF nextPosition < Horizon(end) THEN (Horizon(end) - nextPosition - 1) \div rateIn + 1 ELSE 0

\* StreamingLinearResampler.push(): equal rates pass.
Resampled(n) ==
  IF rateIn = RateOut
  THEN [i \in 1..n |-> (seen + i - 1) * RateOut]
  ELSE [i \in 1..Due(seen + n) |-> Interpolated(nextPosition + (i - 1) * rateIn)]

\* Mistake: a frame that is just full waits for the next sample.
EmittedLate(samples) == (Len(samples) - 1) \div FrameSize
Emitted(samples) == Len(samples) \div FrameSize

\* Mistake: the last frame is handed out as it is.
Unpadded(samples) == samples
Padded(samples) == [i \in 1..FrameSize |-> IF i <= Len(samples) THEN samples[i] ELSE 0]

\* pushSamples()
Framed(samples) ==
  LET all == frame \o samples
      n == Emitted(all)
  IN /\ frames' = frames \o [k \in 1..n |-> SubSeq(all, (k - 1) * FrameSize + 1, k * FrameSize)]
     /\ frame' = SubSeq(all, n * FrameSize + 1, Len(all))

Push(n) ==
  /\ ~finished /\ seen + n <= MaxSamples
  /\ Framed(Resampled(n))
  /\ IF n = 0 \/ rateIn = RateOut
     THEN UNCHANGED <<nextPosition, previous>>
     ELSE nextPosition' = nextPosition + Due(seen + n) * rateIn /\ previous' = seen + n - 1
  /\ seen' = seen + n
  /\ UNCHANGED <<rateIn, finished>>

\* finish(): the last frame is padded with silence.
Finish ==
  /\ ~finished /\ finished' = TRUE
  /\ IF frame = <<>> THEN UNCHANGED frames
     ELSE frames' = Append(frames, Padded(frame))
  /\ frame' = <<>>
  /\ UNCHANGED <<rateIn, seen, nextPosition, previous>>

Next == Finish \/ \E n \in Chunks : Push(n)

Spec == Init /\ [][Next]_vars

-----------------------------------------------------------------------------
(* Properties *)

Heard == FlattenSeq(frames) \o frame

\* What one push of the whole recording returns.
Positions ==
  IF rateIn = RateOut THEN seen
  ELSE Cardinality({k \in 0..(seen * RateOut) : k * rateIn < (seen - 1) * RateOut})

\* "Linear interpolation with sample continuity across worklet messages":
\* however the recording is cut into chunks, the samples handed out are those
\* of the uncut recording, each once, and then silence.
ChunksDoNotMatter ==
  /\ Len(Heard) >= Positions
  /\ \A i \in DOMAIN Heard : Heard[i] = IF i <= Positions THEN (i - 1) * rateIn ELSE 0
  /\ ~finished => Len(Heard) = Positions

\* "The wire contract is fixed-size 20 ms frames": every frame handed out is
\* full, and a full frame does not wait; only the last one has silence in it.
FramesAreFull ==
  /\ \A k \in DOMAIN frames : Len(frames[k]) = FrameSize
  /\ Len(frame) < FrameSize
  /\ finished => Len(Heard) < Positions + FrameSize
=============================================================================
