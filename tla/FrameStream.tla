------------------------------ MODULE FrameStream ------------------------------
(***************************************************************************)
(* What Live dictation promises of the frames of one recording: the sink   *)
(* gets the frames that were taken, each once and in order, and the        *)
(* recording counts as whole only when it got them all                     *)
(* (src/shared/liveAudioTransport.ts: a slow or failed adapter stops       *)
(* capture rather than dropping speech and falsely presenting an           *)
(* incomplete transcript as final).                                        *)
(***************************************************************************)
EXTENDS Naturals, Sequences

VARIABLES
  taken,    \* how many frames of the microphone were taken
  received, \* the sequence numbers the sink accepted
  outcome   \* "open", "whole" or "broken"

vars == <<taken, received, outcome>>

Init == taken = 0 /\ received = <<>> /\ outcome = "open"

Take == outcome = "open" /\ taken' = taken + 1 /\ UNCHANGED <<received, outcome>>

\* A frame on its way when the recording breaks may still arrive.
Receive ==
  /\ Len(received) < taken
  /\ received' = Append(received, Len(received))
  /\ UNCHANGED <<taken, outcome>>

Complete ==
  /\ outcome = "open" /\ Len(received) = taken
  /\ outcome' = "whole" /\ UNCHANGED <<taken, received>>

Break == outcome = "open" /\ outcome' = "broken" /\ UNCHANGED <<taken, received>>

Next == Take \/ Receive \/ Complete \/ Break

Spec == Init /\ [][Next]_vars
=============================================================================
