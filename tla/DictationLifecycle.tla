-------------------------- MODULE DictationLifecycle --------------------------
(***************************************************************************)
(* What LocalScribe promises the user about each dictation, without any    *)
(* window, worker, timer or handler: at most one is open, it is delivered  *)
(* at most once, an ended one stays ended, and stopping always ends it.    *)
(***************************************************************************)
CONSTANT Dictations

VARIABLE phase

Phases == {"new", "recording", "processing", "delivered", "ended"}
Open   == {"recording", "processing"}

TypeOK == phase \in [Dictations -> Phases]

Init == phase = [d \in Dictations |-> "new"]

Move(d, from, to) == phase[d] \in from /\ phase' = [phase EXCEPT ![d] = to]

Begin(d)   == Move(d, {"new"}, "recording") /\ \A e \in Dictations : phase[e] \notin Open
Stop(d)    == Move(d, {"recording"}, "processing")
Deliver(d) == Move(d, {"processing"}, "delivered")

\* Cancelled, failed, or refused before it could record.
End(d)     == Move(d, Open \union {"new"}, "ended")

Next == \E d \in Dictations : Begin(d) \/ Stop(d) \/ Deliver(d) \/ End(d)

Spec == Init /\ [][Next]_phase

\* A stopped dictation is carried to one end or the other.
Finish(d) == phase[d] = "processing" /\ (Deliver(d) \/ End(d))

FairSpec == Spec /\ \A d \in Dictations : WF_phase(Finish(d))
=============================================================================
