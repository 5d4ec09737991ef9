----------------------------- MODULE MCDictation -----------------------------
(****************************************************************************)
(* Values to model-check DictationSession with.  Dictation ids are model    *)
(* values and may be permuted where only safety is checked.                 *)
(****************************************************************************)
EXTENDS DictationSession, TLC

Symmetry == Permutations(SessionIds)

\* A bound: model work and a reset are explored around one dictation, and a second
\* dictation without them.
OneMatter ==
  used # SessionIds \/ (modelOps = <<>> /\ opRunning = "none" /\ resetting = "no")

=============================================================================
