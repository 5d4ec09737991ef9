------------------------------- MODULE MCWorker -------------------------------
(****************************************************************************)
(* The supervisor of the speech worker, with many selections and failures   *)
(* and with Live streams, the worker itself and its helper's windows of     *)
(* live audio. They share no state, so a behaviour of all of them is one of *)
(* each: `part' picks the component that moves, once and for all, and the   *)
(* variables of the others are Off (those of WorkerSupervisor are at their  *)
(* start).                                                                  *)
(****************************************************************************)
EXTENDS WorkerSupervisor

CONSTANTS
  Parts,  \* the components to check, each by itself
  Off     \* the value of the variables of the others

VARIABLES
  part,  \* the component that moves
  \* SpeechWorker
  role, disk, runtime, started, active, resident, stream, loading, reply, given, pieces, faults,
  \* SpeechWindows
  windowsStream, doing, windowsPending, firstWindow, acknowledged, sampleCount, awaited,
  windowsFed, ended, done, lost, reports, answer, losses

OwnArtifact == [m \in Models |-> m]

Speech == INSTANCE SpeechWorker WITH Native <- {"parakeet"}, Embedded <- {"qwen"},
  MaxPieces <- 3, MaxFaults <- 3
Windows == INSTANCE SpeechWindows WITH First <- 5, Advance <- 3, Sizes <- {1, 4, 9},
  MaxUnits <- 14, MaxStreams <- 2, MaxLosses <- 1, stream <- windowsStream,
  pending <- windowsPending, fed <- windowsFed

speechVars == <<role, disk, runtime, started, active, resident, stream, loading, reply, given,
  pieces, faults>>
windowsVars == <<windowsStream, doing, windowsPending, firstWindow, acknowledged, sampleCount,
  awaited, windowsFed, ended, done, lost, reports, answer, losses>>

SpeechOff ==
  /\ role = Off /\ disk = Off /\ runtime = Off /\ started = Off /\ active = Off
  /\ resident = Off /\ stream = Off /\ loading = Off /\ reply = Off /\ given = Off
  /\ pieces = Off /\ faults = Off
WindowsOff ==
  /\ windowsStream = Off /\ doing = Off /\ windowsPending = Off /\ firstWindow = Off
  /\ acknowledged = Off /\ sampleCount = Off /\ awaited = Off /\ windowsFed = Off /\ ended = Off
  /\ done = Off /\ lost = Off /\ reports = Off /\ answer = Off /\ losses = Off

\* Two calls of any kind but a Live session, with every failure.
LifecycleNext == Next /\ UNCHANGED phase

First(S) == CHOOSE x \in S : TRUE

\* Two Live sessions of one model or of two, or one and a readiness check, while no
\* worker misbehaves and no anchor is lost. Models and sessions differ in name only,
\* so the first call is for the first of each.
LiveNext ==
  /\ Next
  /\ Lost' = {} /\ \A p \in Processes : p > 2 => owner'[p] = "none"
  /\ \A i \in DOMAIN queue' :
       /\ queue'[i].kind \notin {"transcribe", "info", "shutdown", "install"}
       /\ queue'[i].model \in LiveModels \union {NoModel}
  /\ calls = 0 => \A i \in DOMAIN queue' : queue'[i].model = First(LiveModels)
  /\ phase[First(Sessions)] = "none" => \A t \in Sessions \ {First(Sessions)} : phase'[t] = "none"
  /\ \A p \in Processes, i \in 1 .. 3 :
       i \in DOMAIN out'[p] => out'[p][i] \notin {"wrong", "violation"}

MCInit ==
  /\ part \in Parts
  /\ \/ part = "lifecycle" /\ Init /\ SpeechOff /\ WindowsOff
     \/ part = "live" /\ Init /\ SpeechOff /\ WindowsOff
     \/ part = "speech" /\ Speech!Init /\ Init /\ WindowsOff
     \/ part = "windows" /\ Windows!Init /\ Init /\ SpeechOff

MCNext ==
  /\ UNCHANGED part
  /\ \/ part = "lifecycle" /\ LifecycleNext /\ UNCHANGED <<speechVars, windowsVars>>
     \/ part = "live" /\ LiveNext /\ UNCHANGED <<speechVars, windowsVars>>
     \/ part = "speech" /\ Speech!Next /\ UNCHANGED <<vars, windowsVars>>
     \/ part = "windows" /\ Windows!Next /\ UNCHANGED <<vars, speechVars>>

MCVars == <<part, vars, speechVars, windowsVars>>
MCSpec == MCInit /\ [][MCNext]_MCVars

-----------------------------------------------------------------------------
ASSUME Speech!WorkerAssumption /\ Windows!WindowsAssumption

\* A worker drops nothing it was given: the final text of a Live session comes from a
\* decoder that heard each of the frames it accepted, and none of another session's
\* (finish_live), a load that is refused before anything was released leaves the warm
\* model loaded, and a worker of a dictation never overwrites a model (worker.py).
NothingIsDropped ==
  /\ [][FinalHearsEveryFrame]_vars
  /\ [][part = "speech" => Speech!RefusedLoadKeepsWarm /\ Speech!InferenceWritesNothing]_speechVars

\* Every open decoder has a session that closes it, and is reset by no other one's
\* cancellation, unless that one's own decoder was gone with its process
\* (workerSupervisor.ts); a transcript is of its own session's audio, from
\* the one model that is loaded (worker.py); the helper's windows of a stream, put
\* together, are the whole of it, whatever reports come late (ParakeetWorkerCore).
TranscriptsAreWhole ==
  /\ part = "live" => TypeOK /\ DecoderHasOwner /\ CancelsOwnDecoder
  /\ part = "speech" => /\ Speech!TypeOK /\ Speech!TextIsOfTheSession
                        /\ Speech!OneModelAtATime /\ Speech!SessionsAgree
  /\ part = "windows" => /\ Windows!TypeOK /\ Windows!FinalIsWhole
                         /\ Windows!OneWindowAtATime /\ Windows!PartialSkipsNothing

=============================================================================
