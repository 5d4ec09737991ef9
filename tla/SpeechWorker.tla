----------------------------- MODULE SpeechWorker -----------------------------
(***************************************************************************)
(* The speech worker's request loop (worker.py, run_worker()), its adapter *)
(* to the native helper (FluidAudioParakeetRuntime) and the helper's loop  *)
(* (NativeSpeechHelper.swift): loading, live dictation, transcription.     *)
(*                                                                         *)
(* Both loops are sequential: the main process's requests are handled one  *)
(* after the other, and the helper answers each command before it reads    *)
(* the next.  A handler is therefore one step, with the outcome of each    *)
(* command to the helper chosen freely: it succeeds, it fails and leaves   *)
(* the native stream in either state, or the helper dies.  A load is three *)
(* steps.  Requests come in any order; the supervisor that orders them is  *)
(* WorkerSupervisor.  Audio is a number, a text the audio it was made of.  *)
(*                                                                         *)
(* A definition whose comment starts with "Mistake" is a plausible wrong   *)
(* version of the one after it; no specification uses it.                  *)
(***************************************************************************)
EXTENDS Naturals, Sequences, FiniteSets

CONSTANTS
  Native,     \* models the helper runs: live or after the stop
  Embedded,   \* models that run in the worker: only after the stop
  MaxPieces,  \* bound: pieces of live audio
  MaxFaults   \* bound: failing commands, deaths, spoilt files

WorkerAssumption == Native \intersect Embedded = {} /\ {MaxPieces, MaxFaults} \subseteq Nat

VARIABLES
  role,      \* what the running worker is for, or "none"
  disk,      \* the state of each model's files
  runtime,   \* the model the worker serves: runtime, active_spec
  started,   \* live_started_at is set
  active,    \* the adapter's _live_active
  resident,  \* the loaded models, in the worker or in a helper
  stream,    \* the audio in the helper's live stream
  loading,   \* the load in progress and its step
  reply,     \* the last answer
  given,     \* the live audio given since the last accepted begin_live
  pieces, faults

live == <<started, active, stream, given>>
vars == <<role, disk, runtime, live, resident, loading, reply, pieces, faults>>

Known     == Native \union Embedded
Selection == [model : Known, mode : {"after-stop", "live"}]
NoRuntime == [model |-> "none", mode |-> "none"]
NotLoading == [to |-> NoRuntime, step |-> "none"]
Outcomes  == {"done", "failed", "dead"}

TypeOK ==
  /\ role \in {"none", "inference", "installer"} /\ disk \in [Known -> {"absent", "good", "bad"}]
  /\ runtime \in Selection \union {NoRuntime} /\ resident \subseteq Selection
  /\ {started, active} \subseteq BOOLEAN
  /\ loading.to \in Selection \union {NoRuntime} /\ loading.step \in {"none", "close", "verify", "start"}
  /\ role = "installer" => resident = {} /\ loading = NotLoading

Init ==
  /\ role = "none" /\ disk \in [Known -> {"absent", "good"}]
  /\ runtime = NoRuntime /\ started = FALSE /\ active = FALSE /\ resident = {} /\ stream = <<>>
  /\ loading = NotLoading /\ reply = <<"hello">> /\ given = <<>> /\ pieces = 0 /\ faults = 0

\* Mistake: the installer answers like any worker.
ServedByAny(kind) == role # "none" /\ loading = NotLoading
Served(kind) == role = kind /\ loading = NotLoading
Says(answer) == reply' = answer
Error(code)  == Says(<<"error", code>>)

-----------------------------------------------------------------------------
(* A command to the helper.                                                *)

Warm == runtime # NoRuntime /\ runtime \in resident

\* A command can only fail once the helper is gone; failures are counted.
Command(outcome) ==
  /\ ~ Warm => outcome = "dead"
  /\ faults' = faults + (IF outcome = "done" \/ ~ Warm THEN 0 ELSE 1)
  /\ faults' <= MaxFaults
Two(first, second) ==
  /\ ~ Warm => first = "dead"
  /\ first = "dead" => second = "dead"
  /\ faults' = faults + Cardinality({o \in {1, 2} : Warm /\ <<first, second>>[o] # "done"})
  /\ faults' <= MaxFaults
Lives(outcome) == resident' = IF outcome = "dead" THEN resident \ {runtime} ELSE resident

\* What the native stream holds after a reset.
AfterReset(outcome, before) ==
  IF outcome = "done" THEN stream' = <<>> ELSE stream' \in {before, <<>>}

-----------------------------------------------------------------------------
(* Loading.                                                                *)

Modes(m) == IF m \in Native THEN {"after-stop", "live"} ELSE {"after-stop"}
Asked == {s \in Selection : s.mode \in Modes(s.model)}

\* Mistake: the warm model is given up before the target is looked at.
CloseFirst(s) == loading' = [to |-> s, step |-> "close"] /\ reply' = reply
Consider(s) ==
  IF disk[s.model] = "absent" THEN Error("model_not_installed") /\ loading' = loading
  ELSE loading' = [to |-> s, step |-> "close"] /\ reply' = reply

LoadModel(s) ==
  /\ Served("inference")
  /\ \/ runtime = s /\ Says(<<"model_ready", s>>) /\ loading' = loading
     \/ runtime # s /\ Consider(s)
  /\ UNCHANGED <<role, disk, runtime, live, resident, pieces, faults>>

LoadStep(now, then) == loading.step = now /\ loading' = [loading EXCEPT !.step = then]
LoadFails(code) == loading' = NotLoading /\ Error(code)

\* Mistake: the old model goes when the new one is there.
CloseLater == resident' = resident
Close == resident' = {}

CloseRuntime ==
  /\ LoadStep("close", "verify") /\ Close
  /\ runtime' = NoRuntime /\ started' = FALSE /\ active' = FALSE /\ stream' = <<>>
  /\ UNCHANGED <<role, disk, reply, given, pieces, faults>>

Verify ==
  /\ loading.step = "verify"
  /\ \/ disk[loading.to.model] = "good" /\ LoadStep("verify", "start") /\ reply' = reply
     \/ disk[loading.to.model] # "good" /\ LoadFails("model_checksum_failed")
  /\ UNCHANGED <<role, disk, runtime, live, resident, pieces, faults>>

Start ==
  /\ loading.step = "start"
  /\ \/ runtime' = loading.to /\ resident' = resident \union {loading.to} /\ loading' = NotLoading
        /\ Says(<<"model_ready", loading.to>>) /\ faults' = faults
     \/ faults < MaxFaults /\ faults' = faults + 1 /\ LoadFails("model_load_failed")
        /\ UNCHANGED <<runtime, resident>>
  /\ UNCHANGED <<role, disk, live, pieces>>

-----------------------------------------------------------------------------
(* Live dictation.                                                         *)

LiveRuntime == runtime.mode = "live"

Refused ==
  /\ Served("inference")
  /\ \/ ~ LiveRuntime /\ Error("invalid_mode")
     \/ LiveRuntime /\ started /\ Error("live_session_active")
     \/ LiveRuntime /\ ~ started /\ Error("live_session_not_started")
  /\ UNCHANGED <<role, disk, runtime, live, resident, loading, pieces, faults>>

\* Mistake: a session continues with what the stream holds.
BeginKeeps(outcome) == outcome = "done" /\ stream' = stream
BeginResets(outcome) == AfterReset(outcome, stream)

BeginLive ==
  /\ Served("inference") /\ LiveRuntime /\ ~ started
  /\ \E o \in Outcomes :
       /\ Command(o) /\ Lives(o) /\ BeginResets(o)
       /\ started' = (o = "done") /\ active' = (active \/ o = "done")
       /\ given' = (IF o = "done" THEN <<>> ELSE given)
       /\ IF o = "done" THEN Says(<<"live_started">>) ELSE Error("parakeet_runtime_failed")
  /\ UNCHANGED <<role, disk, runtime, loading, pieces>>

\* Mistake: a failed append leaves the session open.
StaysOpen(first, second, heard) == started' = started /\ active' = active /\ stream' \in {stream, heard}
CancelsFailed(first, second, heard) ==
  /\ active' = FALSE /\ started' = (active /\ second # "done")
  /\ IF active THEN AfterReset(second, heard) \/ AfterReset(second, stream) ELSE stream' = stream

AppendLive ==
  /\ Served("inference") /\ LiveRuntime /\ started /\ pieces < MaxPieces /\ pieces' = pieces + 1
  /\ LET heard == Append(stream, pieces') IN
       \/ /\ active /\ Command("done") /\ stream' = heard /\ Says(<<"partial", heard>>)
          /\ given' = Append(given, pieces') /\ UNCHANGED <<started, active, resident>>
       \/ \E first \in Outcomes \ {"done"}, second \in Outcomes :
            /\ active /\ Two(first, second) /\ Lives(IF first = "dead" THEN first ELSE second)
            /\ CancelsFailed(first, second, heard)
            /\ given' = Append(given, pieces') /\ Error("parakeet_runtime_failed")
       \/ \* audio that is refused, or an adapter whose session is over
          \E second \in Outcomes :
            /\ IF active THEN Command(second) /\ Lives(second) ELSE UNCHANGED <<faults, resident>> /\ second = "done"
            /\ CancelsFailed("done", second, stream) /\ given' = given /\ Error("invalid_audio_file")
  /\ UNCHANGED <<role, disk, runtime, loading>>

\* Mistake: a failed finish leaves the adapter's session open.
FinishOpen(first) == active' = (active /\ first # "done")
FinishCloses(first) == active' = FALSE

FinishLive ==
  /\ Served("inference") /\ LiveRuntime /\ started /\ started' = FALSE
  /\ \/ /\ ~ active /\ Error("live_session_not_started") /\ UNCHANGED <<active, stream, resident, faults>>
     \/ \E first, second \in Outcomes :
          /\ active /\ Two(first, second) /\ Lives(IF first = "dead" THEN first ELSE second)
          /\ FinishCloses(first) /\ AfterReset(second, stream)
          /\ IF {first, second} = {"done"} THEN Says(<<"final", stream>>) ELSE Error("parakeet_runtime_failed")
  /\ UNCHANGED <<role, disk, runtime, loading, given, pieces>>

CancelLive ==
  /\ Served("inference") /\ LiveRuntime
  /\ \/ ~ active /\ started' = FALSE /\ Says(<<"live_cancelled">>) /\ UNCHANGED <<active, stream, resident, faults>>
     \/ \E o \in Outcomes :
          /\ active /\ Command(o) /\ Lives(o) /\ AfterReset(o, stream)
          /\ active' = FALSE /\ started' = (started /\ o # "done")
          /\ IF o = "done" THEN Says(<<"live_cancelled">>) ELSE Error("parakeet_runtime_failed")
  /\ UNCHANGED <<role, disk, runtime, loading, given, pieces>>

-----------------------------------------------------------------------------
(* Transcription, and the requests that are refused.                       *)

Transcribe ==
  /\ Served("inference")
  /\ \/ runtime = NoRuntime /\ Error("model_not_loaded") /\ UNCHANGED <<resident, faults>>
     \/ LiveRuntime /\ Error("invalid_mode") /\ UNCHANGED <<resident, faults>>
     \/ \* the recording is not there, changed, too long or of another format
        runtime.mode = "after-stop" /\ Error("invalid_audio_file") /\ UNCHANGED <<resident, faults>>
     \/ \E o \in Outcomes :
          /\ runtime.mode = "after-stop" /\ (runtime.model \in Embedded => o # "dead") /\ Command(o) /\ Lives(o)
          /\ IF o = "done" THEN Says(<<"transcribed", runtime>>) ELSE Error("transcription_failed")
  /\ UNCHANGED <<role, disk, runtime, live, loading, pieces>>

\* Too long, not JSON, doubled or unknown fields, a bad id or language, a
\* selection outside the catalogue, an operation not for this role.
BadRequest ==
  /\ role # "none" /\ loading = NotLoading /\ Error("invalid_request")
  /\ UNCHANGED <<role, disk, runtime, live, resident, loading, pieces, faults>>

-----------------------------------------------------------------------------
(* The installer, and the processes.                                       *)

\* Mistake: any worker installs.
AnyInstalls == role # "none"
MayInstall  == role = "installer"

InstallModel(m) ==
  /\ MayInstall /\ loading = NotLoading
  /\ \/ disk' = [disk EXCEPT ![m] = "good"] /\ Says(<<"model_installed", m>>)
     \/ disk' = disk /\ Error("model_checksum_failed")
  /\ UNCHANGED <<role, runtime, live, resident, loading, pieces, faults>>

Spawn(kind) ==
  /\ role = "none" /\ role' = kind /\ Says(<<"hello">>)
  /\ UNCHANGED <<disk, runtime, live, resident, loading, pieces, faults>>

\* A worker that ends takes its models and its helper with it.
End ==
  /\ role # "none" /\ role' = "none" /\ Says(<<"shutdown">>)
  /\ runtime' = NoRuntime /\ started' = FALSE /\ active' = FALSE /\ resident' = {} /\ stream' = <<>>
  /\ loading' = NotLoading
  /\ UNCHANGED <<disk, given, pieces, faults>>

HelperDies ==
  /\ Warm /\ runtime.model \in Native /\ faults < MaxFaults /\ faults' = faults + 1
  /\ resident' = resident \ {runtime} /\ stream' = <<>>
  /\ UNCHANGED <<role, disk, runtime, started, active, given, loading, reply, pieces>>

FilesSpoilt(m) ==
  /\ disk[m] = "good" /\ faults < MaxFaults /\ faults' = faults + 1 /\ disk' = [disk EXCEPT ![m] = "bad"]
  /\ UNCHANGED <<role, runtime, live, resident, loading, reply, pieces>>

-----------------------------------------------------------------------------

Live == Refused \/ BeginLive \/ AppendLive \/ FinishLive \/ CancelLive

Next ==
  \/ \E s \in Asked : LoadModel(s)
  \/ CloseRuntime \/ Verify \/ Start \/ Live \/ Transcribe \/ BadRequest \/ End \/ HelperDies
  \/ \E m \in Known : InstallModel(m) \/ FilesSpoilt(m)
  \/ \E kind \in {"inference", "installer"} : Spawn(kind)

Spec == Init /\ [][Next]_vars

-----------------------------------------------------------------------------

\* A live text is made of all the audio given since the session began, in its
\* order, and of no other: nothing of a session that failed or was cancelled
\* before, and nothing missing that an append failed on.
TextIsOfTheSession == reply[1] \in {"partial", "final"} => reply[2] = given

\* Never two models are loaded, also while one takes the other's place, and the
\* model the worker serves is the loaded one or none is.
OneModelAtATime == Cardinality(resident) <= 1 /\ (runtime # NoRuntime => resident \subseteq {runtime})

\* The adapter has a session open only while the loop has one: a session that
\* was finished or failed cannot take up audio of the next.
SessionsAgree == active => started /\ LiveRuntime

\* A worker gives its warm model up only for one whose files are there: a load
\* of a model that is not installed costs nothing.
RefusedLoadKeepsWarm ==
  runtime # NoRuntime /\ runtime' = NoRuntime /\ role' # "none" => disk[loading.to.model] # "absent"

\* While a worker for dictation runs, no model's files are written.
InferenceWritesNothing ==
  role = "inference" => \A m \in Known : disk'[m] \in {disk[m], "bad"}

=============================================================================
