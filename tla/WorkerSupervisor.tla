--------------------------- MODULE WorkerSupervisor ---------------------------
(***************************************************************************)
(* The supervisor of the speech worker (src/main/worker/                   *)
(* workerSupervisor.ts) against the Python worker it speaks to             *)
(* (worker/localscribe_worker/worker.py) and the process anchor between    *)
(* them.                                                                   *)
(*                                                                         *)
(* Public operations run one at a time.  Each is a promise chain, here a   *)
(* control point `at': it leaves "ensure", "stop" and the like in the same *)
(* turn of the event loop it entered them, and stays at the others until   *)
(* an answer, a timer or a process lets it go on.  An installation runs a  *)
(* second supervisor object with the same code and processes of its own.   *)
(*                                                                         *)
(* A chunk of stdout is handled line by line before any promise it         *)
(* resolves continues, so HandleLine is the one event that may come        *)
(* between an answer and the operation that awaits it.                     *)
(*                                                                         *)
(* Text, audio and paths are left out; a Live session's audio is counted   *)
(* in frames.  The group dies at once when its anchor kills it, and the    *)
(* anchor's own death is seen at once.                                     *)
(*                                                                         *)
(* A definition whose comment starts with "Mistake" is a plausible wrong   *)
(* version of the one after it; no specification uses it.                  *)
(***************************************************************************)
EXTENDS Integers, Sequences, FiniteSets

CONSTANTS
  Models,       \* selections: model, tier, compute type and mode
  LiveModels,   \* those with the mode "live"
  NoModel,
  Artifact,     \* the files on disk each selection is loaded from
  Sessions,     \* Live sessions, each begun at most once
  NoSession,
  Kinds,        \* the operations the instance calls
  Capacity,     \* frames that fit in one append_live request
  MaxCalls,     \* bound on the operations called
  MaxProcesses, \* bound on the processes spawned
  MaxFrames,    \* bound on the frames of one session
  MaxLost,      \* bound on the anchors that die without being asked
  Misbehaves,   \* whether workers break the line protocol
  Coalesces     \* whether a chunk of stdout may hold several lines

ASSUME WorkerAssumption ==
  /\ LiveModels \subseteq Models /\ NoModel \notin Models
  /\ NoSession \notin Sessions
  /\ Capacity \in Nat \ {0}
  /\ MaxCalls \in Nat /\ MaxProcesses \in Nat /\ MaxFrames \in Nat /\ MaxLost \in Nat
  /\ Misbehaves \in BOOLEAN /\ Coalesces \in BOOLEAN

VARIABLES
  process,      \* each supervisor's current process, or NoProcess
  hello,        \* its handshake: none, waiting or done
  pending,      \* the request it awaits a response to, or none
  settled,      \* what became of the answer its operation awaits
  op,           \* the operation that runs on it and where it is suspended
  retiring,     \* its processes that are being torn down
  retired,      \* whether it is latched closed
  queue,        \* operations behind the one that runs
  calls,        \* operations called so far
  activeModel,  \* the model the supervisor takes to be loaded
  latest,       \* the Live session main.ts asked for last
  liveSession,  \* the Live session it takes to be active
  phase,        \* each session's phase
  chunk,        \* frames a session has not sent yet
  written,      \* frames a session accepted
  owner,        \* the supervisor that spawned each process
  anchor,       \* each process's anchor
  worker,       \* the Python worker behind it
  work,         \* the request the worker is at
  out,          \* lines it wrote that the supervisor has not read
  holds,        \* the model whose files it has open, replaces or runs
  decoder,      \* the session its Live decoder was opened for
  sent,         \* frames the append_live request carries
  fed,          \* frames that decoder heard
  heard         \* frames behind each session's final text

supervisorVars == <<process, hello, pending, settled, op, retiring, retired>>
callVars       == <<queue, calls, latest>>
liveVars       == <<liveSession, phase, chunk, written>>
workerVars     == <<owner, anchor, worker, work, out, holds, decoder, sent, fed, heard>>
vars           == <<supervisorVars, callVars, activeModel, liveVars, workerVars>>

-----------------------------------------------------------------------------
Inference   == "inference"
Installer   == "installer"
Supervisors == {Inference, Installer}
Processes   == 1 .. MaxProcesses
NoProcess   == 0
NotHeard    == -1

AllKinds == {"ready", "transcribe", "begin", "flush", "finish", "cancel", "info",
             "shutdown", "install"}

Requests == {"load_model", "transcribe", "begin_live", "append_live", "finish_live",
             "cancel_live", "device_info", "install_model", "shutdown"}

\* The control points an operation leaves in the turn it enters them.
Synchronous == {"ensure", "stop", "install", "own", "greeted"}

\* The awaits.  At "retire" and "starting" it awaits the teardown of earlier
\* processes, at "tree" that of the one it stops.
Awaits == {"guard", "stopping", "tree", "retire", "starting", "hello", "load",
           "asked", "append", "installer"}

Points == Synchronous \union Awaits \union {"idle", "closed", "stuck"}

Lines == {"hello", "ok", "wrong", "error", "violation", "exited"}

Operations == [kind : AllKinds \union {"none"}, model : Models \union {NoModel},
               session : Sessions \union {NoSession}, at : Points,
               child : Processes \union {NoProcess}, restore : Models \union {NoModel}]

Idle == [kind |-> "none", model |-> NoModel, session |-> NoSession, at |-> "idle",
         child |-> NoProcess, restore |-> NoModel]

Operation(kind, m, s) == [Idle EXCEPT !.kind = kind, !.model = m, !.session = s]

TypeOK ==
  /\ process \in [Supervisors -> Processes \union {NoProcess}]
  /\ hello \in [Supervisors -> {"none", "waiting", "done"}]
  /\ pending \in [Supervisors -> Requests \union {"none"}]
  /\ settled \in [Supervisors -> {"none", "ok", "wrong", "error"}]
  /\ op \in [Supervisors -> Operations]
  /\ retiring \in [Supervisors -> SUBSET Processes]
  /\ retired \in [Supervisors -> BOOLEAN]
  /\ queue \in Seq(Operations) /\ calls \in 0 .. MaxCalls
  /\ activeModel \in Models \union {NoModel}
  /\ {latest, liveSession} \subseteq Sessions \union {NoSession}
  /\ phase \in [Sessions -> {"none", "called", "open", "finishing", "cancelled"}]
  /\ chunk \in [Sessions -> 0 .. Capacity]
  /\ written \in [Sessions -> 0 .. MaxFrames]
  /\ owner \in [Processes -> Supervisors \union {"none"}]
  /\ anchor \in [Processes -> {"none", "alive", "asked", "killed", "lost"}]
  /\ worker \in [Processes -> {"none", "up", "gone"}]
  /\ work \in [Processes -> Requests \union {"none", "greeting"}]
  /\ out \in [Processes -> Seq(Lines)]
  /\ holds \in [Processes -> Models \union {NoModel}]
  /\ decoder \in [Processes -> Sessions \union {NoSession}]
  /\ fed \in [Processes -> 0 .. MaxFrames]
  /\ sent \in [Processes -> 0 .. Capacity]
  /\ heard \in [Sessions -> {NotHeard} \union (0 .. MaxFrames)]

Init ==
  /\ process = [s \in Supervisors |-> NoProcess]
  /\ hello = [s \in Supervisors |-> "none"]
  /\ pending = [s \in Supervisors |-> "none"]
  /\ settled = [s \in Supervisors |-> "none"]
  /\ op = [s \in Supervisors |-> Idle]
  /\ retiring = [s \in Supervisors |-> {}]
  /\ retired = [s \in Supervisors |-> FALSE]
  /\ queue = <<>> /\ calls = 0
  /\ activeModel = NoModel
  /\ latest = NoSession /\ liveSession = NoSession
  /\ phase = [t \in Sessions |-> "none"]
  /\ chunk = [t \in Sessions |-> 0]
  /\ written = [t \in Sessions |-> 0]
  /\ owner = [p \in Processes |-> "none"]
  /\ anchor = [p \in Processes |-> "none"]
  /\ worker = [p \in Processes |-> "none"]
  /\ work = [p \in Processes |-> "none"]
  /\ out = [p \in Processes |-> <<>>]
  /\ holds = [p \in Processes |-> NoModel]
  /\ decoder = [p \in Processes |-> NoSession]
  /\ fed = [p \in Processes |-> 0]
  /\ sent = [p \in Processes |-> 0]
  /\ heard = [t \in Sessions |-> NotHeard]

-----------------------------------------------------------------------------
(* The event loop *)

\* An operation still runs in the current turn: it has an answer to act on, or
\* is at a point it does not await at.
MustRun(s) ==
  \/ settled[s] # "none"
  \/ op[s].at \in Synchronous
  \/ op[s].at \in {"retire", "starting"} /\ retiring[s] = {}
  \/ op[s].at = "hello" /\ hello[s] = "done"
  \/ op[s].at = "installer" /\ op[Installer].at \in {"closed", "stuck"}
  \/ s = Inference /\ op[s].at = "idle" /\ queue # <<>>

\* It has not yet acted on the line that was read last.
Unread(s) == settled[s] # "none" \/ (op[s].at = "hello" /\ hello[s] = "done")

TurnOver == \A s \in Supervisors : ~MustRun(s)

At(s, point) == op' = [op EXCEPT ![s].at = point]

\* The promise of the operation that runs on the inference supervisor settles;
\* installModel() tears the installer down whatever came of it.
Ended(s) == IF s = Installer THEN [op[s] EXCEPT !.at = "stop"] ELSE Idle
Ends(s)  == op' = [op EXCEPT ![s] = Ended(s)]

\* The supervisors of S give their processes up: their state is reset, and
\* each tree is tracked until it is gone.  An anchor that lives is asked to
\* tear its group down.
GiveUp(S) ==
  LET given == {process[s] : s \in S} \ {NoProcess}
      drop(f, null) == [s \in Supervisors |-> IF s \in S /\ process[s] # NoProcess
                                              THEN null ELSE f[s]]
  IN
  /\ process' = drop(process, NoProcess)
  /\ pending' = drop(pending, "none")
  /\ hello' = drop(hello, "none")
  /\ retiring' = [s \in Supervisors |->
                    IF s \in S THEN retiring[s] \union ({process[s]} \ {NoProcess}) ELSE retiring[s]]
  /\ anchor' = [p \in Processes |->
                  IF p \in given /\ anchor[p] = "alive" THEN "asked" ELSE anchor[p]]
  /\ activeModel' = IF process[Inference] \in given THEN NoModel ELSE activeModel
  /\ liveSession' = IF process[Inference] \in given THEN NoSession ELSE liveSession

Keep == UNCHANGED <<process, pending, hello, retiring, anchor, activeModel, liveSession>>

\* abort() by the operation that runs, which awaits nothing.
Abort(s) == GiveUp({s})

\* Mistake: a request in flight is forgotten with its process.
RejectedForgotten(s) == op[s].at = "hello" \/ op[s].at = "stopping"
Rejected(s) == op[s].at = "hello" \/ pending[s] # "none"

\* terminateWorker() from an event: what waits for the process is rejected.
Terminate(S) ==
  /\ GiveUp(S)
  /\ settled' = [s \in Supervisors |->
                   IF s \in S /\ process[s] # NoProcess /\ Rejected(s) THEN "error" ELSE settled[s]]

\* request(): the line reaches the worker at once, or there is no process.
Ask(s, request, point, without) ==
  IF process[s] = NoProcess
  THEN /\ op' = without
       /\ UNCHANGED <<pending, work>>
  ELSE /\ pending' = [pending EXCEPT ![s] = request]
       /\ work' = [work EXCEPT ![process[s]] = request]
       /\ op' = [op EXCEPT ![s].at = point, ![s].child = process[s]]

-----------------------------------------------------------------------------
(* The serialized operations *)

\* What main.ts passes as replacesLoadedArtifact, or the selection itself.
SharesArtifact(m, n) == m # NoModel /\ n # NoModel /\ Artifact[m] = Artifact[n]

FirstPoint(o) ==
  CASE o.kind \in {"ready", "transcribe"} -> "ensure"
    [] o.kind = "begin"                   -> IF liveSession = NoSession THEN "ensure" ELSE "idle"
    [] o.kind = "info"                    -> "starting"
    [] o.kind = "shutdown"                -> "stop"
    [] o.kind = "install"                 -> IF retired[Inference] THEN "idle"
                                             ELSE IF SharesArtifact(o.model, activeModel) THEN "stop"
                                             ELSE "install"
    [] OTHER                              -> "own"

RunNext ==
  /\ op[Inference].at = "idle" /\ queue # <<>>
  /\ LET o == Head(queue) IN
     op' = [op EXCEPT ![Inference] =
       IF FirstPoint(o) = "idle" THEN Idle
       ELSE [o EXCEPT !.at = FirstPoint(o),
                     !.restore = IF o.kind = "install" /\ FirstPoint(o) = "stop"
                                 THEN activeModel ELSE NoModel]]
  /\ queue' = Tail(queue)
  /\ UNCHANGED <<process, hello, pending, settled, retiring, retired, calls, latest, activeModel,
                 liveVars, workerVars>>

\* Once the model is ready a transcription and a Live session ask, and an
\* installation that put it back is over.
AfterReady(s) ==
  IF op[s].kind \in {"transcribe", "begin"} THEN [op[s] EXCEPT !.at = "own"] ELSE Idle

\* Mistake: any model that is loaded will do.
SomeSelection(m) == activeModel # NoModel
SameSelection(m) == activeModel = m

EnsureReady(s) ==
  /\ op[s].at = "ensure"
  /\ op' = [op EXCEPT ![s] =
       IF SameSelection(op[s].model) THEN AfterReady(s)
       ELSE [@ EXCEPT !.at = IF activeModel # NoModel THEN "guard" ELSE "starting"]]
  /\ UNCHANGED <<process, hello, pending, settled, retiring, retired, callVars, activeModel,
                 liveVars, workerVars>>

\* assertTargetLoadable() accepts the target or throws.
GuardAnswers(s) ==
  /\ op[s].at = "guard"
  /\ \/ At(s, "stop")
     \/ Ends(s)
  /\ UNCHANGED <<process, hello, pending, settled, retiring, retired, callVars, activeModel,
                 liveVars, workerVars>>

\* stopProcessUnlocked() up to the shutdown request.
Stop(s) ==
  /\ op[s].at = "stop"
  /\ IF process[s] = NoProcess
     THEN At(s, "retire") /\ UNCHANGED <<pending, work>>
     ELSE /\ op' = [op EXCEPT ![s].at = "stopping", ![s].child = process[s]]
          /\ pending' = [pending EXCEPT ![s] = "shutdown"]
          /\ work' = [work EXCEPT ![process[s]] = "shutdown"]
  /\ UNCHANGED <<process, hello, settled, retiring, retired, callVars, activeModel,
                 liveVars, owner, anchor, worker, out, holds, decoder, sent, fed, heard>>

ShutdownAnswered(s) ==
  /\ op[s].at = "stopping" /\ settled[s] # "none"
  /\ settled' = [settled EXCEPT ![s] = "none"]
  /\ At(s, "tree")
  /\ UNCHANGED <<process, hello, pending, retiring, retired, callVars, activeModel,
                 liveVars, workerVars>>

\* The tree is gone, or 250 ms are over and it is terminated.
TreeWaitEnds(s) ==
  /\ op[s].at = "tree"
  /\ At(s, "retire")
  /\ IF process[s] = op[s].child
     THEN Abort(s)
     ELSE Keep
  /\ UNCHANGED <<settled, retired, callVars, phase, chunk, written, owner, worker, work, out,
                 holds, decoder, sent, fed, heard>>

\* Where an operation goes once the process it had is gone.
AfterStop(s) ==
  IF s = Installer THEN "closed"
  ELSE CASE op[s].kind = "shutdown" -> "idle"
         [] op[s].kind = "install"  -> IF retired[s] THEN "idle" ELSE "install"
         [] OTHER                   -> "starting"

\* waitForRetiringProcesses() in stopProcessUnlocked(): all are gone, or the
\* wait of 2.1 s is over and it throws.
RetireWaitEnds(s) ==
  /\ op[s].at = "retire"
  /\ LET next == IF retiring[s] = {} THEN AfterStop(s)
                 ELSE IF s = Installer THEN "stuck" ELSE "idle" IN
     op' = [op EXCEPT ![s] = IF next = "idle" THEN Idle ELSE [@ EXCEPT !.at = next]]
  /\ UNCHANGED <<process, hello, pending, settled, retiring, retired, callVars, activeModel,
                 liveVars, workerVars>>

Spawned == {p \in Processes : owner[p] # "none"}

\* Mistake: a second process is started while the first is being torn down.
MayStartOverlapping(s) == TRUE
MayStart(s) == retiring[s] = {}

\* Mistake: only the wait for earlier processes is checked.
RefusesLate(s) == FALSE
Refuses(s) == retired[s]

\* ensureStarted(), after its wait for earlier processes.
StartWaitEnds(s) ==
  /\ op[s].at = "starting"
  /\ \/ /\ MayStart(s) => process[s] = NoProcess /\ Refuses(s)
        /\ Ends(s)
        /\ UNCHANGED <<process, hello, owner, anchor, worker, work>>
     \/ /\ MayStart(s)
        /\ process[s] # NoProcess
        /\ At(s, "greeted")
        /\ UNCHANGED <<process, hello, owner, anchor, worker, work>>
     \/ /\ MayStart(s)
        /\ process[s] = NoProcess /\ ~Refuses(s)
        /\ \E p \in Processes :
             /\ Cardinality(Spawned) = p - 1
             /\ process' = [process EXCEPT ![s] = p]
             /\ owner' = [owner EXCEPT ![p] = s]
             /\ anchor' = [anchor EXCEPT ![p] = "alive"]
             /\ worker' = [worker EXCEPT ![p] = "up"]
             /\ work' = [work EXCEPT ![p] = "greeting"]
        /\ hello' = [hello EXCEPT ![s] = "waiting"]
        /\ At(s, "hello")
  /\ UNCHANGED <<pending, settled, retiring, retired, callVars, activeModel, liveVars,
                 out, holds, decoder, sent, fed, heard>>

HelloAnswered(s) ==
  /\ \/ op[s].at = "greeted"
     \/ op[s].at = "hello" /\ (hello[s] = "done" \/ settled[s] # "none")
  /\ settled' = [settled EXCEPT ![s] = "none"]
  /\ IF settled[s] = "error"
     THEN Ends(s) /\ UNCHANGED <<pending, work>>
     ELSE IF s = Installer \/ op[s].kind = "info"
     THEN At(s, "own") /\ UNCHANGED <<pending, work>>
     ELSE Ask(s, "load_model", "load", [op EXCEPT ![s] = Ended(s)])
  /\ holds' = IF pending'[s] = "load_model"
              THEN [holds EXCEPT ![process[s]] = op[s].model] ELSE holds
  /\ UNCHANGED <<process, hello, retiring, retired, callVars, activeModel, liveVars,
                 owner, anchor, worker, out, decoder, sent, fed, heard>>

\* load_model came back: the model is active, or the process is given up.
LoadAnswered(s) ==
  /\ op[s].at = "load" /\ settled[s] # "none"
  /\ settled' = [settled EXCEPT ![s] = "none"]
  /\ IF settled[s] = "ok"
     THEN /\ activeModel' = op[s].model
          /\ op' = [op EXCEPT ![s] = AfterReady(s)]
          /\ UNCHANGED <<process, pending, hello, retiring, liveSession, anchor>>
     ELSE Ends(s) /\ Abort(s)
  /\ UNCHANGED <<retired, callVars, phase, chunk, written, owner, worker, work, out,
                 holds, decoder, sent, fed, heard>>

\* Mistake: a session is cancelled locally and its decoder left open.
CancelledLocally(t) == queue
CancelQueued(t) == Append(queue, Operation("cancel", NoModel, t))

OwnRequest == [transcribe |-> "transcribe", begin |-> "begin_live", finish |-> "finish_live",
               cancel |-> "cancel_live", info |-> "device_info", install |-> "install_model",
               flush |-> "append_live"]

OwnsLive(t) == liveSession = t

\* Mistake: the frames that were sent stay in the buffer.
FramesStay(t) == chunk[t]
FramesLeft(t) == 0

\* The operation sends its own request.  An append and a finish first look
\* whether their session is still the active one, and take its frames along.
SendOwn(s) ==
  /\ op[s].at = "own"
  /\ LET t      == op[s].session
         live   == op[s].kind \in {"flush", "finish"}
         append == live /\ OwnsLive(t) /\ chunk[t] > 0
     IN IF (live /\ ~OwnsLive(t)) \/ (op[s].kind = "flush" /\ ~append)
        THEN Ends(s) /\ UNCHANGED <<pending, work, chunk, sent>>
        ELSE /\ chunk' = IF append THEN [chunk EXCEPT ![t] = FramesLeft(t)] ELSE chunk
             /\ sent' = IF append /\ process[s] # NoProcess
                        THEN [sent EXCEPT ![process[s]] = chunk[t]] ELSE sent
             /\ IF append
                THEN Ask(s, "append_live", IF op[s].kind = "flush" THEN "asked" ELSE "append",
                         [op EXCEPT ![s] = Idle])
                ELSE Ask(s, OwnRequest[op[s].kind], "asked", [op EXCEPT ![s] = Ended(s)])
  /\ holds' = IF pending'[s] = "install_model"
              THEN [holds EXCEPT ![process[s]] = op[s].model] ELSE holds
  /\ UNCHANGED <<process, hello, settled, retiring, retired, callVars, activeModel,
                 liveSession, phase, written, owner, anchor, worker, out, decoder, fed, heard>>

\* The last frames of a finishing session were appended: now its decoder is
\* asked for the final text, unless the session was cancelled meanwhile.
AppendAnswered(s) ==
  /\ op[s].at = "append" /\ settled[s] # "none"
  /\ settled' = [settled EXCEPT ![s] = "none"]
  /\ IF settled[s] = "ok" /\ OwnsLive(op[s].session)
     THEN Ask(s, "finish_live", "asked", [op EXCEPT ![s] = Idle]) /\ UNCHANGED <<process, hello, retiring, anchor,
                                                     activeModel, liveSession>>
     ELSE /\ Ends(s) /\ UNCHANGED work
          /\ IF settled[s] = "wrong" /\ OwnsLive(op[s].session) THEN Abort(s) ELSE Keep
  /\ UNCHANGED <<retired, callVars, phase, chunk, written, owner, worker, out, holds,
                 decoder, sent, fed, heard>>

\* The answer to the operation's own request.  A session that begins is open,
\* or the caller, which moved on meanwhile, aborts it at once.
OwnAnswered(s) ==
  /\ op[s].at = "asked" /\ settled[s] # "none"
  /\ settled' = [settled EXCEPT ![s] = "none"]
  /\ Ends(s)
  /\ LET t == op[s].session IN
     CASE settled[s] = "ok" /\ op[s].kind = "begin" ->
            /\ \/ /\ latest = t
                  /\ liveSession' = t
                  /\ phase' = [phase EXCEPT ![t] = "open"]
                  /\ UNCHANGED queue
               \/ /\ liveSession' = NoSession
                  /\ phase' = [phase EXCEPT ![t] = "cancelled"]
                  /\ queue' = CancelQueued(t)
            /\ UNCHANGED <<process, pending, hello, retiring, anchor, activeModel, heard>>
       [] settled[s] = "ok" /\ op[s].kind = "finish" ->
            /\ liveSession' = NoSession
            /\ heard' = [heard EXCEPT ![t] = fed[op[s].child]]
            /\ UNCHANGED <<process, pending, hello, retiring, anchor, activeModel, phase, queue>>
       [] settled[s] = "wrong" /\ s = Inference
          /\ (op[s].kind = "flush" => OwnsLive(t)) ->
            Abort(s) /\ UNCHANGED <<phase, queue, heard>>
       [] OTHER -> Keep /\ UNCHANGED <<phase, queue, heard>>
  /\ UNCHANGED <<retired, calls, latest, chunk, written, owner, worker, work, out, holds,
                 decoder, sent, fed>>

\* A new supervisor object for the installer, which knows of no process.
Install(s) ==
  /\ op[s].at = "install"
  /\ op' = [op EXCEPT ![s].at = "installer",
                      ![Installer] = [Operation("install", op[s].model, NoSession)
                                        EXCEPT !.at = "starting"]]
  /\ retired' = [retired EXCEPT ![Installer] = FALSE]
  /\ retiring' = [retiring EXCEPT ![Installer] = {}]
  /\ UNCHANGED <<process, hello, pending, settled, callVars, activeModel, liveVars, workerVars>>

Restores(s) == op[s].restore # NoModel /\ ~retired[Inference]

\* The installer is closed: what it replaced is loaded again.
InstallEnds(s) ==
  /\ op[s].at = "installer" /\ op[Installer].at \in {"closed", "stuck"}
  /\ op' = [op EXCEPT ![Installer] = Idle,
       ![s] = IF op[Installer].at = "closed" /\ Restores(s)
              THEN [Operation("ready", op[s].restore, NoSession) EXCEPT !.at = "ensure"]
              ELSE Idle]
  /\ UNCHANGED <<process, hello, pending, settled, retiring, retired, callVars, activeModel,
                 liveVars, workerVars>>

-----------------------------------------------------------------------------
(* Calls that do not wait for their turn *)

Enqueue(o) == queue' = Append(queue, o)

\* main.ts begins a Live session when it has no other one active; one whose
\* beginning it still awaits is then stale.
Call(kind, m, t) ==
  /\ calls < MaxCalls /\ kind \in Kinds
  /\ kind = "begin" => phase[t] = "none" /\ liveSession = NoSession
  /\ latest' = IF kind = "begin" THEN t ELSE latest
  /\ calls' = calls + 1
  /\ Enqueue(Operation(kind, m, t))
  /\ phase' = IF kind = "begin" THEN [phase EXCEPT ![t] = "called"] ELSE phase
  /\ UNCHANGED <<supervisorVars, activeModel, liveSession, chunk, written, workerVars>>

\* The transport writes one frame at a time, so none while an append waits.
FlushWaits(t) == \E i \in DOMAIN queue : queue[i].kind = "flush" /\ queue[i].session = t

WriteFrame(t) ==
  /\ liveSession = t /\ phase[t] = "open" /\ written[t] < MaxFrames
  /\ ~FlushWaits(t) /\ op[Inference].kind # "flush"
  /\ written' = [written EXCEPT ![t] = @ + 1]
  /\ chunk' = [chunk EXCEPT ![t] = @ + 1]
  /\ IF chunk[t] + 1 = Capacity THEN Enqueue(Operation("flush", NoModel, t)) ELSE UNCHANGED queue
  /\ UNCHANGED <<supervisorVars, calls, latest, activeModel, liveSession, phase, workerVars>>

FinishLive(t) ==
  /\ liveSession = t /\ phase[t] = "open"
  /\ phase' = [phase EXCEPT ![t] = "finishing"]
  /\ Enqueue(Operation("finish", NoModel, t))
  /\ UNCHANGED <<supervisorVars, calls, latest, activeModel, liveSession, chunk, written, workerVars>>

CancelLive(t) ==
  /\ liveSession = t
  /\ phase' = [phase EXCEPT ![t] = "cancelled"]
  /\ chunk' = [chunk EXCEPT ![t] = 0]
  /\ liveSession' = NoSession
  /\ queue' = CancelQueued(t)
  /\ UNCHANGED <<supervisorVars, calls, latest, activeModel, written, workerVars>>

\* The user cancels a transcription: abort() from outside the queue.
UserAborts ==
  /\ process[Inference] # NoProcess
  /\ Terminate({Inference})
  /\ UNCHANGED <<op, retired, callVars, phase, chunk, written, owner, worker, work, out,
                 holds, decoder, sent, fed, heard>>

\* The timer of a request or of the handshake, or its pipe breaks.
TimesOut(s) ==
  /\ process[s] # NoProcess /\ (op[s].at = "hello" \/ pending[s] # "none")
  /\ Terminate({s})
  /\ UNCHANGED <<op, retired, callVars, phase, chunk, written, owner, worker, work, out,
                 holds, decoder, sent, fed, heard>>

\* Mistake: quitting leaves the installer to the queue.
QuitsQueueOnly == {Inference}
Quits == IF op[Inference].at = "installer" THEN Supervisors ELSE {Inference}

\* beginShutdown(): retire(), which also retires and aborts an installer, and
\* then abort().
Quit ==
  /\ ~retired[Inference]
  /\ retired' = [s \in Supervisors |-> retired[s] \/ s \in Quits]
  /\ Terminate(Quits)
  /\ UNCHANGED <<op, callVars, phase, chunk, written, owner, worker, work, out,
                 holds, decoder, sent, fed, heard>>

-----------------------------------------------------------------------------
(* The worker and its anchor *)

Says(p, line) == out' = [out EXCEPT ![p] = Append(@, line)]

\* Mistake: a decoder that failed keeps the session open.
AfterFailedAppendOpen(t) == t
AfterFailedAppend(t) == NoSession

\* Mistake: a decoder is reset under a session that is open.
BeginsAnyway(p) == TRUE
MayBegin(p) == decoder[p] = NoSession

\* run_worker(): one request, answered or refused.
WorkerAnswers(p) ==
  LET s == owner[p]
      w == work[p]
      t == op[s].session IN
  /\ worker[p] = "up" /\ w # "none" /\ process[s] = p
  /\ work' = [work EXCEPT ![p] = "none"]
  /\ \/ /\ w = "greeting" /\ Says(p, "hello")
        /\ UNCHANGED <<worker, decoder, fed>>
     \/ /\ w \in {"load_model", "transcribe", "device_info", "install_model"}
        /\ \E line \in {"ok", "error"} : Says(p, line)
        /\ UNCHANGED <<worker, decoder, fed>>
     \/ /\ w = "begin_live" /\ MayBegin(p)
        /\ Says(p, "ok")
        /\ decoder' = [decoder EXCEPT ![p] = t] /\ fed' = [fed EXCEPT ![p] = 0]
        /\ UNCHANGED worker
     \/ /\ \/ w = "begin_live"
           \/ w \in {"append_live", "finish_live", "cancel_live"} /\ decoder[p] = NoSession
        /\ Says(p, "error")
        /\ UNCHANGED <<worker, decoder, fed>>
     \/ /\ w = "append_live" /\ decoder[p] # NoSession
        /\ \/ /\ Says(p, "ok") /\ fed' = [fed EXCEPT ![p] = @ + sent[p]]
              /\ UNCHANGED decoder
           \/ /\ Says(p, "error") /\ UNCHANGED fed
              /\ decoder' = [decoder EXCEPT ![p] = AfterFailedAppend(@)]
        /\ UNCHANGED worker
     \/ /\ w = "finish_live" /\ decoder[p] # NoSession
        /\ \E line \in {"ok", "error"} : Says(p, line)
        /\ decoder' = [decoder EXCEPT ![p] = NoSession]
        /\ UNCHANGED <<worker, fed>>
     \/ /\ w = "cancel_live"
        /\ Says(p, "ok")
        /\ decoder' = [decoder EXCEPT ![p] = NoSession]
        /\ UNCHANGED <<worker, fed>>
     \/ /\ w = "shutdown"
        /\ out' = [out EXCEPT ![p] = @ \o IF anchor[p] = "alive" THEN <<"ok", "exited">> ELSE <<"ok">>]
        /\ worker' = [worker EXCEPT ![p] = "gone"]
        /\ UNCHANGED <<decoder, fed>>
     \/ /\ Misbehaves
        /\ \E line \in {"wrong", "violation"} : Says(p, line)
        /\ UNCHANGED <<worker, decoder, fed>>
  /\ UNCHANGED <<supervisorVars, callVars, activeModel, liveVars, owner, anchor, holds, sent, heard>>

\* The worker dies by itself; its anchor reports it unless it is already
\* tearing the group down.
WorkerDies(p) ==
  /\ worker[p] = "up"
  /\ worker' = [worker EXCEPT ![p] = "gone"]
  /\ work' = [work EXCEPT ![p] = "none"]
  /\ IF anchor[p] = "alive" THEN Says(p, "exited") ELSE UNCHANGED out
  /\ UNCHANGED <<supervisorVars, callVars, activeModel, liveVars, owner, anchor, holds,
                 decoder, sent, fed, heard>>

\* The anchor carries out the teardown it was asked for.
GroupKilled(p) ==
  /\ anchor[p] = "asked"
  /\ anchor' = [anchor EXCEPT ![p] = "killed"]
  /\ worker' = [worker EXCEPT ![p] = "gone"]
  /\ work' = [work EXCEPT ![p] = "none"]
  /\ retiring' = [retiring EXCEPT ![owner[p]] = @ \ {p}]
  /\ UNCHANGED <<process, hello, pending, settled, op, retired, callVars, activeModel, liveVars,
                 owner, out, holds, decoder, sent, fed, heard>>

Lost == {p \in Processes : anchor[p] = "lost"}

\* The anchor dies otherwise: no one can prove its group gone any more.
AnchorLost(p) ==
  /\ anchor[p] \in {"alive", "asked"} /\ Cardinality(Lost) < MaxLost
  /\ LET s == owner[p] IN
     /\ process' = [process EXCEPT ![s] = IF @ = p THEN NoProcess ELSE @]
     /\ pending' = IF process[s] = p THEN [pending EXCEPT ![s] = "none"] ELSE pending
     /\ hello' = IF process[s] = p THEN [hello EXCEPT ![s] = "none"] ELSE hello
     /\ settled' = IF process[s] = p /\ Rejected(s) THEN [settled EXCEPT ![s] = "error"]
                   ELSE settled
     /\ retiring' = [retiring EXCEPT ![s] = IF process[s] = p THEN @ \union {p} ELSE @]
     /\ activeModel' = IF p = process[Inference] THEN NoModel ELSE activeModel
     /\ liveSession' = IF p = process[Inference] THEN NoSession ELSE liveSession
  /\ anchor' = [anchor EXCEPT ![p] = "lost"]
  /\ UNCHANGED <<op, retired, callVars, phase, chunk, written, owner, worker, work, out,
                 holds, decoder, sent, fed, heard>>

\* handleLine(): the next line of the current process's output.
HandleLine(s) ==
  LET p == process[s] IN
  /\ p # NoProcess
  /\ out[p] # <<>>
  /\ out' = [out EXCEPT ![p] = Tail(@)]
  /\ LET line == Head(out[p]) IN
     IF line = "hello" /\ hello[s] = "waiting"
     THEN /\ hello' = [hello EXCEPT ![s] = "done"]
          /\ UNCHANGED <<process, settled, pending, retiring, anchor, activeModel, liveSession>>
     ELSE IF line \in {"ok", "error", "wrong"} /\ hello[s] = "done" /\ pending[s] # "none"
     THEN /\ settled' = [settled EXCEPT ![s] = line]
          /\ pending' = [pending EXCEPT ![s] = "none"]
          /\ UNCHANGED <<process, hello, retiring, anchor, activeModel, liveSession>>
     ELSE Terminate({s})
  /\ UNCHANGED <<op, retired, callVars, phase, chunk, written, owner, worker, work,
                 holds, decoder, sent, fed, heard>>

-----------------------------------------------------------------------------
Runs(s) == \/ EnsureReady(s) \/ Stop(s) \/ ShutdownAnswered(s) \/ HelloAnswered(s)
           \/ LoadAnswered(s) \/ SendOwn(s) \/ AppendAnswered(s) \/ OwnAnswered(s)
           \/ Install(s) \/ InstallEnds(s)

Timers(s) == TreeWaitEnds(s) \/ RetireWaitEnds(s) \/ StartWaitEnds(s)

Events ==
  \/ \E kind \in {"ready", "transcribe", "install"}, m \in Models : Call(kind, m, NoSession)
  \/ \E m \in LiveModels, t \in Sessions : Call("begin", m, t)
  \/ \E kind \in {"info", "shutdown"} : Call(kind, NoModel, NoSession)
  \/ \E t \in Sessions : WriteFrame(t) \/ FinishLive(t) \/ CancelLive(t)
  \/ UserAborts \/ Quit
  \/ \E s \in Supervisors : TimesOut(s) \/ GuardAnswers(s)
  \/ \E p \in Processes : WorkerAnswers(p) \/ WorkerDies(p) \/ GroupKilled(p) \/ AnchorLost(p)

Next ==
  \/ RunNext
  \/ \E s \in Supervisors :
       \/ Runs(s)
       \/ (MustRun(s) \/ TurnOver) /\ Timers(s)
       \/ (TurnOver \/ (Coalesces /\ Unread(s))) /\ HandleLine(s)
  \/ TurnOver /\ Events

Spec == Init /\ [][Next]_vars

\* Every wait has a timer, the guard's digests are finite work, and the system
\* kills a group whose anchor asks it to.
Fairness ==
  /\ WF_vars(RunNext)
  /\ \A s \in Supervisors :
       /\ WF_vars(Runs(s))
       /\ WF_vars(Timers(s))
       /\ WF_vars(TurnOver /\ (TimesOut(s) \/ GuardAnswers(s)))
  /\ \A p \in Processes : WF_vars(TurnOver /\ GroupKilled(p))

FairSpec == Spec /\ Fairness

-----------------------------------------------------------------------------
(* Properties *)

Up(s) == {p \in Processes : owner[p] = s /\ worker[p] = "up"}

\* At most one inference worker exists at any time, however the processes
\* before it ended: two large models are never resident together
\* (waitForRetiringProcesses).
OneRuntime == Cardinality(Up(Inference)) <= 1

\* An operation that awaits a response has a request pending, whose timer is
\* armed, or has been answered or rejected: no exit of the worker leaves it
\* waiting, and no response is left over for the next one (handleExit,
\* request).
EveryAwaitIsSettled ==
  \A s \in Supervisors :
    /\ op[s].at \in {"stopping", "load", "asked", "append"}
         <=> pending[s] # "none" \/ (settled[s] # "none" /\ op[s].at # "hello")
    /\ op[s].at = "hello" => hello[s] # "none" \/ settled[s] = "error"

\* After Quit no supervisor has a process, neither one that was starting nor
\* an installer that was waiting for the runtime it replaces to stop.
QuitKeepsNoProcess == retired[Inference] => \A s \in Supervisors : process[s] = NoProcess

\* A transcription and a Live session are carried out by a process that was
\* told to load the model they asked for (ensureReadyUnlocked).
RunsOnItsModel ==
  op[Inference].kind \in {"transcribe", "begin"} /\ pending[Inference] \in {"transcribe", "begin_live"}
    => holds[process[Inference]] = op[Inference].model

\* What holds of the supervisor at every moment.  What runs, runs on the model
\* it asked for where every line of stdout has a turn of its own; where a
\* chunk holds several, LoadedMeansLive shows the order that breaks it.
SupervisorSafety ==
  /\ OneRuntime /\ EveryAwaitIsSettled /\ QuitKeepsNoProcess
  /\ ~Coalesces => RunsOnItsModel

\* The final text of a Live session comes from a decoder that heard each of
\* the frames it accepted, and none of another session's.
FinalHearsEveryFrame ==
  \A t \in Sessions : heard'[t] # heard[t] => heard'[t] = written[t]

\* An open decoder belongs to the session the supervisor has open, or to one
\* whose beginning, end or cancellation still has to be carried out: none
\* stays open to refuse the sessions after it.
DecoderHasOwner ==
  LET p == process[Inference] IN
  p # NoProcess /\ decoder[p] # NoSession =>
    \/ liveSession = decoder[p]
    \/ op[Inference].session = decoder[p]
    \/ \E i \in DOMAIN queue : queue[i].kind = "cancel" /\ queue[i].session = decoder[p]

\* cancel_live names no session.  It resets the decoder of the session it was for, or
\* one opened since in a process that replaced its own: then that session fails.
CancelsOwnDecoder ==
  LET p == process[Inference] IN
  p # NoProcess /\ work[p] = "cancel_live" =>
    \/ decoder[p] \in {NoSession, op[Inference].session}
    \/ \E q \in Processes : q < p /\ decoder[q] = op[Inference].session

\* loadedSelection() "returns the model held by the live worker".
LoadedMeansLive == activeModel # NoModel => process[Inference] # NoProcess

\* "No process reads a tree while the installer atomically replaces it."
ReplacedArtifactIsUnread ==
  \A p \in Up(Installer), q \in Up(Inference) :
    work[p] = "install_model" => ~SharesArtifact(holds[p], holds[q])

\* Each operation settles although nothing is assumed of the worker.
OperationsSettle == (queue # <<>> \/ op[Inference].at # "idle") ~> (queue = <<>> /\ op[Inference].at = "idle")

\* After Quit every worker is gone.
QuitEndsWorkers == retired[Inference] ~> \A p \in Processes : worker[p] # "up"
=============================================================================
