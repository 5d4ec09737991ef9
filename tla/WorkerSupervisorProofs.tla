------------------------- MODULE WorkerSupervisorProofs -------------------------
(***************************************************************************)
(* For any models, sessions, calls and processes, and although workers     *)
(* break the protocol and anchors are lost: at most one inference worker   *)
(* is up, every await has its answer or its timer, and Quit leaves no      *)
(* process.  If in addition a chunk of stdout holds one line, what runs    *)
(* runs on the model it asked for.                                         *)
(*                                                                         *)
(* Chain says at which points an operation awaits what, Installing how the *)
(* two supervisors go together, Trees where the processes are, and Loaded  *)
(* what the active model stands for.                                       *)
(***************************************************************************)
EXTENDS WorkerSupervisor, FiniteSetTheorems, TLAPS

\* What names a model names one that exists.
Selects(o) == o.kind \in {"ready", "transcribe", "begin"} => o.model # NoModel

Queued == {o \in Operations : o.kind # "none" /\ Selects(o)}

Types ==
  /\ process \in [Supervisors -> Processes \union {NoProcess}]
  /\ hello \in [Supervisors -> {"none", "waiting", "done"}]
  /\ pending \in [Supervisors -> Requests \union {"none"}]
  /\ settled \in [Supervisors -> {"none", "ok", "wrong", "error"}]
  /\ op \in [Supervisors -> Operations] /\ queue \in Seq(Queued)
  /\ retiring \in [Supervisors -> SUBSET Processes]
  /\ retired \in [Supervisors -> BOOLEAN]
  /\ owner \in [Processes -> Supervisors \union {"none"}]
  /\ worker \in [Processes -> {"none", "up", "gone"}]
  /\ holds \in [Processes -> Models \union {NoModel}]
  /\ activeModel \in Models \union {NoModel}

\* The points at which an operation awaits a response.
Asks == {"stopping", "load", "asked", "append"}

\* A response is awaited exactly where one is pending or has come; what is stopped has no
\* process any more, and none is found again.
Chain(s) ==
  /\ op[s].at \in Asks <=> pending[s] # "none" \/ (settled[s] # "none" /\ op[s].at # "hello")
  /\ pending[s] # "none" => settled[s] = "none" /\ process[s] # NoProcess
  /\ op[s].at = "hello" => hello[s] # "none" \/ settled[s] = "error"
  /\ op[s].at \in {"stopping", "tree"} => process[s] \in {op[s].child, NoProcess}
  /\ op[s].at \in {"retire", "closed", "stuck"} => process[s] = NoProcess
  /\ op[s].at = "own" => op[s].kind \in DOMAIN OwnRequest

\* The installer runs only under an installation, which begins before Quit or is told of it.
Installing ==
  /\ op[Inference].at # "installer" => op[Installer].at = "idle" /\ process[Installer] = NoProcess
  /\ op[Installer].at \notin {"install", "installer", "ensure", "guard", "load", "append"}
  /\ op[Installer].at # "idle" => op[Installer].kind = "install"
  /\ op[Inference].at = "install" => ~retired[Inference]
  /\ op[Inference].at = "installer" /\ retired[Inference] => retired[Installer]

\* A worker that is up is its supervisor's process or the one being torn down.
Trees ==
  /\ \A s \in Supervisors : process[s] # NoProcess => retiring[s] = {} /\ owner[process[s]] = s
  /\ \A s \in Supervisors : \A p, q \in retiring[s] : p = q
  /\ \A p \in Up(Inference) : p = process[Inference] \/ p \in retiring[Inference]
  /\ \E k \in 0 .. MaxProcesses : Spawned = 1 .. k

\* The active model is what the process was told to load, if each line has its turn.
Loaded ==
  /\ Selects(op[Inference])
  /\ op[Inference].at = "own" => op[Inference].kind # "install"
  /\ activeModel # NoModel =>
       process[Inference] # NoProcess /\ holds[process[Inference]] = activeModel
  /\ op[Inference].at \in {"starting", "greeted", "hello"} /\ op[Inference].kind # "info"
       => activeModel = NoModel
  /\ op[Inference].at = "load" /\ settled[Inference] \in {"none", "ok"} =>
       process[Inference] # NoProcess /\ holds[process[Inference]] = op[Inference].model
  /\ op[Inference].at = "own" /\ op[Inference].kind \in {"transcribe", "begin"}
       => activeModel = op[Inference].model
  /\ RunsOnItsModel

Inv == Types /\ (\A s \in Supervisors : Chain(s)) /\ Installing /\ Trees /\ QuitKeepsNoProcess

-----------------------------------------------------------------------------
(* The two supervisors, and a process given up.                             *)

LEMMA Two == Inference # Installer /\ Supervisors = {Inference, Installer}
BY DEF Inference, Installer, Supervisors

\* terminateWorker() seen from each supervisor.
GivesUp(S) ==
  /\ process' \in [Supervisors -> Processes \union {NoProcess}]
  /\ hello' \in [Supervisors -> {"none", "waiting", "done"}]
  /\ pending' \in [Supervisors -> Requests \union {"none"}]
  /\ retiring' \in [Supervisors -> SUBSET Processes]
  /\ activeModel' \in {activeModel, NoModel}
  /\ \A s \in Supervisors :
       IF s \in S
       THEN /\ process'[s] = NoProcess
            /\ retiring'[s] = retiring[s] \union ({process[s]} \ {NoProcess})
            /\ process[s] # NoProcess => pending'[s] = "none" /\ hello'[s] = "none"
            /\ process[s] = NoProcess => pending'[s] = pending[s] /\ hello'[s] = hello[s]
       ELSE UNCHANGED <<process[s], pending[s], hello[s], retiring[s]>>

Rejects(S) ==
  /\ settled' \in [Supervisors -> {"none", "ok", "wrong", "error"}]
  /\ \A s \in Supervisors :
       settled'[s] = IF s \in S /\ process[s] # NoProcess /\ Rejected(s) THEN "error"
                     ELSE settled[s]

LEMMA GivenUp ==
  ASSUME Types, NEW S \in SUBSET Supervisors, GiveUp(S)
  PROVE  GivesUp(S)
BY DEF GivesUp, GiveUp, Types

LEMMA Terminated ==
  ASSUME Types, NEW S \in SUBSET Supervisors, Terminate(S)
  PROVE  GivesUp(S) /\ Rejects(S)
BY GivenUp DEF Terminate, Rejects, Types

-----------------------------------------------------------------------------
(* Types.                                                                   *)

OpType == op \in [Supervisors -> Operations]

LEMMA IdleType == Idle \in Operations /\ Idle.at = "idle" /\ Idle.kind = "none"
BY DEF Idle, Operations, Points

LEMMA EndedType ==
  ASSUME OpType, NEW s \in Supervisors
  PROVE  /\ Ended(s) \in Operations
         /\ Ended(s).at = IF s = Installer THEN "stop" ELSE "idle"
         /\ s = Installer => Ended(s).kind = op[s].kind
BY IdleType DEF OpType, Ended, Operations, Points, Synchronous

LEMMA EndsType ==
  ASSUME OpType, NEW s \in Supervisors, Ends(s)
  PROVE  /\ OpType' /\ op'[s].at = (IF s = Installer THEN "stop" ELSE "idle")
         /\ s = Installer => op'[s].kind = op[s].kind
         /\ \A t \in Supervisors : t # s => op'[t] = op[t]
BY EndedType DEF OpType, Ends

LEMMA AtType ==
  ASSUME OpType, NEW s \in Supervisors, NEW point \in Points, At(s, point)
  PROVE  /\ OpType' /\ op'[s].at = point /\ op'[s].kind = op[s].kind /\ op'[s].model = op[s].model
         /\ op'[s].child = op[s].child
         /\ \A t \in Supervisors : t # s => op'[t] = op[t]
BY DEF OpType, At, Operations

LEMMA AskType ==
  ASSUME Types, NEW s \in Supervisors, NEW request \in Requests, NEW point \in Points, NEW without,
         Ask(s, request, point, without)
  PROVE  /\ process[s] = NoProcess => op' = without /\ pending' = pending
         /\ process[s] # NoProcess =>
              /\ OpType' /\ op'[s].at = point /\ op'[s].kind = op[s].kind
              /\ op'[s].model = op[s].model /\ op'[s].child = process[s]
              /\ \A t \in Supervisors : t # s => op'[t] = op[t] /\ pending'[t] = pending[t]
              /\ pending' \in [Supervisors -> Requests \union {"none"}] /\ pending'[s] = request
<1>1. CASE process[s] = NoProcess  BY <1>1 DEF Ask
<1>2. CASE process[s] # NoProcess
  <2>1. process[s] \in Processes /\ OpType  BY <1>2 DEF Types, OpType
  <2>2. op' = [op EXCEPT ![s].at = point, ![s].child = process[s]]
        /\ pending' = [pending EXCEPT ![s] = request]
    BY <1>2 DEF Ask
  <2>3. pending' \in [Supervisors -> Requests \union {"none"}] /\ pending'[s] = request
        /\ \A t \in Supervisors : t # s => pending'[t] = pending[t]
    BY <2>2 DEF Types
  <2>4. op[s] \in Operations  BY <2>1 DEF OpType
  <2>5. op'[s] = [op[s] EXCEPT !.at = point, !.child = process[s]] /\ DOMAIN op' = Supervisors
        /\ \A t \in Supervisors : t # s => op'[t] = op[t]
    BY <2>1, <2>2 DEF OpType
  <2>6. op'[s] \in Operations /\ op'[s].at = point /\ op'[s].kind = op[s].kind
        /\ op'[s].model = op[s].model /\ op'[s].child = process[s]
    BY <2>1, <2>4, <2>5 DEF Operations
  <2>7. op' = [t \in Supervisors |-> op'[t]]  BY <2>1, <2>2 DEF OpType
  <2>8. OpType'  BY <2>1, <2>5, <2>6, <2>7 DEF OpType
  <2> QED  BY <1>2, <2>3, <2>5, <2>6, <2>8
<1> QED  BY <1>1, <1>2

LEMMA OperationType ==
  ASSUME NEW kind \in AllKinds, NEW m \in Models \union {NoModel}, NEW t \in Sessions \union {NoSession}
  PROVE  /\ Operation(kind, m, t) \in Operations /\ Operation(kind, m, t).kind = kind
         /\ Operation(kind, m, t).model = m
         /\ (kind \in {"ready", "transcribe", "begin"} => m # NoModel) => Operation(kind, m, t) \in Queued
BY IdleType DEF Operation, Idle, Queued, Selects, Operations, Points, AllKinds

LEMMA QueueType ==
  ASSUME queue \in Seq(Queued), NEW o \in Queued PROVE Append(queue, o) \in Seq(Queued)
OBVIOUS

-----------------------------------------------------------------------------
(* What most steps leave alone.                                             *)

LEMMA ChainKept ==
  ASSUME NEW t \in Supervisors, Chain(t), op'[t] = op[t],
         UNCHANGED <<process[t], pending[t], settled[t], hello[t]>>
  PROVE  Chain(t)'
BY DEF Chain

\* Processes end, but none is started, adopted or given up.
LEMMA TreesKept ==
  ASSUME Trees, UNCHANGED <<process, retiring, owner>>,
         \A p \in Processes : worker'[p] = "up" => worker[p] = "up"
  PROVE  Trees'
BY DEF Trees, Up, Spawned

LEMMA TreesGivenUp ==
  ASSUME Types, Trees, NEW S \in SUBSET Supervisors, GivesUp(S), UNCHANGED <<owner, worker>>
  PROVE  Trees'
<1>1. \A s \in Supervisors :
        IF s \in S
        THEN /\ process'[s] = NoProcess
             /\ retiring'[s] = retiring[s] \union ({process[s]} \ {NoProcess})
        ELSE UNCHANGED <<process[s], retiring[s]>>
  BY DEF GivesUp
<1>2. Up(Inference)' = Up(Inference) /\ Spawned' = Spawned  BY DEF Up, Spawned
<1>3. Inference \in Supervisors  BY Two
<1> QED  BY <1>1, <1>2, <1>3 DEF Trees

\* A step that moves one supervisor's operation on, and no process.
LEMMA Resumes ==
  ASSUME Inv, NEW s \in Supervisors, Types', Chain(s)', Installing',
         \A t \in Supervisors \ {s} :
           op'[t] = op[t] /\ UNCHANGED <<pending[t], settled[t], hello[t]>>,
         UNCHANGED <<process, retiring, retired, owner, worker>>
  PROVE  Inv'
<1> USE DEF Inv
<1>1. \A t \in Supervisors : Chain(t)'  BY ChainKept
<1>2. Trees' /\ QuitKeepsNoProcess'  BY TreesKept DEF QuitKeepsNoProcess
<1> QED  BY <1>1, <1>2

\* A step that moves one supervisor's operation on and gives its process up.
LEMMA Aborts ==
  ASSUME Inv, NEW s \in Supervisors, GiveUp({s}), OpType', Chain(s)', Installing',
         settled' \in [Supervisors -> {"none", "ok", "wrong", "error"}], queue' \in Seq(Queued),
         \A t \in Supervisors \ {s} : op'[t] = op[t] /\ settled'[t] = settled[t],
         UNCHANGED <<retired, owner, worker, holds>>
  PROVE  Inv'
<1> USE DEF Inv
<1>1. /\ process' \in [Supervisors -> Processes \union {NoProcess}]
      /\ hello' \in [Supervisors -> {"none", "waiting", "done"}]
      /\ pending' \in [Supervisors -> Requests \union {"none"}]
      /\ retiring' \in [Supervisors -> SUBSET Processes]
      /\ activeModel' \in {activeModel, NoModel}
      /\ process'[s] = NoProcess
      /\ \A t \in Supervisors \ {s} : UNCHANGED <<process[t], pending[t], hello[t], retiring[t]>>
  BY GivenUp DEF GivesUp
<1>2. Types'  BY <1>1 DEF Types, OpType
<1>3. \A t \in Supervisors : Chain(t)' BY <1>1, ChainKept
<1>4. Trees'  BY GivenUp, TreesGivenUp
<1>5. QuitKeepsNoProcess'  BY <1>1 DEF QuitKeepsNoProcess
<1> QED  BY <1>2, <1>3, <1>4, <1>5

LEMMA RunNextStep == ASSUME Inv, RunNext PROVE Inv'
<1> USE DEF Inv
<1>0. Inference \in Supervisors /\ Installer \in Supervisors /\ Inference # Installer  BY Two
<1>1. queue # <<>> /\ queue \in Seq(Queued) /\ op[Inference].at = "idle" /\ OpType
  BY DEF RunNext, Types, OpType
<1>2. Head(queue) \in Queued /\ queue' \in Seq(Queued)  BY <1>1 DEF RunNext
<1>3. PICK x \in Operations :
        /\ op' = [op EXCEPT ![Inference] = x]
        /\ x.at \in {"idle", "ensure", "starting", "stop", "install", "own"}
        /\ x.at = "own" => x.kind \in DOMAIN OwnRequest
        /\ x.at = "install" => ~retired[Inference]
  <2> DEFINE o == Head(queue)
             x == IF FirstPoint(o) = "idle" THEN Idle
                  ELSE [o EXCEPT !.at = FirstPoint(o),
                                 !.restore = IF o.kind = "install" /\ FirstPoint(o) = "stop"
                                             THEN activeModel ELSE NoModel]
  <2>1. o \in Operations /\ o.kind \in AllKinds  BY <1>2 DEF Queued, Operations
  <2>2. FirstPoint(o) \in {"idle", "ensure", "starting", "stop", "install", "own"}
        /\ (FirstPoint(o) = "own" => o.kind \in DOMAIN OwnRequest)
        /\ (FirstPoint(o) = "install" => ~retired[Inference])
    BY <2>1 DEF FirstPoint, AllKinds, OwnRequest
  <2>3. activeModel \in Models \union {NoModel}  BY DEF Types
  <2> DEFINE m == IF o.kind = "install" /\ FirstPoint(o) = "stop" THEN activeModel ELSE NoModel
  <2>6. FirstPoint(o) \in Points /\ m \in Models \union {NoModel}
    BY <2>2, <2>3 DEF Points, Synchronous, Awaits
  <2>4. x \in Operations /\ (x.at = FirstPoint(o)) /\ (FirstPoint(o) # "idle" => x.kind = o.kind)
    <3> HIDE DEF o, m
    <3>1. CASE FirstPoint(o) = "idle"  BY <3>1, IdleType
    <3>2. CASE FirstPoint(o) # "idle"
      <4>1. x = [kind |-> o.kind, model |-> o.model, session |-> o.session, at |-> FirstPoint(o),
                 child |-> o.child, restore |-> m]
        BY <2>1, <3>2 DEF m, Operations
      <4> HIDE DEF x
      <4> QED  BY <3>2, <4>1, <2>1, <2>6 DEF Operations
    <3> QED  BY <3>1, <3>2
  <2>5. op' = [op EXCEPT ![Inference] = x]  BY DEF RunNext
  <2> QED  BY <2>2, <2>4, <2>5
<1>4. OpType' /\ op'[Inference] = x /\ op'[Installer] = op[Installer]  BY <1>0, <1>1, <1>3 DEF OpType
<1>5. UNCHANGED <<process, hello, pending, settled, retiring, retired, owner, worker, holds, activeModel>>
  BY DEF RunNext, workerVars
<1>6. Types'  BY <1>2, <1>4, <1>5 DEF Types, OpType
<1>7. Chain(Inference)'  BY <1>0, <1>1, <1>3, <1>4, <1>5 DEF Chain, Asks
<1>8. Installing'  BY <1>0, <1>1, <1>3, <1>4, <1>5 DEF Installing
<1> QED  BY <1>0, <1>4, <1>5, <1>6, <1>7, <1>8, Two, Resumes

LEMMA EnsureReadyStep == ASSUME Inv, NEW s \in Supervisors, EnsureReady(s) PROVE Inv'
<1> USE DEF Inv
<1>0. Inference \in Supervisors /\ Installer \in Supervisors /\ Inference # Installer  BY Two
<1>1. op[s].at = "ensure" /\ OpType /\ op[s] \in Operations  BY DEF EnsureReady, Types, OpType
<1>2. s = Inference  BY <1>1, Two DEF Installing
<1>3. PICK x \in Operations :
        /\ op' = [op EXCEPT ![s] = x] /\ x.at \in {"idle", "own", "guard", "starting"}
        /\ x.at = "own" => x.kind \in DOMAIN OwnRequest
  <2>1. [op[s] EXCEPT !.at = "own"] \in Operations /\ [op[s] EXCEPT !.at = "guard"] \in Operations
        /\ [op[s] EXCEPT !.at = "starting"] \in Operations
    BY <1>1 DEF Operations, Points, Synchronous, Awaits
  <2>2. AfterReady(s) \in Operations /\ AfterReady(s).at \in {"idle", "own"}
        /\ (AfterReady(s).at = "own" => AfterReady(s).kind \in {"transcribe", "begin"})
    BY <1>1, <2>1, IdleType DEF AfterReady, Operations
  <2>3. {"transcribe", "begin"} \subseteq DOMAIN OwnRequest  BY DEF OwnRequest
  <2> DEFINE x == IF SameSelection(op[s].model) THEN AfterReady(s)
                  ELSE [op[s] EXCEPT !.at = IF activeModel # NoModel THEN "guard" ELSE "starting"]
  <2>4. x \in Operations /\ x.at \in {"idle", "own", "guard", "starting"}
        /\ (x.at = "own" => x.kind \in DOMAIN OwnRequest)
    BY <1>1, <2>1, <2>2, <2>3 DEF Operations
  <2>5. op' = [op EXCEPT ![s] = x]  BY DEF EnsureReady
  <2> QED  BY <2>4, <2>5
<1>4. OpType' /\ op'[Inference] = x /\ op'[Installer] = op[Installer]
  BY <1>0, <1>1, <1>2, <1>3 DEF OpType
<1>5. UNCHANGED <<process, hello, pending, settled, retiring, retired, owner, worker, holds, activeModel, queue>>
  BY DEF EnsureReady, workerVars, callVars
<1>6. Types'  BY <1>4, <1>5 DEF Types, OpType
<1>7. Chain(Inference)'  BY <1>0, <1>1, <1>2, <1>3, <1>4, <1>5 DEF Chain, Asks
<1>8. Installing'  BY <1>0, <1>1, <1>2, <1>3, <1>4, <1>5 DEF Installing
<1> QED  BY <1>0, <1>4, <1>5, <1>6, <1>7, <1>8, Two, Resumes

LEMMA GuardAnswersStep == ASSUME Inv, NEW s \in Supervisors, GuardAnswers(s) PROVE Inv'
<1> USE DEF Inv
<1>0. Inference \in Supervisors /\ Installer \in Supervisors /\ Inference # Installer  BY Two
<1>1. op[s].at = "guard" /\ OpType  BY DEF GuardAnswers, Types, OpType
<1>2. s = Inference  BY <1>1, Two DEF Installing
<1>3. OpType' /\ op'[Inference].at \in {"stop", "idle"} /\ op'[Installer] = op[Installer]
  BY <1>0, <1>1, <1>2, AtType, EndsType DEF GuardAnswers, Points, Synchronous
<1>4. UNCHANGED <<process, hello, pending, settled, retiring, retired, owner, worker, holds, activeModel, queue>>
  BY DEF GuardAnswers, workerVars, callVars
<1>5. Types'  BY <1>3, <1>4 DEF Types, OpType
<1>6. Chain(Inference)'  BY <1>0, <1>1, <1>2, <1>3, <1>4 DEF Chain, Asks
<1>7. Chain(Installer)'  BY <1>0, <1>3, <1>4, ChainKept
<1>8. Installing'  BY <1>0, <1>1, <1>2, <1>3, <1>4 DEF Installing
<1>9. Trees'  BY <1>4, TreesKept
<1>10. QuitKeepsNoProcess'  BY <1>4 DEF QuitKeepsNoProcess
<1> QED  BY <1>5, <1>6, <1>7, <1>8, <1>9, <1>10, Two

LEMMA StopStep == ASSUME Inv, NEW s \in Supervisors, Stop(s) PROVE Inv'
<1> USE DEF Inv
<1>0. Inference \in Supervisors /\ Installer \in Supervisors /\ Inference # Installer  BY Two
<1>1. op[s].at = "stop" /\ OpType /\ Chain(s)  BY DEF Stop, Types, OpType
<1>2. UNCHANGED <<process, hello, settled, retiring, retired, owner, worker, holds, activeModel, queue>>
  BY DEF Stop, callVars
<1>3. pending[s] = "none" /\ settled[s] = "none"  BY <1>1 DEF Chain, Asks
<1>4. CASE process[s] = NoProcess
  <2>1. At(s, "retire") /\ pending' = pending /\ "retire" \in Points  BY <1>4 DEF Stop, Points, Awaits
  <2>2. OpType' /\ op'[s].at = "retire" /\ op'[s].kind = op[s].kind
        /\ \A t \in Supervisors \ {s} : op'[t] = op[t]
    BY <1>1, <2>1, AtType
  <2>3. Types'  BY <1>2, <2>1, <2>2 DEF Types, OpType
  <2>4. Chain(s)'  BY <1>1, <1>2, <1>3, <1>4, <2>1, <2>2 DEF Chain, Asks
  <2>5. Installing'  BY <1>0, <1>1, <1>2, <2>2, Two DEF Installing
  <2> QED  BY <1>2, <2>1, <2>2, <2>3, <2>4, <2>5, Resumes
<1>5. CASE process[s] # NoProcess
  <2>1. Ask(s, "shutdown", "stopping", op) /\ "stopping" \in Points /\ "shutdown" \in Requests
    BY <1>5 DEF Stop, Ask, Points, Awaits, Requests
  <2>2. /\ OpType' /\ op'[s].at = "stopping" /\ op'[s].kind = op[s].kind /\ op'[s].child = process[s]
        /\ \A t \in Supervisors \ {s} : op'[t] = op[t] /\ pending'[t] = pending[t]
        /\ pending' \in [Supervisors -> Requests \union {"none"}] /\ pending'[s] = "shutdown"
    BY <1>5, <2>1, AskType
  <2>3. Types'  BY <1>2, <2>2 DEF Types, OpType
  <2>4. Chain(s)'  BY <1>2, <1>3, <1>5, <2>2 DEF Chain, Asks
  <2>5. Installing'  BY <1>0, <1>1, <1>2, <2>2, Two DEF Installing
  <2> QED  BY <1>2, <2>2, <2>3, <2>4, <2>5, Resumes
<1> QED  BY <1>4, <1>5

LEMMA ShutdownAnsweredStep == ASSUME Inv, NEW s \in Supervisors, ShutdownAnswered(s) PROVE Inv'
<1> USE DEF Inv
<1>0. Inference \in Supervisors /\ Installer \in Supervisors /\ Inference # Installer  BY Two
<1>1. op[s].at = "stopping" /\ settled[s] # "none" /\ OpType /\ Chain(s)
  BY DEF ShutdownAnswered, Types, OpType
<1>2. /\ UNCHANGED <<process, hello, pending, retiring, retired, owner, worker, holds, activeModel, queue>>
      /\ settled' = [settled EXCEPT ![s] = "none"] /\ At(s, "tree") /\ "tree" \in Points
  BY DEF ShutdownAnswered, callVars, workerVars, Points, Awaits
<1>3. /\ OpType' /\ op'[s].at = "tree" /\ op'[s].kind = op[s].kind /\ op'[s].child = op[s].child
      /\ \A t \in Supervisors \ {s} : op'[t] = op[t]
  BY <1>1, <1>2, AtType
<1>4. settled' \in [Supervisors -> {"none", "ok", "wrong", "error"}] /\ settled'[s] = "none"
      /\ \A t \in Supervisors \ {s} : settled'[t] = settled[t]
  BY <1>2 DEF Types
<1>5. Types'  BY <1>2, <1>3, <1>4 DEF Types, OpType
<1>6. Chain(s)'  BY <1>1, <1>2, <1>3, <1>4 DEF Chain, Asks
<1>7. Installing'  BY <1>0, <1>1, <1>2, <1>3, Two DEF Installing
<1> QED  BY <1>2, <1>3, <1>4, <1>5, <1>6, <1>7, Resumes

\* The process an operation was told to stop, given up at the end of the wait for its tree.
LEMMA TreeWaitEndsStep == ASSUME Inv, NEW s \in Supervisors, TreeWaitEnds(s) PROVE Inv'
<1> USE DEF Inv
<1>0. Inference \in Supervisors /\ Installer \in Supervisors /\ Inference # Installer  BY Two
<1>1. op[s].at = "tree" /\ OpType /\ Chain(s)  BY DEF TreeWaitEnds, Types, OpType
<1>2. UNCHANGED <<settled, retired, queue, owner, worker, holds>> /\ At(s, "retire") /\ "retire" \in Points
  BY DEF TreeWaitEnds, callVars, Points, Awaits
<1>3. OpType' /\ op'[s].at = "retire" /\ op'[s].kind = op[s].kind
      /\ \A t \in Supervisors \ {s} : op'[t] = op[t]
  BY <1>1, <1>2, AtType
<1>4. pending[s] = "none" /\ settled[s] = "none" /\ process[s] \in {op[s].child, NoProcess}
  BY <1>1 DEF Chain, Asks
<1>5. CASE process[s] = op[s].child
  <2>1. GiveUp({s})  BY <1>5 DEF TreeWaitEnds, Abort
  <2>2. /\ process' \in [Supervisors -> Processes \union {NoProcess}]
        /\ hello' \in [Supervisors -> {"none", "waiting", "done"}]
        /\ pending' \in [Supervisors -> Requests \union {"none"}]
        /\ retiring' \in [Supervisors -> SUBSET Processes]
        /\ activeModel' \in {activeModel, NoModel}
        /\ process'[s] = NoProcess /\ pending'[s] = "none"
        /\ \A t \in Supervisors \ {s} : UNCHANGED <<process[t], pending[t], hello[t], retiring[t]>>
    BY <1>4, <2>1, GivenUp DEF GivesUp
  <2>3. Types'  BY <1>2, <1>3, <2>2 DEF Types, OpType
  <2>4. \A t \in Supervisors : Chain(t)' BY <1>2, <1>3, <1>4, <2>2, ChainKept DEF Chain, Asks
  <2>5. Installing'  BY <1>0, <1>1, <1>2, <1>3, <2>2, Two DEF Installing
  <2>6. Trees'  BY <1>2, <2>1, GivenUp, TreesGivenUp
  <2>7. QuitKeepsNoProcess'  BY <1>2, <2>2 DEF QuitKeepsNoProcess
  <2> QED  BY <2>3, <2>4, <2>5, <2>6, <2>7
<1>6. CASE process[s] # op[s].child
  <2>1. process[s] = NoProcess /\ UNCHANGED <<process, pending, hello, retiring, activeModel>>
    BY <1>4, <1>6 DEF TreeWaitEnds, Keep
  <2>2. Types'  BY <1>2, <1>3, <2>1 DEF Types, OpType
  <2>3. Chain(s)'  BY <1>2, <1>3, <1>4, <2>1 DEF Chain, Asks
  <2>4. Installing'  BY <1>0, <1>1, <1>2, <1>3, <2>1, Two DEF Installing
  <2> QED  BY <1>2, <1>3, <2>1, <2>2, <2>3, <2>4, Resumes
<1> QED  BY <1>5, <1>6

LEMMA RetireWaitEndsStep == ASSUME Inv, NEW s \in Supervisors, RetireWaitEnds(s) PROVE Inv'
<1> USE DEF Inv
<1>0. Inference \in Supervisors /\ Installer \in Supervisors /\ Inference # Installer  BY Two
<1>1. op[s].at = "retire" /\ OpType /\ op[s] \in Operations /\ Chain(s)
  BY DEF RetireWaitEnds, Types, OpType
<1>2. UNCHANGED <<process, hello, pending, settled, retiring, retired, owner, worker, holds, activeModel, queue>>
  BY DEF RetireWaitEnds, callVars, workerVars
<1>3. PICK next \in {"closed", "idle", "install", "starting", "stuck"} :
        /\ op' = [op EXCEPT ![s] = IF next = "idle" THEN Idle ELSE [@ EXCEPT !.at = next]]
        /\ IF s = Installer THEN next \in {"closed", "stuck"}
           ELSE next \in {"idle", "starting"} \/ (next = "install" /\ ~retired[s])
  <2> DEFINE n == IF retiring[s] = {} THEN AfterStop(s)
                  ELSE IF s = Installer THEN "stuck" ELSE "idle"
  <2>1. op' = [op EXCEPT ![s] = IF n = "idle" THEN Idle ELSE [@ EXCEPT !.at = n]]
    BY DEF RetireWaitEnds
  <2>2. IF s = Installer THEN n \in {"closed", "stuck"}
        ELSE n \in {"idle", "starting"} \/ (n = "install" /\ ~retired[s])
    <3>1. IF s = Installer THEN AfterStop(s) = "closed"
          ELSE AfterStop(s) \in {"idle", "starting"} \/ (AfterStop(s) = "install" /\ ~retired[s])
      <4>1. CASE s = Installer  BY <4>1 DEF AfterStop
      <4>2. CASE s # Installer /\ op[s].kind = "shutdown"  BY <4>2 DEF AfterStop
      <4>3. CASE s # Installer /\ op[s].kind = "install"  BY <4>3 DEF AfterStop
      <4>4. CASE s # Installer /\ op[s].kind \notin {"shutdown", "install"}  BY <4>4 DEF AfterStop
      <4> QED  BY <4>1, <4>2, <4>3, <4>4
    <3> QED  BY <3>1
  <2> HIDE DEF n
  <2>3. n \in {"closed", "idle", "install", "starting", "stuck"}  BY <2>2
  <2> WITNESS n \in {"closed", "idle", "install", "starting", "stuck"}
  <2> QED  BY <2>1, <2>2
<1>4. next \in Points  BY DEF Points, Synchronous, Awaits
<1>5. OpType' /\ op'[s].at = next /\ (next # "idle" => op'[s].kind = op[s].kind)
      /\ \A t \in Supervisors \ {s} : op'[t] = op[t]
  <2>1. CASE next = "idle"  BY <1>1, <1>3, <2>1, IdleType DEF OpType
  <2>2. CASE next # "idle"
    <3>1. At(s, next)  BY <1>1, <1>3, <2>2 DEF At, OpType
    <3> QED  BY <1>1, <1>4, <3>1, AtType
  <2> QED  BY <2>1, <2>2
<1>6. Types'  BY <1>2, <1>5 DEF Types, OpType
<1>7. Chain(s)'  BY <1>1, <1>2, <1>5 DEF Chain, Asks
<1>8. Installing'
  <2>1. CASE s = Installer  BY <1>0, <1>1, <1>2, <1>3, <1>5, <2>1, Two DEF Installing
  <2>2. CASE s = Inference  BY <1>0, <1>1, <1>2, <1>3, <1>5, <2>2, Two DEF Installing
  <2> QED  BY <2>1, <2>2, Two
<1> QED  BY <1>2, <1>5, <1>6, <1>7, <1>8, Resumes

LEMMA SpawnedNext ==
  ASSUME WorkerAssumption, Trees, NEW p \in Processes, Cardinality(Spawned) = p - 1
  PROVE  Spawned = 1 .. (p - 1)
<1>1. PICK k \in 0 .. MaxProcesses : Spawned = 1 .. k  BY DEF Trees
<1>2. MaxProcesses \in Nat /\ k \in Nat /\ p \in Nat \ {0}  BY <1>1 DEF WorkerAssumption, Processes
<1>3. Cardinality(1 .. k) = k BY <1>2, FS_Interval
<1>4. k = p - 1  BY <1>1, <1>2, <1>3
<1> QED  BY <1>1, <1>4

LEMMA StartWaitEndsStep ==
  ASSUME WorkerAssumption, Inv, NEW s \in Supervisors, StartWaitEnds(s)
  PROVE  Inv'
<1> USE DEF Inv
<1>0. Inference \in Supervisors /\ Installer \in Supervisors /\ Inference # Installer  BY Two
<1>1. op[s].at = "starting" /\ OpType /\ Chain(s)  BY DEF StartWaitEnds, Types, OpType
<1>2. UNCHANGED <<pending, settled, retiring, retired, queue, activeModel, holds>>
  BY DEF StartWaitEnds, callVars
<1>3. pending[s] = "none" /\ settled[s] = "none"  BY <1>1 DEF Chain, Asks
<1>4. CASE /\ Ends(s) \/ At(s, "greeted")
           /\ UNCHANGED <<process, hello, owner, worker>>
  <2>1. OpType' /\ op'[s].at \in {"greeted", "stop", "idle"}
        /\ (s = Installer => op'[s].kind = op[s].kind /\ op'[s].at # "idle")
        /\ \A t \in Supervisors \ {s} : op'[t] = op[t]
    <3>1. CASE Ends(s)  BY <1>1, <3>1, EndsType
    <3>2. CASE At(s, "greeted")
      <4>1. "greeted" \in Points  BY DEF Points, Synchronous
      <4> QED  BY <1>1, <3>2, <4>1, AtType
    <3> QED  BY <1>4, <3>1, <3>2
  <2>2. Types'  BY <1>2, <1>4, <2>1 DEF Types, OpType
  <2>3. Chain(s)'  BY <1>1, <1>2, <1>3, <1>4, <2>1 DEF Chain, Asks
  <2>4. Installing'  BY <1>0, <1>1, <1>2, <1>4, <2>1, Two DEF Installing
  <2> QED  BY <1>2, <1>4, <2>1, <2>2, <2>3, <2>4, Resumes
<1>5. ASSUME NEW p \in Processes, MayStart(s), process[s] = NoProcess, ~Refuses(s),
             Cardinality(Spawned) = p - 1,
             process' = [process EXCEPT ![s] = p], owner' = [owner EXCEPT ![p] = s],
             worker' = [worker EXCEPT ![p] = "up"],
             hello' = [hello EXCEPT ![s] = "waiting"], At(s, "hello")
      PROVE  Inv'
  <2>1. "hello" \in Points  BY DEF Points, Awaits
  <2>2. OpType' /\ op'[s].at = "hello" /\ op'[s].kind = op[s].kind
        /\ \A t \in Supervisors \ {s} : op'[t] = op[t]
    BY <1>1, <1>5, <2>1, AtType
  <2>3. Spawned = 1 .. (p - 1) /\ p \in 1 .. MaxProcesses /\ MaxProcesses \in Nat
    BY <1>5, SpawnedNext DEF Processes, WorkerAssumption
  <2>4. owner[p] = "none" /\ p # NoProcess  BY <2>3 DEF Spawned, NoProcess, Processes
  <2>5. retiring[s] = {} /\ ~retired[s]  BY <1>5 DEF MayStart, Refuses
  <2>6. process'[s] = p /\ hello'[s] = "waiting"
        /\ \A t \in Supervisors \ {s} : process'[t] = process[t] /\ hello'[t] = hello[t]
    BY <1>5 DEF Types
  <2>7. Types'  BY <1>2, <1>5, <2>2 DEF Types, OpType
  <2>8. \A t \in Supervisors : Chain(t)' BY <1>2, <1>3, <2>2, <2>6, ChainKept DEF Chain, Asks
  <2>9. s = Installer => op[Inference].at = "installer"  BY <1>0, <1>1 DEF Installing
  <2>10. Installing'  BY <1>0, <1>1, <1>2, <2>2, <2>6, <2>9, Two DEF Installing
  <2>11. \A q \in Processes : owner'[q] = IF q = p THEN s ELSE owner[q]  BY <1>5 DEF Types
  <2>12. \A q \in Processes : q # p => worker'[q] = worker[q]  BY <1>5 DEF Types
  <2>13. Spawned' = 1 .. p
    <3>1. Spawned' = Spawned \union {p}  BY <2>4, <2>11, Two DEF Spawned, Supervisors, Inference, Installer
    <3>2. 1 .. p = (1 .. (p - 1)) \union {p}  BY <2>3
    <3> QED  BY <2>3, <3>1, <3>2
  <2>14. Trees'
    <3>1. \A t \in Supervisors : process'[t] # NoProcess => retiring'[t] = {} /\ owner'[process'[t]] = t
      BY <1>2, <2>5, <2>6, <2>11, <2>4, Two DEF Trees, Types, Supervisors, Inference, Installer
    <3>2. \A q \in Up(Inference)' : q = process'[Inference] \/ q \in retiring'[Inference]
      <4>1. SUFFICES ASSUME NEW q \in Processes, owner'[q] = Inference, worker'[q] = "up"
                     PROVE  q = process'[Inference] \/ q \in retiring'[Inference]
        BY DEF Up
      <4>2. CASE q = p  BY <2>6, <2>11, <4>1, <4>2
      <4>3. CASE q # p
        <5>1. q \in Up(Inference)  BY <2>11, <2>12, <4>1, <4>3 DEF Up
        <5>2. q = process[Inference] \/ q \in retiring[Inference]  BY <5>1 DEF Trees
        <5>3. q # NoProcess  BY DEF Processes, NoProcess
        <5> QED  BY <1>0, <1>2, <1>5, <2>5, <2>6, <5>2, <5>3
      <4> QED  BY <4>2, <4>3
    <3>3. p \in 0 .. MaxProcesses  BY <2>3
    <3> QED  BY <1>2, <2>13, <3>1, <3>2, <3>3 DEF Trees
  <2>15. QuitKeepsNoProcess'
    <3>1. ~retired[Inference]  BY <1>0, <2>5, <2>9, Two DEF Installing, Types
    <3> QED  BY <1>2, <3>1 DEF QuitKeepsNoProcess
  <2> QED  BY <2>7, <2>8, <2>10, <2>14, <2>15
<1> QED  BY <1>4, <1>5 DEF StartWaitEnds

LEMMA SettledType ==
  ASSUME Types, NEW s \in Supervisors, settled' = [settled EXCEPT ![s] = "none"]
  PROVE  /\ settled' \in [Supervisors -> {"none", "ok", "wrong", "error"}] /\ settled'[s] = "none"
         /\ \A t \in Supervisors \ {s} : settled'[t] = settled[t]
BY DEF Types

\* What request() leaves of an operation that asks, or cannot.
Asked(s, request, point) ==
  /\ OpType' /\ \A t \in Supervisors \ {s} : op'[t] = op[t] /\ pending'[t] = pending[t]
  /\ pending' \in [Supervisors -> Requests \union {"none"}]
  /\ s = Installer => op'[s].kind = op[s].kind /\ op'[s].at # "idle"
  /\ \/ /\ process[s] = NoProcess /\ pending'[s] = pending[s]
        /\ op'[s].at = IF s = Installer THEN "stop" ELSE "idle"
     \/ /\ process[s] # NoProcess /\ pending'[s] = request
        /\ op'[s].at = point /\ op'[s].kind = op[s].kind /\ op'[s].model = op[s].model

LEMMA AskMoves ==
  ASSUME Types, NEW s \in Supervisors, NEW request \in Requests, NEW point \in Points \ {"idle"},
         Ask(s, request, point, [op EXCEPT ![s] = Ended(s)])
  PROVE  Asked(s, request, point)
<1>1. OpType /\ pending \in [Supervisors -> Requests \union {"none"}]  BY DEF Types, OpType
<1>2. CASE process[s] # NoProcess  BY <1>2, AskType DEF Asked
<1>3. CASE process[s] = NoProcess BY <1>3, <1>1, EndsType DEF Ask, Ends, Asked
<1> QED  BY <1>2, <1>3

LEMMA AskOrIdle ==
  ASSUME Types, NEW request \in Requests, NEW point \in Points \ {"idle"},
         Ask(Inference, request, point, [op EXCEPT ![Inference] = Idle])
  PROVE  Asked(Inference, request, point)
<1>1. OpType /\ pending \in [Supervisors -> Requests \union {"none"}] /\ Inference \in Supervisors
  BY Two DEF Types, OpType
<1>2. CASE process[Inference] # NoProcess  BY <1>1, <1>2, AskType, Two DEF Asked
<1>3. CASE process[Inference] = NoProcess BY <1>3, <1>1, IdleType, Two DEF Ask, Asked, OpType
<1> QED  BY <1>2, <1>3

LEMMA HelloAnsweredStep == ASSUME Inv, NEW s \in Supervisors, HelloAnswered(s) PROVE Inv'
<1> USE DEF Inv
<1>0. Inference \in Supervisors /\ Installer \in Supervisors /\ Inference # Installer  BY Two
<1>1. op[s].at \in {"greeted", "hello"} /\ OpType /\ op[s] \in Operations /\ Chain(s)
  BY DEF HelloAnswered, Types, OpType
<1>2. /\ UNCHANGED <<process, hello, retiring, retired, owner, worker, queue, activeModel>>
      /\ settled' = [settled EXCEPT ![s] = "none"]
  BY DEF HelloAnswered, callVars
<1>3. settled' \in [Supervisors -> {"none", "ok", "wrong", "error"}] /\ settled'[s] = "none"
      /\ \A t \in Supervisors \ {s} : settled'[t] = settled[t]
  BY <1>2, SettledType
<1>4. pending[s] = "none"  BY <1>1 DEF Chain, Asks
<1>5. /\ OpType' /\ \A t \in Supervisors \ {s} : op'[t] = op[t] /\ pending'[t] = pending[t]
      /\ pending' \in [Supervisors -> Requests \union {"none"}]
      /\ s = Installer => op'[s].kind = op[s].kind /\ op'[s].at \in {"stop", "own"}
      /\ \/ pending'[s] = "none" /\ op'[s].at \in {"stop", "idle"}
         \/ pending'[s] = "none" /\ op'[s].at = "own" /\ op'[s].kind \in DOMAIN OwnRequest
         \/ pending'[s] # "none" /\ process[s] # NoProcess /\ op'[s].at = "load"
  <2>1. CASE Ends(s) /\ pending' = pending  BY <1>1, <1>4, <2>1, EndsType DEF Types
  <2>2. CASE (s = Installer \/ op[s].kind = "info") /\ At(s, "own") /\ pending' = pending
    BY <1>1, <2>2, <1>4, AtType DEF Points, Synchronous, Installing, OwnRequest, Types
  <2>3. CASE s # Installer /\ Ask(s, "load_model", "load", [op EXCEPT ![s] = Ended(s)]) BY <1>4, <2>3, AskMoves DEF Requests, Points, Awaits, Asked
  <2> QED  BY <2>1, <2>2, <2>3 DEF HelloAnswered
<1>6. holds' \in [Processes -> Models \union {NoModel}]
  BY <1>1 DEF HelloAnswered, Types, Operations
<1>7. Types'  BY <1>2, <1>3, <1>5, <1>6 DEF Types, OpType
<1>8. Chain(s)'  BY <1>2, <1>3, <1>5 DEF Chain, Asks
<1>9. Installing'  BY <1>0, <1>1, <1>2, <1>5, Two DEF Installing
<1> QED  BY <1>2, <1>3, <1>5, <1>7, <1>8, <1>9, Resumes

LEMMA LoadAnsweredStep == ASSUME Inv, NEW s \in Supervisors, LoadAnswered(s) PROVE Inv'
<1> USE DEF Inv
<1>0. Inference \in Supervisors /\ Installer \in Supervisors /\ Inference # Installer  BY Two
<1>1. op[s].at = "load" /\ OpType /\ op[s] \in Operations /\ Chain(s) /\ settled[s] # "none"
  BY DEF LoadAnswered, Types, OpType
<1>2. s = Inference  BY <1>1, Two DEF Installing
<1>3. /\ UNCHANGED <<retired, owner, worker, holds, queue>>
      /\ settled' = [settled EXCEPT ![s] = "none"]
  BY DEF LoadAnswered, callVars
<1>4. settled' \in [Supervisors -> {"none", "ok", "wrong", "error"}] /\ settled'[s] = "none"
      /\ \A t \in Supervisors \ {s} : settled'[t] = settled[t]
  BY <1>3, SettledType
<1>5. pending[s] = "none" /\ queue' \in Seq(Queued)  BY <1>1, <1>3 DEF Chain, Types
<1>6. CASE settled[s] = "ok"
  <2>1. UNCHANGED <<process, pending, hello, retiring>> /\ activeModel' = op[s].model
        /\ op' = [op EXCEPT ![s] = AfterReady(s)]
    BY <1>6 DEF LoadAnswered
  <2>2. AfterReady(s) \in Operations /\ AfterReady(s).at \in {"idle", "own"}
        /\ (AfterReady(s).at = "own" => AfterReady(s).kind \in DOMAIN OwnRequest)
    <3>1. CASE op[s].kind \in {"transcribe", "begin"}
      BY <1>1, <3>1 DEF AfterReady, Operations, OwnRequest, Points, Synchronous
    <3>2. CASE op[s].kind \notin {"transcribe", "begin"}  BY <3>2, IdleType DEF AfterReady
    <3> QED  BY <3>1, <3>2
  <2>3. OpType' /\ op'[s] = AfterReady(s) /\ \A t \in Supervisors \ {s} : op'[t] = op[t]
    BY <1>1, <2>1, <2>2 DEF OpType
  <2>4. Types'  BY <1>1, <1>3, <1>4, <2>1, <2>3 DEF Types, OpType, Operations
  <2>5. Chain(s)'  BY <1>4, <1>5, <2>1, <2>2, <2>3 DEF Chain, Asks
  <2>6. Installing'  BY <1>0, <1>1, <1>2, <1>3, <2>1, <2>2, <2>3 DEF Installing
  <2> QED  BY <1>3, <1>4, <2>1, <2>3, <2>4, <2>5, <2>6, Resumes
<1>7. CASE settled[s] # "ok"
  <2>1. Ends(s) /\ GiveUp({s})  BY <1>7 DEF LoadAnswered, Abort
  <2>2. OpType' /\ op'[s].at = "idle" /\ \A t \in Supervisors \ {s} : op'[t] = op[t]
    BY <1>0, <1>1, <1>2, <2>1, EndsType
  <2>3. process'[s] = NoProcess /\ pending'[s] = "none"
        /\ \A t \in Supervisors \ {s} : process'[t] = process[t]
    BY <1>5, <2>1, GivenUp DEF GivesUp
  <2>4. Chain(s)'  BY <1>4, <2>2, <2>3 DEF Chain, Asks
  <2>5. Installing'  BY <1>0, <1>1, <1>2, <1>3, <2>2, <2>3 DEF Installing
  <2> QED  BY <1>3, <1>4, <1>5, <2>1, <2>2, <2>4, <2>5, Aborts
<1> QED  BY <1>6, <1>7

LEMMA SendOwnStep == ASSUME Inv, NEW s \in Supervisors, SendOwn(s) PROVE Inv'
<1> USE DEF Inv
<1>0. Inference \in Supervisors /\ Installer \in Supervisors /\ Inference # Installer  BY Two
<1>1. op[s].at = "own" /\ OpType /\ op[s] \in Operations /\ Chain(s)
  BY DEF SendOwn, Types, OpType
<1>2. UNCHANGED <<process, hello, settled, retiring, retired, owner, worker, queue, activeModel>>
  BY DEF SendOwn, callVars
<1>3. pending[s] = "none" /\ settled[s] = "none"  BY <1>1 DEF Chain, Asks
<1>4. OwnRequest[op[s].kind] \in Requests \ {"none"} /\ {"append_live"} \subseteq Requests \ {"none"}
      /\ {"asked", "append"} \subseteq Points \ {"idle"}
  BY <1>1 DEF Chain, OwnRequest, Requests, Points, Awaits
<1>5. s = Installer => op[s].kind = "install"  BY <1>1 DEF Installing
<1>6. \/ Ends(s) /\ pending' = pending
      \/ \E request \in Requests \ {"none"} :
           \/ Ask(s, request, "asked", [op EXCEPT ![s] = Ended(s)])
           \/ s = Inference /\ \E point \in {"asked", "append"} : Ask(s, request, point, [op EXCEPT ![s] = Idle])
  <2>1. s # Inference => s = Installer  BY Two
  <2> QED  BY <1>4, <1>5, <2>1 DEF SendOwn
<1>7. /\ OpType' /\ \A t \in Supervisors \ {s} : op'[t] = op[t] /\ pending'[t] = pending[t]
      /\ pending' \in [Supervisors -> Requests \union {"none"}]
      /\ s = Installer => op'[s].kind = op[s].kind /\ op'[s].at \in {"stop", "asked"}
      /\ \/ pending'[s] = "none" /\ op'[s].at \in {"stop", "idle"}
         \/ pending'[s] # "none" /\ process[s] # NoProcess /\ op'[s].at \in {"asked", "append"}
  <2>1. CASE Ends(s) /\ pending' = pending  BY <1>1, <1>3, <2>1, EndsType DEF Types
  <2>2. ASSUME NEW request \in Requests \ {"none"}, Ask(s, request, "asked", [op EXCEPT ![s] = Ended(s)])
        PROVE  <1>7!:
    BY <1>4, <2>2, AskMoves, <1>3 DEF Asked
  <2>3. ASSUME s = Inference, NEW request \in Requests \ {"none"}, NEW point \in {"asked", "append"},
               Ask(s, request, point, [op EXCEPT ![s] = Idle])
        PROVE  <1>7!:
    BY <1>4, <2>3, AskOrIdle, <1>0, <1>3 DEF Asked
  <2> QED  BY <1>6, <2>1, <2>2, <2>3
<1>8. holds' \in [Processes -> Models \union {NoModel}]
  BY <1>1 DEF SendOwn, Types, Operations
<1>9. Types'  BY <1>2, <1>7, <1>8 DEF Types, OpType
<1>10. Chain(s)'  BY <1>2, <1>3, <1>7 DEF Chain, Asks
<1>11. Installing'  BY <1>0, <1>1, <1>2, <1>7, Two DEF Installing
<1> QED  BY <1>2, <1>7, <1>9, <1>10, <1>11, Resumes

\* An operation that is over, whether or not it gives its process up.
LEMMA EndsOrAborts ==
  ASSUME Inv, NEW s \in Supervisors, op[s].at \in {"append", "asked"}, settled[s] # "none", Ends(s),
         settled' = [settled EXCEPT ![s] = "none"], queue' \in Seq(Queued),
         UNCHANGED <<retired, owner, worker, holds>>,
         GiveUp({s}) \/ UNCHANGED <<process, pending, hello, retiring, activeModel>>
  PROVE  Inv'
<1> USE DEF Inv
<1>0. Inference \in Supervisors /\ Installer \in Supervisors /\ Inference # Installer  BY Two
<1>1. OpType /\ Chain(s)  BY DEF Types, OpType
<1>2. settled' \in [Supervisors -> {"none", "ok", "wrong", "error"}] /\ settled'[s] = "none"
      /\ \A t \in Supervisors \ {s} : settled'[t] = settled[t]
  BY SettledType
<1>3. pending[s] = "none"  BY <1>1 DEF Chain
<1>4. /\ OpType' /\ op'[s].at = (IF s = Installer THEN "stop" ELSE "idle")
      /\ s = Installer => op'[s].kind = op[s].kind
      /\ \A t \in Supervisors \ {s} : op'[t] = op[t]
  BY <1>1, EndsType
<1>5. process' \in [Supervisors -> Processes \union {NoProcess}] /\ pending'[s] = "none"
      /\ process'[s] \in {process[s], NoProcess}
      /\ \A t \in Supervisors \ {s} : process'[t] = process[t]
  <2>1. CASE GiveUp({s})  BY <1>3, <2>1, GivenUp DEF GivesUp
  <2>2. CASE UNCHANGED <<process, pending, hello, retiring, activeModel>>
    BY <1>3, <2>2 DEF Types
  <2> QED  BY <2>1, <2>2
<1>6. Chain(s)'  BY <1>0, <1>2, <1>4, <1>5 DEF Chain, Asks
<1>7. Installing'  BY <1>0, <1>4, <1>5, Two DEF Installing
<1>8. CASE GiveUp({s})  BY <1>2, <1>4, <1>6, <1>7, <1>8, Aborts
<1>9. CASE UNCHANGED <<process, pending, hello, retiring, activeModel>>
  <2>1. Types'  BY <1>2, <1>4, <1>9 DEF Types, OpType
  <2> QED  BY <1>2, <1>4, <1>6, <1>7, <1>9, <2>1, Resumes
<1> QED  BY <1>8, <1>9

LEMMA AppendAnsweredStep == ASSUME Inv, NEW s \in Supervisors, AppendAnswered(s) PROVE Inv'
<1> USE DEF Inv
<1>0. Inference \in Supervisors /\ Installer \in Supervisors /\ Inference # Installer  BY Two
<1>1. op[s].at = "append" /\ settled[s] # "none" /\ OpType /\ Chain(s)
  BY DEF AppendAnswered, Types, OpType
<1>2. s = Inference  BY <1>1, Two DEF Installing
<1>3. /\ UNCHANGED <<retired, owner, worker, holds, queue>>
      /\ settled' = [settled EXCEPT ![s] = "none"] /\ queue' \in Seq(Queued)
  BY DEF AppendAnswered, callVars, Types
<1>4. pending[s] = "none"  BY <1>1 DEF Chain
<1>5. CASE settled[s] = "ok" /\ OwnsLive(op[s].session)
  <2>1. Ask(s, "finish_live", "asked", [op EXCEPT ![s] = Idle])
        /\ UNCHANGED <<process, hello, retiring, activeModel>>
    BY <1>5 DEF AppendAnswered
  <2>2. "finish_live" \in Requests \ {"none"} /\ "asked" \in Points \ {"idle"}
    BY DEF Requests, Points, Awaits
  <2>3. /\ OpType' /\ \A t \in Supervisors \ {s} : op'[t] = op[t] /\ pending'[t] = pending[t]
        /\ pending' \in [Supervisors -> Requests \union {"none"}]
        /\ \/ pending'[s] = "none" /\ op'[s].at = "idle"
           \/ pending'[s] # "none" /\ process[s] # NoProcess /\ op'[s].at = "asked"
    BY <1>0, <1>2, <1>4, <2>1, <2>2, AskOrIdle DEF Asked
  <2>4. settled' \in [Supervisors -> {"none", "ok", "wrong", "error"}] /\ settled'[s] = "none"
        /\ \A t \in Supervisors \ {s} : settled'[t] = settled[t]
    BY <1>3, SettledType
  <2>5. Types'  BY <1>3, <2>1, <2>3, <2>4 DEF Types, OpType
  <2>6. Chain(s)'  BY <2>1, <2>3, <2>4 DEF Chain, Asks
  <2>7. Installing'  BY <1>0, <1>1, <1>2, <1>3, <2>1, <2>3 DEF Installing
  <2> QED  BY <1>3, <2>1, <2>3, <2>4, <2>5, <2>6, <2>7, Resumes
<1>6. CASE ~(settled[s] = "ok" /\ OwnsLive(op[s].session)) BY <1>6, <1>1, <1>3, EndsOrAborts DEF AppendAnswered, Abort, Keep
<1> QED  BY <1>5, <1>6

LEMMA OwnAnswerEnds ==
  ASSUME NEW s \in Supervisors, OwnAnswered(s)
  PROVE  /\ Ends(s) /\ queue' \in {queue, CancelQueued(op[s].session)}
         /\ GiveUp({s}) \/ UNCHANGED <<process, pending, hello, retiring, activeModel>>
<1>1. CASE settled[s] = "ok" /\ op[s].kind = "begin"  BY <1>1 DEF OwnAnswered
<1>2. CASE settled[s] = "ok" /\ op[s].kind = "finish"  BY <1>2 DEF OwnAnswered
<1>3. CASE settled[s] = "wrong" /\ s = Inference
           /\ (op[s].kind = "flush" => OwnsLive(op[s].session))
  BY <1>3 DEF OwnAnswered, Abort
<1>4. CASE /\ ~(settled[s] = "ok" /\ op[s].kind = "begin")
           /\ ~(settled[s] = "ok" /\ op[s].kind = "finish")
           /\ ~(settled[s] = "wrong" /\ s = Inference
                /\ (op[s].kind = "flush" => OwnsLive(op[s].session)))
  BY <1>4 DEF OwnAnswered, Keep
<1> QED  BY <1>1, <1>2, <1>3, <1>4

LEMMA OwnAnsweredStep == ASSUME Inv, NEW s \in Supervisors, OwnAnswered(s) PROVE Inv'
<1> USE DEF Inv
<1>1. /\ op[s].at = "asked" /\ settled[s] # "none" /\ Ends(s)
      /\ settled' = [settled EXCEPT ![s] = "none"]
      /\ UNCHANGED <<retired, owner, worker>>
      /\ holds' = holds
  BY DEF OwnAnswered
<1>2. /\ queue' \in {queue, CancelQueued(op[s].session)}
      /\ GiveUp({s}) \/ UNCHANGED <<process, pending, hello, retiring, activeModel>>
  BY OwnAnswerEnds
<1>3. op[s].session \in Sessions \union {NoSession} /\ "cancel" \in AllKinds /\ queue \in Seq(Queued)
      /\ NoModel \in Models \union {NoModel}
  BY DEF Types, Operations, AllKinds
<1>4. queue' \in Seq(Queued)  BY <1>2, <1>3, OperationType, QueueType DEF CancelQueued
<1> QED  BY <1>1, <1>2, <1>4, EndsOrAborts

LEMMA InstallStep == ASSUME Inv, NEW s \in Supervisors, Install(s) PROVE Inv'
<1> USE DEF Inv
<1>0. Inference \in Supervisors /\ Installer \in Supervisors /\ Inference # Installer  BY Two
<1>1. op[s].at = "install" /\ OpType /\ op[s] \in Operations  BY DEF Install, Types, OpType
<1>2. s = Inference  BY <1>1, Two DEF Installing
<1>3. UNCHANGED <<process, hello, pending, settled, owner, worker, holds, activeModel, queue>>
  BY DEF Install, callVars, workerVars
<1>4. process[Installer] = NoProcess /\ op[Installer].at = "idle" /\ ~retired[Inference]
  BY <1>0, <1>1, <1>2 DEF Installing
<1>5. PICK x \in Operations, y \in Operations :
        /\ op' = [op EXCEPT ![Inference] = x, ![Installer] = y]
        /\ x.at = "installer" /\ y.at = "starting" /\ y.kind = "install"
  <2> DEFINE x == [op[s] EXCEPT !.at = "installer"]
             y == [Operation("install", op[s].model, NoSession) EXCEPT !.at = "starting"]
  <2>1. x \in Operations /\ x.at = "installer"
    BY <1>1 DEF Operations, Points, Awaits
  <2>2. Operation("install", op[s].model, NoSession) \in Operations BY <1>1, OperationType DEF AllKinds, Operations
  <2>3. Operation("install", op[s].model, NoSession).kind = "install"
    BY DEF Operation, Idle
  <2>4. y \in Operations /\ y.at = "starting" /\ y.kind = "install"
    BY <2>2, <2>3 DEF Operations, Points, Awaits
  <2>5. op' = [op EXCEPT ![Inference] = x, ![Installer] = y]
    BY <1>0, <1>1, <1>2 DEF Install, OpType
  <2> QED  BY <2>1, <2>4, <2>5
<1>6. OpType' /\ op'[Inference] = x /\ op'[Installer] = y  BY <1>0, <1>1, <1>5 DEF OpType
<1>7. /\ retired' = [retired EXCEPT ![Installer] = FALSE]
      /\ retiring' = [retiring EXCEPT ![Installer] = {}]
  BY DEF Install
<1>8. Types'  BY <1>3, <1>6, <1>7 DEF Types, OpType
<1>9. \A t \in Supervisors : Chain(t)'
  <2>1. Chain(Inference)'  BY <1>0, <1>1, <1>2, <1>3, <1>5, <1>6 DEF Chain, Asks
  <2>2. Chain(Installer)'  BY <1>0, <1>3, <1>4, <1>5, <1>6 DEF Chain, Asks
  <2> QED  BY <2>1, <2>2, Two
<1>10. retired'[Inference] = retired[Inference] /\ retiring'[Inference] = retiring[Inference]
       /\ retiring'[Installer] = {}
  BY <1>0, <1>7 DEF Types
<1>11. Installing'  BY <1>4, <1>5, <1>6, <1>10 DEF Installing
<1>12. Trees'  BY <1>0, <1>3, <1>4, <1>10, Two DEF Trees, Up, Spawned
<1>13. QuitKeepsNoProcess'  BY <1>4, <1>10 DEF QuitKeepsNoProcess
<1> QED  BY <1>8, <1>9, <1>11, <1>12, <1>13

LEMMA InstallEndsStep == ASSUME Inv, NEW s \in Supervisors, InstallEnds(s) PROVE Inv'
<1> USE DEF Inv
<1>0. Inference \in Supervisors /\ Installer \in Supervisors /\ Inference # Installer  BY Two
<1>1. op[s].at = "installer" /\ op[Installer].at \in {"closed", "stuck"} /\ OpType
      /\ op[s] \in Operations
  BY DEF InstallEnds, Types, OpType
<1>2. s = Inference  BY <1>1, Two DEF Installing
<1>3. UNCHANGED <<process, hello, pending, settled, retired, retiring, owner, worker, holds, activeModel, queue>>
  BY DEF InstallEnds, callVars, workerVars
<1>4. process[Installer] = NoProcess  BY <1>0, <1>1 DEF Chain
<1>5. PICK x \in Operations :
        op' = [op EXCEPT ![Installer] = Idle, ![Inference] = x] /\ x.at \in {"ensure", "idle"}
  <2> DEFINE y == [Operation("ready", op[s].restore, NoSession) EXCEPT !.at = "ensure"]
             x == IF op[Installer].at = "closed" /\ Restores(s) THEN y ELSE Idle
  <2>1. Operation("ready", op[s].restore, NoSession) \in Operations BY <1>1, OperationType DEF AllKinds, Operations
  <2>2. y \in Operations /\ y.at = "ensure"  BY <2>1 DEF Operations, Points, Synchronous
  <2>3. op' = [op EXCEPT ![Installer] = Idle, ![Inference] = x]  BY <1>2 DEF InstallEnds
  <2> HIDE DEF y
  <2>4. x \in Operations /\ x.at \in {"ensure", "idle"}  BY <2>2, IdleType
  <2> HIDE DEF x
  <2> QED  BY <2>3, <2>4
<1>6. OpType' /\ op'[Inference] = x /\ op'[Installer] = Idle
  BY <1>0, <1>1, <1>5, IdleType DEF OpType
<1>7. Types'  BY <1>3, <1>6 DEF Types, OpType
<1>8. \A t \in Supervisors : Chain(t)'
  <2>1. Chain(Inference)'  BY <1>0, <1>1, <1>2, <1>3, <1>5, <1>6 DEF Chain, Asks
  <2>2. Chain(Installer)'  BY <1>0, <1>1, <1>3, <1>4, <1>6, IdleType DEF Chain, Asks
  <2> QED  BY <2>1, <2>2, Two
<1>9. Installing'  BY <1>3, <1>4, <1>5, <1>6, IdleType DEF Installing
<1>10. Trees'  BY <1>3, TreesKept
<1>11. QuitKeepsNoProcess'  BY <1>3 DEF QuitKeepsNoProcess
<1> QED  BY <1>7, <1>8, <1>9, <1>10, <1>11

-----------------------------------------------------------------------------
(* The calls, and what happens between two turns.                           *)

\* A call that only queues an operation.
LEMMA Queues ==
  ASSUME Inv, NEW o \in Queued, queue' \in {queue, Append(queue, o)},
         UNCHANGED <<supervisorVars, activeModel, workerVars>>
  PROVE  Inv'
<1> USE DEF Inv
<1>1. queue' \in Seq(Queued)  BY QueueType DEF Types
<1>2. UNCHANGED <<process, hello, pending, settled, op, retiring, retired, owner, worker, holds, activeModel>>
  BY DEF supervisorVars, workerVars
<1>3. Types'  BY <1>1, <1>2 DEF Types
<1>4. \A t \in Supervisors : Chain(t)'  BY <1>2, ChainKept
<1>5. Installing' /\ QuitKeepsNoProcess'  BY <1>2 DEF Installing, QuitKeepsNoProcess
<1>6. Trees'  BY <1>2, TreesKept
<1> QED  BY <1>3, <1>4, <1>5, <1>6

LEMMA CallStep ==
  ASSUME Inv, NEW kind \in AllKinds, NEW m \in Models \union {NoModel},
         NEW t \in Sessions \union {NoSession}, Call(kind, m, t),
         kind \in {"ready", "transcribe", "begin"} => m # NoModel
  PROVE  Inv'
<1>1. Operation(kind, m, t) \in Queued  BY OperationType
<1>2. queue' = Append(queue, Operation(kind, m, t)) /\ UNCHANGED <<supervisorVars, activeModel, workerVars>>
  BY DEF Call, Enqueue
<1> QED  BY <1>1, <1>2, Queues

LEMMA SessionCalls ==
  ASSUME Inv, NEW t \in Sessions, WriteFrame(t) \/ FinishLive(t) \/ CancelLive(t)
  PROVE  Inv'
<1>1. \A kind \in {"flush", "finish", "cancel"} : Operation(kind, NoModel, t) \in Queued
  BY OperationType DEF AllKinds
<1>2. PICK kind \in {"flush", "finish", "cancel"} : queue' \in {queue, Append(queue, Operation(kind, NoModel, t))}
  <2>1. CASE WriteFrame(t)  BY <2>1 DEF WriteFrame, Enqueue
  <2>2. CASE FinishLive(t)  BY <2>2 DEF FinishLive, Enqueue
  <2>3. CASE CancelLive(t)  BY <2>3 DEF CancelLive, CancelQueued
  <2> QED  BY <2>1, <2>2, <2>3
<1>3. UNCHANGED <<supervisorVars, activeModel, workerVars>>
  BY DEF WriteFrame, FinishLive, CancelLive
<1> QED  BY <1>1, <1>2, <1>3, Queues

\* A process given up by an event: what awaited it is rejected.
LEMMA TerminateStep ==
  ASSUME Inv, NEW S \in SUBSET Supervisors, GivesUp(S), Rejects(S),
         UNCHANGED <<op, queue, owner, worker, holds>>,
         retired' \in [Supervisors -> BOOLEAN], Installing',
         \/ UNCHANGED retired
         \/ \A s \in Supervisors \ S : process[s] = NoProcess
  PROVE  Inv'
<1> USE DEF Inv
<1>1. \A s \in Supervisors :
        settled'[s] = IF s \in S /\ process[s] # NoProcess /\ Rejected(s) THEN "error"
                      ELSE settled[s]
  BY DEF Rejects
<1>2. \A s \in Supervisors :
        IF s \in S
        THEN /\ process'[s] = NoProcess
             /\ retiring'[s] = retiring[s] \union ({process[s]} \ {NoProcess})
             /\ process[s] # NoProcess => pending'[s] = "none" /\ hello'[s] = "none"
             /\ process[s] = NoProcess => pending'[s] = pending[s] /\ hello'[s] = hello[s]
        ELSE UNCHANGED <<process[s], pending[s], hello[s], retiring[s]>>
  BY DEF GivesUp
<1>3. Types'  BY DEF Types, GivesUp, Rejects
<1>4. ASSUME NEW s \in Supervisors PROVE Chain(s)'
  <2>1. CASE s \in S /\ process[s] # NoProcess BY <1>1, <1>2, <2>1 DEF Chain, Rejected, Asks
  <2>2. CASE ~(s \in S /\ process[s] # NoProcess) BY <1>1, <1>2, <2>2, ChainKept
  <2> QED  BY <2>1, <2>2
<1>5. Trees'  BY TreesGivenUp
<1>6. QuitKeepsNoProcess'
  <2>1. CASE UNCHANGED retired  BY <1>2, <2>1 DEF QuitKeepsNoProcess
  <2>2. CASE \A s \in Supervisors \ S : process[s] = NoProcess  BY <1>2, <2>2 DEF QuitKeepsNoProcess
  <2> QED  BY <2>1, <2>2
<1> QED  BY <1>3, <1>4, <1>5, <1>6

\* An event that leaves the supervisors open.
LEMMA RejectStep ==
  ASSUME Inv, NEW S \in SUBSET Supervisors, GivesUp(S), Rejects(S),
         UNCHANGED <<op, retired, queue, owner, worker, holds>>
  PROVE  Inv'
<1>1. process'[Installer] \in {process[Installer], NoProcess}  BY Two DEF Inv, GivesUp
<1>2. Installing'  BY <1>1 DEF Inv, Installing
<1>3. retired' \in [Supervisors -> BOOLEAN]  BY DEF Inv, Types
<1> QED  BY <1>2, <1>3, TerminateStep

LEMMA UserAbortsStep == ASSUME Inv, UserAborts PROVE Inv'
<1>1. Terminate({Inference}) /\ UNCHANGED <<op, retired, queue, owner, worker, holds>>
  BY DEF UserAborts, callVars
<1> QED  BY <1>1, RejectStep, Terminated, Two DEF Inv

LEMMA TimesOutStep == ASSUME Inv, NEW s \in Supervisors, TimesOut(s) PROVE Inv'
<1>1. Terminate({s}) /\ UNCHANGED <<op, retired, queue, owner, worker, holds>>
  BY DEF TimesOut, callVars
<1> QED  BY <1>1, RejectStep, Terminated DEF Inv

LEMMA QuitStep == ASSUME Inv, TurnOver, Quit PROVE Inv'
<1> USE DEF Inv
<1>0. Inference \in Supervisors /\ Installer \in Supervisors /\ Inference # Installer  BY Two
<1>1. /\ retired' = [s \in Supervisors |-> retired[s] \/ s \in Quits] /\ Terminate(Quits)
      /\ UNCHANGED <<op, queue, owner, worker, holds>>
  BY DEF Quit, callVars
<1>2. Quits \in SUBSET Supervisors /\ Inference \in Quits  BY Two DEF Quits
<1>3. retired' \in [Supervisors -> BOOLEAN]  BY <1>1 DEF Types
<1>4. op[Inference].at # "install"  BY <1>0 DEF TurnOver, MustRun, Synchronous
<1>5. op[Inference].at = "installer" => retired'[Installer]  BY <1>0, <1>1 DEF Quits
<1>6. process'[Installer] \in {process[Installer], NoProcess}
  BY <1>0, <1>1, <1>2, Terminated DEF GivesUp
<1>7. Installing'  BY <1>1, <1>4, <1>5, <1>6 DEF Installing
<1>8. \A s \in Supervisors \ Quits : process[s] = NoProcess  BY Two DEF Quits, Installing
<1> QED  BY <1>1, <1>2, <1>3, <1>7, <1>8, Terminated, TerminateStep

LEMMA WorkerStep ==
  ASSUME Inv, NEW p \in Processes, WorkerAnswers(p) \/ WorkerDies(p)
  PROVE  Inv'
<1> USE DEF Inv
<1>1. /\ UNCHANGED <<process, hello, pending, settled, op, retiring, retired, queue, activeModel,
                     owner, holds>>
      /\ worker' = worker \/ worker' = [worker EXCEPT ![p] = "gone"]
  <2>1. CASE WorkerAnswers(p)  BY <2>1 DEF WorkerAnswers, supervisorVars, callVars
  <2>2. CASE WorkerDies(p)  BY <2>2 DEF WorkerDies, supervisorVars, callVars
  <2> QED  BY <2>1, <2>2
<1>2. worker' \in [Processes -> {"none", "up", "gone"}]
      /\ \A q \in Processes : worker'[q] = "up" => worker[q] = "up"
  BY <1>1 DEF Types
<1>3. Types'  BY <1>1, <1>2 DEF Types
<1>4. \A t \in Supervisors : Chain(t)'  BY <1>1, ChainKept
<1>5. Installing' /\ QuitKeepsNoProcess'  BY <1>1 DEF Installing, QuitKeepsNoProcess
<1>6. Trees'  BY <1>1, <1>2, TreesKept
<1> QED  BY <1>3, <1>4, <1>5, <1>6

LEMMA GroupKilledStep == ASSUME Inv, NEW p \in Processes, GroupKilled(p) PROVE Inv'
<1> USE DEF Inv
<1>1. /\ UNCHANGED <<process, hello, pending, settled, op, retired, queue, activeModel, owner, holds>>
      /\ worker' = [worker EXCEPT ![p] = "gone"]
      /\ retiring' = [retiring EXCEPT ![owner[p]] = @ \ {p}]
  BY DEF GroupKilled, callVars
<1>2. /\ retiring' \in [Supervisors -> SUBSET Processes]
      /\ \A s \in Supervisors : retiring'[s] \in {retiring[s], retiring[s] \ {p}}
  BY <1>1 DEF Types
<1>3. worker' \in [Processes -> {"none", "up", "gone"}] /\ worker'[p] = "gone"
      /\ \A q \in Processes : q # p => worker'[q] = worker[q]
  BY <1>1 DEF Types
<1>4. Types'  BY <1>1, <1>2, <1>3 DEF Types
<1>5. \A t \in Supervisors : Chain(t)'  BY <1>1, ChainKept
<1>6. Installing' /\ QuitKeepsNoProcess'  BY <1>1 DEF Installing, QuitKeepsNoProcess
<1>7. Trees' BY <1>1, <1>2, <1>3, Two DEF Trees, Up, Spawned
<1> QED  BY <1>4, <1>5, <1>6, <1>7

LEMMA AnchorLostSeen ==
  ASSUME Inv, NEW p \in Processes, AnchorLost(p)
  PROVE  IF owner[p] \in Supervisors /\ process[owner[p]] = p
         THEN GivesUp({owner[p]}) /\ Rejects({owner[p]})
         ELSE GivesUp({}) /\ Rejects({})
<1> USE DEF Inv
<1> DEFINE s == owner[p]
<1>0. Inference \in Supervisors /\ p # NoProcess  BY Two DEF Processes, NoProcess
<1>2. p = process[Inference] => s = Inference  BY <1>0 DEF Trees
<1>3. /\ process' = [process EXCEPT ![s] = IF @ = p THEN NoProcess ELSE @]
      /\ pending' = IF process[s] = p THEN [pending EXCEPT ![s] = "none"] ELSE pending
      /\ hello' = IF process[s] = p THEN [hello EXCEPT ![s] = "none"] ELSE hello
      /\ settled' = IF process[s] = p /\ Rejected(s) THEN [settled EXCEPT ![s] = "error"]
                    ELSE settled
      /\ retiring' = [retiring EXCEPT ![s] = IF process[s] = p THEN @ \union {p} ELSE @]
      /\ activeModel' = IF p = process[Inference] THEN NoModel ELSE activeModel
  BY DEF AnchorLost
<1>4. CASE s \in Supervisors /\ process[s] = p BY <1>0, <1>3, <1>4 DEF GivesUp, Types, Rejects
<1>5. CASE ~(s \in Supervisors /\ process[s] = p) BY <1>0, <1>2, <1>3, <1>5 DEF Types, GivesUp, Rejects
<1> QED  BY <1>4, <1>5

LEMMA AnchorLostStep == ASSUME Inv, NEW p \in Processes, AnchorLost(p) PROVE Inv'
<1>1. UNCHANGED <<op, retired, queue, owner, worker, holds>>  BY DEF AnchorLost, callVars
<1>2. CASE owner[p] \in Supervisors /\ process[owner[p]] = p
  BY <1>1, <1>2, AnchorLostSeen, RejectStep
<1>3. CASE ~(owner[p] \in Supervisors /\ process[owner[p]] = p)
  BY <1>1, <1>3, AnchorLostSeen, RejectStep
<1> QED  BY <1>2, <1>3

LEMMA HandleLineStep == ASSUME Inv, NEW s \in Supervisors, HandleLine(s) PROVE Inv'
<1> USE DEF Inv
<1> DEFINE line == Head(out[process[s]])
<1>1. UNCHANGED <<op, retired, queue, owner, worker, holds>> /\ process[s] # NoProcess
  BY DEF HandleLine, callVars
<1>2. CASE UNCHANGED <<process, settled, pending, retiring, activeModel>>
           /\ hello' = [hello EXCEPT ![s] = "done"]
  BY <1>1, <1>2, TreesKept DEF Types, Chain, Installing, QuitKeepsNoProcess
<1>3. CASE /\ UNCHANGED <<process, hello, retiring, activeModel>>
           /\ line \in {"ok", "error", "wrong"} /\ pending[s] # "none"
           /\ settled' = [settled EXCEPT ![s] = line] /\ pending' = [pending EXCEPT ![s] = "none"]
  BY <1>1, <1>3, ChainKept, TreesKept DEF Types, Chain, Asks, Installing, QuitKeepsNoProcess
<1>4. CASE Terminate({s})  BY <1>1, <1>4, Terminated, RejectStep
<1> QED  BY <1>2, <1>3, <1>4 DEF HandleLine

LEMMA Initially == ASSUME WorkerAssumption, Init PROVE Inv
<1>0. Inference \in Supervisors /\ Installer \in Supervisors /\ Inference # Installer  BY Two
<1>1. Types  BY IdleType DEF Init, Types
<1>2. \A s \in Supervisors : op[s] = Idle /\ process[s] = NoProcess /\ pending[s] = "none"
        /\ settled[s] = "none" /\ retired[s] = FALSE /\ retiring[s] = {}
  BY DEF Init
<1>3. \A s \in Supervisors : Chain(s)  BY <1>2, IdleType DEF Chain, Asks
<1>4. Installing /\ QuitKeepsNoProcess  BY <1>0, <1>2, IdleType DEF Installing, QuitKeepsNoProcess
<1>5. Trees BY <1>2 DEF Init, Up, Spawned, Inference, WorkerAssumption, Trees
<1> QED  BY <1>1, <1>3, <1>4, <1>5 DEF Inv

LEMMA Inductive == ASSUME WorkerAssumption, Inv, [Next]_vars PROVE Inv'
<1>1. CASE UNCHANGED vars
  <2>1. UNCHANGED <<process, hello, pending, settled, op, retiring, retired, queue, activeModel,
                    owner, worker, holds>>
    BY <1>1 DEF vars, supervisorVars, callVars, workerVars
  <2>2. Types' /\ Installing' /\ QuitKeepsNoProcess'
    BY <2>1 DEF Inv, Types, Installing, QuitKeepsNoProcess
  <2>3. Trees' /\ \A s \in Supervisors : Chain(s)'  BY <2>1, TreesKept, ChainKept DEF Inv
  <2> QED  BY <2>2, <2>3 DEF Inv
<1>2. CASE RunNext  BY <1>2, RunNextStep
<1>3. ASSUME NEW s \in Supervisors, Runs(s) PROVE Inv'
  BY <1>3, EnsureReadyStep, StopStep, ShutdownAnsweredStep, HelloAnsweredStep, LoadAnsweredStep,
     SendOwnStep, AppendAnsweredStep, OwnAnsweredStep, InstallStep, InstallEndsStep
  DEF Runs
<1>4. ASSUME NEW s \in Supervisors, Timers(s) PROVE Inv'
  BY <1>4, TreeWaitEndsStep, RetireWaitEndsStep, StartWaitEndsStep DEF Timers
<1>5. ASSUME NEW s \in Supervisors, HandleLine(s) PROVE Inv'  BY <1>5, HandleLineStep
<1>6. CASE TurnOver /\ Events
  <2>1. ASSUME NEW kind \in AllKinds, NEW m \in Models \union {NoModel},
               NEW t \in Sessions \union {NoSession}, Call(kind, m, t),
               kind \in {"ready", "transcribe", "begin"} => m # NoModel
        PROVE  Inv'
    BY <2>1, CallStep
  <2>2. ASSUME NEW kind \in {"ready", "transcribe", "install"}, NEW m \in Models,
               Call(kind, m, NoSession)
        PROVE  Inv'
    BY <2>1, <2>2 DEF AllKinds, WorkerAssumption
  <2>3. ASSUME NEW m \in LiveModels, NEW t \in Sessions, Call("begin", m, t) PROVE Inv'
    BY <2>1, <2>3 DEF AllKinds, WorkerAssumption
  <2>4. ASSUME NEW kind \in {"info", "shutdown"}, Call(kind, NoModel, NoSession) PROVE Inv'
    BY <2>1, <2>4 DEF AllKinds
  <2>5. ASSUME NEW t \in Sessions, WriteFrame(t) \/ FinishLive(t) \/ CancelLive(t) PROVE Inv'
    BY <2>5, SessionCalls
  <2>6. CASE UserAborts \/ Quit  BY <1>6, <2>6, UserAbortsStep, QuitStep
  <2>7. ASSUME NEW s \in Supervisors, TimesOut(s) \/ GuardAnswers(s) PROVE Inv'
    BY <2>7, TimesOutStep, GuardAnswersStep
  <2>8. ASSUME NEW p \in Processes,
               WorkerAnswers(p) \/ WorkerDies(p) \/ GroupKilled(p) \/ AnchorLost(p)
        PROVE  Inv'
    BY <2>8, WorkerStep, GroupKilledStep, AnchorLostStep
  <2> QED  BY <1>6, <2>2, <2>3, <2>4, <2>5, <2>6, <2>7, <2>8 DEF Events
<1> QED  BY <1>1, <1>2, <1>3, <1>4, <1>5, <1>6 DEF Next

-----------------------------------------------------------------------------
(* The model that is loaded.                                                *)

LEMMA LoadedKept ==
  ASSUME Loaded,
         UNCHANGED <<op[Inference], process[Inference], pending[Inference], settled[Inference],
                     activeModel>>,
         process[Inference] # NoProcess => holds'[process[Inference]] = holds[process[Inference]],
         pending[Inference] # "none" => process[Inference] # NoProcess
  PROVE  Loaded'
BY DEF Loaded, Selects, RunsOnItsModel

\* The operation goes on to a point that says nothing of the model.
LEMMA LoadedMoves ==
  ASSUME Loaded, Selects(op[Inference])', UNCHANGED <<process[Inference], activeModel, holds>>,
         op'[Inference].at \notin {"starting", "greeted", "hello", "load", "own"},
         pending'[Inference] \notin {"transcribe", "begin_live"}
  PROVE  Loaded'
BY DEF Loaded, Selects, RunsOnItsModel

\* The process is given up, and with it the model.
LEMMA LoadedGivenUp ==
  ASSUME Inv, Loaded, NEW S \in SUBSET Supervisors, GiveUp(S), Inference \in S
  PROVE  process'[Inference] = NoProcess /\ activeModel' = NoModel
<1>1. process'[Inference] = NoProcess  BY GivenUp, Two DEF Inv, GivesUp
<1>2. activeModel' = NoModel
  <2>1. CASE process[Inference] = NoProcess
    <3>1. activeModel = NoModel  BY <2>1 DEF Loaded
    <3> QED  BY <3>1 DEF GiveUp
  <2>2. CASE process[Inference] # NoProcess  BY <2>2 DEF GiveUp
  <2> QED  BY <2>1, <2>2
<1> QED  BY <1>1, <1>2

\* The two supervisors share no process.
LEMMA Apart ==
  ASSUME Inv, process[Inference] # NoProcess
  PROVE  process[Inference] # process[Installer]
BY Two DEF Inv, Trees, Inference, Installer

LEMMA InstallerGivesUp ==
  ASSUME Inv, GiveUp({Installer})
  PROVE  UNCHANGED <<process[Inference], pending[Inference], activeModel>>
<1>1. UNCHANGED <<process[Inference], pending[Inference]>>  BY GivenUp, Two DEF Inv, GivesUp
<1>2. activeModel' = activeModel  BY Apart DEF GiveUp
<1> QED  BY <1>1, <1>2

LEMMA LoadedAbort ==
  ASSUME Inv, Loaded, GiveUp({Inference}), Selects(op[Inference])', holds' = holds,
         op'[Inference].at \in {"idle", "retire"}, pending[Inference] = "none"
  PROVE  Loaded'
<1>1. process'[Inference] = NoProcess /\ activeModel' = NoModel  BY LoadedGivenUp, Two
<1>2. pending'[Inference] = "none"  BY GivenUp, Two DEF Inv, GivesUp
<1> QED  BY <1>1, <1>2 DEF Loaded, RunsOnItsModel

\* The supervisor is the one or the other; an installation asks for no model.
LEMMA EndsLoaded ==
  ASSUME Inv, Loaded, Ends(Inference)
  PROVE  op'[Inference].at = "idle" /\ Selects(op[Inference])'
<1>1. op'[Inference] = Idle  BY Two DEF Ends, Ended, Inv, Types
<1> QED  BY <1>1, IdleType DEF Selects

LEMMA AtLoaded ==
  ASSUME Inv, Loaded, NEW point \in Points, At(Inference, point)
  PROVE  op'[Inference].at = point /\ op'[Inference].kind = op[Inference].kind
         /\ op'[Inference].model = op[Inference].model /\ Selects(op[Inference])'
<1>1. OpType  BY DEF Inv, Types, OpType
<1> QED  BY <1>1, AtType, Two DEF Loaded, Selects

LEMMA RunNextLoaded == ASSUME Inv, Loaded, RunNext PROVE Loaded'
<1> DEFINE o == Head(queue)
           r == IF o.kind = "install" /\ FirstPoint(o) = "stop" THEN activeModel ELSE NoModel
<1>1. o \in Queued /\ OpType /\ Inference \in Supervisors
  BY Two DEF RunNext, Inv, Types, OpType
<1>2. UNCHANGED <<process, pending, activeModel, holds>> /\ op[Inference].at = "idle"
  BY DEF RunNext, workerVars
<1>3. pending[Inference] = "none"  BY <1>1, <1>2 DEF Inv, Chain, Asks
<1>4. op'[Inference] = IF FirstPoint(o) = "idle" THEN Idle
                       ELSE [o EXCEPT !.at = FirstPoint(o), !.restore = r]
  BY <1>1 DEF RunNext, OpType
<1>5. CASE FirstPoint(o) = "idle" BY <1>4, <1>5, IdleType, <1>2, <1>3, LoadedMoves DEF Selects
<1>6. CASE FirstPoint(o) # "idle"
  <2>1. /\ FirstPoint(o) \in {"ensure", "starting", "stop", "install", "own"}
        /\ FirstPoint(o) = "starting" => o.kind = "info"
        /\ FirstPoint(o) = "own" => o.kind \notin {"install", "transcribe", "begin"}
    BY <1>1, <1>6 DEF FirstPoint, Queued, Operations, AllKinds
  <2>2. op'[Inference] = [kind |-> o.kind, model |-> o.model, session |-> o.session,
                          at |-> FirstPoint(o), child |-> o.child, restore |-> r]
    BY <1>1, <1>4, <1>6 DEF Queued, Operations
  <2>3. op'[Inference].at = FirstPoint(o) /\ op'[Inference].kind = o.kind /\ Selects(op[Inference])'
    BY <1>1, <2>2 DEF Selects, Queued
  <2> QED  BY <1>2, <1>3, <2>1, <2>3 DEF Loaded, RunsOnItsModel
<1> QED  BY <1>5, <1>6

LEMMA EnsureReadyLoaded == ASSUME Inv, Loaded, NEW s \in Supervisors, EnsureReady(s) PROVE Loaded'
<1>1. s = Inference /\ OpType /\ op[s] \in Operations /\ op[s].at = "ensure"
  BY Two DEF EnsureReady, Inv, Types, OpType, Installing
<1>2. UNCHANGED <<process, pending, activeModel, holds>>  BY DEF EnsureReady, workerVars
<1>3. pending[s] = "none"  BY <1>1 DEF Inv, Chain, Asks
<1>4. op'[s] = IF SameSelection(op[s].model) THEN AfterReady(s)
               ELSE [op[s] EXCEPT !.at = IF activeModel # NoModel THEN "guard" ELSE "starting"]
  BY <1>1 DEF EnsureReady, OpType
<1>5. CASE ~SameSelection(op[s].model) BY <1>1, <1>4, <1>5, <1>2, <1>3 DEF Operations, Loaded, Selects, RunsOnItsModel
<1>6. CASE SameSelection(op[s].model) /\ op[s].kind \in {"transcribe", "begin"}
  BY <1>1, <1>4, <1>6, <1>2, <1>3 DEF AfterReady, Operations, Loaded, Selects, RunsOnItsModel, SameSelection
<1>7. CASE SameSelection(op[s].model) /\ op[s].kind \notin {"transcribe", "begin"}
  BY <1>4, <1>7, <1>1, IdleType, <1>2, <1>3, LoadedMoves DEF AfterReady, Selects
<1> QED  BY <1>5, <1>6, <1>7

\* A step of the installer's operation that asks its process, or leaves it.
LEMMA InstallerMoves ==
  ASSUME Inv, Loaded, op'[Inference] = op[Inference],
         UNCHANGED <<process[Inference], pending[Inference], settled[Inference], activeModel>>,
         \/ holds' = holds
         \/ \E m : holds' = [holds EXCEPT ![process[Installer]] = m]
  PROVE  Loaded'
<1>1. pending[Inference] # "none" => process[Inference] # NoProcess  BY Two DEF Inv, Chain
<1>2. process[Inference] # NoProcess => holds'[process[Inference]] = holds[process[Inference]]
  <2>1. SUFFICES ASSUME process[Inference] # NoProcess
                 PROVE  holds'[process[Inference]] = holds[process[Inference]]
    OBVIOUS
  <2>2. process[Inference] \in Processes /\ process[Inference] # process[Installer]
        /\ DOMAIN holds = Processes
    BY <2>1, Apart, Two DEF Inv, Types
  <2> QED  BY <2>2
<1> QED  BY <1>1, <1>2, LoadedKept

LEMMA StopLoaded == ASSUME Inv, Loaded, NEW s \in Supervisors, Stop(s) PROVE Loaded'
<1>1. OpType /\ UNCHANGED <<process, settled, activeModel, holds>> /\ op[s].at = "stop"
  BY DEF Stop, Inv, Types, OpType
<1>2. pending[s] = "none"  BY <1>1 DEF Inv, Chain, Asks
<1>3. /\ \A t \in Supervisors \ {s} : op'[t] = op[t] /\ pending'[t] = pending[t]
      /\ op'[s].at \in {"retire", "stopping"} /\ op'[s].kind = op[s].kind
      /\ op'[s].model = op[s].model /\ pending'[s] \in {"none", "shutdown"}
  <2>1. CASE process[s] = NoProcess BY <2>1, <1>1, <1>2, AtType DEF Stop, Points, Awaits
  <2>2. CASE process[s] # NoProcess
    <3>1. Ask(s, "shutdown", "stopping", op) /\ "stopping" \in Points /\ "shutdown" \in Requests
      BY <2>2 DEF Stop, Ask, Points, Awaits, Requests
    <3> QED  BY <2>2, <3>1, AskType DEF Inv
  <2> QED  BY <2>1, <2>2
<1>4. CASE s = Inference BY <1>3, <1>4, <1>1, LoadedMoves DEF Loaded, Selects
<1>5. CASE s = Installer  BY <1>1, <1>3, <1>5, Two, InstallerMoves
<1> QED  BY <1>4, <1>5, Two

LEMMA ShutdownAnsweredLoaded ==
  ASSUME Inv, Loaded, NEW s \in Supervisors, ShutdownAnswered(s) PROVE Loaded'
<1>1. /\ OpType /\ UNCHANGED <<process, pending, activeModel, holds>> /\ At(s, "tree")
      /\ settled' = [settled EXCEPT ![s] = "none"] /\ "tree" \in Points
      /\ op[s].at = "stopping" /\ settled[s] # "none"
  BY DEF ShutdownAnswered, workerVars, Points, Awaits, Inv, Types, OpType
<1>2. pending[s] = "none"  BY <1>1 DEF Inv, Chain
<1>3. \A t \in Supervisors \ {s} : op'[t] = op[t] /\ settled'[t] = settled[t]
  BY <1>1, AtType, SettledType DEF Inv
<1>4. CASE s = Inference  BY <1>1, <1>2, <1>4, AtLoaded, LoadedMoves
<1>5. CASE s = Installer  BY <1>1, <1>3, <1>5, Two, InstallerMoves
<1> QED  BY <1>4, <1>5, Two

LEMMA TreeWaitEndsLoaded ==
  ASSUME Inv, Loaded, NEW s \in Supervisors, TreeWaitEnds(s) PROVE Loaded'
<1>1. /\ OpType /\ UNCHANGED <<settled, holds>> /\ At(s, "retire") /\ "retire" \in Points
      /\ op[s].at = "tree"
      /\ GiveUp({s}) \/ UNCHANGED <<process, pending, activeModel>>
  BY DEF TreeWaitEnds, Abort, Keep, Points, Awaits, Inv, Types, OpType
<1>2. pending[s] = "none" /\ \A t \in Supervisors \ {s} : op'[t] = op[t]
  BY <1>1, AtType DEF Inv, Chain, Asks
<1>3. CASE s = Inference
  <2>1. op'[Inference].at = "retire" /\ Selects(op[Inference])'  BY <1>1, <1>3, AtLoaded
  <2>2. CASE GiveUp({s})  BY <1>1, <1>2, <1>3, <2>1, <2>2, LoadedAbort
  <2>3. CASE UNCHANGED <<process, pending, activeModel>>
    BY <1>1, <1>2, <1>3, <2>1, <2>3, LoadedMoves
  <2> QED  BY <1>1, <2>2, <2>3
<1>4. CASE s = Installer BY <1>1, <1>4, InstallerGivesUp, <1>2, Two, InstallerMoves
<1> QED  BY <1>3, <1>4, Two

LEMMA RetireWaitEndsLoaded ==
  ASSUME Inv, Loaded, NEW s \in Supervisors, RetireWaitEnds(s) PROVE Loaded'
<1> DEFINE n == IF retiring[s] = {} THEN AfterStop(s) ELSE IF s = Installer THEN "stuck" ELSE "idle"
<1>1. /\ OpType /\ op[s].at = "retire" /\ UNCHANGED <<process, pending, settled, activeModel, holds>>
      /\ op' = [op EXCEPT ![s] = IF n = "idle" THEN Idle ELSE [@ EXCEPT !.at = n]]
  BY DEF RetireWaitEnds, workerVars, Inv, Types, OpType
<1>2. pending[s] = "none" /\ process[s] = NoProcess  BY <1>1 DEF Inv, Chain, Asks
<1>3. CASE s = Inference
  <2>1. n \in {"idle", "install", "starting"}  BY <1>3, Two DEF AfterStop
  <2> HIDE DEF n
  <2>2. op'[s] = IF n = "idle" THEN Idle ELSE [op[s] EXCEPT !.at = n]  BY <1>1 DEF OpType
  <2>3. CASE n = "idle" BY <1>3, <2>2, <2>3, IdleType, <1>1, <1>2, LoadedMoves DEF Selects
  <2>4. CASE n # "idle" BY <1>1, <2>2, <2>4, <1>2, <1>3, <2>1 DEF OpType, Operations, Loaded, Selects, RunsOnItsModel
  <2> QED  BY <2>3, <2>4
<1>4. CASE s = Installer BY <1>1, <1>4, Two, InstallerMoves DEF OpType
<1> QED  BY <1>3, <1>4, Two

LEMMA StartWaitEndsLoaded ==
  ASSUME Inv, Loaded, NEW s \in Supervisors, StartWaitEnds(s) PROVE Loaded'
<1>1. OpType /\ op[s].at = "starting" /\ UNCHANGED <<pending, settled, activeModel, holds>>
  BY DEF StartWaitEnds, Inv, Types, OpType
<1>2. pending[s] = "none"  BY <1>1 DEF Inv, Chain, Asks
<1>3. /\ \/ (Ends(s) \/ At(s, "greeted")) /\ process' = process
         \/ At(s, "hello")
      /\ process' = process \/ (process[s] = NoProcess /\ \E p : process' = [process EXCEPT ![s] = p])
  BY DEF StartWaitEnds
<1>4. "greeted" \in Points /\ "hello" \in Points  BY DEF Points, Synchronous, Awaits
<1>5. CASE s = Inference
  <2>1. CASE Ends(s) /\ process' = process
    BY <1>1, <1>2, <1>5, <2>1, EndsLoaded, LoadedMoves
  <2>2. ASSUME NEW point \in {"greeted", "hello"}, At(s, point) PROVE Loaded'
    BY <1>4, <1>5, <2>2, AtLoaded, <1>3, <1>1, <1>2 DEF Loaded, Selects, RunsOnItsModel
  <2> QED  BY <1>3, <2>1, <2>2
<1>6. CASE s = Installer
  <2>1. op'[Inference] = op[Inference]
    BY <1>1, <1>3, <1>4, <1>6, AtType, EndsType, Two
  <2>2. process'[Inference] = process[Inference]  BY <1>3, <1>6, Two DEF Inv, Types
  <2> QED  BY <1>1, <2>1, <2>2, InstallerMoves
<1> QED  BY <1>5, <1>6, Two

LEMMA HelloAnsweredLoaded ==
  ASSUME Inv, Loaded, NEW s \in Supervisors, HelloAnswered(s) PROVE Loaded'
<1>1. /\ OpType /\ op[s].at \in {"greeted", "hello"} /\ UNCHANGED <<process, activeModel>>
      /\ settled' = [settled EXCEPT ![s] = "none"]
      /\ holds' = IF pending'[s] = "load_model"
                  THEN [holds EXCEPT ![process[s]] = op[s].model] ELSE holds
  BY DEF HelloAnswered, Inv, Types, OpType
<1>2. pending[s] = "none"  BY <1>1 DEF Inv, Chain, Asks
<1>3. "own" \in Points /\ "load_model" \in Requests /\ "load" \in Points \ {"idle"}
  BY DEF Points, Synchronous, Awaits, Requests
<1>4. \/ Ends(s) /\ pending' = pending
      \/ (s = Installer \/ op[s].kind = "info") /\ At(s, "own") /\ pending' = pending
      \/ /\ s # Installer /\ op[s].kind # "info"
         /\ Ask(s, "load_model", "load", [op EXCEPT ![s] = Ended(s)])
  BY DEF HelloAnswered
<1>5. CASE s = Inference
  <2>1. CASE Ends(s) /\ pending' = pending
    BY <1>1, <1>2, <1>5, <2>1, EndsLoaded, LoadedMoves
  <2>2. CASE op[s].kind = "info" /\ At(s, "own") /\ pending' = pending BY <1>3, <1>5, <2>2, AtLoaded, <1>1, <1>2 DEF Loaded, Selects, RunsOnItsModel
  <2>3. CASE op[s].kind # "info" /\ Ask(s, "load_model", "load", [op EXCEPT ![s] = Ended(s)])
    <3>1. activeModel = NoModel  BY <1>1, <1>5, <2>3 DEF Loaded
    <3>2. CASE process[s] = NoProcess BY <2>3, <3>2, <1>1, <1>2, <1>5, EndsLoaded, LoadedMoves DEF Ask, Ends
    <3>3. CASE process[s] # NoProcess BY <1>3, <2>3, <3>3, AskType, <1>1, <1>5, <3>1 DEF Inv, Types, Loaded, Selects, RunsOnItsModel
    <3> QED  BY <3>2, <3>3
  <2> QED  BY <1>4, <1>5, <2>1, <2>2, <2>3, Two
<1>6. CASE s = Installer
  <2>1. op'[Inference] = op[Inference] /\ pending' = pending
    BY <1>1, <1>3, <1>4, <1>6, AtType, EndsType, Two
  <2>2. settled'[Inference] = settled[Inference]  BY <1>1, <1>6, SettledType, Two DEF Inv
  <2> QED  BY <1>1, <1>6, <2>1, <2>2, InstallerMoves
<1> QED  BY <1>5, <1>6, Two

LEMMA LoadAnsweredLoaded ==
  ASSUME Inv, Loaded, NEW s \in Supervisors, LoadAnswered(s) PROVE Loaded'
<1>1. /\ OpType /\ op[s].at = "load" /\ holds' = holds /\ settled[s] # "none" /\ op[s] \in Operations
  BY DEF LoadAnswered, Inv, Types, OpType
<1>2. s = Inference /\ pending[s] = "none"  BY <1>1, Two DEF Inv, Chain, Installing
<1>3. CASE settled[s] = "ok"
  <2>1. /\ activeModel' = op[s].model /\ op'[s] = AfterReady(s) /\ UNCHANGED <<process, pending>>
    BY <1>1, <1>3 DEF LoadAnswered, OpType
  <2>2. process[s] # NoProcess /\ holds[process[s]] = op[s].model  BY <1>1, <1>2, <1>3 DEF Loaded
  <2>3. CASE op[s].kind \in {"transcribe", "begin"} BY <1>1, <2>1, <2>3, <1>2, <2>2 DEF AfterReady, Operations, Loaded, Selects, RunsOnItsModel
  <2>4. CASE op[s].kind \notin {"transcribe", "begin"} BY <2>1, <2>4, IdleType, <1>1, <1>2, <2>2 DEF AfterReady, Loaded, Selects, RunsOnItsModel
  <2> QED  BY <2>3, <2>4
<1>4. CASE settled[s] # "ok"
  <2>1. Ends(s) /\ GiveUp({s})  BY <1>4 DEF LoadAnswered, Abort
  <2> QED  BY <1>1, <1>2, <2>1, EndsLoaded, LoadedAbort
<1> QED  BY <1>3, <1>4

LEMMA SendOwnLoaded ==
  ASSUME Inv, Loaded, NEW s \in Supervisors, SendOwn(s) PROVE Loaded'
<1>1. /\ OpType /\ op[s].at = "own" /\ UNCHANGED <<process, settled, activeModel>>
      /\ holds' = IF pending'[s] = "install_model"
                  THEN [holds EXCEPT ![process[s]] = op[s].model] ELSE holds
  BY DEF SendOwn, Inv, Types, OpType
<1>2. pending[s] = "none" /\ op[s].kind \in DOMAIN OwnRequest  BY <1>1 DEF Inv, Chain, Asks
<1>3. OwnRequest[op[s].kind] \in Requests \ {"none"} /\ "append_live" \in Requests \ {"none"}
      /\ {"asked", "append"} \subseteq Points \ {"idle"}
  BY <1>2 DEF OwnRequest, Requests, Points, Awaits
<1>4. \/ Ends(s) /\ pending' = pending
      \/ s = Inference /\ \E point \in {"asked", "append"} :
                             Ask(s, "append_live", point, [op EXCEPT ![s] = Idle])
      \/ Ask(s, OwnRequest[op[s].kind], "asked", [op EXCEPT ![s] = Ended(s)])
  BY <1>1, Two DEF Inv, Installing, SendOwn
<1>5. CASE s = Inference
  <2>1. CASE Ends(s) /\ pending' = pending
    BY <1>1, <1>2, <1>5, <2>1, EndsLoaded, LoadedMoves
  <2>2. ASSUME NEW point \in {"asked", "append"}, Ask(s, "append_live", point, [op EXCEPT ![s] = Idle])
        PROVE  Loaded'
    <3>1. CASE process[s] = NoProcess BY <2>2, <3>1, <1>1, <1>5, IdleType, <1>2, LoadedMoves DEF Ask, OpType, Selects
    <3>2. CASE process[s] # NoProcess BY <1>3, <2>2, <3>2, AskType, <1>1, <1>5, LoadedMoves DEF Inv, Loaded, Selects
    <3> QED  BY <3>1, <3>2
  <2>3. CASE Ask(s, OwnRequest[op[s].kind], "asked", [op EXCEPT ![s] = Ended(s)])
    <3>1. CASE process[s] = NoProcess BY <2>3, <3>1, <1>1, <1>2, <1>5, EndsLoaded, LoadedMoves DEF Ask, Ends
    <3>2. CASE process[s] # NoProcess BY <1>3, <2>3, <3>2, AskType, <1>1, <1>2, <1>5 DEF Inv, Loaded, OwnRequest, Selects, RunsOnItsModel
    <3> QED  BY <3>1, <3>2
  <2> QED  BY <1>4, <2>1, <2>2, <2>3
<1>6. CASE s = Installer
  <2>1. op'[Inference] = op[Inference] /\ pending'[Inference] = pending[Inference]
    <3>1. CASE Ends(s) /\ pending' = pending  BY <1>1, <1>6, <3>1, EndsType, Two
    <3>2. CASE Ask(s, OwnRequest[op[s].kind], "asked", [op EXCEPT ![s] = Ended(s)])
      BY <1>3, <1>6, <3>2, AskMoves, Two DEF Inv, Asked
    <3> QED  BY <1>4, <1>6, <3>1, <3>2, Two
  <2> QED  BY <1>1, <1>6, <2>1, InstallerMoves
<1> QED  BY <1>5, <1>6, Two

LEMMA AnswersLoaded ==
  ASSUME Inv, Loaded, NEW s \in Supervisors, AppendAnswered(s) \/ OwnAnswered(s)
  PROVE  Loaded'
<1>1. /\ OpType /\ op[s].at \in {"append", "asked"} /\ settled[s] # "none" /\ holds' = holds
      /\ settled' = [settled EXCEPT ![s] = "none"]
  BY DEF AppendAnswered, OwnAnswered, Inv, Types, OpType
<1>2. pending[s] = "none"  BY <1>1 DEF Inv, Chain
<1>3. CASE Ends(s) /\ (GiveUp({s}) \/ UNCHANGED <<process, pending, hello, retiring, activeModel>>)
  <2>1. CASE s = Inference
    <3>1. CASE GiveUp({s})  BY <1>1, <1>2, <1>3, <2>1, <3>1, EndsLoaded, LoadedAbort
    <3>2. CASE UNCHANGED <<process, pending, activeModel>>
      BY <1>1, <1>2, <1>3, <2>1, <3>2, EndsLoaded, LoadedMoves
    <3> QED  BY <1>3, <3>1, <3>2
  <2>2. CASE s = Installer
    <3>1. op'[Inference] = op[Inference] /\ settled'[Inference] = settled[Inference]
      BY <1>1, <1>3, <2>2, EndsType, SettledType, Two DEF Inv
    <3>2. UNCHANGED <<process[Inference], pending[Inference], activeModel>>
      BY <1>3, <2>2, InstallerGivesUp
    <3> QED  BY <1>1, <3>1, <3>2, InstallerMoves
  <2> QED  BY <2>1, <2>2, Two
<1>4. CASE s = Inference /\ Ask(s, "finish_live", "asked", [op EXCEPT ![s] = Idle])
           /\ UNCHANGED <<process, activeModel>>
  <2>1. CASE process[s] = NoProcess BY <1>4, <2>1, <1>1, IdleType, <1>2, LoadedMoves DEF Ask, OpType, Selects
  <2>2. CASE process[s] # NoProcess
    <3>1. "finish_live" \in Requests /\ "asked" \in Points  BY DEF Requests, Points, Awaits
    <3>2. /\ op'[s].at = "asked" /\ op'[s].kind = op[s].kind /\ op'[s].model = op[s].model
          /\ pending'[s] = "finish_live"
      BY <1>4, <2>2, <3>1, AskType DEF Inv
    <3>3. Selects(op[Inference])'  BY <1>4, <3>2 DEF Loaded, Selects
    <3> QED  BY <1>1, <1>4, <3>2, <3>3, LoadedMoves
  <2> QED  BY <2>1, <2>2
<1>5. CASE AppendAnswered(s)
  <2>1. s = Inference  BY <1>5, Two DEF AppendAnswered, Inv, Installing
  <2>2. CASE settled[s] = "ok" /\ OwnsLive(op[s].session) BY <1>5, <2>2, <1>4, <2>1 DEF AppendAnswered
  <2>3. CASE ~(settled[s] = "ok" /\ OwnsLive(op[s].session)) BY <1>5, <2>3, <1>3 DEF AppendAnswered, Abort, Keep
  <2> QED  BY <2>2, <2>3
<1>6. CASE OwnAnswered(s)  BY <1>3, <1>6, OwnAnswerEnds
<1> QED  BY <1>5, <1>6

LEMMA InstallLoaded ==
  ASSUME Inv, Loaded, NEW s \in Supervisors, Install(s) \/ InstallEnds(s) \/ GuardAnswers(s)
  PROVE  Loaded'
<1>1. /\ op[s].at \in {"install", "installer", "guard"} /\ OpType /\ op[s] \in Operations
      /\ UNCHANGED <<process, pending, activeModel, holds>>
  BY DEF Install, InstallEnds, GuardAnswers, workerVars, Inv, Types, OpType
<1>2. s = Inference /\ pending[s] = "none"  BY <1>1, Two DEF Inv, Installing, Chain, Asks
<1>3. CASE Install(s) BY <1>3, <1>1, <1>2, Two, LoadedMoves DEF Install, OpType, Operations, Loaded, Selects
<1>4. CASE InstallEnds(s)
  <2> DEFINE y == [Operation("ready", op[s].restore, NoSession) EXCEPT !.at = "ensure"]
  <2>1. op'[s] = IF op[Installer].at = "closed" /\ Restores(s) THEN y ELSE Idle
    BY <1>1, <1>2, <1>4, Two DEF InstallEnds, OpType
  <2>2. "ready" \in AllKinds /\ op[s].restore \in Models \union {NoModel}
    BY <1>1 DEF AllKinds, Operations
  <2>3. y.at = "ensure" /\ y.model = op[s].restore
    BY <2>2, OperationType DEF Operations
  <2>4. op'[s].at \in {"ensure", "idle"} /\ Selects(op[Inference])'
    BY <1>2, <2>1, <2>3, IdleType DEF Selects, Restores
  <2> QED  BY <1>1, <1>2, <2>4, LoadedMoves
<1>5. CASE GuardAnswers(s) BY <1>2, <1>5, AtLoaded, EndsLoaded, <1>1, LoadedMoves DEF Points, Synchronous, GuardAnswers
<1> QED  BY <1>3, <1>4, <1>5

\* An event that rejects comes when no answer is left to act on.
LEMMA RejectLoaded ==
  ASSUME Inv, Loaded, TurnOver, NEW S \in SUBSET Supervisors, GivesUp(S), Rejects(S),
         UNCHANGED <<op, holds>>,
         IF Inference \in S THEN activeModel' = NoModel ELSE activeModel' = activeModel
  PROVE  Loaded'
<1>1. Inference \in Supervisors /\ settled[Inference] = "none"
  BY Two DEF TurnOver, MustRun, Inv, Types
<1>2. op[Inference].at # "own"  BY <1>1 DEF TurnOver, MustRun, Synchronous
<1>3. CASE Inference \in S /\ process[Inference] # NoProcess
  <2>1. process'[Inference] = NoProcess /\ pending'[Inference] = "none"  BY <1>1, <1>3 DEF GivesUp
  <2>2. op[Inference].at = "load" => settled'[Inference] = "error"
    BY <1>1, <1>3 DEF Rejects, Rejected, Inv, Chain, Asks
  <2> QED  BY <1>2, <1>3, <2>1, <2>2 DEF Loaded, Selects, RunsOnItsModel
<1>4. CASE Inference \in S /\ process[Inference] = NoProcess BY <1>1, <1>4, LoadedKept DEF GivesUp, Rejects, Loaded, Inv, Chain
<1>5. CASE Inference \notin S BY <1>1, <1>5, LoadedKept DEF GivesUp, Rejects, Inv, Chain
<1> QED  BY <1>3, <1>4, <1>5

LEMMA TerminateLoaded ==
  ASSUME Inv, Loaded, TurnOver, NEW S \in SUBSET Supervisors, Terminate(S), UNCHANGED <<op, holds>>
  PROVE  Loaded'
<1>1. GivesUp(S) /\ Rejects(S) /\ GiveUp(S)  BY Terminated DEF Inv, Terminate
<1>2. CASE Inference \in S  BY <1>1, <1>2, LoadedGivenUp, RejectLoaded
<1>3. CASE Inference \notin S BY <1>3, Two, Apart, <1>1, RejectLoaded DEF GiveUp
<1> QED  BY <1>2, <1>3

LEMMA AnchorLostLoaded ==
  ASSUME Inv, Loaded, TurnOver, NEW p \in Processes, AnchorLost(p)
  PROVE  Loaded'
<1> DEFINE s == owner[p]
<1>0. Inference \in Supervisors /\ p # NoProcess  BY Two DEF Processes, NoProcess
<1>1. UNCHANGED <<op, holds>>  BY DEF AnchorLost
<1>2. p = process[Inference] => s = Inference  BY <1>0 DEF Inv, Trees
<1>3. (s \in Supervisors /\ process[s] = p /\ GivesUp({s}) /\ Rejects({s}))
      \/ (~(s \in Supervisors /\ process[s] = p) /\ GivesUp({}) /\ Rejects({}))
  BY AnchorLostSeen
<1>4. activeModel' = IF p = process[Inference] THEN NoModel ELSE activeModel  BY DEF AnchorLost
<1>5. CASE s \in Supervisors /\ process[s] = p /\ GivesUp({s}) /\ Rejects({s}) BY <1>2, <1>4, <1>5, <1>1, RejectLoaded
<1>6. CASE ~(s \in Supervisors /\ process[s] = p) /\ GivesUp({}) /\ Rejects({}) BY <1>0, <1>2, <1>4, <1>6, <1>1, RejectLoaded
<1> QED  BY <1>3, <1>5, <1>6

LEMMA HandleLineLoaded ==
  ASSUME Inv, Loaded, TurnOver, NEW s \in Supervisors, HandleLine(s)
  PROVE  Loaded'
<1> DEFINE line == Head(out[process[s]])
<1>1. UNCHANGED <<op, holds>> /\ Inference \in Supervisors  BY Two DEF HandleLine
<1>2. pending[Inference] # "none" => process[Inference] # NoProcess  BY <1>1 DEF Inv, Chain
<1>3. CASE UNCHANGED <<process, settled, pending, activeModel>>  BY <1>1, <1>2, <1>3, LoadedKept
<1>4. CASE /\ UNCHANGED <<process, activeModel>>
           /\ settled' = [settled EXCEPT ![s] = line] /\ pending' = [pending EXCEPT ![s] = "none"]
  <2>1. CASE s = Inference
    <3>1. settled[s] = "none"  BY <2>1, <1>1 DEF TurnOver, MustRun
    <3>2. pending'[s] = "none"  BY <1>4 DEF Inv, Types
    <3> QED  BY <1>1, <1>4, <2>1, <3>1, <3>2 DEF Loaded, Selects, RunsOnItsModel
  <2>2. CASE s # Inference BY <1>1, <1>4, <2>2, <1>2, LoadedKept DEF Inv, Types
  <2> QED  BY <2>1, <2>2
<1>5. CASE Terminate({s})  BY <1>1, <1>5, TerminateLoaded
<1> QED  BY <1>3, <1>4, <1>5 DEF HandleLine

LEMMA LoadedInductive ==
  ASSUME WorkerAssumption, ~Coalesces, Inv, Loaded, [Next]_vars
  PROVE  Loaded'
<1>0. pending[Inference] # "none" => process[Inference] # NoProcess  BY Two DEF Inv, Chain
<1>1. CASE UNCHANGED <<supervisorVars, activeModel, holds>> BY <1>1, <1>0, LoadedKept DEF supervisorVars
<1>2. CASE UNCHANGED vars  BY <1>1, <1>2 DEF vars, workerVars
<1>3. CASE RunNext  BY <1>3, RunNextLoaded
<1>4. ASSUME NEW s \in Supervisors, Runs(s) PROVE Loaded'
  BY <1>4, EnsureReadyLoaded, StopLoaded, ShutdownAnsweredLoaded, HelloAnsweredLoaded,
     LoadAnsweredLoaded, SendOwnLoaded, AnswersLoaded, InstallLoaded
  DEF Runs
<1>5. ASSUME NEW s \in Supervisors, Timers(s) PROVE Loaded'
  BY <1>5, TreeWaitEndsLoaded, RetireWaitEndsLoaded, StartWaitEndsLoaded DEF Timers
<1>6. ASSUME NEW s \in Supervisors, TurnOver, HandleLine(s) PROVE Loaded'  BY <1>6, HandleLineLoaded
<1>7. CASE TurnOver /\ Events
  <2>1. ASSUME NEW kind, NEW m, NEW t, Call(kind, m, t) PROVE Loaded'
    BY <1>1, <2>1 DEF Call, workerVars
  <2>2. ASSUME NEW t \in Sessions, WriteFrame(t) \/ FinishLive(t) \/ CancelLive(t) PROVE Loaded'
    BY <1>1, <2>2 DEF WriteFrame, FinishLive, CancelLive, workerVars
  <2>3. CASE UserAborts  BY <1>7, <2>3, TerminateLoaded, Two DEF UserAborts
  <2>4. CASE Quit BY Two, <1>7, <2>4, TerminateLoaded DEF Quits, Quit
  <2>5. ASSUME NEW s \in Supervisors, TimesOut(s) PROVE Loaded'
    BY <1>7, <2>5, TerminateLoaded DEF TimesOut
  <2>6. ASSUME NEW s \in Supervisors, GuardAnswers(s) PROVE Loaded'  BY <2>6, InstallLoaded
  <2>7. ASSUME NEW p \in Processes, WorkerAnswers(p) \/ WorkerDies(p) PROVE Loaded'
    BY <1>1, <2>7 DEF WorkerAnswers, WorkerDies
  <2>8. ASSUME NEW p \in Processes, GroupKilled(p) PROVE Loaded'
    BY <1>0, <2>8, LoadedKept DEF GroupKilled
  <2>9. ASSUME NEW p \in Processes, AnchorLost(p) PROVE Loaded'  BY <1>7, <2>9, AnchorLostLoaded
  <2> QED  BY <1>7, <2>1, <2>2, <2>3, <2>4, <2>5, <2>6, <2>7, <2>8, <2>9 DEF Events
<1> QED  BY <1>2, <1>3, <1>4, <1>5, <1>6, <1>7 DEF Next

-----------------------------------------------------------------------------
(* The theorems.                                                            *)

LEMMA OneIsUp == ASSUME Inv PROVE OneRuntime
<1>1. \A p, q \in Up(Inference) : p = q
  <2>1. SUFFICES ASSUME NEW p \in Up(Inference), NEW q \in Up(Inference) PROVE p = q  OBVIOUS
  <2>2. \A x \in {p, q} : x # NoProcess /\ (x = process[Inference] \/ x \in retiring[Inference])
    BY DEF Inv, Trees, Up, Processes, NoProcess
  <2>3. process[Inference] # NoProcess => retiring[Inference] = {}  BY Two DEF Inv, Trees
  <2> QED  BY <2>2, <2>3, Two DEF Inv, Trees
<1>2. CASE Up(Inference) = {}
  <2>1. Cardinality(Up(Inference)) = 0  BY <1>2, FS_EmptySet
  <2> QED  BY <2>1 DEF OneRuntime
<1>3. ASSUME NEW p \in Up(Inference) PROVE OneRuntime
  <2>1. Up(Inference) = {p}  BY <1>1
  <2>2. Cardinality({p}) = 1  BY FS_Singleton
  <2> QED  BY <2>1, <2>2 DEF OneRuntime
<1> QED  BY <1>2, <1>3

\* Whatever is called, in whatever order, whatever workers answer and however
\* processes end: one inference worker at most is up, each operation that
\* awaits something has it pending or has been answered, Quit leaves no
\* process, and where a chunk of stdout holds one line each transcription and
\* Live session runs on the model it asked for (workerSupervisor.ts).
THEOREM SupervisorIsSafe == Spec => []SupervisorSafety
<1>1. WorkerAssumption  BY WorkerAssumption
<1> DEFINE All == Inv /\ (~Coalesces => Loaded)
<1>2. Init => All
  <2>1. Init => Loaded  BY IdleType, Two DEF Init, Loaded, Selects, RunsOnItsModel
  <2> QED  BY <1>1, <2>1, Initially
<1>3. All /\ [Next]_vars => All'
  <2> SUFFICES ASSUME All, [Next]_vars PROVE All'  OBVIOUS
  <2>1. Inv'  BY <1>1, Inductive
  <2>2. ~Coalesces => Loaded'  BY <1>1, LoadedInductive
  <2> QED  BY <2>1, <2>2
<1>4. All => SupervisorSafety
  <2> SUFFICES ASSUME All PROVE SupervisorSafety  OBVIOUS
  <2>1. OneRuntime  BY OneIsUp
  <2>2. EveryAwaitIsSettled  BY DEF Inv, Chain, Asks, EveryAwaitIsSettled
  <2>3. QuitKeepsNoProcess /\ (~Coalesces => RunsOnItsModel)  BY DEF Inv, Loaded
  <2> QED  BY <2>1, <2>2, <2>3 DEF SupervisorSafety
<1> QED  BY <1>2, <1>3, <1>4, PTL DEF Spec

=============================================================================
