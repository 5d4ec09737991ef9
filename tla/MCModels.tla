------------------------------- MODULE MCModels -------------------------------
(****************************************************************************)
(* The models: the installation of one, the selection of the model a        *)
(* dictation uses, and the verification of a model's files. They share no   *)
(* state, so a behaviour of all of them is one of each: `part' picks the    *)
(* component that moves, once and for all, and the variables of the others  *)
(* are Off (those of ModelFiles, which two verifications at once move, are  *)
(* at their start).                                                         *)
(****************************************************************************)
EXTENDS Integers, ModelFiles

CONSTANTS
  Parts,  \* the components to check, each by itself
  Off     \* the value of the variables of the others

VARIABLES
  part,  \* the component that moves
  \* ModelInstall
  final, marker, staging, backup, dir, pc, op, installTodo, cur, then, touched, loaded, answer,
  had, errors, crashes, rots,
  \* ModelRouting
  routingDisk, proved, settings, warm, resolution, previousAutoTier, snapshot, session,
  activeTier, start, routingOp, reply, routingRots,
  \* ModelFiles
  filesPlace, filesExtra, filesPath, filesInode, filesClock, filesMemo, filesAt, filesTodo,
  filesFile, filesHandle, filesStamp, filesRead, filesExact, filesGood, filesVerdict,
  filesDirty, filesRuns

\* The files that are verified twice at once, while another component moves.
AtRest == Init /\ place = "none" /\ \A i \in Inodes : inode[i].size /\ inode[i].data = Right

\* Two families that differ in modes and languages.
PairTiers == [a |-> {"high"}, b |-> {"high"}]
PairModes == [a |-> {"after-stop", "live"}, b |-> {"after-stop"}]
PairLanguages == [a |-> {"en", "de"}, b |-> {"en"}]
\* Two tiers of one family, as Auto sees them.
AutoTiers == [a |-> {"high", "medium"}]
AutoModes == [a |-> {"after-stop"}]
AutoLanguages == [a |-> {"en"}]
\* The memory the artifacts of a high and of a medium tier need.
PairRequired == [x \in {<<"a", "high">>, <<"b", "high">>} |-> 2]
AutoRequired == [x \in {<<"a", "high">>, <<"a", "medium">>} |-> IF x[2] = "high" THEN 2 ELSE 1]

Install == INSTANCE ModelInstall WITH Transactions <- {"t1", "t2", "t3", "t4"},
  Lookalikes <- {"t1"}, MaxErrors <- 3, MaxCrashes <- 2, MaxRot <- 1, todo <- installTodo
Routing == INSTANCE ModelRouting WITH Families <- {"a", "b", "old"}, TiersOf <- PairTiers,
  ModesOf <- PairModes, LanguagesOf <- PairLanguages, Languages <- {"en", "de"},
  Required <- PairRequired, Hysteresis <- 1, Readings <- {-1, 2},
  Operations <- {"apply", "install", "remove"}, Slots <- {1}, MaxRot <- 0, disk <- routingDisk,
  op <- routingOp, rots <- routingRots
Auto == INSTANCE ModelRouting WITH Families <- {"a"}, TiersOf <- AutoTiers,
  ModesOf <- AutoModes, LanguagesOf <- AutoLanguages, Languages <- {"en"},
  Required <- AutoRequired, Hysteresis <- 1, Readings <- {1, 2, 3},
  Operations <- {"apply", "install", "remove"}, Slots <- {1}, MaxRot <- 1, disk <- routingDisk,
  op <- routingOp, rots <- routingRots
Overlap == INSTANCE ModelRouting WITH Families <- {"a"}, TiersOf <- AutoTiers,
  ModesOf <- AutoModes, LanguagesOf <- AutoLanguages, Languages <- {"en"},
  Required <- AutoRequired, Hysteresis <- 1, Readings <- {-1, 1, 2, 3}, Operations <- {},
  Slots <- {1, 2}, MaxRot <- 0, disk <- routingDisk, op <- routingOp, rots <- routingRots
Probed == INSTANCE ModelFiles WITH Files <- {"weights", "config"}, Verifiers <- {"apply"},
  Probes <- {"auto"}, Limit <- 1, MaxClock <- 1, MaxRuns <- 1, place <- filesPlace,
  extra <- filesExtra, path <- filesPath, inode <- filesInode, clock <- filesClock,
  memo <- filesMemo, at <- filesAt, todo <- filesTodo, file <- filesFile, handle <- filesHandle,
  stamp <- filesStamp, read <- filesRead, exact <- filesExact, good <- filesGood,
  verdict <- filesVerdict, dirty <- filesDirty, runs <- filesRuns

installVars == <<final, marker, staging, backup, dir, pc, op, installTodo, cur, then, touched,
  loaded, answer, had, errors, crashes, rots>>
routingVars == <<routingDisk, proved, settings, warm, resolution, previousAutoTier, snapshot,
  session, activeTier, start, routingOp, reply, routingRots>>
probedVars == <<filesPlace, filesExtra, filesPath, filesInode, filesClock, filesMemo, filesAt,
  filesTodo, filesFile, filesHandle, filesStamp, filesRead, filesExact, filesGood, filesVerdict,
  filesDirty, filesRuns>>

InstallOff ==
  /\ final = Off /\ marker = Off /\ staging = Off /\ backup = Off /\ dir = Off /\ pc = Off
  /\ op = Off /\ installTodo = Off /\ cur = Off /\ then = Off /\ touched = Off /\ loaded = Off
  /\ answer = Off /\ had = Off /\ errors = Off /\ crashes = Off /\ rots = Off
RoutingOff ==
  /\ routingDisk = Off /\ proved = Off /\ settings = Off /\ warm = Off /\ resolution = Off
  /\ previousAutoTier = Off /\ snapshot = Off /\ session = Off /\ activeTier = Off
  /\ start = Off /\ routingOp = Off /\ reply = Off /\ routingRots = Off
ProbedOff ==
  /\ filesPlace = Off /\ filesExtra = Off /\ filesPath = Off /\ filesInode = Off
  /\ filesClock = Off /\ filesMemo = Off /\ filesAt = Off /\ filesTodo = Off /\ filesFile = Off
  /\ filesHandle = Off /\ filesStamp = Off /\ filesRead = Off /\ filesExact = Off
  /\ filesGood = Off /\ filesVerdict = Off /\ filesDirty = Off /\ filesRuns = Off

MCInit ==
  /\ part \in Parts
  /\ \/ part = "race" /\ Init /\ InstallOff /\ RoutingOff /\ ProbedOff
     \/ part = "install" /\ Install!Init /\ AtRest /\ RoutingOff /\ ProbedOff
     \/ part = "routing" /\ Routing!Init /\ AtRest /\ InstallOff /\ ProbedOff
     \/ part = "auto" /\ Auto!Init /\ AtRest /\ InstallOff /\ ProbedOff
     \/ part = "overlap" /\ Overlap!Init /\ AtRest /\ InstallOff /\ ProbedOff
     \/ part = "files" /\ Probed!Init /\ AtRest /\ InstallOff /\ RoutingOff

MCNext ==
  /\ UNCHANGED part
  /\ \/ part = "race" /\ Next /\ UNCHANGED <<installVars, routingVars, probedVars>>
     \/ part = "install" /\ Install!Next /\ UNCHANGED <<vars, routingVars, probedVars>>
     \/ part = "routing" /\ Routing!Next /\ UNCHANGED <<vars, installVars, probedVars>>
     \/ part = "auto" /\ Auto!Next /\ UNCHANGED <<vars, installVars, probedVars>>
     \/ part = "overlap" /\ Overlap!Next /\ UNCHANGED <<vars, installVars, probedVars>>
     \/ part = "files" /\ Probed!Next /\ UNCHANGED <<vars, installVars, routingVars>>

MCVars == <<part, vars, installVars, routingVars, probedVars>>
MCSpec == MCInit /\ [][MCNext]_MCVars

-----------------------------------------------------------------------------
ASSUME /\ Install!ModelInstallAssumption
       /\ Routing!RoutingAssumption /\ Auto!RoutingAssumption /\ Overlap!RoutingAssumption

\* A good copy of a model outlives two failed steps (one with its download cache), a runtime is built only from a verified
\* directory, and what only looks like a transaction is left alone, over crashes and
\* failing steps (worker.py); an exact copy is never refused, and no other
\* accepted, though a probe looks while an Apply verifies (modelSpec.ts).
GoodCopyIsKept ==
  /\ part = "install" => /\ Install!TypeOK /\ Install!GoodCopyIsKept
                         /\ Install!LoadedIsVerified /\ Install!LookalikesStay
  /\ part = "files" => Probed!VerdictsAreTrue

\* A text is from the selected model; an Apply succeeds as a whole or leaves what was
\* there; the selected files stay, and a repair never touches a loaded model
\* (modelSelection.ts, main.ts); an installation that says so is complete
\* (worker.py).
SelectionIsKept ==
  /\ [][part = "routing" =>
          /\ Routing!TextIsFromTheSelection /\ Routing!ApplyIsAllOrNothing
          /\ Routing!AppliedFitsTheLanguage /\ Routing!SelectedFilesStay]_routingVars
  /\ [][part = "auto" => Auto!RepairUnloads]_routingVars
  /\ [][part = "install" => Install!InstalledIsWhole]_installVars

\* Auto leaves a working model only for one whose files are verified, and goes up
\* only when the memory fits with something to spare, also when the starts of two
\* dictations overlap (resolveAutoTier).
AutoIsSteady ==
  /\ [][part = "auto" => /\ Auto!WorkingModelIsKept /\ Auto!AutoMovesToVerified
                        /\ Auto!AutoIsSteady]_routingVars
  /\ [][part = "overlap" => Overlap!AutoIsSteady]_routingVars

=============================================================================
