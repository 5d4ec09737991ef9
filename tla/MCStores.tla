------------------------------- MODULE MCStores -------------------------------
(****************************************************************************)
(* What is kept on the disk: the history and the rules of the user, their   *)
(* database when an older one is opened, the export of the history, the     *)
(* trail of diagnostics and the cache of audio. They share no state, so a   *)
(* behaviour of all of them is one of each: `part' picks the component that *)
(* moves, once and for all, and the variables of the others are Off (those  *)
(* of AudioCache are at their start).                                       *)
(****************************************************************************)
EXTENDS AudioCache

CONSTANTS
  Parts,  \* the components to check, each by itself
  Off     \* the value of the variables of the others

VARIABLES
  part,  \* the component that moves
  \* SavedData
  history, library, disk, now, key, reader, nextId, unreadable, dictating, reset, copy, lost,
  answer,
  \* TextRules
  rules, profiles, rulesKey, rulesNextId, editing, result,
  \* StoreUpgrade
  phase, ledger, pad, notes, table, upgradeRules, staging, upgradeProfiles, recovered, settings,
  evidence, residue, upgradeReader, missed, sealing, legible, old, interrupts,
  \* HistoryExport
  exportHistory, readable, exportAt, payload, temp, target, outcome, due, exportFaults, down,
  \* DiagnosticsTrail
  current, previous, bytes, started, queue, pc, made, reading, awaits, asked, clears, failures,
  restarts, trailAnswer

\* Two spellings of one application, made at different times or at once, another
\* one, and a row whose identity is a path.
SomeProfiles == {[id |-> 1, app |-> <<1, 1>>, at |-> 1], [id |-> 2, app |-> <<1, 2>>, at |-> 2],
                 [id |-> 3, app |-> <<1, 3>>, at |-> 2], [id |-> 4, app |-> <<0, 1>>, at |-> 1]}

Reads == INSTANCE SavedData WITH MaxRows <- 3, MaxTime <- 0, MaxReads <- 1, Legacy <- 3,
  CollectionLimit <- 2, PageSize <- 1, Limits <- {1, 2}, Retentions <- {0}, Keys <- {"k1", "k2"}
Deletes == INSTANCE SavedData WITH MaxRows <- 3, MaxTime <- 2, MaxReads <- 0, Legacy <- 0,
  CollectionLimit <- 3, PageSize <- 2, Limits <- {3}, Retentions <- {0, 1}, Keys <- {"k1"}
RuleStore == INSTANCE TextRules WITH Phrases <- {<<1, 1>>, <<1, 2>>, <<2, 1>>}, Apps <- {},
  Keys <- {"k1", "k2"}, Limit <- 3, MaxIds <- 4, Legacy <- 3, key <- rulesKey,
  nextId <- rulesNextId
Profiles == INSTANCE TextRules WITH Phrases <- {}, Apps <- {<<1, 1>>, <<1, 2>>, <<2, 1>>},
  Keys <- {"k1", "k2"}, Limit <- 1, MaxIds <- 4, Legacy <- 0, key <- rulesKey,
  nextId <- rulesNextId
Upgrade == INSTANCE StoreUpgrade WITH Notes <- {"n1", "n2"}, Rules <- {"r1"},
  ProfileRows <- SomeProfiles, MaxInterrupts <- 2, rules <- upgradeRules,
  profiles <- upgradeProfiles, reader <- upgradeReader
Export == INSTANCE HistoryExport WITH Records <- {"x1", "x2"}, Exports <- {"e1", "e2"},
  MaxFaults <- 1, history <- exportHistory, at <- exportAt, faults <- exportFaults
Trail == INSTANCE DiagnosticsTrail WITH MaxBytes <- 3, MaxRecords <- 5, MaxClears <- 1,
  MaxFailures <- 1, MaxRestarts <- 1, answer <- trailAnswer

readsVars == <<history, library, disk, now, key, reader, nextId, unreadable, dictating, reset,
  copy, lost, answer>>
ruleStoreVars == <<rules, profiles, rulesKey, rulesNextId, editing, result>>
upgradeVars == <<phase, ledger, pad, notes, table, upgradeRules, staging, upgradeProfiles,
  recovered, settings, evidence, residue, upgradeReader, missed, sealing, legible, old,
  interrupts>>
exportVars == <<exportHistory, readable, exportAt, payload, temp, target, outcome, due,
  exportFaults, down>>
trailVars == <<current, previous, bytes, started, queue, pc, made, reading, awaits, asked,
  clears, failures, restarts, trailAnswer>>

ReadsOff ==
  /\ history = Off /\ library = Off /\ disk = Off /\ now = Off /\ key = Off /\ reader = Off
  /\ nextId = Off /\ unreadable = Off /\ dictating = Off /\ reset = Off /\ copy = Off
  /\ lost = Off /\ answer = Off
RuleStoreOff ==
  /\ rules = Off /\ profiles = Off /\ rulesKey = Off /\ rulesNextId = Off /\ editing = Off
  /\ result = Off
UpgradeOff ==
  /\ phase = Off /\ ledger = Off /\ pad = Off /\ notes = Off /\ table = Off
  /\ upgradeRules = Off /\ staging = Off /\ upgradeProfiles = Off /\ recovered = Off
  /\ settings = Off /\ evidence = Off /\ residue = Off /\ upgradeReader = Off /\ missed = Off
  /\ sealing = Off /\ legible = Off /\ old = Off /\ interrupts = Off
ExportOff ==
  /\ exportHistory = Off /\ readable = Off /\ exportAt = Off /\ payload = Off /\ temp = Off
  /\ target = Off /\ outcome = Off /\ due = Off /\ exportFaults = Off /\ down = Off
TrailOff ==
  /\ current = Off /\ previous = Off /\ bytes = Off /\ started = Off /\ queue = Off /\ pc = Off
  /\ made = Off /\ reading = Off /\ awaits = Off /\ asked = Off /\ clears = Off
  /\ failures = Off /\ restarts = Off /\ trailAnswer = Off

\* Two processes, with crashes but no sweeps, and one that sweeps disturb.
CacheNext == Next /\ sweeps' = 0 /\ \A a \in Apps : repair'[a]["r2"] = "none"
RepairNext == Next /\ pid'["a2"] = NoPid /\ pid'["a1"] \in {NoPid, 2} /\ drawn' \subseteq {1, 2}

\* Reading what an installation has left, with deletions but without a reset.
ReadsNext == \/ \E limit \in {1, 2} : Reads!List(limit)
             \/ Reads!Export \/ Reads!KeyChanges \/ Reads!ReaderComesOrGoes
             \/ \E entry \in history : Reads!DeleteTranscription(entry)

\* The rules and the profiles are stored apart: each is checked on its own.
RulesNext == \/ \E phrase \in {<<1, 1>>, <<1, 2>>, <<2, 1>>} :
                  RuleStore!SaveEdited(phrase) \/ RuleStore!SaveNew(phrase)
             \/ \E rule \in rules : RuleStore!DeleteRule(rule)
             \/ \E rule \in RuleStore!Listed : RuleStore!OpenEditor(rule)
             \/ RuleStore!KeyChanges

MCInit ==
  /\ part \in Parts
  /\ \/ part = "cache" /\ Init /\ ReadsOff /\ RuleStoreOff /\ UpgradeOff /\ ExportOff
        /\ TrailOff
     \/ part = "repair" /\ Init /\ ReadsOff /\ RuleStoreOff /\ UpgradeOff /\ ExportOff
        /\ TrailOff
     \/ part = "reads" /\ Reads!Init /\ Init /\ RuleStoreOff /\ UpgradeOff /\ ExportOff
        /\ TrailOff
     \/ part = "deletes" /\ Deletes!Init /\ Init /\ RuleStoreOff /\ UpgradeOff /\ ExportOff
        /\ TrailOff
     \/ part = "rules" /\ RuleStore!Init /\ Init /\ ReadsOff /\ UpgradeOff /\ ExportOff
        /\ TrailOff
     \/ part = "profiles" /\ Profiles!Init /\ Init /\ ReadsOff /\ UpgradeOff /\ ExportOff
        /\ TrailOff
     \/ part = "upgrade" /\ Upgrade!Init /\ Init /\ ReadsOff /\ RuleStoreOff /\ ExportOff
        /\ TrailOff
     \/ part = "export" /\ Export!Init /\ Init /\ ReadsOff /\ RuleStoreOff /\ UpgradeOff
        /\ TrailOff
     \/ part = "trail" /\ Trail!Init /\ Init /\ ReadsOff /\ RuleStoreOff /\ UpgradeOff
        /\ ExportOff

MCNext ==
  /\ UNCHANGED part
  /\ \/ part = "cache" /\ CacheNext /\ UNCHANGED <<readsVars, ruleStoreVars, upgradeVars,
          exportVars, trailVars>>
     \/ part = "repair" /\ RepairNext /\ UNCHANGED <<readsVars, ruleStoreVars, upgradeVars,
          exportVars, trailVars>>
     \/ part = "reads" /\ ReadsNext /\ UNCHANGED <<vars, ruleStoreVars, upgradeVars,
          exportVars, trailVars>>
     \/ part = "deletes" /\ Deletes!Next /\ UNCHANGED <<vars, ruleStoreVars, upgradeVars,
          exportVars, trailVars>>
     \/ part = "rules" /\ RulesNext /\ UNCHANGED <<vars, readsVars, upgradeVars, exportVars,
          trailVars>>
     \/ part = "profiles" /\ Profiles!Next /\ UNCHANGED <<vars, readsVars, upgradeVars,
          exportVars, trailVars>>
     \/ part = "upgrade" /\ Upgrade!Next /\ UNCHANGED <<vars, readsVars, ruleStoreVars,
          exportVars, trailVars>>
     \/ part = "export" /\ Export!Next /\ UNCHANGED <<vars, readsVars, ruleStoreVars,
          upgradeVars, trailVars>>
     \/ part = "trail" /\ Trail!Next /\ UNCHANGED <<vars, readsVars, ruleStoreVars,
          upgradeVars, exportVars>>

MCVars == <<part, vars, readsVars, ruleStoreVars, upgradeVars, exportVars, trailVars>>
MCSpec == MCInit /\ [][MCNext]_MCVars

-----------------------------------------------------------------------------
ASSUME /\ Reads!SavedDataAssumption /\ Deletes!SavedDataAssumption
       /\ RuleStore!TextRulesAssumption /\ Profiles!TextRulesAssumption
       /\ Upgrade!StoreUpgradeAssumption
       /\ Export!ExportAssumption /\ Trail!TrailAssumption

\* Unreadable rows never look absent: a list or an export that says it is complete
\* has every row, and one that does not says how many are missing; a deletion that
\* succeeded has left nothing on the disk; no save makes a second rule of one phrase,
\* a rule deleted under its editor stays deleted, and a saved profile within the limit is
\* the one the application finds (database.ts).  A line of the diagnostics is never lost by a
\* rotation, what was cleared is gone, and a reading has what was recorded before it
\* (diagnosticsRecorder.ts).
RecordsAreAccountedFor ==
  /\ [][part = "reads" => Reads!ListTellsAll /\ Reads!ExportTellsAll]_readsVars
  /\ [][part = "deletes" => Deletes!RemovedForGood]_readsVars
  /\ [][part = "rules" => RuleStore!NoNewDuplicates /\ RuleStore!DeletedStaysDeleted]_ruleStoreVars
  /\ [][part = "profiles" => Profiles!SavedProfileIsFound]_ruleStoreVars
  /\ [][part = "trail" => Trail!RecentLinesStay /\ Trail!ClearedIsGone /\ Trail!ReadIsUpToDate]_trailVars

\* A reset removes nothing that its recovery copy has not.  Wherever a launch ends,
\* what the older installation had is still there; what opens is upgraded as a whole,
\* with the latest profile of each application, and plain text stays on the disk only
\* where the log could not be emptied (database.ts resetSavedData, migrations).  A rule can be read with
\* the key it was stored under, an application has one profile, and the trail of
\* diagnostics keeps its size.
SavedDataStays ==
  /\ part = "deletes" => Deletes!TypeOK /\ Deletes!ResetKeepsCopy
  /\ part = "rules" => RuleStore!TypeOK
  /\ part = "profiles" => Profiles!OneProfilePerApp
  /\ part = "trail" => Trail!TypeOK /\ Trail!TrailIsBounded
  /\ part = "upgrade" => /\ Upgrade!TypeOK /\ Upgrade!NothingLost
                         /\ Upgrade!LatestProfileWins /\ Upgrade!OpenMeansUpgraded
                         /\ Upgrade!PlainTextOnlyIfMissed

\* The chosen file is always one whole file, tells whether it is complete, and no
\* copy of the history is left beside it (historyExport.ts).
ExportIsWhole ==
  part = "export" => Export!ExportIsWhole

=============================================================================
