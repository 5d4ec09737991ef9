----------------------------- MODULE ModelInstall -----------------------------
(***************************************************************************)
(* Installing, repairing and loading one model artifact                    *)
(* (worker/localscribe_worker/worker.py, ensure_model() with               *)
(* _recover_model_transactions(), and the install_model and load_model     *)
(* requests that call it).  One worker at a time works on an artifact.     *)
(*                                                                         *)
(* A download goes to a transaction directory with a marker file, a        *)
(* "staging" and, once the installed directory was moved aside, a "backup" *)
(* directory.  The process may end at any point; the next one finds the    *)
(* directories as they are.  A directory is "none", "bad" (partial or      *)
(* corrupt), "cached" (exact, with the download cache of the Hub beside    *)
(* it) or "valid".  Reading a valid one may fail.                          *)
(*                                                                         *)
(* A definition whose comment starts with "Mistake" is a plausible wrong   *)
(* version of the one after it; no specification uses it.                  *)
(***************************************************************************)
EXTENDS Naturals, FiniteSets

CONSTANTS
  Transactions,  \* names of transaction directories
  Lookalikes,    \* the directories of such a name that are not ours
  MaxErrors,     \* bound: reads of an exact directory, or removals of its cache, that fail
  MaxCrashes,    \* bound: ends of the process half way
  MaxRot         \* bound: times an installed file goes bad

ModelInstallAssumption ==
  Lookalikes \subseteq Transactions /\ {MaxErrors, MaxCrashes, MaxRot} \subseteq Nat

VARIABLES
  final,     \* the installed directory
  marker, staging, backup, dir, \* of every transaction directory
  pc, op,    \* where the worker is, and in which request
  todo,      \* the owned transactions that the recovery has yet to see
  cur,       \* the transaction it works on
  then,      \* where it goes after the recovery
  touched,   \* the installed directory changed since its verification began
  loaded,    \* what the runtime was constructed from
  answer,
  had,       \* the good copy that was there and that nothing outside has spoilt
  errors, crashes, rots

disk == <<final, marker, staging, backup, dir>>
place == <<pc, op, todo, cur, then>>
bounds == <<crashes, rots>>
vars == <<disk, place, touched, loaded, answer, had, errors, bounds>>

Contents == {"none", "bad", "cached", "valid"}
None == "none"

TypeOK ==
  /\ final \in Contents /\ loaded \in Contents
  /\ marker \in [Transactions -> BOOLEAN] /\ dir \in [Transactions -> BOOLEAN]
  /\ staging \in [Transactions -> Contents] /\ backup \in [Transactions -> Contents]
  /\ pc \in {"idle", "recover", "clear", "restore", "promote", "remove", "check", "adopt", "adopted", "mark", "stage",
             "download", "verify", "aside", "activate", "verified"}
  /\ op \in {"install", "load"} /\ then \in {"check", "failed", "done"}
  /\ todo \subseteq Transactions /\ cur \in Transactions \union {None}
  /\ touched \in BOOLEAN /\ had \in {"none", "cached", "valid"} /\ answer \in {"none", "installed", "loaded", "error"}
  /\ errors \in 0..MaxErrors /\ crashes \in 0..MaxCrashes /\ rots \in 0..MaxRot

Init ==
  /\ final \in Contents
  /\ dir = [t \in Transactions |-> t \in Lookalikes]
  /\ marker = [t \in Transactions |-> FALSE]
  /\ staging = [t \in Transactions |-> "none"] /\ backup = [t \in Transactions |-> IF dir[t] THEN "bad" ELSE "none"]
  /\ pc = "idle" /\ op = "load" /\ todo = {} /\ cur = None /\ then = "done"
  /\ touched = FALSE /\ loaded = "none" /\ answer = "none" /\ had = (IF final = "bad" THEN "none" ELSE final)
  /\ errors = 0 /\ crashes = 0 /\ rots = 0

-----------------------------------------------------------------------------
(* _valid_model_directory() *)

\* Mistake: the files are there, with the right names.
SaysByStructure(directory, ok) == ok => directory # "none"
\* What a check of a directory says: a valid one may not be readable.
Says(directory, ok) == ok => directory = "valid"
Misread(directory, ok) == IF directory = "valid" /\ ~ok THEN 1 ELSE 0

\* The answer of the request; the marker-owned directory it worked on stays.
Answers(what) == pc' = "idle" /\ answer' = what /\ todo' = {} /\ cur' = None /\ UNCHANGED <<op, then>>
\* What was installed is read once more before the request says so.
Installed == Answers("installed") \/ Answers("error")

\* Mistake: a directory with the right name is ours.
OwnedByName == {t \in Transactions : dir[t]}
\* _owned_model_transaction(): the marker is the one of this artifact.
Owned == {t \in Transactions : dir[t] /\ marker[t]}

Start(request) ==
  /\ pc = "idle"
  /\ op' = request /\ then' = "check" /\ pc' = "recover" /\ todo' = Owned /\ cur' = None
  \* a load asks for the structure first: it leaves a missing artifact alone
  /\ request = "load" => final \in {"valid", "bad"}
  /\ answer' = "none"
  /\ loaded' = (IF request = "load" THEN "none" ELSE loaded)
  /\ UNCHANGED <<disk, touched, had, errors, bounds>>

-----------------------------------------------------------------------------
(* _recover_model_transactions() *)

Goto(place_) == pc' = place_ /\ UNCHANGED <<op, todo, then>>

\* Mistake: a replacement that failed is put somewhere else.
DecideQuarantine(t, f, b, s) == IF ~f /\ final # "none" THEN "quarantine" ELSE "remove"
\* Mistake: an interrupted replacement is always discarded.
DecideDiscards(t, f, b, s) == "remove"
\* What becomes of a transaction when the installed directory, its backup and its
\* staging directory look valid (f, b, s) or not.
Decide(t, f, b, s) ==
  CASE f -> "remove"
    [] ~f /\ final # "none" /\ b -> "clear"
    [] ~f /\ final = "none" /\ b -> "restore"
    [] ~f /\ final = "none" /\ ~b /\ s -> "promote"
    [] OTHER -> "remove"

Recover ==
  /\ pc = "recover" /\ todo # {}
  /\ \E t \in todo, f, b, s \in BOOLEAN :
       /\ Says(final, f) /\ Says(backup[t], b) /\ Says(staging[t], s)
       /\ errors' = errors + Misread(final, f) + Misread(backup[t], b) + Misread(staging[t], s)
       /\ errors' <= MaxErrors
       /\ cur' = t /\ todo' = todo \ {t} /\ pc' = Decide(t, f, b, s)
  /\ UNCHANGED <<disk, op, then, touched, loaded, answer, had, bounds>>

\* _safe_rmtree() of what failed verification, file by file.
ClearFinal ==
  /\ pc = "clear"
  /\ \/ /\ final \notin {"none", "bad"} /\ final' = "bad" /\ Goto("clear")
     \/ /\ final' = "none" /\ Goto("restore")
  /\ touched' = TRUE
  /\ UNCHANGED <<marker, staging, backup, dir, cur, loaded, answer, had, errors, bounds>>

\* A directory is renamed to the installed one, which is then verified again.
Rename(from) ==
  /\ final' = from[cur] /\ touched' = TRUE
  /\ \E ok \in BOOLEAN :
       /\ Says(from[cur], ok) /\ errors' = errors + Misread(from[cur], ok) /\ errors' <= MaxErrors
       /\ IF ok THEN Goto("remove") /\ UNCHANGED <<cur, answer>> ELSE Answers("error")

RestoreBackup ==
  /\ pc = "restore" /\ Rename(backup)
  /\ backup' = [backup EXCEPT ![cur] = "none"]
  /\ UNCHANGED <<marker, staging, dir, loaded, had, bounds>>

PromoteStaging ==
  /\ pc = "promote" /\ Rename(staging)
  /\ staging' = [staging EXCEPT ![cur] = "none"]
  /\ UNCHANGED <<marker, backup, dir, loaded, had, bounds>>

\* _remove_owned_model_transaction(): the entries go in any order.
RemoveEntry ==
  /\ pc = "remove"
  /\ \/ /\ marker[cur] /\ marker' = [marker EXCEPT ![cur] = FALSE]
        /\ UNCHANGED <<staging, backup, dir>>
     \/ /\ staging[cur] # "none" /\ staging' = [staging EXCEPT ![cur] = "none"]
        /\ UNCHANGED <<marker, backup, dir>>
     \/ /\ backup[cur] # "none" /\ backup' = [backup EXCEPT ![cur] = "none"]
        /\ UNCHANGED <<marker, staging, dir>>
  /\ UNCHANGED <<final, place, touched, loaded, answer, had, errors, bounds>>

RemoveTransaction ==
  /\ pc = "remove" /\ ~marker[cur] /\ staging[cur] = "none" /\ backup[cur] = "none"
  /\ dir' = [dir EXCEPT ![cur] = FALSE] /\ cur' = None
  /\ Goto("recover")
  /\ UNCHANGED <<final, marker, staging, backup, touched, loaded, answer, had, errors, bounds>>

\* The recovery has seen every transaction.
Recovered ==
  /\ pc = "recover" /\ todo = {}
  /\ CASE then = "check" -> pc' = "check" /\ UNCHANGED <<op, todo, cur, then, answer>>
       [] then = "failed" -> Answers("error")
       [] then = "done" -> IF final = "valid" THEN Installed ELSE Answers("error")
  /\ had' = (IF answer' = "installed" THEN "valid" ELSE had)
  /\ UNCHANGED <<disk, touched, loaded, errors, bounds>>

-----------------------------------------------------------------------------
(* ensure_model() *)

CheckInstalled ==
  /\ pc = "check"
  /\ \E ok \in BOOLEAN :
       /\ Says(final, ok) /\ errors' = errors + Misread(final, ok) /\ errors' <= MaxErrors
       /\ CASE ok /\ op = "load" -> Goto("verified") /\ UNCHANGED <<cur, answer>>
            [] ok /\ op = "install" -> Installed
            [] ~ok /\ op = "load" -> Answers("error")          \* model_not_installed
            [] ~ok /\ op = "install" -> Goto("adopt") /\ UNCHANGED <<cur, answer>>
  /\ touched' = FALSE
  /\ had' = (IF answer' = "installed" THEN "valid" ELSE had)
  /\ UNCHANGED <<disk, loaded, bounds>>

\* _create_model_transaction(): a transaction directory is made.
Replace ==
  /\ \E t \in Transactions : ~dir[t] /\ cur' = t /\ dir' = [dir EXCEPT ![t] = TRUE]
  /\ Goto("mark") /\ UNCHANGED answer

\* _remove_verified_huggingface_metadata(): an exact download only loses its cache.
\* One that cannot be read, or whose cache cannot be removed, is replaced as any other.
Adopt ==
  /\ pc = "adopt"
  /\ \/ /\ final = "cached" /\ final' = "valid" /\ had' = "valid" /\ Goto("adopted")
        /\ UNCHANGED <<dir, cur, answer, errors>>
     \/ /\ final = "cached" /\ errors < MaxErrors /\ errors' = errors + 1
        /\ Replace \/ (Answers("error") /\ UNCHANGED dir)
        /\ UNCHANGED <<final, had>>
     \/ final # "cached" /\ Replace /\ UNCHANGED <<final, had, errors>>
  /\ UNCHANGED <<marker, staging, backup, touched, loaded, bounds>>

\* What was adopted is verified without its cache.
Adopted ==
  /\ pc = "adopted"
  /\ \E ok \in BOOLEAN :
       /\ Says(final, ok) /\ errors' = errors + Misread(final, ok) /\ errors' <= MaxErrors
       /\ IF ok THEN Installed /\ UNCHANGED dir ELSE Replace
  /\ UNCHANGED <<final, marker, staging, backup, touched, loaded, had, bounds>>

WriteMarker ==
  /\ pc = "mark"
  /\ \/ /\ marker' = [marker EXCEPT ![cur] = TRUE] /\ Goto("stage")
        /\ UNCHANGED <<cur, dir, answer>>
     \* the marker cannot be written: the directory is removed again
     \/ /\ dir' = [dir EXCEPT ![cur] = FALSE] /\ Answers("error")
        /\ UNCHANGED marker
  /\ UNCHANGED <<final, staging, backup, touched, loaded, had, errors, bounds>>

MakeStaging ==
  /\ pc = "stage"
  /\ staging' = [staging EXCEPT ![cur] = "bad"] /\ Goto("download")
  /\ UNCHANGED <<final, marker, backup, dir, cur, touched, loaded, answer, had, errors, bounds>>

\* The finally block: what the failed attempt has left is recovered.
Fails == pc' = "recover" /\ todo' = Owned /\ then' = "failed" /\ UNCHANGED <<op, cur>>

Download ==
  /\ pc = "download"
  /\ \/ /\ Goto("verify")
        /\ \E content \in {"bad", "valid"} : staging' = [staging EXCEPT ![cur] = content]
     \/ /\ Fails /\ UNCHANGED staging
  /\ UNCHANGED <<final, marker, backup, dir, cur, touched, loaded, answer, had, errors, bounds>>

\* Mistake: only a first installation is activated.
OnlyFirst(ok) == ok /\ final = "none"
\* A staging directory that is not valid is never activated.
MayActivate(ok) == ok

VerifyStaging ==
  /\ pc = "verify"
  /\ \E ok \in BOOLEAN :
       /\ Says(staging[cur], ok) /\ errors' = errors + Misread(staging[cur], ok) /\ errors' <= MaxErrors
       /\ IF MayActivate(ok) THEN Goto("aside") ELSE Fails
  /\ UNCHANGED <<disk, cur, touched, loaded, answer, had, bounds>>

MoveAside ==
  /\ pc = "aside"
  /\ \/ /\ backup' = [backup EXCEPT ![cur] = final]
        /\ final' = "none" /\ touched' = TRUE /\ Goto("activate")
     \/ /\ Fails /\ UNCHANGED <<final, backup, touched>>         \* the rename fails
  /\ UNCHANGED <<marker, staging, dir, cur, loaded, answer, had, errors, bounds>>

Activate ==
  /\ pc = "activate"
  /\ \/ /\ final' = staging[cur] /\ staging' = [staging EXCEPT ![cur] = "none"]
        /\ touched' = TRUE
        /\ \E ok \in BOOLEAN :
             /\ Says(final', ok) /\ errors' = errors + Misread(final', ok) /\ errors' <= MaxErrors
             /\ IF ok THEN pc' = "remove" /\ then' = "done" /\ todo' = {} /\ UNCHANGED op
                ELSE pc' = "recover" /\ then' = "failed" /\ todo' = Owned /\ UNCHANGED op
        /\ UNCHANGED backup
     \/ /\ Fails                                               \* the rename fails
        /\ UNCHANGED <<staging, touched>>
        /\ \E ok \in BOOLEAN :
             /\ Says(backup[cur], ok)
             /\ errors' = errors + Misread(backup[cur], ok) /\ errors' <= MaxErrors
             /\ final' = (IF ok THEN backup[cur] ELSE "none")
             /\ backup' = (IF ok THEN [backup EXCEPT ![cur] = "none"] ELSE backup)
  /\ UNCHANGED <<marker, dir, cur, loaded, answer, had, bounds>>

-----------------------------------------------------------------------------
(* load_model *)

\* Mistake: what was verified is what is there.
NotRechecked == TRUE
\* _assert_model_tree_identity(): root, directory and files are the verified ones.
SameTree == ~touched

Load ==
  /\ pc = "verified"
  /\ IF SameTree THEN loaded' = final /\ Answers("loaded")
     ELSE UNCHANGED loaded /\ Answers("error")
  /\ UNCHANGED <<disk, touched, had, errors, bounds>>

-----------------------------------------------------------------------------
(* The world *)

\* A file of the installed model is damaged.
Rot ==
  /\ rots < MaxRot /\ final \in {"valid", "cached"}
  /\ rots' = rots + 1 /\ final' = "bad" /\ touched' = TRUE /\ had' = "none"
  /\ UNCHANGED <<marker, staging, backup, dir, place, loaded, answer, errors, crashes>>

\* The worker ends, or an operation on the disk raises an error that nothing catches.
Crash ==
  /\ pc # "idle" /\ crashes < MaxCrashes
  /\ crashes' = crashes + 1 /\ Answers("error")
  /\ UNCHANGED <<disk, touched, loaded, had, errors, rots>>

Step ==
  \/ Recover \/ ClearFinal \/ RestoreBackup \/ PromoteStaging \/ RemoveEntry \/ RemoveTransaction
  \/ Recovered \/ CheckInstalled \/ Adopt \/ Adopted \/ WriteMarker \/ MakeStaging \/ Download \/ VerifyStaging
  \/ MoveAside \/ Activate \/ Load

Next == Step \/ (\E request \in {"install", "load"} : Start(request)) \/ Rot \/ Crash

Spec == Init /\ [][Next]_vars

\* The worker goes on, the user tries again, and the network, the disk and the
\* system let an operation succeed when it is tried again and again.
FairSpec ==
  /\ Spec /\ WF_vars(Step) /\ SF_vars(Start("install"))
  /\ SF_vars(WriteMarker /\ marker' # marker)
  /\ SF_vars(Download /\ staging'[cur] = "valid")
  /\ SF_vars(MoveAside /\ pc' = "activate") /\ SF_vars(Activate /\ final' # "none")

-----------------------------------------------------------------------------
(* Properties *)

\* A good copy of the model that nothing outside has damaged is never lost: it is
\* installed, or the next recovery finds it in a transaction.  An installed copy
\* outlives two failed reads, one that still has its download cache only one, for no
\* recovery accepts that one again once it was moved aside.
GoodCopyIsKept ==
  (had = "valid" /\ errors <= 2) \/ (had = "cached" /\ errors <= 1) =>
     \/ final \in {"valid", "cached"}
     \/ \E t \in Transactions : marker[t] /\ "valid" \in {backup[t], staging[t]}

\* The runtime is constructed from a verified directory.
LoadedIsVerified == loaded \in {"none", "valid"}

\* An installation that says it succeeded has left a valid directory and no
\* transaction behind.
InstalledIsWhole ==
  answer # "installed" /\ answer' = "installed" => final' = "valid" /\ Owned' = {}

\* Directories that only look like a transaction are left alone.
LookalikesStay == \A t \in Lookalikes : dir[t] /\ backup[t] = "bad"

\* However often it is interrupted, a wanted model is installed in the end.
InstalledAtLast == <>(final = "valid")
=============================================================================
