------------------------------- MODULE ModelScreen -------------------------------
(***************************************************************************)
(* The Models page and the window around it: downloads, repairs, removals, *)
(* refreshes and Apply as the page runs them, what may take the page off   *)
(* the screen meanwhile, and what the page then shows                      *)
(* (src/renderer/settings/SettingsApp.tsx, dismissal.ts and                *)
(* screens/StyleSettings.tsx and ModelPerformanceSettings.tsx).            *)
(*                                                                         *)
(* A family has one profile with one package.  The page disables its       *)
(* buttons only when the next rendering is painted, so two presses may     *)
(* both find one enabled.  The main process answers reads of the catalog   *)
(* in the order in which they were asked for.                              *)
(*                                                                         *)
(* A definition whose comment starts with "Mistake" is a plausible wrong   *)
(* version of the one after it; no specification uses it.                  *)
(***************************************************************************)
EXTENDS Naturals, Sequences, SequencesExt, FiniteSets

CONSTANTS
  Families, Languages,
  LanguagesOf,  \* the languages each family accepts
  ModesOf,      \* its dictation experiences
  Slots,        \* calls of the page's handlers that run at the same time
  MaxPresses,   \* bound: operations started
  MaxMoves      \* bound: navigation, dialog and draft steps

Modes == {"after-stop", "live"}
Kinds == {"install", "repair", "remove", "add", "refresh", "apply"}

ScreenAssumption ==
  /\ IsFiniteSet(Families)
  /\ LanguagesOf \in [Families -> SUBSET Languages] /\ ModesOf \in [Families -> (SUBSET Modes) \ {{}}]
  /\ MaxPresses \in Nat /\ MaxMoves \in Nat

VARIABLES
  disk, library,     \* the main process: each package, and the families of the library
  selection, loaded, \* the saved selection, and whether its model is resident
  language,          \* the saved language
  page,              \* the mounted Models page, counted, or 0
  mounts,            \* how often it was mounted
  catalog,           \* what the page was last told, or Nothing
  catalogError,
  first,             \* the read of the catalog that the mounting started, or Nothing
  draft,             \* pendingModelSelection, or Nothing
  busy,              \* modelOperationInFlight of the mounted page
  painted,           \* whether the screen shows the page as busy
  stopping,          \* stopModelDownloads
  feedback,          \* the last line shown
  call,              \* the handler calls under way
  dialog,            \* the Settings dialog: "closed", "open", "dirty" or "saving"
  frozen,            \* updatePreparing
  consented,         \* history: the user agreed to discard the present draft
  doubt,             \* history: packages whose removal failed since the catalog was read
  presses, moves

facts  == <<disk, library, selection, loaded, language>>
screen == <<page, mounts, catalog, catalogError, first, draft, busy, painted, stopping, feedback>>
hub    == <<dialog, frozen>>
count  == <<presses, moves>>
ghost  == <<consented, doubt>>
vars   == <<facts, screen, call, hub, ghost, count>>

Nothing == "nothing"
Status == {"missing", "invalid", "verified"}
Selections == {s \in [family : Families, mode : Modes] : s.mode \in ModesOf[s.family]}
Steps == [kind : {"install", "repair", "add"}, family : Families]

\* What the main process tells of the packages and the library.
Present == [disk |-> disk, library |-> library]
Catalogs == [disk : [Families -> Status], library : SUBSET Families]

NoCall == [at |-> Nothing]
Running(c) == call[c].at # Nothing

TypeOK ==
  /\ disk \in [Families -> Status] /\ library \subseteq Families
  /\ selection \in Selections /\ loaded \in BOOLEAN /\ language \in Languages
  /\ page \in 0..mounts /\ catalog \in Catalogs \union {[disk |-> Nothing]}
  /\ catalogError \in BOOLEAN /\ first \in {"asked", Nothing}
  /\ draft \in Selections \union {[mode |-> Nothing]}
  /\ busy \in BOOLEAN /\ painted \in BOOLEAN /\ stopping \in BOOLEAN
  /\ feedback \in {"none", "done", "failed", "stopped", "all"}
  /\ \A c \in Slots : Running(c) =>
       /\ call[c].at \in {"asked", "reading"} /\ call[c].kind \in Kinds \union {"all"} /\ call[c].page \in 1..mounts
       /\ \A i \in DOMAIN call[c].todo : call[c].todo[i] \in Steps
  /\ dialog \in {"closed", "open", "dirty", "saving"} /\ frozen \in BOOLEAN /\ consented \in BOOLEAN
  /\ doubt \subseteq Families
  /\ presses \in 0..MaxPresses /\ moves \in 0..MaxMoves

NoCatalog == [disk |-> Nothing]
NoDraft == [mode |-> Nothing]
HasCatalog == catalog # NoCatalog
Pending == IF draft = NoDraft THEN selection ELSE draft

-----------------------------------------------------------------------------
(* What the page offers *)

\* Mistake: any language will do.
AnyLanguage(f) == TRUE
SupportsLanguage(f) == language \in LanguagesOf[f]

\* modelApplyEligibility()
ApplyEligible ==
  /\ ~painted /\ ~catalogError /\ HasCatalog
  /\ ~(Pending = selection /\ loaded)
  /\ Pending.mode \in ModesOf[Pending.family] /\ SupportsLanguage(Pending.family)
  /\ Pending.family \in catalog.library /\ catalog.disk[Pending.family] = "verified"

AllDownloaded == \A f \in Families : catalog.disk[f] = "verified"
AllInLibrary  == catalog.library = Families

\* The buttons that a painted page enables.
Offered(kind, f) ==
  /\ ~painted
  /\ CASE kind = "install" -> HasCatalog /\ catalog.disk[f] = "missing" /\ f \in catalog.library
       [] kind = "repair"  -> HasCatalog /\ catalog.disk[f] = "invalid" /\ f \in catalog.library
       [] kind = "remove"  -> HasCatalog /\ catalog.disk[f] = "verified" /\ f \in catalog.library
       [] kind = "add"     -> HasCatalog /\ f \notin catalog.library
       [] kind = "refresh" -> TRUE
       [] kind = "apply"   -> f = Pending.family /\ ApplyEligible
       [] kind = "all"     -> HasCatalog /\ ~catalogError /\ ~(AllDownloaded /\ AllInLibrary)

\* installAllModels(): families first, then what is missing or spoilt.
Ordered(F) == SetToSeq(F)
Needed ==
  [i \in 1..Cardinality(Families \ catalog.library) |->
     [kind |-> "add", family |-> Ordered(Families \ catalog.library)[i]]]
  \o LET rest == Ordered({f \in Families : catalog.disk[f] # "verified"})
     IN  [i \in DOMAIN rest |-> [kind |-> IF catalog.disk[rest[i]] = "invalid" THEN "repair" ELSE "install",
                                 family |-> rest[i]]]

-----------------------------------------------------------------------------
Blank ==
  /\ catalog' = NoCatalog /\ catalogError' = FALSE /\ draft' = NoDraft /\ busy' = FALSE /\ painted' = FALSE
  /\ stopping' = FALSE /\ feedback' = "none"
\* A mounted page subscribes and reads the catalog.
Mount == page' = mounts + 1 /\ mounts' = mounts + 1 /\ first' = "asked" /\ Blank
Unmount == page' = 0 /\ mounts' = mounts /\ first' = Nothing /\ Blank

Init ==
  /\ disk \in [Families -> Status] /\ library \in (SUBSET Families) \ {{}}
  /\ selection \in {s \in Selections : s.family \in library} /\ language \in Languages
  /\ loaded \in {b \in BOOLEAN : b => disk[selection.family] = "verified" /\ SupportsLanguage(selection.family)}
  /\ page = 0 /\ mounts = 0 /\ catalog = NoCatalog /\ catalogError = FALSE /\ first = Nothing /\ draft = NoDraft
  /\ busy = FALSE /\ painted = FALSE /\ stopping = FALSE /\ feedback = "none"
  /\ call = [c \in Slots |-> NoCall] /\ dialog = "closed" /\ frozen = FALSE /\ consented = FALSE
  /\ doubt = {} /\ presses = 0 /\ moves = 0

\* A page can be used while it is on the screen, in front, and not frozen.
Usable == page # 0 /\ dialog = "closed" /\ ~frozen

\* Mistake: the disabled buttons keep a second press away.
MayStartPainted == TRUE
MayStart == ~busy

\* installModel(), removeModel(), addModelFamily(), refreshModelStatus(), applyModelSelection() and
\* installAllModels(): the handler of a pressed button, up to its first wait.
Press(c, kind, f) ==
  /\ Usable /\ presses < MaxPresses /\ ~Running(c) /\ Offered(kind, f) /\ MayStart
  /\ call' = [call EXCEPT ![c] =
       [kind |-> kind, page |-> page, asks |-> Pending, doubts |-> doubt,
        todo |-> IF kind = "all" THEN Needed
                 ELSE IF kind \in {"install", "repair", "add"} THEN <<[kind |-> kind, family |-> f]>> ELSE <<>>,
        family |-> f, at |-> IF kind = "refresh" THEN "reading" ELSE "asked"]]
  /\ busy' = TRUE /\ presses' = presses + 1
  /\ stopping' = IF kind = "all" THEN FALSE ELSE stopping
  /\ UNCHANGED <<facts, page, mounts, catalog, catalogError, first, draft, painted, feedback, hub, ghost, moves>>

Paint ==
  /\ page # 0 /\ painted # busy /\ painted' = busy
  /\ UNCHANGED <<facts, page, mounts, catalog, catalogError, first, draft, busy, stopping, feedback, call, hub,
                 ghost, count>>

\* onStopInstallAll()
Stop ==
  /\ Usable /\ painted /\ ~stopping /\ \E c \in Slots : Running(c) /\ call[c].kind = "all" /\ call[c].page = page
  /\ stopping' = TRUE
  /\ UNCHANGED <<facts, page, mounts, catalog, catalogError, first, draft, busy, painted, feedback, call, hub,
                 ghost, count>>

\* Mistake: another family keeps the chosen experience.
KeepsMode(f) == Pending.mode
\* The experience a newly chosen family is shown with.
ModeFor(f) == IF Pending.mode \in ModesOf[f] THEN Pending.mode ELSE CHOOSE m \in ModesOf[f] : TRUE

\* onFamilyChange() and onProfileChange(); onRecognitionExperienceChange(), which may change the family.
Choose(s) ==
  /\ Usable /\ ~painted /\ HasCatalog /\ moves < MaxMoves /\ moves' = moves + 1
  /\ draft' = s /\ consented' = FALSE
  /\ UNCHANGED <<facts, page, mounts, catalog, catalogError, first, busy, painted, stopping, feedback, call, hub,
                 doubt, presses>>
ChooseFamily(f) == f # Pending.family /\ Choose([family |-> f, mode |-> ModeFor(f)])
ChooseExperience(m, f) ==
  /\ m # Pending.mode /\ m \in ModesOf[f] /\ (m \in ModesOf[Pending.family] => f = Pending.family)
  /\ Choose([family |-> f, mode |-> m])
ChoosesModel == \E f \in Families : ChooseFamily(f) \/ \E m \in Modes : ChooseExperience(m, f)

-----------------------------------------------------------------------------
(* Answers of the main process to the page's calls *)

\* A call reaches the page it was made on, while that page is mounted.
Here(c) == call[c].page = page

\* Mistake: a failed operation does not free the page.
EndsWell(c, line) ==
  /\ call' = [call EXCEPT ![c] = NoCall]
  /\ IF Here(c) THEN busy' = (line = "failed") /\ feedback' = line ELSE UNCHANGED <<busy, feedback>>
Ends(c, line) ==
  /\ call' = [call EXCEPT ![c] = NoCall]
  /\ IF Here(c) THEN busy' = FALSE /\ feedback' = line ELSE UNCHANGED <<busy, feedback>>

Learns(c, told, error) ==
  IF Here(c) THEN catalog' = told /\ catalogError' = error /\ doubt' = {}
             ELSE UNCHANGED <<catalog, catalogError, doubt>>

\* A package is fetched and verified, or removed; a removal may stop after the files have moved.
Fetched(f, ok) == /\ disk' = IF ok THEN [disk EXCEPT ![f] = "verified"] ELSE disk
                  /\ UNCHANGED <<library, selection, loaded, language>>

AnswerInstall(c, ok) ==
  /\ Running(c) /\ call[c].at = "asked" /\ call[c].kind \in {"install", "repair"}
  /\ Fetched(call[c].family, ok)
  /\ IF ok THEN call' = [call EXCEPT ![c].at = "reading"] /\ UNCHANGED <<busy, feedback>> ELSE Ends(c, "failed")
  /\ UNCHANGED <<page, mounts, catalog, catalogError, first, draft, painted, stopping, hub, ghost, count>>

\* The main process keeps the selected package.
AnswerRemove(c, ok) ==
  /\ Running(c) /\ call[c].at = "asked" /\ call[c].kind = "remove" /\ (ok => call[c].family # selection.family)
  /\ \/ ~ok /\ disk' = disk
     \/ disk' = [disk EXCEPT ![call[c].family] = "missing"]
  /\ doubt' = IF ok THEN doubt ELSE doubt \union {call[c].family}
  /\ IF ok THEN call' = [call EXCEPT ![c].at = "reading"] /\ UNCHANGED <<busy, feedback>> ELSE Ends(c, "failed")
  /\ UNCHANGED <<library, selection, loaded, language, page, mounts, catalog, catalogError, first, draft, painted,
                 stopping, hub, consented, count>>

AnswerAdd(c, ok) ==
  /\ Running(c) /\ call[c].at = "asked" /\ call[c].kind = "add"
  /\ library' = (IF ok THEN library \union {call[c].family} ELSE library) /\ disk' = disk
  /\ Ends(c, IF ok THEN "done" ELSE "failed")
  /\ IF ok THEN Learns(c, Present', FALSE) ELSE UNCHANGED <<catalog, catalogError, doubt>>
  /\ UNCHANGED <<selection, loaded, language, page, mounts, first, draft, painted, stopping, hub, consented, count>>

\* Mistake: a failed package is left out and the next one is tried.
SkipsFailed(c, ok) == ~stopping /\ Len(call[c].todo) > 1
\* The next item of Download all follows a success, unless the user stopped.
GoesOn(c, ok) == ok /\ ~stopping /\ Len(call[c].todo) > 1

\* One item of Download all; an added family brings its catalog along.
AnswerItem(c, ok) ==
  /\ Running(c) /\ call[c].at = "asked" /\ call[c].kind = "all"
  /\ LET item == Head(call[c].todo)
     IN  IF item.kind = "add"
         THEN /\ library' = IF ok THEN library \union {item.family} ELSE library
              /\ UNCHANGED <<disk, selection, loaded, language>>
              /\ IF ok THEN Learns(c, Present', catalogError) ELSE UNCHANGED <<catalog, catalogError, doubt>>
         ELSE Fetched(item.family, ok) /\ UNCHANGED <<catalog, catalogError, doubt>>
  /\ call' = [call EXCEPT ![c].todo = IF ok THEN Tail(@) ELSE @,
                          ![c].at = IF GoesOn(c, ok) THEN "asked" ELSE "reading"]
  /\ UNCHANGED <<page, mounts, first, draft, busy, painted, stopping, feedback, hub, consented, count>>

\* Mistake: Download all is over when it is not stopped.
LineUnlessStopped(c) == IF call[c].kind # "all" THEN "done" ELSE IF stopping THEN "stopped" ELSE "all"
LineOf(c) ==
  CASE call[c].kind # "all" -> "done"
    [] call[c].kind = "all" /\ call[c].todo = <<>> /\ ~stopping -> "all"
    [] OTHER -> "stopped"

\* Mistake: what was read before the operation still stands.
KeepsCatalog(c) == UNCHANGED <<catalog, catalogError, doubt>>
TakesCatalog(c) == Learns(c, Present, FALSE)

\* refreshModelCatalog(), the end of a download, a removal and a refresh.
AnswerRead(c) ==
  /\ Running(c) /\ call[c].at = "reading" /\ first = Nothing
  /\ TakesCatalog(c) /\ Ends(c, LineOf(c))
  /\ UNCHANGED <<facts, page, mounts, first, draft, painted, stopping, hub, consented, count>>

ReadFails(c) ==
  /\ Running(c) /\ call[c].at = "reading" /\ first = Nothing
  /\ Learns(c, NoCatalog, TRUE) /\ Ends(c, "failed")
  /\ UNCHANGED <<facts, page, mounts, first, draft, painted, stopping, hub, consented, count>>

\* What the main process checks again before it unloads anything.
Accepts(s) ==
  /\ s.mode \in ModesOf[s.family] /\ s.family \in library /\ disk[s.family] = "verified"
  /\ language \in LanguagesOf[s.family]

\* A refused one may have unloaded the model that was resident, which then did not load again.
AnswerApply(c, ok) ==
  /\ Running(c) /\ call[c].at = "asked" /\ call[c].kind = "apply" /\ (ok => Accepts(call[c].asks))
  /\ IF ok THEN selection' = call[c].asks /\ loaded' = TRUE ELSE UNCHANGED selection /\ loaded' \in {loaded, FALSE}
  /\ Ends(c, IF ok THEN "done" ELSE "failed")
  /\ IF ok /\ Here(c) THEN draft' = NoDraft /\ Learns(c, Present, FALSE)
     ELSE UNCHANGED <<draft, catalog, catalogError, doubt>>
  /\ UNCHANGED <<disk, library, language, page, mounts, first, painted, stopping, hub, consented, count>>

FirstAnswers(ok) ==
  /\ first = "asked" /\ first' = Nothing
  /\ catalog' = (IF ok THEN Present ELSE NoCatalog) /\ catalogError' = ~ok /\ doubt' = {}
  /\ UNCHANGED <<facts, page, mounts, draft, busy, painted, stopping, feedback, call, hub, consented, count>>

-----------------------------------------------------------------------------
(* The window around the page *)

\* decideSettingsDismissal() and attemptDismissal() of the page, asking about a draft.
\* Mistake: only Apply holds the page.
HeldByApply == \E c \in Slots : Running(c) /\ Here(c) /\ call[c].kind = "apply"
Held == busy
Allows(yes) == page = 0 \/ (~Held /\ (draft # NoDraft => yes))
Asks(yes) == consented' = IF page # 0 /\ ~Held /\ draft # NoDraft /\ yes THEN TRUE ELSE consented
\* Mistake: entries of the menu bar navigate at once.
NotAsked(yes) == TRUE
Asked(yes) == Allows(yes)

\* openSection(): the dialog first, then the page.  Notes are a window of their own.
OpenSection(target, yes, dialogYes) ==
  /\ ~frozen /\ moves < MaxMoves /\ moves' = moves + 1
  /\ dialog # "saving" /\ (dialog = "dirty" => dialogYes)
  /\ dialog' = "closed" /\ Asks(yes)
  /\ CASE ~Asked(yes) \/ target = "notes" \/ (target = "models") = (page # 0) -> UNCHANGED screen
       [] OTHER -> IF target = "models" THEN Mount ELSE Unmount
  /\ UNCHANGED <<facts, call, frozen, doubt, presses>>

OpenSettings(yes) ==
  /\ ~frozen /\ dialog = "closed" /\ moves < MaxMoves /\ moves' = moves + 1
  /\ Asks(yes) /\ dialog' = IF Asked(yes) THEN "open" ELSE dialog
  /\ UNCHANGED <<facts, screen, call, frozen, doubt, presses>>

\* The dialog: an edit, a save that takes a while, the closing, and a reset of the saved data, which
\* mounts everything behind it anew.
DialogEdits ==
  /\ dialog = "open" /\ ~frozen /\ dialog' = "dirty"
  /\ UNCHANGED <<facts, screen, call, frozen, ghost, count>>
DialogSaves ==
  /\ dialog \in {"dirty", "open"} /\ ~frozen /\ dialog' = "saving"
  /\ UNCHANGED <<facts, screen, call, frozen, ghost, count>>
DialogSaved(l) ==
  /\ dialog = "saving" /\ dialog' = "open" /\ language' = l /\ loaded' = (loaded /\ l \in LanguagesOf[selection.family])
  /\ UNCHANGED <<disk, library, selection, screen, call, frozen, ghost, count>>
DataReset ==
  /\ dialog = "saving" /\ dialog' = "open" /\ moves < MaxMoves /\ moves' = moves + 1
  /\ IF page = 0 THEN UNCHANGED screen ELSE Mount
  /\ UNCHANGED <<facts, call, frozen, ghost, presses>>
CloseDialog ==
  /\ dialog \in {"open", "dirty"} /\ ~frozen /\ dialog' = "closed"
  /\ UNCHANGED <<facts, screen, call, frozen, ghost, count>>

\* registerUpdatePreparation(): frozen first, released again when something is in the way.
PrepareUpdate(yes) ==
  /\ ~frozen /\ moves < MaxMoves /\ moves' = moves + 1
  /\ Asks(yes) /\ frozen' = (Allows(yes) /\ dialog # "saving" /\ (dialog = "dirty" => yes))
  /\ UNCHANGED <<facts, screen, call, dialog, doubt, presses>>
CancelUpdate == /\ frozen /\ frozen' = FALSE
                /\ UNCHANGED <<facts, screen, call, dialog, ghost, count>>

Answers(c) ==
  \/ AnswerRead(c) \/ ReadFails(c)
  \/ \E ok \in BOOLEAN : \/ AnswerInstall(c, ok) \/ AnswerRemove(c, ok) \/ AnswerAdd(c, ok)
                         \/ AnswerItem(c, ok) \/ AnswerApply(c, ok)
FirstAnswer == \E ok \in BOOLEAN : FirstAnswers(ok)
Presses == \E c \in Slots, kind \in Kinds \union {"all"}, f \in Families :
             (kind \in {"all", "refresh"} => f = selection.family) /\ Press(c, kind, f)
Hub ==
  \/ \E target \in {"models", "notes", "other"}, yes, dialogYes \in BOOLEAN : OpenSection(target, yes, dialogYes)
  \/ \E yes \in BOOLEAN : OpenSettings(yes) \/ PrepareUpdate(yes)
  \/ DialogEdits \/ DialogSaves \/ DataReset \/ CloseDialog \/ CancelUpdate
  \/ \E l \in Languages : DialogSaved(l)

Next == Presses \/ Paint \/ Stop \/ ChoosesModel \/ FirstAnswer \/ Hub
        \/ \E c \in Slots : Answers(c)
Spec == Init /\ [][Next]_vars
\* The main process answers every call.
FairSpec == Spec /\ WF_vars(FirstAnswer) /\ \A c \in Slots : WF_vars(Answers(c))

-----------------------------------------------------------------------------
(* Properties *)

\* Two presses that both find a button enabled do not start two operations
\* (StyleSettings.tsx, modelOperationInFlight).
OneOperation == Cardinality({c \in Slots : Running(c)}) <= 1

\* How an operation ended is shown: nothing takes its page away before
\* (dismissal.ts: "every `setState` after the `await` lands on an unmounted component").
OutcomeIsShown == \A c \in Slots : Running(c) => Here(c)

\* A choice of a model that is not applied is only given up with the user's consent.
DraftNeedsConsent ==
  draft # NoDraft /\ draft' = NoDraft => consented \/ consented' \/ \E c \in Slots : Running(c) /\ AnswerApply(c, TRUE)

\* An idle page shows the packages and the library as they are, but for a package whose removal failed:
\* that call does not read the catalog again, and the files may be gone.
CatalogIsTrue ==
  page # 0 /\ ~busy /\ HasCatalog /\ (\A c \in Slots : ~Running(c)) =>
    /\ catalog.library = library
    /\ \A f \in Families \ doubt : catalog.disk[f] = disk[f]

SaysAll == feedback # "all" /\ feedback' = "all"

\* "All model packages are downloaded and verified; available families are in your library."
AllIsSaidTruly == SaysAll => library' = Families /\ \A f \in Families : disk'[f] = "verified"

\* The same, but for packages whose removal had failed, with no reading of the catalog between it and the press
\* (StyleSettings.tsx, installAllModels(): the message follows the list made at the press).
AllMeansAll ==
     SaysAll => /\ library' = Families
                /\ \A f \in Families \ UNION {call[c].doubts : c \in {d \in Slots : Running(d)}} : disk'[f] = "verified"

\* What the page offers to apply passes the checks that the main process repeats.
ApplyIsAccepted == \A c \in Slots : Running(c) /\ call[c].kind = "apply" =>
                     Accepts(call[c].asks) \/ call[c].asks.family \in doubt

\* An update is admitted over an idle page only, and finds it idle until it restarts.
UpdateFindsIdle == frozen => \A c \in Slots : ~Running(c)

\* Every operation ends and frees the page.
PageIsFreed == busy ~> ~busy
=============================================================================
