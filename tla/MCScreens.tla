------------------------------ MODULE MCScreens ------------------------------
(****************************************************************************)
(* What the user is shown, sets and reads: the model page, the settings     *)
(* dialog, the settings as they are parsed and saved, and what becomes of   *)
(* the text of a dictation. They share no state, so a behaviour of all of   *)
(* them is one of each: `part' picks the component that moves, once and for *)
(* all, and the variables of the others are Off (those of SettingsDraft, as *)
(* it is without races, are at their start).                                *)
(****************************************************************************)
EXTENDS SettingsDraft

CONSTANTS
  Parts,  \* the components to check, each by itself
  Off     \* the value of the variables of the others

VARIABLES
  part,  \* the component that moves
  \* ModelScreen
  disk, library, selection, loaded, language, page, mounts, catalog, catalogError, first, draft,
  busy, painted, stopping, feedback, call, screenDialog, frozen, consented, doubt, presses,
  moves,
  \* SettingsDraft
  draftSaved, draftEffective, draftRequest, draftToDialog, draftOpen, draftPushed,
  draftSettings, draftPersisted, draftDirty, draftSubmitted, draftSaving, draftStatus,
  draftWanted, draftTouched, draftEdits, draftOthers,
  \* AppSettings
  raw, appSettings,
  \* SpokenText
  text, options,
  \* TextMarks
  marksText

AtStart == Init /\ saved = [f \in Fields |-> FALSE] /\ ~effective

\* One family for every language and experience, one that knows English after the stop.
PageLanguages == [parakeet |-> {"en"}, qwen |-> {"en", "de"}]
PageModes == [parakeet |-> {"after-stop"}, qwen |-> {"after-stop", "live"}]

\* Shortcuts that overlap in every way there is: by alias, by side, by Plus being
\* Shift and Equal, by the two names of Enter; and some that do not parse.
Holds ==
  {<<"ctrl">>, <<"ctrl", "space">>, <<"option", "k">>, <<"altgr", "k">>, <<"plus">>,
   <<"cmd", "enter">>, <<"cmd", "command">>, <<>>, <<"k", "space">>}
Toggles ==
  {<<"ctrl", "space">>, <<"alt", "k">>, <<"altgr", "k">>, <<"shift", "plus">>,
   <<"cmdorctrl", "return">>, <<"ctrl">>, <<"shift", "k">>}
Libraries == {<<"a">>, <<"b", "a">>, <<"old", "b">>, <<>>, <<"removed">>}

\* Words that build commands, a filler, an acronym, marks and breaks.
Token(kind, v) == <<[kind |-> kind, value |-> v, role |-> "none"]>>
W(v) == Token("word", v)
Said ==
  {W(v) : v \in {"um", "UM", "scratch", "that", "new", "line", "comma"}}
    \union {W("scratch") \o W("last") \o W("sentence"), W("close") \o W("parenthesis"),
            W("you") \o W("know")}
    \union {Token("mark", ","), Token("break", "line"), Token("break", "paragraph")}
Cleanups ==
  {[fillers |-> "conservative", punctuation |-> TRUE, paragraph |-> TRUE, scratch |-> TRUE],
   [fillers |-> "aggressive", punctuation |-> FALSE, paragraph |-> TRUE, scratch |-> FALSE],
   [fillers |-> "off", punctuation |-> TRUE, paragraph |-> FALSE, scratch |-> TRUE]}

\* All kinds of characters in short texts; fewer in longer ones.
MarkCharacters ==
  {"a", ".", ":", "/", "(", ")", "\"", " ", "\n", "<dash>", "<hyphen>"}
NameCharacters == {"a", "1", ".", ":", "@", "'", " "}

Page == INSTANCE ModelScreen WITH Families <- {"parakeet", "qwen"}, Languages <- {"en", "de"},
  LanguagesOf <- PageLanguages, ModesOf <- PageModes, Slots <- {1, 2}, MaxPresses <- 2,
  MaxMoves <- 2, dialog <- screenDialog
Choice == INSTANCE ModelScreen WITH Families <- {"parakeet", "qwen"}, Languages <- {"en"},
  LanguagesOf <- [f \in {"parakeet", "qwen"} |-> {"en"}], ModesOf <- PageModes, Slots <- {1},
  MaxPresses <- 1, MaxMoves <- 3, dialog <- screenDialog
Beside == INSTANCE SettingsDraft WITH Fields <- {"launch", "shortcut", "microphone"},
  MaxEdits <- 2, MaxOthers <- 1, MaxMessages <- 3, Racing <- TRUE, saved <- draftSaved,
  effective <- draftEffective, request <- draftRequest, toDialog <- draftToDialog,
  open <- draftOpen, pushed <- draftPushed, settings <- draftSettings,
  persisted <- draftPersisted, dirty <- draftDirty, submitted <- draftSubmitted,
  saving <- draftSaving, status <- draftStatus, wanted <- draftWanted, touched <- draftTouched,
  edits <- draftEdits, others <- draftOthers
Saved == INSTANCE AppSettings WITH RawHolds <- Holds, RawToggles <- Toggles,
  Families <- {"a", "b", "old"}, Retired <- {"old"}, RawLibraries <- Libraries,
  settings <- appSettings
Spoken == INSTANCE SpokenText WITH Phrases <- Said, OptionSets <- Cleanups, MaxTokens <- 4
Marks == INSTANCE TextMarks WITH Characters <- MarkCharacters, MaxLength <- 4, text <- marksText
Names == INSTANCE TextMarks WITH Characters <- NameCharacters, MaxLength <- 5, text <- marksText

pageVars == <<disk, library, selection, loaded, language, page, mounts, catalog, catalogError,
  first, draft, busy, painted, stopping, feedback, call, screenDialog, frozen, consented, doubt,
  presses, moves>>
besideVars == <<draftSaved, draftEffective, draftRequest, draftToDialog, draftOpen, draftPushed,
  draftSettings, draftPersisted, draftDirty, draftSubmitted, draftSaving, draftStatus,
  draftWanted, draftTouched, draftEdits, draftOthers>>
savedVars == <<raw, appSettings>>
spokenVars == <<text, options>>
marksVars == <<marksText>>

PageOff ==
  /\ disk = Off /\ library = Off /\ selection = Off /\ loaded = Off /\ language = Off
  /\ page = Off /\ mounts = Off /\ catalog = Off /\ catalogError = Off /\ first = Off
  /\ draft = Off /\ busy = Off /\ painted = Off /\ stopping = Off /\ feedback = Off
  /\ call = Off /\ screenDialog = Off /\ frozen = Off /\ consented = Off /\ doubt = Off
  /\ presses = Off /\ moves = Off
BesideOff ==
  /\ draftSaved = Off /\ draftEffective = Off /\ draftRequest = Off /\ draftToDialog = Off
  /\ draftOpen = Off /\ draftPushed = Off /\ draftSettings = Off /\ draftPersisted = Off
  /\ draftDirty = Off /\ draftSubmitted = Off /\ draftSaving = Off /\ draftStatus = Off
  /\ draftWanted = Off /\ draftTouched = Off /\ draftEdits = Off /\ draftOthers = Off
SavedOff ==
  /\ raw = Off /\ appSettings = Off
SpokenOff ==
  /\ text = Off /\ options = Off
MarksOff ==
  /\ marksText = Off

MCInit ==
  /\ part \in Parts
  /\ \/ part = "dialog" /\ Init /\ PageOff /\ BesideOff /\ SavedOff /\ SpokenOff /\ MarksOff
     \/ part = "page" /\ Page!Init /\ AtStart /\ BesideOff /\ SavedOff /\ SpokenOff
        /\ MarksOff
     \/ part = "choice" /\ Choice!Init /\ AtStart /\ BesideOff /\ SavedOff /\ SpokenOff
        /\ MarksOff
     \/ part = "racing" /\ Beside!Init /\ AtStart /\ PageOff /\ SavedOff /\ SpokenOff
        /\ MarksOff
     \/ part = "settings" /\ Saved!Init /\ AtStart /\ PageOff /\ BesideOff /\ SpokenOff
        /\ MarksOff
     \/ part = "spoken" /\ Spoken!Init /\ AtStart /\ PageOff /\ BesideOff /\ SavedOff
        /\ MarksOff
     \/ part = "marks" /\ Marks!Init /\ AtStart /\ PageOff /\ BesideOff /\ SavedOff
        /\ SpokenOff
     \/ part = "names" /\ Names!Init /\ AtStart /\ PageOff /\ BesideOff /\ SavedOff
        /\ SpokenOff

MCNext ==
  /\ UNCHANGED part
  /\ \/ part = "dialog" /\ Next /\ UNCHANGED <<pageVars, besideVars, savedVars, spokenVars,
          marksVars>>
     \/ part = "page" /\ Page!Next /\ UNCHANGED <<vars, besideVars, savedVars, spokenVars,
          marksVars>>
     \/ part = "choice" /\ Choice!Next /\ UNCHANGED <<vars, besideVars, savedVars,
          spokenVars, marksVars>>
     \/ part = "racing" /\ Beside!Next /\ UNCHANGED <<vars, pageVars, savedVars, spokenVars,
          marksVars>>
     \/ part = "settings" /\ Saved!Next /\ UNCHANGED <<vars, pageVars, besideVars,
          spokenVars, marksVars>>
     \/ part = "spoken" /\ Spoken!Next /\ UNCHANGED <<vars, pageVars, besideVars, savedVars,
          marksVars>>
     \/ part = "marks" /\ Marks!Next /\ UNCHANGED <<vars, pageVars, besideVars, savedVars,
          spokenVars>>
     \/ part = "names" /\ Names!Next /\ UNCHANGED <<vars, pageVars, besideVars, savedVars,
          spokenVars>>

MCVars == <<part, vars, pageVars, besideVars, savedVars, spokenVars, marksVars>>
MCSpec == MCInit /\ [][MCNext]_MCVars

-----------------------------------------------------------------------------
ASSUME /\ Page!ScreenAssumption /\ Choice!ScreenAssumption /\ Beside!DraftAssumption

\* The model page works on one operation at a time, shows how each one ended and the
\* catalog as it is, and nothing it starts is refused (ModelPerformanceSettings.tsx); the
\* settings dialog is true also while other surfaces save at once (StyleSettings.tsx).
PageIsTrue ==
  /\ part = "page" => /\ Page!TypeOK /\ Page!OneOperation /\ Page!OutcomeIsShown
                      /\ Page!CatalogIsTrue /\ Page!ApplyIsAccepted /\ Page!UpdateFindsIdle
  /\ part = "choice" => Choice!OutcomeIsShown /\ Choice!CatalogIsTrue /\ Choice!UpdateFindsIdle
  /\ part = "racing" => Beside!DialogIsTrue

\* What the user did not confirm or did not edit stays as it is: a draft is discarded
\* only with consent, and a save writes nothing but the edited fields.
OnlyWhatWasMeant ==
  /\ [][part = "page" => Page!DraftNeedsConsent /\ Page!AllMeansAll]_pageVars
  /\ [][part = "choice" => Choice!DraftNeedsConsent]_pageVars
  /\ [][part = "racing" => Beside!SavesOnlyEdits /\ Beside!DraftStays]_besideVars

\* Whatever was saved, by whichever build: the shortcuts in use are not the same, the
\* model is one of the library, a valid field survives and what is saved is read back
\* (appSettings.ts, shortcuts.ts).
SettingsAreValid ==
  part = "settings" => /\ Saved!TypeOK /\ Saved!NoSharedChord /\ Saved!ActiveIsInLibrary
                       /\ Saved!ValidFieldsSurvive /\ Saved!SavedIsReadBack

\* The text that is inserted is what was said: a scratched part is gone and nothing
\* else, only fillers are removed and each rule is applied once; tokens and breaks are
\* kept, sentences are capitalized and stopped, and formatting again changes nothing.
TextIsWhatWasSaid ==
  /\ part = "spoken" =>
       /\ Spoken!TypeOK /\ Spoken!ScratchedWordIsGone /\ Spoken!ScratchedSentenceIsGone
       /\ Spoken!ScratchedParagraphIsGone /\ Spoken!OnlyFillersGo /\ Spoken!FillersHideNoCommand
       /\ Spoken!CommasAreTidy /\ Spoken!ReplacedOnce /\ Spoken!LongestRuleWins
  /\ part = "marks" =>
       /\ Marks!TypeOK /\ Marks!RenderingKeepsTokens /\ Marks!MarksKeepBreaks
       /\ Marks!FormattingSettles /\ Marks!CapitalsAtStarts /\ Marks!EndsStopped
  /\ part = "names" =>
       /\ Names!RenderingKeepsTokens /\ Names!FormattingSettles /\ Names!JoinedWordsStay

=============================================================================
