------------------------------ MODULE SettingsDraft ------------------------------
(***************************************************************************)
(* The Settings dialog's draft: edits that are not saved yet, the save in  *)
(* flight, and settings that other surfaces change meanwhile               *)
(* (SettingsModal of src/renderer/settings/screens/StyleSettings.tsx, with *)
(* the settings handlers of src/main.ts).                                  *)
(*                                                                         *)
(* Every setting is a switch; "launch" is the one whose effect the         *)
(* operating system decides, "shortcut" the one that is saved as soon as   *)
(* it is recorded.  The main process answers and announces on one ordered  *)
(* channel (toDialog).                                                     *)
(*                                                                         *)
(* A definition whose comment starts with "Mistake" is a plausible wrong   *)
(* version of the one after it; no specification uses it.                  *)
(***************************************************************************)
EXTENDS Naturals, Sequences

CONSTANTS
  Fields,      \* the settings edited in the dialog
  MaxEdits,    \* bound: edits and recorded shortcuts
  MaxOthers,   \* bound: settings saved by other surfaces, and login items changed
  MaxMessages, \* bound: messages under way to the dialog
  Racing       \* whether a save of another surface may overlap with one of the dialog

ASSUME DraftAssumption ==
  /\ {"launch", "shortcut"} \subseteq Fields
  /\ MaxEdits \in Nat /\ MaxOthers \in Nat /\ MaxMessages \in Nat /\ Racing \in BOOLEAN

VARIABLES
  saved,      \* the settings of the main process
  effective,  \* whether the operating system starts the application at login
  request,    \* what the dialog asked the main process, or Nothing
  toDialog,   \* answers and announcements under way, oldest first
  open,       \* whether the dialog is mounted
  pushed,     \* whether an announcement came before the first answer (generation)
  settings,   \* what the controls show, or Nothing while it loads
  persisted,  \* persistedSettings
  dirty,      \* dirtySettings, a function of the fields it has
  submitted,  \* submittedSettings, or Nothing
  saving,     \* settingsSaveInFlight, with what it waits for, or "no"
  status,     \* launchAtLoginStatus?.effective, or Nothing
  wanted,     \* history: the last value the user gave each field, Nothing when it only went back
              \* to the saved one, or another surface saved the field since
  touched,    \* history: the fields edited since the dialog was opened
  edits, others

dialog == <<open, pushed, settings, persisted, dirty, submitted, saving, status>>
vars == <<saved, effective, request, toDialog, dialog, wanted, touched, edits, others>>

Nothing == "nothing"
Empty == [f \in {} |-> FALSE]
Only(f, value) == [g \in {f} |-> value]
\* The values of a patch, over those of the settings.
Over(patch, s) ==
  [f \in DOMAIN patch \union DOMAIN s |-> IF f \in DOMAIN patch THEN patch[f] ELSE s[f]]
Settings == [Fields -> BOOLEAN]
Patches  == UNION {[F -> BOOLEAN] : F \in SUBSET Fields}

Changed(s)     == [kind |-> "changed", ok |-> TRUE, settings |-> s]
Initial(ok, s) == [kind |-> "initial", ok |-> ok, settings |-> s]
Answer(ok, s)  == [kind |-> "answer", ok |-> ok, settings |-> s]
Requests == [kind : {"get", "patch", "shortcut", "reset"}, patch : Patches]
Messages == [kind : {"changed", "initial", "answer", "unheard"}, ok : BOOLEAN, settings : Settings]

TypeOK ==
  /\ saved \in Settings /\ effective \in BOOLEAN
  /\ request \in Requests \union {[kind |-> Nothing, patch |-> Empty]}
  /\ toDialog \in Seq(Messages)
  /\ open \in BOOLEAN /\ pushed \in BOOLEAN
  /\ settings \in Settings \union {Empty} /\ persisted \in Settings \union {Empty}
  /\ dirty \in Patches /\ submitted \in Patches
  /\ saving \in {"no", "patch", "confirm", "shortcut", "reset"}
  /\ status \in {"on", "off", Nothing}
  /\ wanted \in [Fields -> {"on", "off", Nothing}] /\ touched \subseteq Fields
  /\ edits \in 0..MaxEdits /\ others \in 0..MaxOthers

NoRequest == [kind |-> Nothing, patch |-> Empty]
Switch(b) == IF b THEN "on" ELSE "off"
Without(patch, F) == [f \in DOMAIN patch \ F |-> patch[f]]
Loaded == settings # Empty

-----------------------------------------------------------------------------
(* The draft *)

\* Mistake: a draft stands for all settings.
DraftOnly(s, pending) == IF pending = Empty THEN s ELSE pending
settingsWithPendingDraft(s, pending) == Over(pending, s)

\* Mistake: a save acknowledges every edit.
AcknowledgesAll(current, sent) == Without(current, DOMAIN sent)
\* pendingSettingsAfterSave(): the fields that still have the value that was sent are acknowledged.
pendingSettingsAfterSave(current, sent) ==
  Without(current, {f \in DOMAIN current \intersect DOMAIN sent : current[f] = sent[f]})

\* settingsDraftComparedWithSaved(): asking for the login item again is an edit when the system disagrees.
settingsDraftComparedWithSaved(s, draft, system) ==
  LET pending == pendingSettingsAfterSave(draft, s)
  IN  IF "launch" \in DOMAIN draft /\ system \notin {Nothing, Switch(draft["launch"])}
      THEN Over(Only("launch", draft["launch"]), pending) ELSE pending

\* Mistake: what is on the screen stays there.
KeepsShown(s) ==
  /\ persisted' = s /\ dirty' = settingsDraftComparedWithSaved(s, dirty, Nothing)
  /\ settings' = IF Loaded THEN settings ELSE s
\* Mistake: what was announced is all there is to show.
ShowsAnnounced(s) ==
  /\ persisted' = s /\ dirty' = settingsDraftComparedWithSaved(s, dirty, Nothing) /\ settings' = s
applyPersistedSettings(s) ==
  /\ persisted' = s /\ dirty' = settingsDraftComparedWithSaved(s, dirty, Nothing)
  /\ settings' = settingsWithPendingDraft(s, dirty')

\* launchAtLoginSettingsPresentation(): the state of the system, unless an edit waits to be saved.
Shown(f) ==
  IF f = "launch" /\ f \notin DOMAIN dirty /\ status # Nothing THEN status ELSE Switch(settings[f])

-----------------------------------------------------------------------------
Closed ==
  /\ open' = FALSE /\ pushed' = FALSE /\ settings' = Empty /\ persisted' = Empty
  /\ dirty' = Empty /\ submitted' = Empty /\ saving' = "no" /\ status' = Nothing
  /\ wanted' = [f \in Fields |-> Nothing] /\ touched' = {}

Init ==
  /\ saved \in Settings /\ effective \in BOOLEAN
  /\ request = NoRequest /\ toDialog = <<>>
  /\ open = FALSE /\ pushed = FALSE /\ settings = Empty /\ persisted = Empty
  /\ dirty = Empty /\ submitted = Empty /\ saving = "no" /\ status = Nothing
  /\ wanted = [f \in Fields |-> Nothing] /\ touched = {} /\ edits = 0 /\ others = 0

\* The dialog subscribes, then asks for what is saved.
Open ==
  /\ ~open /\ request = NoRequest
  /\ open' = TRUE /\ request' = [kind |-> "get", patch |-> Empty]
  /\ UNCHANGED <<saved, effective, toDialog, pushed, settings, persisted, dirty, submitted, saving, status,
                 wanted, touched, edits, others>>

\* The answer to the first load of a dialog that is gone is not listened to.
Unheard(m) == [m EXCEPT !.kind = IF @ = "initial" THEN "unheard" ELSE @]

\* attemptDismissal(): refused during a save; unsaved edits go when the user confirms.
Close ==
  /\ open /\ saving = "no"
  /\ Closed
  /\ request' = NoRequest
  /\ toDialog' = [i \in DOMAIN toDialog |-> Unheard(toDialog[i])]
  /\ UNCHANGED <<saved, effective, edits, others>>

\* update(): during a save even the saved value is an edit.
Edit(f, value) ==
  /\ open /\ Loaded /\ f # "shortcut" /\ edits < MaxEdits /\ Switch(value) # Shown(f)
  /\ LET draft == Over(Only(f, value), dirty)
     IN  dirty' = IF submitted # Empty THEN draft
                  ELSE settingsDraftComparedWithSaved(persisted, draft, status)
  /\ settings' = [settings EXCEPT ![f] = value]
  /\ wanted' = [wanted EXCEPT ![f] = IF submitted = Empty /\ persisted[f] = value THEN Nothing ELSE Switch(value)]
  /\ touched' = touched \union {f} /\ edits' = edits + 1
  /\ UNCHANGED <<saved, effective, request, toDialog, open, pushed, persisted, submitted, saving, status, others>>

\* Mistake: everything the dialog shows is saved.
SavesAll == settings
SavesDraft == dirty

Save ==
  /\ open /\ Loaded /\ saving = "no" /\ request = NoRequest /\ dirty # Empty
  /\ Racing \/ toDialog = <<>>
  /\ saving' = "patch" /\ submitted' = SavesDraft
  /\ request' = [kind |-> "patch", patch |-> SavesDraft]
  /\ UNCHANGED <<saved, effective, toDialog, open, pushed, settings, persisted, dirty, status, wanted, touched,
                 edits, others>>

\* commitShortcut()
CommitShortcut(value) ==
  /\ open /\ Loaded /\ saving = "no" /\ request = NoRequest /\ edits < MaxEdits
  /\ value # settings["shortcut"]
  /\ saving' = "shortcut" /\ request' = [kind |-> "shortcut", patch |-> Only("shortcut", value)]
  /\ wanted' = [wanted EXCEPT !["shortcut"] = Switch(value)] /\ touched' = touched \union {"shortcut"}
  /\ edits' = edits + 1
  /\ UNCHANGED <<saved, effective, toDialog, open, pushed, settings, persisted, dirty, submitted, status, others>>

\* resetSavedData() and the other data actions, which the same flag keeps apart from saves.
ResetSavedData ==
  /\ open /\ Loaded /\ saving = "no" /\ request = NoRequest /\ edits < MaxEdits
  /\ saving' = "reset" /\ request' = [kind |-> "reset", patch |-> Empty] /\ edits' = edits + 1
  /\ UNCHANGED <<saved, effective, toDialog, open, pushed, settings, persisted, dirty, submitted, status, wanted,
                 touched, others>>

-----------------------------------------------------------------------------
(* The main process *)

\* The login item is asked for before the settings are saved, and asked back when that fails;
\* the system may keep it disabled.
AsksSystem(patch, now) ==
  \/ "launch" \notin DOMAIN patch /\ now = effective
  \/ "launch" \in DOMAIN patch /\ (now => patch["launch"])

MainAnswersGet ==
  /\ request.kind = "get" /\ Len(toDialog) < MaxMessages
  /\ request' = NoRequest /\ \E ok \in BOOLEAN : toDialog' = Append(toDialog, Initial(ok, saved))
  /\ UNCHANGED <<saved, effective, dialog, wanted, touched, edits, others>>

\* settings:patch, shortcuts:update and system:resetSavedData: saved, announced, answered.
MainSaves ==
  /\ request.kind \in {"patch", "shortcut", "reset"} /\ Len(toDialog) + 1 < MaxMessages
  /\ saved' = Over(request.patch, saved)
  /\ \E now \in BOOLEAN : AsksSystem(request.patch, now) /\ effective' = now
  /\ request' = NoRequest /\ toDialog' = Append(Append(toDialog, Changed(saved')), Answer(TRUE, saved'))
  /\ UNCHANGED <<dialog, wanted, touched, edits, others>>

MainRefuses ==
  /\ request.kind \in {"patch", "shortcut", "reset"} /\ Len(toDialog) < MaxMessages
  /\ \E now \in BOOLEAN : /\ AsksSystem(Without(saved, Fields \ DOMAIN request.patch), now)
                          /\ effective' = now
  /\ request' = NoRequest /\ toDialog' = Append(toDialog, Answer(FALSE, saved))
  /\ UNCHANGED <<saved, dialog, wanted, touched, edits, others>>

\* Another window saves one setting: its value is no longer the dialog's.  None saves the login
\* item.  When it does not race, the dialog has heard of what was saved before.
OtherSurface(f, value) ==
  /\ f # "launch" /\ others < MaxOthers /\ Len(toDialog) < MaxMessages /\ value # saved[f]
  /\ Racing \/ (saving = "no" /\ \A i \in DOMAIN toDialog : toDialog[i].kind \notin {"answer", "changed"})
  /\ saved' = [saved EXCEPT ![f] = value] /\ toDialog' = Append(toDialog, Changed(saved'))
  /\ wanted' = [wanted EXCEPT ![f] = Nothing] /\ others' = others + 1
  /\ UNCHANGED <<effective, request, dialog, touched, edits>>

\* The login item is switched in the settings of the operating system.
SystemChanges ==
  /\ others < MaxOthers /\ effective' = ~effective /\ others' = others + 1
  /\ UNCHANGED <<saved, request, toDialog, dialog, wanted, touched, edits>>

-----------------------------------------------------------------------------
(* What reaches the dialog *)

Takes(kind) == toDialog # <<>> /\ Head(toDialog).kind = kind /\ toDialog' = Tail(toDialog)

DeliverChanged ==
  /\ Takes("changed")
  /\ IF open THEN pushed' = TRUE /\ applyPersistedSettings(Head(toDialog).settings)
             ELSE UNCHANGED <<pushed, persisted, dirty, settings>>
  /\ UNCHANGED <<saved, effective, request, open, submitted, saving, status, wanted, touched, edits, others>>

\* subscribeToSettingsWithInitialLoad(): the first answer counts unless something newer was announced.
DeliverInitial ==
  /\ Takes("initial")
  /\ IF ~pushed /\ Head(toDialog).ok THEN applyPersistedSettings(Head(toDialog).settings)
     ELSE UNCHANGED <<persisted, dirty, settings>>
  /\ UNCHANGED <<saved, effective, request, open, pushed, submitted, saving, status, wanted, touched, edits, others>>

DeliverUnheard ==
  /\ Takes("unheard")
  /\ UNCHANGED <<saved, effective, request, dialog, wanted, touched, edits, others>>

\* Mistake: only a success ends the save.
StaysOnFailure(ok) ==
  CASE ~ok -> saving
    [] ok /\ saving = "patch" /\ "launch" \in DOMAIN submitted -> "confirm"
    [] OTHER -> "no"
\* A saved login item is looked at before the save is over.
EndsSave(ok) == IF ok /\ saving = "patch" /\ "launch" \in DOMAIN submitted THEN "confirm" ELSE "no"

Adopt(s, draft) ==
  /\ persisted' = s /\ dirty' = draft /\ settings' = settingsWithPendingDraft(s, draft)

\* save(): the fields that were sent and not edited since are saved.
Saves(s) == Adopt(s, settingsDraftComparedWithSaved(s, pendingSettingsAfterSave(dirty, submitted), Nothing))

DeliverAnswer ==
  /\ Takes("answer")
  /\ LET m == Head(toDialog)
     IN  /\ CASE m.ok /\ saving = "patch" -> Saves(m.settings)
              [] m.ok /\ saving = "shortcut" -> Adopt(m.settings, Without(dirty, {"shortcut"}))
              [] OTHER -> UNCHANGED <<persisted, dirty, settings>>
         /\ saving' = EndsSave(m.ok) /\ submitted' = IF saving' = "no" THEN Empty ELSE submitted
         /\ wanted' = IF m.ok \/ saving # "shortcut" THEN wanted ELSE [wanted EXCEPT !["shortcut"] = Nothing]
  /\ UNCHANGED <<saved, effective, request, open, pushed, status, touched, edits, others>>

Confirm ==
  /\ saving = "confirm"
  /\ status' \in {Switch(effective), Nothing} /\ saving' = "no" /\ submitted' = Empty
  /\ UNCHANGED <<saved, effective, request, toDialog, open, pushed, settings, persisted, dirty, wanted, touched,
                 edits, others>>

\* The state of the login item is read, when the dialog opens, gets the focus or has saved it.
LaunchStatus ==
  /\ open /\ status' \in {Switch(effective), Nothing} /\ status' # status
  /\ UNCHANGED <<saved, effective, request, toDialog, open, pushed, settings, persisted, dirty, submitted, saving,
                 wanted, touched, edits, others>>

User   == \/ Open \/ Close \/ Save \/ ResetSavedData
          \/ \E f \in Fields, value \in BOOLEAN : Edit(f, value)
          \/ \E value \in BOOLEAN : CommitShortcut(value)
Main   == MainAnswersGet \/ MainSaves \/ MainRefuses
Others == SystemChanges \/ \E f \in Fields, value \in BOOLEAN : OtherSurface(f, value)
Arrives == DeliverChanged \/ DeliverInitial \/ DeliverUnheard \/ DeliverAnswer \/ Confirm \/ LaunchStatus

Next == User \/ Main \/ Others \/ Arrives
Spec == Init /\ [][Next]_vars
\* The main process serves every request and its messages arrive.
FairSpec == Spec /\ WF_vars(Main) /\ WF_vars(DeliverChanged \/ DeliverInitial \/ DeliverUnheard \/ DeliverAnswer \/ Confirm)

-----------------------------------------------------------------------------
(* Properties *)

Settled == open /\ Loaded /\ saving = "no" /\ toDialog = <<>>

\* What the user chose last is saved or still waits in the draft, once nothing is under way: an
\* edit made during a save is not lost, be it back to the value that was saved before
\* (StyleSettings.tsx:790).
LastEditIsKept ==
  Settled => \A f \in Fields : wanted[f] = Nothing \/ Switch(saved[f]) = wanted[f]
                               \/ (f \in DOMAIN dirty /\ Switch(dirty[f]) = wanted[f])

\* The dialog shows what is saved, except where the user edited: no older copy comes back.
NoStaleCopy ==
  Settled => settings = Over(dirty, saved)

\* What the dialog holds is true, although messages and saves of other surfaces are on their way.
DialogIsTrue ==
  TypeOK /\ NoStaleCopy /\ (~Racing => LastEditIsKept)

\* A save of the dialog changes only what the user edited in it, never what another surface saved.
SavesOnlyEdits ==
  saved' # saved /\ request # request' => \A f \in Fields : saved'[f] # saved[f] => f \in touched

\* Settings announced by another surface leave the edits on the screen.
DraftStays ==
  DeliverChanged /\ open => \A f \in DOMAIN dirty \ {"launch"} : Shown(f)' = Shown(f)

\* The same for the login item: an edit that asks for it again waits to be saved.
LaunchEditStays ==
  DeliverChanged /\ open /\ saving = "no" /\ "launch" \in DOMAIN dirty => Shown("launch")' = Shown("launch")

\* A save ends, whether the main process accepted it or not, so the dialog can be closed again.
SaveEnds == saving # "no" ~> saving = "no"
=============================================================================
