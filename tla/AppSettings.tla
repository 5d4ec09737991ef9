------------------------------ MODULE AppSettings ------------------------------
(***************************************************************************)
(* Shortcuts and saved settings: what a shortcut is and when two of them   *)
(* are the same keys (src/shared/shortcuts.ts), what settings are valid    *)
(* and how a saved object of another build, or a damaged one, is repaired  *)
(* (appSettingsSchema and migratePersistedAppSettings() in                 *)
(* src/shared/contracts.ts).                                               *)
(*                                                                         *)
(* A written shortcut is a sequence of written tokens; a parsed one has a  *)
(* set of modifiers and a key, or NoKey.  The settings that no rule        *)
(* relates to another one are the single field "other".                    *)
(*                                                                         *)
(* A definition whose comment starts with "Mistake" is a plausible wrong   *)
(* version of the one after it; no specification uses it.                  *)
(***************************************************************************)
EXTENDS Naturals, Sequences, FiniteSets

CONSTANTS
  RawHolds, RawToggles,  \* written shortcuts that a saved object may have
  Families, Retired,     \* model families this build knows, and those it only reads
  RawLibraries           \* saved libraries, the damaged ones included

VARIABLES
  raw,       \* the saved object, a function of the fields it has
  settings   \* the settings of the running application

vars == <<raw, settings>>

-----------------------------------------------------------------------------
(* Shortcuts *)

NoKey == "NoKey"
Invalid == [modifiers |-> {}, key |-> NoKey]

MODIFIER_ALIASES ==
  [cmd |-> "Command", command |-> "Command", super |-> "Super", ctrl |-> "Control", control |-> "Control",
   cmdorctrl |-> "CommandOrControl", option |-> "Alt", alt |-> "Alt", altgr |-> "AltGr", shift |-> "Shift"]
KEY_ALIASES ==
  [k |-> "K", plus |-> "Plus", equal |-> "Equal", space |-> "Space", enter |-> "Enter", return |-> "Return",
   numenter |-> "NumpadEnter"]

\* parseShortcut(): no token twice as a modifier, at most one key, at least one token.
parseShortcut(parts) ==
  LET places == 1..Len(parts)
      modifierAt == {i \in places : parts[i] \in DOMAIN MODIFIER_ALIASES}
      keyAt == {i \in places : parts[i] \in DOMAIN KEY_ALIASES}
      modifiers == {MODIFIER_ALIASES[parts[i]] : i \in modifierAt}
  IN  IF modifierAt \union keyAt = places /\ Cardinality(keyAt) <= 1
         /\ Cardinality(modifiers) = Cardinality(modifierAt)
      THEN [modifiers |-> modifiers,
            key |-> IF keyAt = {} THEN NoKey ELSE KEY_ALIASES[parts[CHOOSE i \in keyAt : TRUE]]]
      ELSE Invalid

PhysicalKeyGroups(token) ==
  CASE token = "Control" -> {{"control-left", "control-right"}}
    [] token \in {"Command", "Super", "Meta", "CommandOrControl"} -> {{"meta-left", "meta-right"}}
    [] token = "Alt"   -> {{"alt-left", "alt-right"}}
    [] token = "AltGr" -> {{"alt-right"}}
    [] token = "Shift" -> {{"shift-left", "shift-right"}}
    [] token = "Plus"  -> {{"shift-left", "shift-right"}, {"Equal"}}
    [] token \in {"Return", "Enter"} -> {{"Enter"}}
    [] OTHER -> {{token}}

\* shortcutPhysicalKeyGroups(): a set, as equal groups are taken once.
shortcutPhysicalKeyGroups(s) ==
  UNION {PhysicalKeyGroups(token) : token \in s.modifiers \union ({s.key} \ {NoKey})}

\* Mistake: only groups that are equal can be the same key.
canUseSameKeyText(left, right) == left = right
canUseSameKey(left, right) == left \intersect right # {}

\* shortcutsUseSamePhysicalKeys(): the groups can be paired off.
SamePhysicalKeys(left, right) ==
  LET l == shortcutPhysicalKeyGroups(left)
      r == shortcutPhysicalKeyGroups(right)
  IN  /\ Cardinality(l) = Cardinality(r)
      /\ \E pair \in [l -> r] :
           /\ \A g \in l : canUseSameKey(g, pair[g])
           /\ \A g, h \in l : g # h => pair[g] # pair[h]

\* toggleUsesHoldKey(): the toggle takes some key of the hold shortcut.
toggleUsesHoldKey(toggle, hold) ==
  UNION shortcutPhysicalKeyGroups(toggle) \intersect UNION shortcutPhysicalKeyGroups(hold) # {}

\* Mistake: any shortcut can be the toggle.
AnyShortcut(kind, s) == s # Invalid
\* shortcutKindValidationError(): a toggle needs a key, and one that can be registered.
ShortcutAllowed(kind, s) == s # Invalid /\ (kind = "toggle" => s.key \notin {NoKey, "NumpadEnter"})

-----------------------------------------------------------------------------
(* Settings *)

SettingNames == {"hold", "toggle", "family", "library", "other"}
DefaultFamily == CHOOSE f \in Families \ Retired : TRUE

DEFAULT_SETTINGS ==
  [hold |-> [modifiers |-> {"Control"}, key |-> NoKey], toggle |-> [modifiers |-> {"Control"}, key |-> "Space"],
   family |-> DefaultFamily, library |-> <<DefaultFamily>>, other |-> "default"]

Elements(library) == {library[i] : i \in 1..Len(library)}

\* What a field parses to, and whether it does.
Parsed(field, value) ==
  IF field \in {"hold", "toggle"} THEN parseShortcut(value) ELSE value
FieldValid(field, value) ==
  CASE field \in {"hold", "toggle"} -> ShortcutAllowed(field, Parsed(field, value))
    [] field = "family" -> value \in Families
    [] field = "library" -> value # <<>> /\ Elements(value) \subseteq Families
                            /\ Cardinality(Elements(value)) = Len(value)
    [] field = "other" -> value # "damaged"

\* Mistake: a toggle that shares a key with the hold shortcut conflicts with it.
SharesAKey(hold, toggle) == toggleUsesHoldKey(toggle, hold)
Conflicts(hold, toggle) == SamePhysicalKeys(hold, toggle)

\* appSettingsSchema: the rules between the fields.
Valid(s) == ~Conflicts(s.hold, s.toggle) /\ s.family \in Elements(s.library)

\* Mistake: an object with a damaged field is a damaged object.
AllOrNothing(object) ==
  [f \in SettingNames |-> IF f \in DOMAIN object /\ \A g \in DOMAIN object : FieldValid(g, object[g])
                          THEN Parsed(f, object[f]) ELSE DEFAULT_SETTINGS[f]]
\* A saved field that is valid wins, every other field has its default.
Candidate(object) ==
  [f \in SettingNames |-> IF f \in DOMAIN object /\ FieldValid(f, object[f])
                          THEN Parsed(f, object[f]) ELSE DEFAULT_SETTINGS[f]]

\* Mistake: the active family is known, so it can be used.
KeepFamily(s) == s
RepairFamily(s) ==
  IF s.family \in Elements(s.library) THEN s
  ELSE [s EXCEPT !.family = IF DefaultFamily \in Elements(s.library) THEN DefaultFamily ELSE Head(s.library)]

\* Mistake: the default toggle cannot conflict.
RepairToggle(s) == IF Conflicts(s.hold, s.toggle) THEN [s EXCEPT !.toggle = DEFAULT_SETTINGS.toggle] ELSE s
\* The toggle goes first; a hold shortcut that is the default toggle goes as well.
RepairShortcuts(s) ==
  LET t == [s EXCEPT !.toggle = DEFAULT_SETTINGS.toggle]
  IN  CASE ~Conflicts(s.hold, s.toggle) -> s
        [] Conflicts(s.hold, s.toggle) /\ ~Conflicts(t.hold, t.toggle) -> t
        [] OTHER -> [t EXCEPT !.hold = DEFAULT_SETTINGS.hold]

migratePersistedAppSettings(object) == RepairShortcuts(RepairFamily(Candidate(object)))

-----------------------------------------------------------------------------
\* The values a field of a saved object may have.
RawValues(field) ==
  CASE field = "hold" -> RawHolds
    [] field = "toggle" -> RawToggles
    [] field = "family" -> Families \union {"removed"}
    [] field = "library" -> RawLibraries
    [] field = "other" -> {"default", "chosen", "damaged"}

Init ==
  /\ raw \in {[f \in {} |-> <<>>]} \union [{"hold"} -> RawHolds] \union [{"toggle"} -> RawToggles]
  /\ settings = migratePersistedAppSettings(raw)

\* Another build writes a field, or damages it, before this one starts again.
OtherBuild ==
  \E f \in SettingNames : \E value \in RawValues(f) :
    /\ raw' = [g \in DOMAIN raw \union {f} |-> IF g = f THEN value ELSE raw[g]]
    /\ settings' = migratePersistedAppSettings(raw')

\* The object that saving writes: every field, the shortcuts in their canonical
\* spelling (which parses to the same shortcut).
Spelled(s) == CHOOSE parts \in RawHolds \union RawToggles : parseShortcut(parts) = s
Spellable(s) == \E parts \in RawHolds \union RawToggles : parseShortcut(parts) = s
Written(s) == [f \in SettingNames |-> IF f \in {"hold", "toggle"} THEN Spelled(s[f]) ELSE s[f]]

\* A change of a field is merged with the settings; the whole must be valid.  A
\* shortcut is given as text; the model family is changed elsewhere.
Update ==
  \E f \in {"hold", "toggle", "other"} : \E value \in RawValues(f) :
    /\ FieldValid(f, value)
    /\ settings' = [settings EXCEPT ![f] = Parsed(f, value)] /\ Valid(settings')
    /\ Spellable(settings'.hold) /\ Spellable(settings'.toggle)
    /\ raw' = Written(settings')

Relaunch == settings' = migratePersistedAppSettings(raw) /\ UNCHANGED raw

Next == OtherBuild \/ Update \/ Relaunch
Spec == Init /\ [][Next]_vars

-----------------------------------------------------------------------------
(* Properties *)

Shortcuts == [modifiers : SUBSET {MODIFIER_ALIASES[m] : m \in DOMAIN MODIFIER_ALIASES},
              key : {KEY_ALIASES[k] : k \in DOMAIN KEY_ALIASES} \union {NoKey}]

TypeOK ==
  /\ DOMAIN raw \subseteq SettingNames
  /\ DOMAIN settings = SettingNames /\ settings.other \in {"default", "chosen"}
  /\ settings.hold \in Shortcuts \ {Invalid}
  /\ settings.toggle \in {s \in Shortcuts : s.key \notin {NoKey, "NumpadEnter"}}
  /\ settings.library \in Seq(Families) /\ settings.family \in Families

\* Keys that are held down make a shortcut when every group has one of them and
\* there is no other key.
Makes(keys, s) ==
  /\ \A g \in shortcutPhysicalKeyGroups(s) : g \intersect keys # {}
  /\ keys \subseteq UNION shortcutPhysicalKeyGroups(s)

\* Some keys make both shortcuts: one press would start push-to-talk and toggle
\* dictation.
Collide(hold, toggle) ==
  \E keys \in SUBSET UNION shortcutPhysicalKeyGroups(hold) : Makes(keys, hold) /\ Makes(keys, toggle)

\* The two shortcuts of valid settings never collide, however they were written.
NoSharedChord == ~Collide(settings.hold, settings.toggle)

\* The active family is in the library, and the library is never empty.
ActiveIsInLibrary == settings.family \in Elements(settings.library)

\* What a launch reads back is what was saved: settings that are in order are not
\* repaired.
SavedIsReadBack ==
  LET saved == [f \in SettingNames |-> Parsed(f, raw[f])]
      inOrder == /\ DOMAIN raw = SettingNames /\ \A f \in SettingNames : FieldValid(f, raw[f])
                 /\ ~Collide(saved.hold, saved.toggle) /\ saved.family \in Elements(saved.library)
  IN  inOrder => settings = saved

\* One damaged field costs no other field: each valid one that has no part in a
\* conflict is kept, whatever the others are.
ValidFieldsSurvive ==
  LET kept(f) == f \in DOMAIN raw => (FieldValid(f, raw[f]) => settings[f] = Parsed(f, raw[f]))
      c == Candidate(raw)
  IN  /\ kept("other") /\ kept("library")
      /\ c.family \in Elements(c.library) => kept("family")
      /\ ~SamePhysicalKeys(c.hold, c.toggle) => kept("hold") /\ kept("toggle")
=============================================================================
