------------------------------ MODULE TextRules ------------------------------
(***************************************************************************)
(* The dictionary, the snippets and the app profiles of LocalDatabase      *)
(* (src/main/persistence/database.ts, saveDictionary, saveSnippet and      *)
(* saveProfile), used through editors whose list may be old.               *)
(*                                                                         *)
(* saveDictionary and saveSnippet have the same body, so a rule table is   *)
(* one definition.  A rule is [id, phrase, seal, bad]: `phrase' is     *)
(* <<canonical key, variant>>: variants differ in case or in Unicode       *)
(* composition only; `seal' is the key of the keystore that sealed it.     *)
(* Since migration 5 no UNIQUE column protects a rule table: its phrases   *)
(* are sealed, and two seals of one phrase differ.                         *)
(*                                                                         *)
(* A definition whose comment starts with "Mistake" is a plausible wrong   *)
(* version of the one after it; no specification uses it.                  *)
(***************************************************************************)
EXTENDS Naturals, FiniteSetsExt, SequencesExt

CONSTANTS
  Phrases,     \* <<canonical key, variant>>
  Apps,        \* <<identity in lower case, variant>>
  Keys,        \* keys of the system's keystore
  Limit,       \* MAX_PERSISTED_COLLECTION_ROWS
  MaxIds,      \* bound: rows ever made
  Legacy       \* bound: rules of an older installation

TextRulesAssumption ==
  /\ {Limit, MaxIds, Legacy} \subseteq Nat /\ Legacy <= MaxIds
  /\ Phrases \subseteq Seq(Nat) /\ Apps \subseteq Seq(Nat)

VARIABLES
  rules,       \* a rule table
  profiles,    \* app_profiles
  key,         \* the key in use
  nextId,
  editing,     \* the rule an editor was opened on, or 0
  result       \* what the last save returned: an id, or 0 when it was refused

vars == <<rules, profiles, key, nextId, editing, result>>

Canonical(phrase) == phrase[1]

Rules == [id : 1..MaxIds, phrase : Phrases, seal : Keys, bad : BOOLEAN]
Profiles == [id : 1..MaxIds, app : Apps, broken : BOOLEAN]

TypeOK ==
  /\ rules \subseteq Rules /\ profiles \subseteq Profiles
  /\ key \in Keys /\ nextId \in 1..(MaxIds + 1) /\ editing \in 0..MaxIds /\ result \in 0..MaxIds

\* An older table was unique up to the case of ASCII letters only, and its sealed
\* fields may not be readable any more.
Init ==
  /\ \E n \in 0..Legacy, of \in [1..Legacy -> [phrase : Phrases, seal : Keys, bad : BOOLEAN]] :
       /\ nextId = n + 1
       /\ rules = {[id |-> i, phrase |-> of[i].phrase, seal |-> of[i].seal, bad |-> of[i].bad] : i \in 1..n}
       /\ \A i, j \in 1..n : of[i].phrase = of[j].phrase => i = j
  /\ profiles = {} /\ key \in Keys /\ editing = 0 /\ result = 0

-----------------------------------------------------------------------------
(* Rules *)

Readable(rule) == rule.seal = key /\ ~rule.bad

\* The rows are read in the order they were made, up to the limit.
Read == {rule \in rules : Cardinality({other \in rules : other.id < rule.id}) < Limit}
\* listDictionary(), listSnippets()
Listed == {rule \in Read : Readable(rule)}

\* No row of the table was passed over, for its seal, its content or the limit.
ListIsWhole == Listed = rules

\* Mistake: only what is spelt the same is the same rule.
SameSpelling(phrase) == {rule \in Listed : rule.phrase = phrase}
Matching(phrase) == {rule \in Listed : Canonical(rule.phrase) = Canonical(phrase)}

\* Mistake: an edited rule need not be there any more.
EditAlways(id, phrase) == \A rule \in Matching(phrase) : rule.id = id
\* The rule that is edited is there and no other one has the phrase.
EditAllowed(id, phrase) ==
  /\ \E rule \in Listed : rule.id = id
  /\ \A rule \in Matching(phrase) : rule.id = id

\* Mistake: what is sealed is the canonical spelling alone.
SealedKey(id, phrase) == [id |-> id, phrase |-> <<Canonical(phrase)>>, seal |-> key, bad |-> FALSE]
Sealed(id, phrase) == [id |-> id, phrase |-> phrase, seal |-> key, bad |-> FALSE]
Put(id, phrase) ==
  /\ rules' = {rule \in rules : rule.id # id} \union {Sealed(id, phrase)}
  /\ result' = id

\* The save throws: for a reason above, or because the keystore does not seal.
Refused == result' = 0 /\ UNCHANGED <<rules, profiles, nextId>>

\* saveDictionary() and saveSnippet() of the rule that is edited ...
SaveEdited(phrase) ==
  /\ editing # 0
  /\ \/ ListIsWhole /\ EditAllowed(editing, phrase) /\ Put(editing, phrase) /\ UNCHANGED <<profiles, nextId>>
     \/ Refused
  /\ editing' = 0 /\ UNCHANGED key

\* ... and of a phrase without one: its only match is replaced, or it is new.
SaveNew(phrase) ==
  /\ nextId <= MaxIds
  /\ LET matches == Matching(phrase)
         saved == ListIsWhole /\ Cardinality(matches) <= 1
     IN \/ saved /\ matches = {} /\ Put(nextId, phrase) /\ nextId' = nextId + 1 /\ UNCHANGED profiles
        \/ saved /\ matches # {} /\ UNCHANGED <<profiles, nextId>>
           /\ \E rule \in matches : Put(rule.id, phrase)
        \/ Refused
  /\ UNCHANGED <<key, editing>>

DeleteRule(rule) ==
  /\ rules' = rules \ {rule}
  /\ UNCHANGED <<profiles, key, nextId, editing, result>>

OpenEditor(rule) ==
  /\ editing' = rule.id
  /\ UNCHANGED <<rules, profiles, key, nextId, result>>

-----------------------------------------------------------------------------
(* Profiles *)

\* applicationIdsMatch(), and app_id = ? COLLATE NOCASE
SameApp(app, other) == app[1] = other[1]

\* Mistake: only a profile whose settings can be read is found.
StoredIfReadable(app) == {profile \in profiles : SameApp(profile.app, app) /\ ~profile.broken}
\* The columns of the identity are read, the settings are not.
StoredFor(app) == {profile \in profiles : SameApp(profile.app, app)}

\* saveProfile(): the stored row of the application is replaced.
SaveProfile(app) ==
  /\ nextId <= MaxIds
  /\ LET stored == StoredFor(app)
         id == IF stored = {} THEN nextId ELSE (CHOOSE profile \in stored : TRUE).id
     IN /\ profiles' = {profile \in profiles : profile.id # id}
                         \union {[id |-> id, app |-> app, broken |-> FALSE]}
        /\ nextId' = IF stored = {} THEN nextId + 1 ELSE nextId
        /\ result' = id
  /\ UNCHANGED <<rules, key, editing>>

DeleteProfile(profile) ==
  /\ profiles' = profiles \ {profile}
  /\ UNCHANGED <<rules, key, nextId, editing, result>>

\* A row whose JSON was damaged.
ProfileDamaged(profile) ==
  /\ ~profile.broken
  /\ profiles' = (profiles \ {profile}) \union {[profile EXCEPT !.broken = TRUE]}
  /\ UNCHANGED <<rules, key, nextId, editing, result>>

\* listProfiles() reads the profiles in the order of their identities, up to the limit.
WithinLimit(app) == Cardinality({profile \in profiles : profile.app[1] < app[1]}) < Limit

\* Mistake: an identity is compared as it is written.
FoundAsWritten(app) ==
  {profile \in profiles : profile.app = app /\ ~profile.broken /\ WithinLimit(profile.app)}
\* findProfile(), as a dictation asks for it.
FindProfile(app) ==
  {profile \in profiles : SameApp(profile.app, app) /\ ~profile.broken /\ WithinLimit(profile.app)}

KeyChanges == key' \in Keys \ {key} /\ UNCHANGED <<rules, profiles, nextId, editing, result>>

Next ==
  \/ \E phrase \in Phrases : SaveEdited(phrase) \/ SaveNew(phrase)
  \/ \E rule \in rules : DeleteRule(rule)
  \/ \E rule \in Listed : OpenEditor(rule)
  \/ \E app \in Apps : SaveProfile(app)
  \/ \E profile \in profiles : DeleteProfile(profile) \/ ProfileDamaged(profile)
  \/ KeyChanges

Spec == Init /\ [][Next]_vars

-----------------------------------------------------------------------------
(* Properties *)

RulesOf(table, canonical) == {rule \in table : Canonical(rule.phrase) = canonical}

\* No call makes a second rule with the canonical phrase of another, whatever the
\* key that sealed either: the duplicates of an older installation only get fewer.
NoNewDuplicates ==
     \A canonical \in {Canonical(phrase) : phrase \in Phrases} :
       Cardinality(RulesOf(rules', canonical))
         <= IF RulesOf(rules, canonical) = {} THEN 1 ELSE Cardinality(RulesOf(rules, canonical))

\* An editor opened on a rule that has since been deleted makes no new one.
DeletedStaysDeleted ==
  \A phrase \in Phrases : SaveEdited(phrase) => {r.id : r \in rules'} = {r.id : r \in rules}

\* One profile per application, however its identity is written and however
\* damaged the stored row is.
OneProfilePerApp ==
  \A one, other \in profiles : SameApp(one.app, other.app) => one = other

\* A saved profile is the one the next dictation in that application finds, however
\* the system writes the identity then, where fewer than Limit identities precede it
\* (saveProfile() saves beyond the limit, and what it saved is not read).
SavedProfileIsFound ==
     \A app, other \in Apps : SaveProfile(app) /\ SameApp(app, other) /\ WithinLimit(app)' =>
       {profile.id : profile \in FindProfile(other)'} = {result'}
=============================================================================
