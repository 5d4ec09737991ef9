----------------------------- MODULE StoreUpgrade -----------------------------
(***************************************************************************)
(* The upgrade of an older database when LocalDatabase opens it            *)
(* (src/main/persistence/database.ts, migrate(), migratePrivateTextRules() *)
(* and normalizePersistedSettings(); src/main/persistence/migrations.ts).  *)
(*                                                                         *)
(* Every migration is a transaction of its own, and the launch may end     *)
(* between any two: the next one has to go on from there.  A transaction   *)
(* that fails leaves nothing behind, so an error and a crash look alike.   *)
(*                                                                         *)
(* A definition whose comment starts with "Mistake" is a plausible wrong   *)
(* version of the one after it; no specification uses it.                  *)
(***************************************************************************)
EXTENDS Naturals, FiniteSets

CONSTANTS
  Notes, Rules,   \* bodies of notes; dictionary entries and snippets
  ProfileRows,    \* [id, app, at]: app is <<identity in lower case, variant>>, 0 is no identity
  MaxInterrupts   \* bound: launches that end half way

StoreUpgradeAssumption ==
  /\ MaxInterrupts \in Nat
  /\ IsFiniteSet(ProfileRows) /\ ProfileRows \subseteq [id : Nat, app : Nat \X Nat, at : Nat]
  /\ \A row, other \in ProfileRows : row.id = other.id => row = other

VARIABLES
  phase,       \* "closed", or how far the constructor is
  ledger,      \* schema_migrations
  pad, notes,  \* scratchpad and scratchpad_notes
  table,       \* the rule tables: "none", "plain" or "sealed"
  rules,       \* their rows
  staging,     \* the tables of migration 5 are there
  profiles, recovered, \* app_profiles and app_profiles_identity_recovery
  settings,    \* the row of the settings
  evidence,    \* a settings row that could not be parsed was kept under another key
  residue,     \* rules whose plain text is in the database file or its log
  reader,      \* another process has the database open, and may be reading it
  missed,      \* a truncation that was due has not happened, nor an orderly last close since
  sealing,     \* the system's encryption is available
  legible,     \* the fields of the older rules keep to the limits
  old,         \* what the older installation had
  interrupts

tables == <<ledger, pad, notes, table, rules, staging, profiles, recovered, settings, evidence, residue>>
vars == <<phase, tables, reader, missed, sealing, legible, old, interrupts>>

Versions == 1..6      \* migrations

TypeOK ==
  /\ phase \in {"closed", "migrating", "rules", "truncate", "settings", "open"}
  /\ ledger \subseteq 1..7 /\ pad \subseteq Notes /\ notes \subseteq Notes
  /\ table \in {"none", "plain", "sealed"} /\ rules \subseteq Rules /\ residue \subseteq Rules
  /\ settings \in {"none", "current", "older", "unparsable", "oversized"}
  /\ {staging, evidence, reader, missed, sealing, legible} \subseteq BOOLEAN /\ interrupts \in 0..MaxInterrupts

\* The databases that the builds of the past have left: of every version, one that
\* was interrupted on the way, and narrow ones that only have notes.
Init ==
  \E n \in 0..7, body \in SUBSET Notes, some \in SUBSET Notes, of \in SUBSET Rules, rows \in SUBSET ProfileRows :
    /\ phase = "closed" /\ ledger = 1..n /\ interrupts = 0
    /\ pad = body /\ (n \notin {2, 3} => body = {}) /\ \A note, other \in body : note = other
    /\ notes = some /\ (n < 3 => some = {})
    /\ table \in (IF n = 0 THEN {"none"} ELSE IF n < 5 THEN {"none", "plain"} ELSE {"none", "plain", "sealed"})
    /\ staging = (n \in {5, 6} /\ table # "sealed")
    /\ rules = of /\ (table = "none" => of = {}) /\ (n = 7 => table = "sealed")
    /\ residue = (IF table = "plain" THEN of ELSE {})
    /\ profiles = rows /\ (n = 0 => rows = {})
    /\ (n >= 6 => \A row, other \in rows : row.app[1] # 0 /\ (row.app[1] = other.app[1] => row = other))
    /\ recovered = {}
    /\ settings \in (IF n = 0 THEN {"none"} ELSE {"none", "current", "older", "unparsable", "oversized"})
    /\ evidence = FALSE /\ reader \in BOOLEAN /\ missed = FALSE /\ sealing \in BOOLEAN /\ legible \in BOOLEAN
    \* version 3 reads the list only, which may have changed since the copy
    /\ old = [pad |-> IF n = 2 THEN body ELSE {}, notes |-> some, rules |-> of, profiles |-> rows, settings |-> settings]

-----------------------------------------------------------------------------
(* migrate() *)

\* Mistake: what a newer build has added is no concern of this one.
AnyLedger == TRUE
\* A ledger with a version this build does not know is refused.
SupportedLedger == ledger \subseteq Versions

Launch ==
  /\ phase = "closed" /\ SupportedLedger
  /\ phase' = "migrating"
  /\ UNCHANGED <<tables, reader, missed, sealing, legible, old, interrupts>>

\* Mistake: the row that was made first wins.
FirstOf(rows) == {row \in rows : \A other \in rows :
  other.app[1] = row.app[1] => row.at < other.at \/ (row.at = other.at /\ row.id <= other.id)}
\* The latest row of an identity, then the least id.
LatestOf(rows) == {row \in rows : \A other \in rows :
  other.app[1] = row.app[1] => row.at > other.at \/ (row.at = other.at /\ row.id <= other.id)}

\* Mistake: only the rows without an identity are kept aside.
SetAsideInvalid(rows) == {row \in rows : row.app[1] = 0}
\* The rows migration 6 keeps aside: those without an identity and the older variants.
SetAside(rows) == {row \in rows : row.app[1] = 0 \/ row \notin LatestOf(rows)}

Canonical(row) == [row EXCEPT !.app = <<row.app[1], 1>>]
Canonicalized ==
  {Canonical(row) : row \in LatestOf({row \in profiles : row.app[1] # 0})}

\* Mistake: the row is copied, not its body.
RowCopied == {pad}
NoteCopied == pad

\* What the statements of a migration do.
Step(version) ==
  CASE version = 1 -> /\ table' = "plain" /\ rules' = {} /\ profiles' = {}
                      /\ UNCHANGED <<pad, notes, staging, recovered, settings>>
    [] version = 2 -> UNCHANGED <<pad, notes, table, rules, staging, profiles, recovered, settings>>
    [] version = 3 -> /\ notes' = NoteCopied
                      /\ UNCHANGED <<pad, table, rules, staging, profiles, recovered, settings>>
    [] version = 4 -> /\ pad' = {}
                      /\ UNCHANGED <<notes, table, rules, staging, profiles, recovered, settings>>
    [] version = 5 -> /\ staging' = TRUE
                      /\ UNCHANGED <<pad, notes, table, rules, profiles, recovered, settings>>
    [] version = 6 -> /\ recovered' = recovered \union SetAside(profiles)
                      /\ profiles' = Canonicalized
                      /\ UNCHANGED <<pad, notes, table, rules, staging, settings>>

Migrate ==
  /\ phase = "migrating"
  /\ \E version \in Versions \ ledger :
       /\ \A other \in Versions \ ledger : version <= other
       /\ ledger' = ledger \union {version}
       /\ Step(version)
  /\ UNCHANGED <<phase, evidence, residue, reader, missed, sealing, legible, old, interrupts>>

Migrated ==
  /\ phase = "migrating" /\ Versions \subseteq ledger
  /\ phase' = "rules"
  /\ UNCHANGED <<tables, reader, missed, sealing, legible, old, interrupts>>

-----------------------------------------------------------------------------
(* migratePrivateTextRules() *)

NothingStaged ==
  /\ phase = "rules" /\ ~staging
  /\ phase' = "settings"
  /\ UNCHANGED <<tables, reader, missed, sealing, legible, old, interrupts>>

StagingDropped ==
  /\ phase = "rules" /\ staging /\ table = "none"
  /\ staging' = FALSE /\ phase' = "settings"
  /\ UNCHANGED <<ledger, pad, notes, table, rules, profiles, recovered, settings, evidence, residue,
                 reader, missed, sealing, legible, old, interrupts>>

\* Mistake: without the system's encryption the rules stay as they are.
SealedOrLeft == legible
\* Every field is sealed and read back before the tables are exchanged.
SealedAll == legible /\ sealing

TablesExchanged ==
  /\ phase = "rules" /\ staging /\ table = "plain" /\ SealedAll
  /\ table' = (IF sealing THEN "sealed" ELSE table) /\ staging' = FALSE
  /\ phase' = "truncate"
  /\ UNCHANGED <<ledger, pad, notes, rules, profiles, recovered, settings, evidence, residue,
                 reader, missed, sealing, legible, old, interrupts>>

\* Mistake: the log is emptied when it is convenient.
LogKept == residue
\* The checkpoint empties the log, unless another process is reading from it.
LogTruncated == IF reader THEN residue ELSE {}

\* What the checkpoint says, that it was busy for instance, is not looked at.
Truncate ==
  /\ phase = "truncate"
  /\ residue' = LogTruncated /\ missed' = reader /\ phase' = "settings"
  /\ UNCHANGED <<ledger, pad, notes, table, rules, staging, profiles, recovered, settings, evidence,
                 reader, sealing, legible, old, interrupts>>

-----------------------------------------------------------------------------
(* normalizePersistedSettings() *)

\* A row that cannot be parsed is copied first; the copy and the defaults commit together.
Recovered == settings' = "current" /\ evidence' = TRUE

NormalizeSettings ==
  /\ phase = "settings" /\ settings # "oversized"
  /\ CASE settings = "unparsable" -> Recovered
       [] settings = "older" -> settings' = "current" /\ UNCHANGED evidence
       [] OTHER -> UNCHANGED <<settings, evidence>>
  /\ phase' = "open"
  /\ UNCHANGED <<ledger, pad, notes, table, rules, staging, profiles, recovered, residue,
                 reader, missed, sealing, legible, old, interrupts>>

-----------------------------------------------------------------------------

\* The last connection that closes empties the log.
Closed ==
  /\ phase' = "closed"
  /\ IF table = "sealed" /\ ~reader THEN residue' = {} /\ missed' = FALSE ELSE UNCHANGED <<residue, missed>>
  /\ UNCHANGED <<ledger, pad, notes, table, rules, staging, profiles, recovered, settings, evidence,
                 reader, sealing, legible, old, interrupts>>

\* The constructor throws, and closes the database first.
Refuse ==
  /\ \/ phase = "rules" /\ staging /\ table = "plain" /\ ~SealedAll
     \/ phase = "settings" /\ settings = "oversized"
  /\ Closed

Quit == phase = "open" /\ Closed

\* The process ends, or a statement fails and its transaction is undone.
Interrupted ==
  /\ phase # "closed" /\ interrupts < MaxInterrupts
  /\ phase' = "closed" /\ interrupts' = interrupts + 1
  /\ missed' = (missed \/ phase = "truncate")
  /\ UNCHANGED <<tables, reader, sealing, legible, old>>

\* Another process opens or closes the database.  Where it is the last to close it,
\* it may empty the log that was left.
ReaderComesOrGoes ==
  /\ reader' = ~reader
  /\ \/ UNCHANGED <<residue, missed>>
     \/ reader /\ phase = "closed" /\ missed /\ residue' = {} /\ missed' = FALSE
  /\ UNCHANGED <<phase, ledger, pad, notes, table, rules, staging, profiles, recovered, settings, evidence,
                 sealing, legible, old, interrupts>>

EncryptionComesOrGoes ==
  /\ phase = "closed" /\ sealing' = ~sealing
  /\ UNCHANGED <<phase, tables, reader, missed, legible, old, interrupts>>

Next ==
  \/ Launch \/ Migrate \/ Migrated \/ NothingStaged \/ StagingDropped \/ TablesExchanged
  \/ Truncate \/ NormalizeSettings \/ Refuse \/ Quit \/ Interrupted
  \/ ReaderComesOrGoes \/ EncryptionComesOrGoes

Spec == Init /\ [][Next]_vars

-----------------------------------------------------------------------------
(* Properties *)

\* Wherever the launches end, everything the older installation had is still in one
\* table or another: the note, the rules, every profile and an unparsable settings row.
NothingLost ==
  /\ old.pad \subseteq pad \union notes /\ old.notes \subseteq notes
  /\ old.rules \subseteq rules
  /\ \A row \in old.profiles : \E kept \in profiles \union recovered :
       kept.id = row.id /\ (kept \in recovered => kept = row)
  /\ old.settings = "unparsable" => settings = "unparsable" \/ evidence

\* "The most recently updated valid row is the user's latest configuration": in an
\* open database every identity has one profile, and no older row is later.
LatestProfileWins ==
  phase = "open" => \A row \in old.profiles : row.app[1] # 0 =>
    \E kept \in profiles : /\ kept.app[1] = row.app[1] /\ kept.at >= row.at
                           /\ \A other \in profiles : other.app[1] = kept.app[1] => other = kept

\* A database opens only when all of it is upgraded: no rule is in plain text and
\* nothing is staged.
OpenMeansUpgraded ==
  phase = "open" => /\ ledger = Versions /\ ~staging /\ table # "plain" /\ pad = {}
                    /\ settings \in {"none", "current"}

\* A database of a newer build is left as it is.
NewerIsUntouched == ~(ledger \subseteq Versions) => UNCHANGED tables

\* "Truncate legacy WAL frames so plaintext copies cannot outlive the atomic table
\* swap": plain text of a sealed rule is left on the disk only where the process ended
\* before the truncation or another one was reading then, and no longer than until the
\* last connection closes in order.
PlainTextOnlyIfMissed == residue # {} /\ table = "sealed" => phase = "truncate" \/ missed
=============================================================================
