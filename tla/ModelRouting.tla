----------------------------- MODULE ModelRouting -----------------------------
(***************************************************************************)
(* Which speech model runs: the choice a dictation starts with, and the    *)
(* operations that apply, install, remove and add models (src/main.ts,     *)
(* with the policy of src/main/modelSpec.ts).                              *)
(*                                                                         *)
(* A dictation with the Auto preference reads the free memory at its start *)
(* and may outlive its session, which the user can cancel.  The exclusive  *)
(* operations run one at a time, no dictation starts during one, but saved *)
(* settings change, files rot and the worker dies at any time.             *)
(*                                                                         *)
(* A call of the worker is one step with its outcome.  Calls are served in *)
(* order, so the reading a dictation began with comes before any unloading *)
(* requested later; that the look at a few files which may follow it ends  *)
(* before a model is loaded is assumed (Settled).                          *)
(*                                                                         *)
(* A definition whose comment starts with "Mistake" is a plausible wrong   *)
(* version of the one after it; no specification uses it.                  *)
(***************************************************************************)
EXTENDS Integers, FiniteSets

CONSTANTS
  Families,    \* the families a saved selection may name
  TiersOf,     \* the tiers of each family of this build's catalog
  ModesOf,     \* its dictation modes
  LanguagesOf, \* the languages it accepts
  Languages,
  Required,    \* the free memory each artifact needs
  Hysteresis,  \* what Auto asks for on top before it goes up
  Readings,    \* the readings of the free memory
  Operations,  \* bound: the kinds of exclusive operation that are requested
  Slots,       \* bound: dictations whose start is under way
  MaxRot       \* bound: artifacts that go bad

Catalog   == DOMAIN TiersOf
Artifacts == UNION {{f} \X TiersOf[f] : f \in Catalog}
Ranking   == <<"high", "medium", "low">>
Tiers     == {Ranking[i] : i \in DOMAIN Ranking}
Modes     == {"after-stop", "live"}
NoTier    == "none"
NoFamily  == "none"
Unknown   == -1
Idle      == 0

RoutingAssumption ==
  /\ Catalog \subseteq Families /\ NoFamily \notin Families
  /\ DOMAIN ModesOf = Catalog /\ DOMAIN LanguagesOf = Catalog
  /\ \A f \in Catalog : TiersOf[f] # {} /\ TiersOf[f] \subseteq Tiers
  /\ Required \in [Artifacts -> Nat] /\ Hysteresis \in Nat /\ MaxRot \in Nat
  /\ Readings \subseteq Nat \union {Unknown} /\ Slots \subseteq Nat \ {Idle}
  /\ Operations \subseteq {"apply", "install", "remove"}

VARIABLES
  disk, proved,     \* each artifact, and whether its present files were verified
  settings,         \* the saved selection, language and library
  warm,             \* the selection the worker has loaded
  resolution,       \* modelResolution, the profile the selection stands for
  previousAutoTier,
  snapshot,         \* acceleratorSnapshot
  session,          \* the slot of the active dictation, or Idle
  activeTier,       \* activeDictationTier
  start,            \* what became of the start of each dictation
  op,               \* the exclusive operation
  reply,            \* the answer the last step gave
  rots

routing == <<resolution, previousAutoTier, snapshot>>
talk    == <<session, activeTier, start>>
files   == <<disk, proved, rots>>
vars    == <<files, settings, warm, routing, talk, op, reply>>

Selections   == UNION {{f} \X TiersOf[f] \X ModesOf[f] : f \in Catalog}
NoModel      == <<NoFamily, NoTier, "none">>
Preferences  == Tiers \union {"auto"}
NoResolution == [preference |-> "none", family |-> NoFamily, tier |-> NoTier, fits |-> FALSE]
Resolutions  == UNION {[preference : Preferences, family : {f}, tier : TiersOf[f], fits : BOOLEAN] : f \in Catalog}
                \union {NoResolution}
NotStarted   == [at |-> "none", cached |-> NoResolution, matches |-> FALSE, result |-> NoResolution]
NoOperation  == [kind |-> "none", at |-> "none", family |-> NoFamily, mode |-> "none", preference |-> "none",
                 tier |-> NoTier, target |-> NoResolution, unloads |-> FALSE,
                 resolution |-> NoResolution, warm |-> NoModel, auto |-> NoTier, snapshot |-> Unknown]

TypeOK ==
  /\ disk \in [Artifacts -> {"missing", "bad", "good"}] /\ proved \in [Artifacts -> BOOLEAN]
  /\ settings \in [family : Families, mode : Modes, preference : Preferences,
                   language : Languages, library : SUBSET Families]
  /\ warm \in Selections \union {NoModel}
  /\ {resolution, op.target, op.resolution} \subseteq Resolutions
  /\ previousAutoTier \in Tiers \union {NoTier} /\ activeTier \in Tiers \union {NoTier}
  /\ snapshot \in Readings \union {Unknown}
  /\ session \in Slots \union {Idle}
  /\ \A s \in Slots : /\ start[s].at \in {"none", "cold", "warm", "check", "done", "failed"}
                      /\ {start[s].cached, start[s].result} \subseteq Resolutions
  /\ op.at \in {"none", "probe", "verify", "unload", "load", "commit", "rollback", "begin", "replace", "settle", "remove"}
  /\ op.warm \in Selections \union {NoModel}
  /\ reply \in {"none", "text", "applied", "installed", "failed"}
  /\ rots \in 0 .. MaxRot

-----------------------------------------------------------------------------
(* The policy of Auto (resolveModelPerformance) *)

Rank(t)       == CHOOSE i \in DOMAIN Ranking : Ranking[i] = t
Above(t, u)   == u # NoTier /\ Rank(t) < Rank(u)
Highest(S)    == CHOOSE t \in S : \A u \in S \ {t} : Above(t, u)
\* Mistake: the lowest quality, whether the family has it or not.
SmallestOfAll(S) == "low"
Smallest(S)   == CHOOSE t \in S : \A u \in S \ {t} : Above(u, t)

Fits(f, t, free, extra) == free # Unknown /\ free >= Required[<<f, t>>] + extra

\* Mistake: a tier that just fits is taken at once.
AutoTierEager(f, free, previous) ==
  LET fitting == {t \in TiersOf[f] : Fits(f, t, free, 0)}
  IN IF fitting = {} THEN Smallest(TiersOf[f]) ELSE Highest(fitting)
AutoTier(f, free, previous) ==
  LET fitting  == {t \in TiersOf[f] : Fits(f, t, free, 0)}
      upgrades == {t \in TiersOf[f] : Above(t, previous) /\ Fits(f, t, free, Hysteresis)}
  IN CASE fitting = {} -> Smallest(TiersOf[f])
       [] fitting # {} /\ previous \notin fitting -> Highest(fitting)
       [] previous \in fitting /\ upgrades # {} -> Highest(upgrades)
       [] previous \in fitting /\ upgrades = {} -> previous

Resolve(f, preference, free, previous, active) ==
  LET tier == IF active # NoTier THEN active
              ELSE IF preference # "auto" THEN preference ELSE AutoTier(f, free, previous)
  IN [preference |-> preference, family |-> f, tier |-> tier, fits |-> Fits(f, tier, free, 0)]

Supported(f, mode, preference) ==
  f \in Catalog /\ mode \in ModesOf[f] /\ preference \in TiersOf[f] \union {"auto"}
Available == Supported(settings.family, settings.mode, settings.preference)
Accepts(f, language) == language \in LanguagesOf[f]
\* Mistake: the mode is left at its default.
SelectionDefault(r, mode) == <<r.family, r.tier, "after-stop">>
Selection(r, mode) == <<r.family, r.tier, mode>>
ArtifactOf(sel) == <<sel[1], sel[2]>>
ArtifactFor(r) == <<r.family, r.tier>>

-----------------------------------------------------------------------------
(* The worker's ensureReady() with its guard, and the catalog's answers *)

Listed(sel) == sel \in Selections
\* Files that were verified are known by their identity until they change.
Prove(a) == proved' = [proved EXCEPT ![a] = @ \/ disk[a] = "good"]

\* Mistake: a file that is there and has its size is taken for the model.
LoadableBySize(sel) == Listed(sel) /\ disk[ArtifactOf(sel)] # "missing"
Loadable(sel) == Listed(sel) /\ disk[ArtifactOf(sel)] = "good"

\* What is warm afterwards; ok is the outcome of the load itself.
Ready(sel, ok) ==
  CASE warm = sel -> warm
    [] warm \notin {sel, NoModel} /\ ~Loadable(sel) -> warm
    [] warm # sel /\ (warm = NoModel \/ Loadable(sel)) ->
         IF ok /\ disk[ArtifactOf(sel)] = "good" THEN sel ELSE NoModel

EnsureReady(sel, ok) == warm' = Ready(sel, ok) /\ Prove(ArtifactOf(sel))

\* refreshModelResolution() with a reading that is already in snapshot'.
Refresh(f, preference) ==
  LET next == Resolve(f, preference, snapshot', previousAutoTier, activeTier)
  IN /\ resolution' = next
     /\ previousAutoTier' = IF /\ session = Idle /\ f = settings.family
                               /\ preference = "auto" /\ next.fits
                            THEN next.tier ELSE previousAutoTier

\* currentModelResolution() outside a dictation.
Consult(free) ==
  LET probes == snapshot = Unknown /\ warm = NoModel
  IN IF probes \/ resolution = NoResolution
     THEN /\ snapshot' = IF probes THEN free ELSE snapshot
          /\ Refresh(settings.family, settings.preference)
     ELSE UNCHANGED routing

Init ==
  /\ settings \in {s \in [family : Families, mode : Modes, preference : Preferences,
                          language : Languages, library : {{f} : f \in Families}] :
                    s.library = {s.family} /\ (s.family \in Catalog => s.mode \in ModesOf[s.family])}
  /\ disk \in [Artifacts -> {"missing", "good"}] /\ proved = [a \in Artifacts |-> FALSE]
  /\ snapshot \in Readings
  /\ resolution = IF Available
                  THEN Resolve(settings.family, settings.preference, snapshot, NoTier, NoTier) ELSE NoResolution
  /\ previousAutoTier = IF Available /\ settings.preference = "auto" /\ resolution.fits
                        THEN resolution.tier ELSE NoTier
  /\ warm = NoModel /\ session = Idle /\ activeTier = NoTier
  /\ start = [s \in Slots |-> NotStarted]
  /\ op = NoOperation /\ reply = "none" /\ rots = 0

-----------------------------------------------------------------------------
(* A dictation: beginListening(), the reading at its boundary, its model *)

Matches(cached) == /\ cached.preference = "auto" /\ cached.family = settings.family
                   /\ warm = Selection(cached, settings.mode)

Begin(s) ==
  /\ session = Idle /\ op = NoOperation /\ start[s].at = "none"
  /\ Available /\ Accepts(settings.family, settings.language)
  /\ session' = s /\ reply' = "none"
  /\ IF settings.preference = "auto"
     THEN /\ start' = [start EXCEPT ![s] = [NotStarted EXCEPT
                         !.at = IF warm = NoModel THEN "cold" ELSE "warm",
                         !.cached = resolution, !.matches = Matches(resolution)]]
          /\ UNCHANGED activeTier
     ELSE /\ resolution # NoResolution
          /\ start' = [start EXCEPT ![s] = [NotStarted EXCEPT !.at = "done", !.result = resolution]]
          /\ activeTier' = resolution.tier
  /\ UNCHANGED <<files, settings, warm, routing, op>>

\* The boundary's promise settles; nobody waits for that of a cancelled dictation.
Settles(s, at, result) ==
  /\ start' = [start EXCEPT ![s] = IF session = s THEN [@ EXCEPT !.at = at, !.result = result] ELSE NotStarted]
  /\ activeTier' = IF session = s /\ at = "done" THEN result.tier ELSE activeTier

ColdReading(s, free) ==
  /\ start[s].at = "cold"
  /\ snapshot' = free
  /\ LET next == Resolve(settings.family, settings.preference, free, previousAutoTier, activeTier)
     IN /\ resolution' = next
        /\ previousAutoTier' = IF next.fits THEN next.tier ELSE previousAutoTier
        /\ Settles(s, "done", next)
  /\ reply' = "none"
  /\ UNCHANGED <<files, settings, warm, session, op>>

ReadingFails(s) ==
  /\ start[s].at = "warm"
  /\ Settles(s, IF start[s].matches THEN "done" ELSE "failed", start[s].cached)
  /\ reply' = "none"
  /\ UNCHANGED <<files, settings, warm, routing, session, op>>

Mismatch(s, free) ==
  /\ start[s].at = "warm" /\ ~start[s].matches
  /\ snapshot' = free
  /\ Settles(s, "failed", start[s].cached)
  /\ reply' = "none"
  /\ UNCHANGED <<files, settings, warm, resolution, previousAutoTier, session, op>>

WarmReading(s, free) ==
  /\ start[s].at = "warm" /\ start[s].matches
  /\ snapshot' = free
  /\ LET next == Resolve(settings.family, settings.preference, free, previousAutoTier, activeTier)
     IN /\ resolution' = next
        /\ IF next.tier = start[s].cached.tier
           THEN /\ previousAutoTier' = IF next.fits THEN next.tier ELSE previousAutoTier
                /\ Settles(s, "done", next)
           ELSE /\ previousAutoTier' = IF session = Idle /\ next.fits THEN next.tier ELSE previousAutoTier
                /\ start' = [start EXCEPT ![s] = [@ EXCEPT !.at = "check", !.result = next]]
                /\ UNCHANGED activeTier
  /\ reply' = "none"
  /\ UNCHANGED <<files, settings, warm, session, op>>

\* Mistake: a tier is taken whose files were not verified.
HoldsNever(s) == FALSE
Holds(s) == ~proved[ArtifactFor(start[s].result)]

CheckTier(s) ==
  /\ start[s].at = "check"
  /\ IF Holds(s)
     THEN /\ resolution' = start[s].cached
          /\ Settles(s, "done", start[s].cached)
          /\ UNCHANGED previousAutoTier
     ELSE /\ previousAutoTier' = IF start[s].result.fits THEN start[s].result.tier ELSE previousAutoTier
          /\ Settles(s, "done", start[s].result)
          /\ UNCHANGED resolution
  /\ reply' = "none"
  /\ UNCHANGED <<files, settings, warm, snapshot, session, op>>

Ends(s) ==
  /\ session' = Idle /\ activeTier' = NoTier
  /\ start' = [start EXCEPT ![s] = IF @.at \in {"done", "failed"} THEN NotStarted ELSE @]

\* The audio, or the Live session, is handed to the worker.
Submit(s, ok) ==
  /\ session = s /\ start[s].at = "done"
  /\ LET sel == Selection(start[s].result, settings.mode)
     IN IF Accepts(settings.family, settings.language)
        THEN /\ EnsureReady(sel, ok)
             /\ reply' = IF warm' = sel THEN "text" ELSE "failed"
        ELSE UNCHANGED <<warm, proved>> /\ reply' = "failed"
  /\ Ends(s)
  /\ UNCHANGED <<disk, rots, settings, routing, op>>

StartFailed(s) ==
  /\ session = s /\ start[s].at = "failed"
  /\ Ends(s) /\ reply' = "failed"
  /\ UNCHANGED <<files, settings, warm, routing, op>>

Cancel ==
  /\ session # Idle
  /\ Ends(session) /\ reply' = "none"
  /\ UNCHANGED <<files, settings, warm, routing, op>>

-----------------------------------------------------------------------------
(* The exclusive operations; a request that is refused at once leaves no trace *)

MayStart(kind) == kind \in Operations /\ session = Idle /\ op = NoOperation

\* No dictation's reading is still to come.
Settled == \A s \in Slots : start[s].at \notin {"cold", "warm", "check"}

StartApply(f, mode, preference, free) ==
  /\ MayStart("apply")
  /\ Supported(f, mode, preference) /\ f \in settings.library /\ Accepts(f, settings.language)
  /\ LET same == <<settings.family, settings.mode, settings.preference>> = <<f, mode, preference>>
     IN /\ IF same THEN Consult(free) ELSE UNCHANGED routing
        /\ IF same /\ warm = Selection(resolution', mode)
           THEN op' = op /\ reply' = "applied"
           ELSE /\ op' = [NoOperation EXCEPT
                     !.kind = "apply", !.at = "probe", !.family = f, !.mode = mode, !.preference = preference,
                     !.resolution = IF same \/ resolution' # NoResolution \/ ~Available THEN resolution'
                                    ELSE Resolve(settings.family, settings.preference, snapshot',
                                                 previousAutoTier', NoTier),
                     !.warm = warm, !.auto = previousAutoTier', !.snapshot = snapshot']
                /\ reply' = "none"
  /\ UNCHANGED <<files, settings, warm, talk>>

ApplyProbe(free) ==
  /\ op.at = "probe"
  /\ snapshot = Unknown => Settled
  /\ snapshot' = IF snapshot = Unknown THEN free ELSE snapshot
  /\ op' = [op EXCEPT !.at = "verify", !.target =
              Resolve(op.family, op.preference, snapshot',
                      IF settings.family = op.family /\ settings.preference = "auto" THEN previousAutoTier ELSE NoTier,
                      NoTier)]
  /\ reply' = "none"
  /\ UNCHANGED <<files, settings, warm, resolution, previousAutoTier, talk>>

Restored ==
  /\ resolution' = op.resolution /\ previousAutoTier' = op.auto /\ snapshot' = op.snapshot
  /\ op' = NoOperation /\ reply' = "failed"

ApplyVerify ==
  /\ op.at = "verify"
  /\ Prove(ArtifactFor(op.target))
  /\ IF disk[ArtifactFor(op.target)] = "good"
     THEN op' = [op EXCEPT !.at = "unload"] /\ reply' = "none" /\ UNCHANGED routing
     ELSE Restored
  /\ UNCHANGED <<disk, rots, settings, warm, talk>>

ApplyUnload(free) ==
  /\ op.at = "unload" /\ Settled
  /\ warm' = NoModel /\ snapshot' = free /\ previousAutoTier' = NoTier
  /\ op' = [op EXCEPT !.at = "load"] /\ reply' = "none"
  /\ UNCHANGED <<files, settings, resolution, talk>>

ApplyLoad(ok) ==
  /\ op.at = "load"
  /\ LET sel == Selection(op.target, op.mode)
     IN /\ EnsureReady(sel, ok)
        /\ op' = [op EXCEPT !.at = IF warm' = sel THEN "commit" ELSE "rollback"]
  /\ reply' = "none"
  /\ UNCHANGED <<disk, rots, settings, routing, talk>>

\* Mistake: the language is looked at only when the operation starts.
CommitsOnce(ok) == ok
\* The catalog may turn out unreadable, and the language may have changed.
Commits(ok) == ok /\ Accepts(op.family, settings.language)

\* Mistake: the profile is left to the next refresh.
AdoptedLater == resolution
Adopted == op.target

ApplyCommit(ok) ==
  /\ op.at = "commit"
  /\ IF Commits(ok)
     THEN /\ settings' = [settings EXCEPT !.family = op.family, !.mode = op.mode, !.preference = op.preference]
          /\ resolution' = Adopted
          /\ previousAutoTier' = IF op.preference = "auto" /\ op.target.fits THEN op.target.tier ELSE previousAutoTier
          /\ op' = NoOperation /\ reply' = "applied"
     ELSE op' = [op EXCEPT !.at = "rollback"] /\ reply' = "none" /\ UNCHANGED <<settings, resolution, previousAutoTier>>
  /\ UNCHANGED <<files, warm, snapshot, talk>>

\* Mistake: Auto's memory stays as the unloading left it.
ReturnsHalf == /\ resolution' = op.resolution /\ snapshot' = op.snapshot
               /\ op' = NoOperation /\ reply' = "failed" /\ UNCHANGED previousAutoTier
Returns == Restored

ApplyRollback(ok) ==
  /\ op.at = "rollback"
  /\ warm' = IF op.warm # NoModel /\ ok /\ disk[ArtifactOf(op.warm)] = "good" THEN op.warm ELSE NoModel
  /\ Returns
  /\ UNCHANGED <<files, settings, talk>>

StartInstall(f, t, replace) ==
  /\ MayStart("install") /\ f \in settings.library /\ <<f, t>> \in Artifacts
  /\ disk[<<f, t>>] = IF replace THEN "bad" ELSE "missing"
  /\ LET sel == <<f, t, IF f = settings.family THEN settings.mode ELSE "after-stop">>
         replacesLoaded == /\ replace /\ ArtifactFor(resolution) = <<f, t>>
                           /\ warm = Selection(resolution, settings.mode)
     IN op' = [NoOperation EXCEPT !.kind = "install", !.at = "begin", !.family = f, !.tier = t, !.warm = warm,
                                  !.unloads = warm # NoModel /\ (replacesLoaded \/ warm = sel)]
  /\ reply' = "none"
  /\ UNCHANGED <<files, settings, warm, routing, talk>>

\* Mistake: the model stays loaded while its files are replaced.
KeepsLoaded == warm
LeavesLoaded == IF op.unloads THEN NoModel ELSE warm

InstallBegins ==
  /\ op.at = "begin" /\ Settled
  /\ warm' = LeavesLoaded
  /\ op' = [op EXCEPT !.at = "replace"] /\ reply' = "none"
  /\ UNCHANGED <<files, settings, routing, talk>>

InstallReplaces(ok) ==
  /\ op.at = "replace"
  /\ LET a == <<op.family, op.tier>>
     IN IF ok THEN disk' = [disk EXCEPT ![a] = "good"] /\ proved' = [proved EXCEPT ![a] = FALSE]
        ELSE UNCHANGED <<disk, proved>>
  /\ op' = [op EXCEPT !.at = "settle", !.mode = IF ok THEN "ok" ELSE "failed"] /\ reply' = "none"
  /\ UNCHANGED <<settings, warm, rots, routing, talk>>

\* The earlier model is loaded again by the supervisor, and once more by main
\* if the operation failed.
InstallSettles(first, second) ==
  /\ op.at = "settle"
  /\ LET a == <<op.family, op.tier>>
         again == op.warm # NoModel /\ disk[ArtifactOf(op.warm)] = "good"
         reloaded == IF op.unloads THEN IF first /\ again THEN op.warm ELSE NoModel ELSE warm
         good == op.mode = "ok" /\ disk[a] = "good" /\ (op.unloads => reloaded = op.warm)
     IN /\ reply' = IF good THEN "installed" ELSE "failed"
        /\ warm' = IF ~good /\ second /\ again THEN op.warm ELSE reloaded
        /\ Prove(a)
  /\ op' = NoOperation
  /\ UNCHANGED <<disk, rots, settings, routing, talk>>

\* Mistake: only the saved preference is compared, which Auto does not name.
SelectedByName(a) == a = <<settings.family, settings.preference>>
Selected(a) == Available /\ a = ArtifactFor(resolution')

StartRemove(f, t, free) ==
  /\ MayStart("remove") /\ f \in settings.library /\ <<f, t>> \in Artifacts
  /\ IF Available THEN Consult(free) ELSE UNCHANGED routing
  /\ IF Selected(<<f, t>>)
     THEN op' = op /\ reply' = "failed"
     ELSE /\ op' = [NoOperation EXCEPT !.kind = "remove", !.at = "remove", !.family = f, !.tier = t]
          /\ reply' = "none"
  /\ UNCHANGED <<files, settings, warm, talk>>

RemoveArtifact(ok) ==
  /\ op.at = "remove"
  /\ IF ok THEN disk' = [disk EXCEPT ![<<op.family, op.tier>>] = "missing"]
                /\ proved' = [proved EXCEPT ![<<op.family, op.tier>>] = FALSE]
     ELSE UNCHANGED <<disk, proved>>
  /\ op' = NoOperation /\ reply' = "none"
  /\ UNCHANGED <<settings, warm, rots, routing, talk>>

AddFamily(f) ==
  /\ op = NoOperation /\ f \in Catalog \ settings.library
  /\ settings' = [settings EXCEPT !.library = @ \union {f}] /\ reply' = "none"
  /\ UNCHANGED <<files, warm, routing, talk, op>>

-----------------------------------------------------------------------------
ChangeLanguage(l) ==
  /\ l # settings.language
  /\ settings' = [settings EXCEPT !.language = l] /\ reply' = "none"
  /\ UNCHANGED <<files, warm, routing, talk, op>>

\* A status request of a window; during a dictation it waits for that one's start.
Diagnose(free) ==
  /\ session = Idle
  /\ op = NoOperation
  /\ IF Available THEN Consult(free)
     ELSE /\ snapshot = Unknown /\ warm = NoModel /\ snapshot' = free
          /\ UNCHANGED <<resolution, previousAutoTier>>
  /\ reply' = "none"
  /\ UNCHANGED <<files, settings, warm, talk, op>>

Rot(a) ==
  /\ rots < MaxRot /\ disk[a] = "good"
  /\ disk' = [disk EXCEPT ![a] = "bad"] /\ proved' = [proved EXCEPT ![a] = FALSE]
  /\ rots' = rots + 1 /\ reply' = "none"
  /\ UNCHANGED <<settings, warm, routing, talk, op>>

WorkerDies ==
  /\ warm # NoModel
  /\ warm' = NoModel /\ reply' = "none"
  /\ UNCHANGED <<files, settings, routing, talk, op>>

Dictates ==
  \/ \E s \in Slots : \/ Begin(s) \/ ReadingFails(s) \/ CheckTier(s) \/ StartFailed(s)
                      \/ \E free \in Readings : ColdReading(s, free)
                      \/ \E free \in Readings \ {Unknown} : WarmReading(s, free) \/ Mismatch(s, free)
                      \/ \E ok \in BOOLEAN : Submit(s, ok)
  \/ Cancel

Continues ==
  \/ \E free \in Readings : ApplyProbe(free) \/ ApplyUnload(free)
  \/ ApplyVerify \/ InstallBegins
  \/ \E ok \in BOOLEAN : ApplyLoad(ok) \/ ApplyCommit(ok) \/ ApplyRollback(ok) \/ InstallReplaces(ok) \/ RemoveArtifact(ok)
  \/ \E first \in BOOLEAN, second \in BOOLEAN : InstallSettles(first, second)

Requests ==
  \/ \E f \in Families, mode \in Modes, preference \in Preferences, free \in Readings :
        StartApply(f, mode, preference, free)
  \/ \E a \in Artifacts, replace \in BOOLEAN : StartInstall(a[1], a[2], replace)
  \/ \E a \in Artifacts, free \in Readings : StartRemove(a[1], a[2], free)
  \/ \E f \in Families : AddFamily(f)

Surroundings ==
  \/ \E l \in Languages : ChangeLanguage(l)
  \/ \E free \in Readings : Diagnose(free)
  \/ \E a \in Artifacts : Rot(a)
  \/ WorkerDies

Next == Dictates \/ Continues \/ Requests \/ Surroundings
Spec == Init /\ [][Next]_vars

-----------------------------------------------------------------------------
(* Properties *)

\* A profile is pinned to the saved selection it was resolved for, so what
\* runs never comes from another family or quality than the one applied.
ResolutionIsTheSelection ==
  resolution # NoResolution /\ op.kind # "apply" =>
    resolution.family = settings.family /\ resolution.preference = settings.preference

\* A dictation's text comes from the family, the mode and, unless it is Auto,
\* the quality that were applied, in a language that family accepts.
TextIsFromTheSelection ==
     reply' = "text" => /\ <<warm'[1], warm'[3]>> = <<settings.family, settings.mode>>
                        /\ settings.preference \in {"auto", warm'[2]}
                        /\ settings.language \in LanguagesOf[warm'[1]]

\* Handing over a dictation never unloads a working model for one whose files
\* are missing or damaged.
WorkingModelIsKept ==
     \A s \in Slots : session = s /\ start[s].at = "done" /\ session' = Idle /\ warm # NoModel /\ warm' # warm =>
        disk[ArtifactFor(start[s].result)] = "good"

\* A tier that Auto changes to for a dictation was verified as it lies on disk
\* when the dictation decided for it.
AutoMovesToVerified ==
     \A s \in Slots : start[s].at = "check" /\ start'[s].at = "done" =>
        \/ start'[s].result.tier = start[s].cached.tier
        \/ disk[ArtifactFor(start'[s].result)] = "good"

\* A reading moves Auto up from the tier it last chose only when the margin is
\* free too.  (The end of a look at files may bring back an older choice.)
AutoIsSteady ==
     /\ resolution' # resolution /\ op.kind # "apply" /\ activeTier = NoTier
     /\ Above(resolution'.tier, previousAutoTier)
     /\ \A s \in Slots : start[s].at = "check" => start'[s].at = "check"
     => Fits(settings.family, resolution'.tier, snapshot', Hysteresis)

\* An Apply that fails, at whatever step, leaves the selection as it was and brings
\* back the profile, Auto's tier and the reading of the memory from before it started;
\* the model that was loaded then is loaded again, or none.  A working model is given up
\* only for a target whose files were verified, unless they were damaged since.
Failed == op.kind = "apply" /\ op'.kind = "none" /\ reply' = "failed"
Starts == op.kind # "apply" /\ op'.kind = "apply"
Before == <<op.resolution, op.auto, op.snapshot>>
ApplyIsAllOrNothing ==
     /\ Starts => op'.warm = warm /\ <<op'.auto, op'.snapshot>> = <<previousAutoTier', snapshot'>>
                  /\ (resolution' # NoResolution => op'.resolution = resolution')
     /\ op.kind = "apply" /\ op'.kind = "apply" => Before' = Before /\ op'.warm = op.warm
     /\ Failed => /\ settings' = settings /\ <<resolution', previousAutoTier', snapshot'>> = Before
                  /\ Available => <<resolution'.family, resolution'.preference>> = <<settings.family, settings.preference>>
                  /\ warm' \in {op.warm, NoModel}
     /\ op.kind = "apply" /\ op' # op /\ warm # NoModel /\ warm' # warm =>
          op.target # NoResolution /\ (proved[ArtifactFor(op.target)] \/ disk[ArtifactFor(op.target)] = "bad")
     /\ op.kind = "apply" /\ reply' = "applied" =>
          /\ ArtifactFor(resolution') = ArtifactFor(op.target) /\ warm' \in {NoModel, Selection(op.target, settings'.mode)}
          /\ <<resolution'.family, resolution'.preference>> = <<settings'.family, settings'.preference>>

\* What an Apply commits is a selection whose family accepts the language the
\* user has by then, which it leaves as it is.
AppliedFitsTheLanguage ==
     /\ reply' = "applied" /\ op.kind = "apply" => settings'.language \in LanguagesOf[settings'.family]
     /\ op' # op => settings'.language = settings.language /\ settings.library \subseteq settings'.library

\* The files of the profile in use are never removed.
SelectedFilesStay ==
     resolution # NoResolution /\ Available /\ disk[ArtifactFor(resolution)] # "missing" =>
        disk'[ArtifactFor(resolution)] # "missing"

\* Files are not replaced under the model that runs from them.
RepairUnloads ==
  op.kind = "install" /\ disk' # disk /\ rots' = rots => warm = NoModel \/ disk'[ArtifactOf(warm)] = disk[ArtifactOf(warm)]

\* Expected to fail: a dictation with Auto always has a profile to run with.
AutoAlwaysStarts == \A s \in Slots : start[s].at # "failed"

\* Expected to fail: the files of the model that runs are never removed.
WarmFilesStay ==
     op.kind = "remove" /\ warm # NoModel /\ disk[ArtifactOf(warm)] # "missing" =>
        disk'[ArtifactOf(warm)] # "missing"
==============================================================================
