-------------------------- MODULE ScreenProofs --------------------------
(***************************************************************************)
(* The settings dialog keeps DraftInvariant, and with it what it promises: *)
(* no older copy of the settings comes back, a save of the dialog changes  *)
(* only what the user edited, and, unless another surface saves at the     *)
(* same time, the last edit of every setting is saved or still waits.  For *)
(* every set of settings, and every number of edits, of saves elsewhere    *)
(* and of messages under way.                                              *)
(***************************************************************************)
EXTENDS SettingsDraft, FiniteSetTheorems, SequenceTheorems, TLAPS

-----------------------------------------------------------------------------
(* The inductive invariant *)

Has(queue, kind) == \E i \in 1 .. Len(queue) : queue[i].kind = kind
UnderWay(kind) == Has(toDialog, kind)
\* What is announced after the i-th message.
Followed(queue, i) == \E j \in 1 .. Len(queue) : j > i /\ queue[j].kind = "changed"
\* The last announcement, and every message after it, tells s.
Tells(queue, s) == \A i \in 1 .. Len(queue) : Followed(queue, i) \/ queue[i].settings = s
\* Of answers there is one at a time.
Once(queue) ==
  \A i, j \in 1 .. Len(queue) :
    queue[i].kind = queue[j].kind /\ queue[i].kind \in {"initial", "answer"} => i = j
Waits == {"patch", "shortcut", "reset"}
Mine == Fields \ {"shortcut"}

\* What is shown is the copy of the saved settings with the draft over it.
Shape ==
  /\ persisted # Empty <=> Loaded
  /\ Loaded => settings = Over(dirty, persisted)
  /\ ~Loaded => dirty = Empty /\ saving = "no"
  /\ ~open => ~Loaded /\ request = NoRequest /\ ~UnderWay("initial")
  /\ "shortcut" \notin DOMAIN dirty

\* One request at a time, which waits for one answer.
OneAsked ==
  /\ request.kind = Nothing => request = NoRequest
  /\ saving \in Waits => \/ request.kind = saving /\ ~UnderWay("answer")
                         \/ request = NoRequest /\ UnderWay("answer")
  /\ saving \notin Waits => request.kind \in {Nothing, "get"} /\ ~UnderWay("answer")
  /\ saving = "confirm" => request = NoRequest
  /\ request.kind = "get" => ~UnderWay("initial")
  /\ Once(toDialog)
  /\ Loaded /\ (request.kind = "get" \/ UnderWay("initial")) => pushed

\* The last announcement, and every message after it, tells what is saved.
LastIsSaved == Tells(toDialog, saved)

\* The dialog's copy is what is saved, unless an announcement is under way.
CopyIsSaved == Loaded /\ ~UnderWay("changed") => persisted = saved

OnlyTouched == DOMAIN dirty \subseteq touched /\ DOMAIN request.patch \subseteq touched

\* What was sent is still in the draft until it is saved, and nothing else is announced meanwhile.
Patched ==
  /\ submitted # Empty <=> saving \in {"patch", "confirm"}
  /\ "shortcut" \notin DOMAIN submitted
  /\ request.kind = "patch" =>
       request.patch = submitted /\ DOMAIN submitted \subseteq DOMAIN dirty /\ toDialog = <<>>
  /\ request.kind = "shortcut" => DOMAIN request.patch = {"shortcut"}
  /\ request.kind = "reset" => request.patch = Empty
  /\ saving = "patch" => \A i \in 1 .. Len(toDialog) : toDialog[i].kind = "answer" =>
       /\ ~Followed(toDialog, i)
       /\ IF toDialog[i].ok THEN \A f \in DOMAIN submitted : saved[f] = submitted[f]
          ELSE ~UnderWay("changed")
  /\ saving = "confirm" => ~UnderWay("changed")

\* All that reaches the dialog agrees with what is saved, but for the shortcut.
Agree ==
  \A i \in 1 .. Len(toDialog), f \in Mine :
    toDialog[i].kind \in {"changed", "answer"} => toDialog[i].settings[f] = saved[f]

\* A wanted value is in the draft or saved; one that the next comparison drops is saved.
Drafted ==
  \A f \in Mine : wanted[f] # Nothing =>
    /\ f \in DOMAIN dirty => Switch(dirty[f]) = wanted[f]
    /\ f \notin DOMAIN dirty => Switch(saved[f]) = wanted[f]
    /\ submitted = Empty /\ f \in DOMAIN dirty /\ dirty[f] = persisted[f] => saved[f] = dirty[f]

ShortcutKept ==
  wanted["shortcut"] # Nothing =>
    IF request.kind = "shortcut" THEN Switch(request.patch["shortcut"]) = wanted["shortcut"]
    ELSE \/ Switch(saved["shortcut"]) = wanted["shortcut"]
         \/ /\ saving = "shortcut"
            /\ \E i \in 1 .. Len(toDialog) : toDialog[i].kind = "answer" /\ ~toDialog[i].ok

CopyInvariant == TypeOK /\ Shape /\ OneAsked /\ LastIsSaved /\ CopyIsSaved /\ OnlyTouched
KeptInvariant == Patched /\ Agree /\ Drafted /\ ShortcutKept
DraftInvariant == CopyInvariant /\ (~Racing => KeptInvariant)

-----------------------------------------------------------------------------
(* Settings and patches *)

LEMMA PatchDef ==
  ASSUME NEW p
  PROVE  p \in Patches <=> DOMAIN p \subseteq Fields /\ p \in [DOMAIN p -> BOOLEAN]
BY DEF Patches

LEMMA EmptyPatch == Empty \in Patches /\ DOMAIN Empty = {}
<1>1. Empty \in [{} -> BOOLEAN] BY DEF Empty
<1> QED BY <1>1, PatchDef DEF Empty

LEMMA EmptyIsOnly ==
  ASSUME NEW p \in Patches, DOMAIN p = {}
  PROVE  p = Empty
<1>1. p \in [{} -> BOOLEAN] BY PatchDef
<1>2. Empty \in [{} -> BOOLEAN] BY DEF Empty
<1> QED BY <1>1, <1>2

LEMMA SettingsLoaded ==
  ASSUME NEW s \in Settings
  PROVE  s # Empty /\ DOMAIN s = Fields
BY EmptyPatch, DraftAssumption DEF Settings

\* A patch over settings is settings, changed where the patch says so.
LEMMA OverSettings ==
  ASSUME NEW p \in Patches, NEW s \in Settings
  PROVE  /\ Over(p, s) \in Settings
         /\ \A f \in Fields : Over(p, s)[f] = IF f \in DOMAIN p THEN p[f] ELSE s[f]
<1>1. DOMAIN p \subseteq Fields /\ p \in [DOMAIN p -> BOOLEAN] BY PatchDef
<1>2. DOMAIN p \union DOMAIN s = Fields BY <1>1 DEF Settings
<1>3. \A f \in Fields : (IF f \in DOMAIN p THEN p[f] ELSE s[f]) \in BOOLEAN BY <1>1 DEF Settings
<1> QED BY <1>2, <1>3 DEF Over, Settings

LEMMA OverPatch ==
  ASSUME NEW p \in Patches, NEW q \in Patches
  PROVE  /\ Over(p, q) \in Patches /\ DOMAIN Over(p, q) = DOMAIN p \union DOMAIN q
         /\ \A f \in DOMAIN Over(p, q) : Over(p, q)[f] = IF f \in DOMAIN p THEN p[f] ELSE q[f]
<1>1. /\ DOMAIN p \subseteq Fields /\ p \in [DOMAIN p -> BOOLEAN]
      /\ DOMAIN q \subseteq Fields /\ q \in [DOMAIN q -> BOOLEAN]
  BY PatchDef
<1>2. Over(p, q) \in [DOMAIN p \union DOMAIN q -> BOOLEAN] BY <1>1 DEF Over
<1> QED BY <1>1, <1>2, PatchDef DEF Over

LEMMA OnlyPatch ==
  ASSUME NEW f \in Fields, NEW v \in BOOLEAN
  PROVE  Only(f, v) \in Patches /\ DOMAIN Only(f, v) = {f} /\ Only(f, v)[f] = v
<1>1. Only(f, v) \in [{f} -> BOOLEAN] BY DEF Only
<1> QED BY <1>1, PatchDef DEF Only

LEMMA WithoutPatch ==
  ASSUME NEW p \in Patches, NEW F
  PROVE  /\ Without(p, F) \in Patches /\ DOMAIN Without(p, F) = DOMAIN p \ F
         /\ \A f \in DOMAIN Without(p, F) : Without(p, F)[f] = p[f]
<1>1. DOMAIN p \subseteq Fields /\ p \in [DOMAIN p -> BOOLEAN] BY PatchDef
<1>2. Without(p, F) \in [DOMAIN p \ F -> BOOLEAN] BY <1>1 DEF Without
<1> QED BY <1>1, <1>2, PatchDef DEF Without

\* A saved patch leaves the draft where the draft still has what was sent.
LEMMA PendingPatch ==
  ASSUME NEW p \in Patches, NEW sent
  PROVE  LET left == pendingSettingsAfterSave(p, sent)
         IN  /\ left \in Patches /\ \A f \in DOMAIN left : left[f] = p[f]
             /\ DOMAIN left = {f \in DOMAIN p : f \notin DOMAIN sent \/ p[f] # sent[f]}
<1> DEFINE same == {f \in DOMAIN p \intersect DOMAIN sent : p[f] = sent[f]}
<1>1. pendingSettingsAfterSave(p, sent) = Without(p, same) BY DEF pendingSettingsAfterSave
<1>2. DOMAIN p \ same = {f \in DOMAIN p : f \notin DOMAIN sent \/ p[f] # sent[f]} OBVIOUS
<1> HIDE DEF same
<1>3. /\ Without(p, same) \in Patches /\ DOMAIN Without(p, same) = DOMAIN p \ same
      /\ \A f \in DOMAIN Without(p, same) : Without(p, same)[f] = p[f]
  BY WithoutPatch
<1> QED BY <1>1, <1>2, <1>3

\* What a comparison leaves of the draft differs from the settings, but for a login item to be
\* asked for again; with the settings under it, it shows what the draft shows.
LEMMA ComparedPatch ==
  ASSUME NEW p \in Patches, NEW s \in Settings, NEW system
  PROVE  LET left == settingsDraftComparedWithSaved(s, p, system)
         IN  /\ left \in Patches /\ \A f \in DOMAIN left : left[f] = p[f]
             /\ DOMAIN left \subseteq DOMAIN p
             /\ \A f \in DOMAIN p : p[f] # s[f] => f \in DOMAIN left
             /\ \A f \in DOMAIN left : f # "launch" \/ system = Nothing => left[f] # s[f]
             /\ Over(left, s) = Over(p, s)
<1> DEFINE pending == pendingSettingsAfterSave(p, s)
           left == settingsDraftComparedWithSaved(s, p, system)
<1>0. DOMAIN s = Fields BY DEF Settings
<1>1. /\ pending \in Patches /\ \A f \in DOMAIN pending : pending[f] = p[f]
      /\ DOMAIN pending = {f \in DOMAIN p : f \notin DOMAIN s \/ p[f] # s[f]}
  BY PendingPatch
<1>2. DOMAIN p \subseteq Fields /\ p \in [DOMAIN p -> BOOLEAN] BY PatchDef
<1>3. DOMAIN pending = {f \in DOMAIN p : p[f] # s[f]} BY <1>0, <1>1, <1>2
<1> HIDE DEF pending
<1>4. /\ left \in Patches /\ \A f \in DOMAIN left : left[f] = p[f]
      /\ DOMAIN left \subseteq DOMAIN p
      /\ \A f \in DOMAIN p : p[f] # s[f] => f \in DOMAIN left
      /\ \A f \in DOMAIN left : f # "launch" \/ system = Nothing => left[f] # s[f]
  <2>1. CASE "launch" \in DOMAIN p /\ system \notin {Nothing, Switch(p["launch"])}
    <3>1. left = Over(Only("launch", p["launch"]), pending)
      BY <2>1 DEF settingsDraftComparedWithSaved, pending
    <3>2. "launch" \in Fields /\ p["launch"] \in BOOLEAN BY <1>2, <2>1
    <3>3. PICK only \in Patches :
            only = Only("launch", p["launch"]) /\ DOMAIN only = {"launch"} /\ only["launch"] = p["launch"]
      BY <3>2, OnlyPatch
    <3>4. PICK draft \in Patches : draft = pending BY <1>1
    <3>5. /\ Over(only, draft) \in Patches /\ DOMAIN Over(only, draft) = DOMAIN only \union DOMAIN draft
          /\ \A f \in DOMAIN Over(only, draft) :
               Over(only, draft)[f] = IF f \in DOMAIN only THEN only[f] ELSE draft[f]
      BY OverPatch
    <3>6. left = Over(only, draft) BY <3>1, <3>3, <3>4
    <3> HIDE DEF left
    <3> QED BY <1>1, <1>3, <2>1, <3>3, <3>4, <3>5, <3>6
  <2>2. CASE ~("launch" \in DOMAIN p /\ system \notin {Nothing, Switch(p["launch"])})
    <3>1. left = pending BY <2>2 DEF settingsDraftComparedWithSaved, pending
    <3> QED BY <1>1, <1>3, <3>1
  <2> QED BY <2>1, <2>2
<1> HIDE DEF left
<1>5. Over(left, s) = Over(p, s)
  <2>1. Over(left, s) \in [Fields -> BOOLEAN] /\ Over(p, s) \in [Fields -> BOOLEAN]
    BY <1>4, OverSettings DEF Settings
  <2>2. ASSUME NEW f \in Fields PROVE Over(left, s)[f] = Over(p, s)[f]
    <3>1. Over(left, s)[f] = IF f \in DOMAIN left THEN left[f] ELSE s[f] BY <1>4, OverSettings
    <3>2. Over(p, s)[f] = IF f \in DOMAIN p THEN p[f] ELSE s[f] BY OverSettings
    <3> QED BY <1>4, <3>1, <3>2
  <2> QED BY <2>1, <2>2
<1> QED BY <1>4, <1>5 DEF left

-----------------------------------------------------------------------------
(* The messages under way *)

LEMMA Sends ==
  ASSUME NEW q \in Seq(Messages), NEW m \in Messages
  PROVE  LET r == Append(q, m)
         IN  /\ r \in Seq(Messages) /\ \A kind : Has(r, kind) <=> Has(q, kind) \/ kind = m.kind
             /\ Tells(q, m.settings) \/ m.kind = "changed" => Tells(r, m.settings)
             /\ Once(q) /\ ~(m.kind \in {"initial", "answer"} /\ Has(q, m.kind)) => Once(r)
             /\ \A i \in 1 .. Len(r) : r[i] = m \/ (i \in 1 .. Len(q) /\ r[i] = q[i])
             /\ Len(r) \in 1 .. Len(r) /\ r[Len(r)] = m
<1> DEFINE r == Append(q, m)
<1>1. /\ r \in Seq(Messages) /\ Len(q) \in Nat /\ Len(r) = Len(q) + 1
      /\ \A i \in 1 .. Len(q) : r[i] = q[i]
      /\ r[Len(q) + 1] = m
  OBVIOUS
<1> HIDE DEF r
<1>2. \A i \in 1 .. Len(r) : i \in 1 .. Len(q) \/ i = Len(r) BY <1>1
<1>3. \A i \in 1 .. Len(q) : i \in 1 .. Len(r) /\ i < Len(r) BY <1>1
<1>4. Len(r) \in 1 .. Len(r) /\ r[Len(r)] = m BY <1>1
<1>5. \A kind : Has(r, kind) <=> Has(q, kind) \/ kind = m.kind BY <1>1, <1>2, <1>3, <1>4 DEF Has
<1>6. ASSUME Tells(q, m.settings) \/ m.kind = "changed" PROVE Tells(r, m.settings)
  <2> SUFFICES ASSUME NEW i \in 1 .. Len(r) PROVE Followed(r, i) \/ r[i].settings = m.settings
    BY DEF Tells
  <2>1. CASE i = Len(r) BY <1>4, <2>1
  <2>2. CASE i \in 1 .. Len(q) /\ m.kind = "changed" BY <1>3, <1>4, <2>2 DEF Followed
  <2>3. CASE i \in 1 .. Len(q) /\ Tells(q, m.settings) BY <1>1, <1>3, <2>3 DEF Followed, Tells
  <2> QED BY <1>2, <1>6, <2>1, <2>2, <2>3
<1>7. ASSUME Once(q), ~(m.kind \in {"initial", "answer"} /\ Has(q, m.kind)) PROVE Once(r)
  BY <1>1, <1>2, <1>3, <1>4, <1>7 DEF Once, Has
<1> QED BY <1>1, <1>2, <1>4, <1>5, <1>6, <1>7 DEF r

LEMMA TakesFirst ==
  ASSUME NEW q \in Seq(Messages), q # <<>>
  PROVE  LET r == Tail(q)  m == Head(q)
         IN  /\ r \in Seq(Messages) /\ m \in Messages
             /\ 1 \in 1 .. Len(q) /\ q[1] = m /\ \A i \in 1 .. Len(r) : i + 1 \in 1 .. Len(q) /\ r[i] = q[i + 1]
             /\ \A i \in 1 .. Len(q) : i = 1 \/ (i - 1 \in 1 .. Len(r) /\ r[i - 1] = q[i])
             /\ \A kind : Has(q, kind) <=> Has(r, kind) \/ kind = m.kind
             /\ \A s : Tells(q, s) => Tells(r, s) /\ (~Has(r, "changed") => m.settings = s)
             /\ Once(q) => Once(r) /\ ~(m.kind \in {"initial", "answer"} /\ Has(r, m.kind))
             /\ \A i \in 1 .. Len(r) : Followed(r, i) => Followed(q, i + 1)
             /\ Has(r, "changed") => Followed(q, 1)
<1> DEFINE r == Tail(q)
           m == Head(q)
<1>1. /\ r \in Seq(Messages) /\ m \in Messages /\ Len(q) \in Nat \ {0} /\ Len(r) = Len(q) - 1
      /\ \A i \in 1 .. Len(r) : r[i] = q[i + 1]
      /\ q[1] = m
  OBVIOUS
<1> HIDE DEF r, m
<1>2. \A i \in 1 .. Len(r) : i + 1 \in 1 .. Len(q) /\ i + 1 # 1 /\ r[i] = q[i + 1] BY <1>1
<1>3. \A i \in 1 .. Len(q) : i = 1 \/ (i - 1 \in 1 .. Len(r) /\ r[i - 1] = q[i]) BY <1>1
<1>4. 1 \in 1 .. Len(q) BY <1>1
<1>5. \A kind : Has(q, kind) <=> Has(r, kind) \/ kind = m.kind BY <1>1, <1>2, <1>3, <1>4 DEF Has
<1>6. ASSUME NEW s, Tells(q, s) PROVE Tells(r, s) /\ (~Has(r, "changed") => m.settings = s)
  <2>1. ASSUME NEW i \in 1 .. Len(r), Followed(q, i + 1) PROVE Followed(r, i)
    <3>1. PICK j \in 1 .. Len(q) : j > i + 1 /\ q[j].kind = "changed" BY <2>1 DEF Followed
    <3>2. j - 1 \in 1 .. Len(r) /\ r[j - 1] = q[j] /\ j - 1 > i BY <1>3, <3>1
    <3> QED BY <3>1, <3>2 DEF Followed
  <2>2. Tells(r, s) BY <1>2, <1>6, <2>1 DEF Tells
  <2>3. Followed(q, 1) => Has(r, "changed") BY <1>3 DEF Followed, Has
  <2> QED BY <1>1, <1>4, <1>6, <2>2, <2>3 DEF Tells
<1>7. ASSUME Once(q) PROVE Once(r) /\ ~(m.kind \in {"initial", "answer"} /\ Has(r, m.kind))
  <2>1. Once(r)
    <3> SUFFICES ASSUME NEW i \in 1 .. Len(r), NEW j \in 1 .. Len(r), r[i].kind = r[j].kind,
                        r[i].kind \in {"initial", "answer"}
                 PROVE  i = j
      BY DEF Once
    <3>1. i + 1 = j + 1 BY <1>2, <1>7 DEF Once
    <3> QED BY <3>1
  <2>2. ASSUME m.kind \in {"initial", "answer"}, Has(r, m.kind) PROVE FALSE
    <3>1. PICK i \in 1 .. Len(r) : r[i].kind = m.kind BY <2>2 DEF Has
    <3> QED BY <1>1, <1>2, <1>4, <1>7, <2>2, <3>1 DEF Once
  <2> QED BY <2>1, <2>2
<1>8. ASSUME NEW i \in 1 .. Len(r), Followed(r, i) PROVE Followed(q, i + 1)
  <2>1. PICK j \in 1 .. Len(r) : j > i /\ r[j].kind = "changed" BY <1>8 DEF Followed
  <2>2. j + 1 \in 1 .. Len(q) /\ q[j + 1] = r[j] /\ j + 1 > i + 1 BY <1>2, <2>1
  <2> QED BY <2>1, <2>2 DEF Followed
<1>9. ASSUME Has(r, "changed") PROVE Followed(q, 1)
  <2>1. PICK j \in 1 .. Len(r) : r[j].kind = "changed" BY <1>9 DEF Has
  <2>2. j + 1 \in 1 .. Len(q) /\ q[j + 1] = r[j] /\ j + 1 > 1 BY <1>2, <2>1
  <2> QED BY <2>1, <2>2 DEF Followed
<1> QED BY <1>1, <1>2, <1>3, <1>4, <1>5, <1>6, <1>7, <1>8, <1>9 DEF r, m

LEMMA Unhears ==
  ASSUME NEW q \in Seq(Messages)
  PROVE  LET r == [i \in DOMAIN q |-> Unheard(q[i])]
         IN  /\ r \in Seq(Messages) /\ ~Has(r, "initial")
             /\ \A kind \in {"changed", "answer"} : Has(r, kind) <=> Has(q, kind)
             /\ \A s : Tells(q, s) => Tells(r, s)
             /\ Once(q) => Once(r)
             /\ Len(r) = Len(q)
             /\ \A i \in 1 .. Len(r) : /\ r[i].settings = q[i].settings /\ r[i].ok = q[i].ok
                                       /\ r[i].kind \in {"changed", "answer"} => r[i].kind = q[i].kind
<1> DEFINE r == [i \in DOMAIN q |-> Unheard(q[i])]
<1>1. ASSUME NEW m \in Messages
      PROVE  /\ Unheard(m) \in Messages /\ Unheard(m).settings = m.settings /\ Unheard(m).ok = m.ok
             /\ Unheard(m).kind = IF m.kind = "initial" THEN "unheard" ELSE m.kind
  BY <1>1 DEF Unheard, Messages
<1>2. Len(q) \in Nat /\ DOMAIN q = 1 .. Len(q) /\ \A i \in 1 .. Len(q) : q[i] \in Messages OBVIOUS
<1>3. /\ DOMAIN r = 1 .. Len(q)
      /\ \A i \in 1 .. Len(q) : r[i] = Unheard(q[i]) /\ r[i] \in Messages
  BY <1>1, <1>2
<1>4. r \in [1 .. Len(q) -> Messages] BY <1>1, <1>2
<1> HIDE DEF r
<1>5. r \in Seq(Messages) /\ Len(r) = Len(q) BY <1>2, <1>4
<1>6. \A i \in 1 .. Len(r) :
        /\ r[i].settings = q[i].settings /\ r[i].ok = q[i].ok
        /\ r[i].kind = IF q[i].kind = "initial" THEN "unheard" ELSE q[i].kind
  BY <1>1, <1>2, <1>3, <1>5
<1>7. /\ ~Has(r, "initial")
      /\ \A kind \in {"changed", "answer"} : Has(r, kind) <=> Has(q, kind)
  BY <1>5, <1>6 DEF Has
<1>8. \A s : Tells(q, s) => Tells(r, s) BY <1>5, <1>6 DEF Tells, Followed
<1>9. Once(q) => Once(r) BY <1>5, <1>6 DEF Once
<1> QED BY <1>5, <1>6, <1>7, <1>8, <1>9 DEF r

-----------------------------------------------------------------------------
(* The user *)

LEMMA InitLemma == Init => DraftInvariant
<1> SUFFICES ASSUME Init PROVE DraftInvariant OBVIOUS
<1>1. Empty \in Patches /\ DOMAIN Empty = {} BY EmptyPatch
<1>2. toDialog = <<>> /\ Len(toDialog) = 0 /\ toDialog \in Seq(Messages) BY DEF Init
<1>3. TypeOK
  <2>1. edits \in 0 .. MaxEdits /\ others \in 0 .. MaxOthers BY DraftAssumption DEF Init
  <2>2. request = [kind |-> Nothing, patch |-> Empty] BY DEF Init, NoRequest
  <2>3. wanted \in [Fields -> {"on", "off", Nothing}] BY DEF Init
  <2> QED BY <1>1, <1>2, <2>1, <2>2, <2>3 DEF TypeOK, Init
<1>4. /\ \A kind : ~UnderWay(kind)
      /\ Tells(toDialog, saved) /\ Once(toDialog)
  BY <1>2 DEF UnderWay, Has, Tells, Once
<1>5. CopyInvariant
  BY <1>1, <1>3, <1>4
  DEF CopyInvariant, Shape, OneAsked, LastIsSaved, CopyIsSaved, OnlyTouched, Init, Loaded, NoRequest, Waits
<1>6. KeptInvariant
  BY <1>1, <1>2, <1>4, DraftAssumption
  DEF KeptInvariant, Patched, Agree, Drafted, ShortcutKept, Init, NoRequest, Nothing, Mine
<1> QED BY <1>5, <1>6 DEF DraftInvariant

LEMMA OpenLemma ==
  ASSUME DraftInvariant, Open
  PROVE  DraftInvariant'
<1> USE DEF Open
<1>0. TypeOK /\ Shape /\ OneAsked /\ LastIsSaved /\ CopyIsSaved /\ OnlyTouched
  BY DEF DraftInvariant, CopyInvariant
<1>1. Empty \in Patches /\ DOMAIN Empty = {} BY EmptyPatch
<1>2. TypeOK' BY <1>0, <1>1 DEF TypeOK, Requests
<1>3. Shape' BY <1>0 DEF Shape, Loaded, UnderWay
<1>4. OneAsked' BY <1>0 DEF Shape, OneAsked, Loaded, UnderWay, Waits, Nothing
<1>5. LastIsSaved' /\ CopyIsSaved' BY <1>0 DEF LastIsSaved, CopyIsSaved, Loaded, UnderWay
<1>6. OnlyTouched' BY <1>0, <1>1 DEF OnlyTouched
<1>7. ASSUME KeptInvariant PROVE KeptInvariant'
  <2>1. Patched' BY <1>0, <1>7 DEF KeptInvariant, Patched, UnderWay
  <2>2. Agree' /\ Drafted' BY <1>7 DEF KeptInvariant, Agree, Drafted
  <2>3. ShortcutKept' BY <1>7 DEF KeptInvariant, ShortcutKept, NoRequest, Nothing
  <2> QED BY <2>1, <2>2, <2>3 DEF KeptInvariant
<1> QED BY <1>2, <1>3, <1>4, <1>5, <1>6, <1>7 DEF DraftInvariant, CopyInvariant

LEMMA CloseLemma ==
  ASSUME DraftInvariant, Close
  PROVE  DraftInvariant'
<1> USE DEF Close, Closed
<1>0. TypeOK /\ Shape /\ OneAsked /\ LastIsSaved /\ CopyIsSaved /\ OnlyTouched
  BY DEF DraftInvariant, CopyInvariant
<1>1. Empty \in Patches /\ DOMAIN Empty = {} BY EmptyPatch
<1>2. toDialog \in Seq(Messages) BY <1>0 DEF TypeOK
<1>3. /\ toDialog' \in Seq(Messages) /\ ~Has(toDialog', "initial")
      /\ \A kind \in {"changed", "answer"} : Has(toDialog', kind) <=> Has(toDialog, kind)
      /\ Tells(toDialog, saved) => Tells(toDialog', saved)
      /\ Once(toDialog) => Once(toDialog')
      /\ Len(toDialog') = Len(toDialog)
      /\ \A i \in 1 .. Len(toDialog') :
           /\ toDialog'[i].settings = toDialog[i].settings
           /\ toDialog'[i].kind \in {"changed", "answer"} => toDialog'[i].kind = toDialog[i].kind
  BY <1>2, Unhears
<1>4. TypeOK' BY <1>0, <1>1, <1>3 DEF TypeOK, NoRequest
<1>5. Shape' BY <1>1, <1>3 DEF Shape, Loaded, UnderWay
<1>6. OneAsked' BY <1>0, <1>3 DEF OneAsked, Loaded, UnderWay, Waits, Nothing, NoRequest
<1>7. LastIsSaved' /\ CopyIsSaved' BY <1>0, <1>3 DEF LastIsSaved, CopyIsSaved, Loaded
<1>8. OnlyTouched' BY <1>1 DEF OnlyTouched, NoRequest
<1>9. ASSUME KeptInvariant PROVE KeptInvariant'
  <2>1. Patched' BY <1>1 DEF Patched, NoRequest, Nothing
  <2>2. Agree' BY <1>3, <1>9 DEF KeptInvariant, Agree
  <2>3. Drafted' /\ ShortcutKept' BY DraftAssumption DEF Drafted, ShortcutKept, Mine
  <2> QED BY <2>1, <2>2, <2>3 DEF KeptInvariant
<1> QED BY <1>4, <1>5, <1>6, <1>7, <1>8, <1>9 DEF DraftInvariant, CopyInvariant

LEMMA SaveLemma ==
  ASSUME DraftInvariant, Save
  PROVE  DraftInvariant'
<1> USE DEF Save, SavesDraft
<1>0. TypeOK /\ Shape /\ OneAsked /\ LastIsSaved /\ CopyIsSaved /\ OnlyTouched
  BY DEF DraftInvariant, CopyInvariant
<1>2. TypeOK' BY <1>0 DEF TypeOK, Requests
<1>3. Shape' BY <1>0 DEF Shape, Loaded, UnderWay
<1>4. OneAsked' BY <1>0 DEF OneAsked, Loaded, UnderWay, Waits, Nothing, NoRequest
<1>5. LastIsSaved' /\ CopyIsSaved' BY <1>0 DEF LastIsSaved, CopyIsSaved, Loaded, UnderWay
<1>6. OnlyTouched' BY <1>0 DEF OnlyTouched
<1>7. ASSUME ~Racing, KeptInvariant PROVE KeptInvariant'
  <2>1. toDialog = <<>> /\ Len(toDialog) = 0 BY <1>7
  <2>2. Patched' BY <1>0, <2>1 DEF Patched, Shape
  <2>3. Agree' /\ Drafted' BY <1>7 DEF KeptInvariant, Agree, Drafted
  <2>4. ShortcutKept' BY <1>7 DEF KeptInvariant, ShortcutKept, NoRequest, Nothing
  <2> QED BY <2>2, <2>3, <2>4 DEF KeptInvariant
<1> QED BY <1>2, <1>3, <1>4, <1>5, <1>6, <1>7 DEF DraftInvariant, CopyInvariant

LEMMA CommitShortcutLemma ==
  ASSUME DraftInvariant, NEW value \in BOOLEAN, CommitShortcut(value)
  PROVE  DraftInvariant'
<1> USE DEF CommitShortcut
<1>0. TypeOK /\ Shape /\ OneAsked /\ LastIsSaved /\ CopyIsSaved /\ OnlyTouched
  BY DEF DraftInvariant, CopyInvariant
<1>1. /\ "shortcut" \in Fields /\ Only("shortcut", value) \in Patches
      /\ DOMAIN Only("shortcut", value) = {"shortcut"} /\ Only("shortcut", value)["shortcut"] = value
  BY DraftAssumption, OnlyPatch
<1>2. TypeOK'
  <2>1. wanted' \in [Fields -> {"on", "off", Nothing}] BY <1>0 DEF TypeOK, Switch
  <2>2. request' \in Requests /\ touched' \subseteq Fields BY <1>0, <1>1 DEF TypeOK, Requests
  <2>3. edits' \in 0 .. MaxEdits BY <1>0, DraftAssumption DEF TypeOK
  <2> QED BY <1>0, <2>1, <2>2, <2>3 DEF TypeOK
<1>3. Shape' BY <1>0 DEF Shape, Loaded, UnderWay
<1>4. OneAsked' BY <1>0 DEF OneAsked, Loaded, UnderWay, Waits, Nothing, NoRequest
<1>5. LastIsSaved' /\ CopyIsSaved' BY <1>0 DEF LastIsSaved, CopyIsSaved, Loaded, UnderWay
<1>6. OnlyTouched' BY <1>0, <1>1 DEF OnlyTouched
<1>7. ASSUME KeptInvariant PROVE KeptInvariant'
  <2>1. Patched' BY <1>0, <1>1, <1>7 DEF KeptInvariant, Patched, UnderWay
  <2>2. Agree' BY <1>7 DEF KeptInvariant, Agree
  <2>3. Drafted' BY <1>0, <1>7 DEF KeptInvariant, Drafted, Mine, TypeOK
  <2>4. ShortcutKept' BY <1>0, <1>1 DEF ShortcutKept, TypeOK
  <2> QED BY <2>1, <2>2, <2>3, <2>4 DEF KeptInvariant
<1> QED BY <1>2, <1>3, <1>4, <1>5, <1>6, <1>7 DEF DraftInvariant, CopyInvariant

LEMMA ResetLemma ==
  ASSUME DraftInvariant, ResetSavedData
  PROVE  DraftInvariant'
<1> USE DEF ResetSavedData
<1>0. TypeOK /\ Shape /\ OneAsked /\ LastIsSaved /\ CopyIsSaved /\ OnlyTouched
  BY DEF DraftInvariant, CopyInvariant
<1>1. Empty \in Patches /\ DOMAIN Empty = {} BY EmptyPatch
<1>2. TypeOK'
  <2>1. edits' \in 0 .. MaxEdits BY <1>0, DraftAssumption DEF TypeOK
  <2> QED BY <1>0, <1>1, <2>1 DEF TypeOK, Requests
<1>3. Shape' BY <1>0 DEF Shape, Loaded, UnderWay
<1>4. OneAsked' BY <1>0 DEF OneAsked, Loaded, UnderWay, Waits, Nothing, NoRequest
<1>5. LastIsSaved' /\ CopyIsSaved' BY <1>0 DEF LastIsSaved, CopyIsSaved, Loaded, UnderWay
<1>6. OnlyTouched' BY <1>0, <1>1 DEF OnlyTouched
<1>7. ASSUME KeptInvariant PROVE KeptInvariant'
  <2>1. Patched' BY <1>0, <1>7 DEF KeptInvariant, Patched, UnderWay
  <2>2. Agree' /\ Drafted' BY <1>7 DEF KeptInvariant, Agree, Drafted
  <2>3. ShortcutKept' BY <1>7 DEF KeptInvariant, ShortcutKept, NoRequest, Nothing
  <2> QED BY <2>1, <2>2, <2>3 DEF KeptInvariant
<1> QED BY <1>2, <1>3, <1>4, <1>5, <1>6, <1>7 DEF DraftInvariant, CopyInvariant

\* An edit changes what is shown, and waits unless it only goes back to what is saved.
LEMMA EditLemma ==
  ASSUME DraftInvariant, NEW f \in Fields, NEW value \in BOOLEAN, Edit(f, value)
  PROVE  DraftInvariant'
<1>0. TypeOK /\ Shape /\ OneAsked /\ LastIsSaved /\ CopyIsSaved /\ OnlyTouched
  BY DEF DraftInvariant, CopyInvariant
<1>1. /\ Loaded /\ f # "shortcut" /\ touched' = touched \union {f} /\ edits' = edits + 1
      /\ edits < MaxEdits /\ settings' = [settings EXCEPT ![f] = value]
      /\ wanted' = [wanted EXCEPT ![f] =
                      IF submitted = Empty /\ persisted[f] = value THEN Nothing ELSE Switch(value)]
      /\ UNCHANGED <<saved, effective, request, toDialog, open, pushed, persisted, submitted, saving, status, others>>
      /\ dirty' = IF submitted # Empty THEN Over(Only(f, value), dirty)
                  ELSE settingsDraftComparedWithSaved(persisted, Over(Only(f, value), dirty), status)
  BY DEF Edit
<1>2. /\ dirty \in Patches /\ persisted \in Settings /\ settings \in Settings
      /\ settings = Over(dirty, persisted)
  BY <1>0, <1>1 DEF TypeOK, Shape, Loaded
<1>3. PICK draft \in Patches :
        /\ draft = Over(Only(f, value), dirty) /\ DOMAIN draft = DOMAIN dirty \union {f}
        /\ draft[f] = value /\ \A g \in DOMAIN dirty : draft[g] = dirty[g] \/ g = f
  <2>1. PICK only \in Patches : only = Only(f, value) /\ DOMAIN only = {f} /\ only[f] = value
    BY OnlyPatch
  <2>2. PICK old \in Patches : old = dirty BY <1>2
  <2>3. /\ Over(only, old) \in Patches /\ DOMAIN Over(only, old) = DOMAIN only \union DOMAIN old
        /\ \A g \in DOMAIN Over(only, old) :
             Over(only, old)[g] = IF g \in DOMAIN only THEN only[g] ELSE old[g]
    BY OverPatch
  <2> QED BY <2>1, <2>2, <2>3
<1>4. PICK left \in Patches :
        /\ left = settingsDraftComparedWithSaved(persisted, draft, status)
        /\ \A g \in DOMAIN left : left[g] = draft[g]
        /\ DOMAIN left \subseteq DOMAIN draft
        /\ \A g \in DOMAIN draft : draft[g] # persisted[g] => g \in DOMAIN left
        /\ Over(left, persisted) = Over(draft, persisted)
  BY <1>2, ComparedPatch
<1>5. dirty' = IF submitted # Empty THEN draft ELSE left BY <1>1, <1>3, <1>4
<1>6. /\ dirty' \in Patches /\ DOMAIN dirty' \subseteq DOMAIN dirty \union {f}
      /\ Over(dirty', persisted) = Over(draft, persisted)
  BY <1>3, <1>4, <1>5
<1>7. settings' = Over(draft, persisted)
  <2>1. /\ Over(draft, persisted) \in [Fields -> BOOLEAN] /\ settings' \in [Fields -> BOOLEAN]
        /\ settings \in [Fields -> BOOLEAN]
    BY <1>1, <1>2, OverSettings DEF Settings
  <2>2. ASSUME NEW g \in Fields PROVE settings'[g] = Over(draft, persisted)[g]
    <3>1. Over(draft, persisted)[g] = IF g \in DOMAIN draft THEN draft[g] ELSE persisted[g]
      BY <1>2, OverSettings
    <3>2. settings[g] = IF g \in DOMAIN dirty THEN dirty[g] ELSE persisted[g] BY <1>2, OverSettings
    <3>3. settings'[g] = IF g = f THEN value ELSE settings[g] BY <1>1, <2>1
    <3> QED BY <1>3, <3>1, <3>2, <3>3
  <2> QED BY <2>1, <2>2
<1>8. settings' \in Settings /\ settings' # Empty
  <2>1. Over(draft, persisted) \in Settings BY <1>2, OverSettings
  <2> QED BY <1>7, <2>1, SettingsLoaded
<1>9. TypeOK'
  <2>1. wanted' \in [Fields -> {"on", "off", Nothing}] BY <1>0, <1>1 DEF TypeOK, Switch
  <2>2. edits' \in 0 .. MaxEdits /\ touched' \subseteq Fields BY <1>0, <1>1, DraftAssumption DEF TypeOK
  <2> QED BY <1>0, <1>1, <1>6, <1>8, <2>1, <2>2 DEF TypeOK
<1>10. Shape' BY <1>0, <1>1, <1>6, <1>7, <1>8 DEF Shape, Loaded, UnderWay
<1>11. OneAsked' BY <1>0, <1>1, <1>8 DEF OneAsked, Loaded, UnderWay
<1>12. LastIsSaved' /\ CopyIsSaved' BY <1>0, <1>1 DEF LastIsSaved, CopyIsSaved, Loaded, UnderWay
<1>13. OnlyTouched' BY <1>0, <1>1, <1>6 DEF OnlyTouched
<1>14. ASSUME KeptInvariant PROVE KeptInvariant'
  <2>0. Patched /\ Agree /\ Drafted /\ ShortcutKept BY <1>14 DEF KeptInvariant
  <2>1. Patched'
    <3>1. request.kind = "patch" => DOMAIN submitted \subseteq DOMAIN dirty'
      <4> SUFFICES ASSUME request.kind = "patch" PROVE DOMAIN submitted \subseteq DOMAIN dirty' OBVIOUS
      <4>1. submitted # Empty BY <1>0, <2>0 DEF OneAsked, Patched, Waits, Nothing, NoRequest
      <4> QED BY <1>3, <1>5, <2>0, <4>1 DEF Patched
    <3> QED BY <1>1, <2>0, <3>1 DEF Patched, UnderWay
  <2>2. Agree' BY <1>1, <2>0 DEF Agree
  <2>3. ASSUME NEW g \in Mine, wanted'[g] # Nothing
        PROVE  /\ g \in DOMAIN dirty' => Switch(dirty'[g]) = wanted'[g]
               /\ g \notin DOMAIN dirty' => Switch(saved[g]) = wanted'[g]
               /\ submitted = Empty /\ g \in DOMAIN dirty' /\ dirty'[g] = persisted[g] => saved[g] = dirty'[g]
    <3>1. g \in Fields /\ wanted \in [Fields -> {"on", "off", Nothing}] BY <1>0 DEF Mine, TypeOK
    <3>2. CASE g = f
      <4>1. wanted'[f] = IF submitted = Empty /\ persisted[f] = value THEN Nothing ELSE Switch(value)
        BY <1>1, <3>1
      <4>2. f \in DOMAIN draft /\ draft[f] = value BY <1>3
      <4>3. submitted # Empty \/ persisted[f] # value BY <2>3, <3>2, <4>1
      <4>4. f \in DOMAIN dirty' /\ dirty'[f] = value BY <1>4, <1>5, <4>2, <4>3
      <4> QED BY <3>2, <4>1, <4>3, <4>4
    <3>3. CASE g # f
      <4>1. wanted'[g] = wanted[g] BY <1>1, <3>1, <3>3
      <4>2. /\ g \in DOMAIN draft <=> g \in DOMAIN dirty
            /\ g \in DOMAIN dirty => draft[g] = dirty[g]
        BY <1>3, <3>3
      <4>3. /\ g \in DOMAIN dirty => Switch(dirty[g]) = wanted[g]
            /\ g \notin DOMAIN dirty => Switch(saved[g]) = wanted[g]
            /\ submitted = Empty /\ g \in DOMAIN dirty /\ dirty[g] = persisted[g] => saved[g] = dirty[g]
        BY <2>0, <2>3, <4>1 DEF Drafted
      <4>4. g \in DOMAIN dirty' => g \in DOMAIN dirty /\ dirty'[g] = dirty[g] BY <1>4, <1>5, <4>2
      <4>5. g \in DOMAIN dirty /\ g \notin DOMAIN dirty' => submitted = Empty /\ dirty[g] = persisted[g]
        BY <1>4, <1>5, <4>2
      <4> QED BY <4>1, <4>3, <4>4, <4>5
    <3> QED BY <3>2, <3>3
  <2>4. Drafted' BY <1>1, <2>3 DEF Drafted
  <2>5. ShortcutKept'
    <3>1. wanted'["shortcut"] = wanted["shortcut"] BY <1>0, <1>1, DraftAssumption DEF TypeOK
    <3> QED BY <1>1, <2>0, <3>1 DEF ShortcutKept
  <2> QED BY <2>1, <2>2, <2>4, <2>5 DEF KeptInvariant
<1> QED BY <1>9, <1>10, <1>11, <1>12, <1>13, <1>14 DEF DraftInvariant, CopyInvariant

-----------------------------------------------------------------------------
(* The main process *)

\* A request to save is the one the dialog waits for, and is not answered yet.
LEMMA Asked ==
  ASSUME OneAsked, request.kind \in Waits
  PROVE  saving = request.kind /\ ~UnderWay("answer")
BY DEF OneAsked, Waits, Nothing, NoRequest

LEMMA AnswersGetLemma ==
  ASSUME DraftInvariant, MainAnswersGet
  PROVE  DraftInvariant'
<1>0. TypeOK /\ Shape /\ OneAsked /\ LastIsSaved /\ CopyIsSaved /\ OnlyTouched
  BY DEF DraftInvariant, CopyInvariant
<1>1. /\ request.kind = "get" /\ request' = NoRequest
      /\ UNCHANGED <<saved, effective, dialog, wanted, touched, edits, others>>
  BY DEF MainAnswersGet
<1>2. UNCHANGED <<open, pushed, settings, persisted, dirty, submitted, saving, status>> BY <1>1 DEF dialog
<1>3. PICK m \in Messages :
        m.kind = "initial" /\ m.settings = saved /\ toDialog' = Append(toDialog, m)
  BY <1>0 DEF MainAnswersGet, Initial, Messages, TypeOK
<1>4. /\ toDialog' \in Seq(Messages)
      /\ \A kind : Has(toDialog', kind) <=> Has(toDialog, kind) \/ kind = "initial"
      /\ Tells(toDialog, saved) => Tells(toDialog', saved)
      /\ Once(toDialog) /\ ~Has(toDialog, "initial") => Once(toDialog')
      /\ \A i \in 1 .. Len(toDialog') : \/ toDialog'[i] = m
                                        \/ i \in 1 .. Len(toDialog) /\ toDialog'[i] = toDialog[i]
  BY <1>0, <1>3, Sends DEF TypeOK
<1>5. Empty \in Patches /\ DOMAIN Empty = {} BY EmptyPatch
<1>6. saving \notin Waits /\ ~UnderWay("answer") /\ saving # "confirm" /\ ~UnderWay("initial") /\ open
  BY <1>0, <1>1 DEF OneAsked, Waits, Nothing, NoRequest, Shape
<1>7. TypeOK' BY <1>0, <1>1, <1>2, <1>4 DEF TypeOK, NoRequest
<1>8. Shape' BY <1>0, <1>1, <1>2, <1>6 DEF Shape, Loaded
<1>9. OneAsked'
  BY <1>0, <1>1, <1>2, <1>4, <1>6 DEF OneAsked, Loaded, UnderWay, Waits, Nothing, NoRequest
<1>10. LastIsSaved' /\ CopyIsSaved' BY <1>0, <1>1, <1>2, <1>4 DEF LastIsSaved, CopyIsSaved, Loaded, UnderWay
<1>11. OnlyTouched' BY <1>0, <1>1, <1>2, <1>5 DEF OnlyTouched, NoRequest
<1>12. ASSUME KeptInvariant PROVE KeptInvariant'
  <2>0. Patched /\ Agree /\ Drafted /\ ShortcutKept BY <1>12 DEF KeptInvariant
  <2>1. Patched' BY <1>1, <1>2, <1>6, <2>0 DEF Patched, Waits, NoRequest, Nothing
  <2>2. Agree' BY <1>1, <1>3, <1>4, <2>0 DEF Agree
  <2>3. Drafted' BY <1>1, <1>2, <2>0 DEF Drafted
  <2>4. ShortcutKept' BY <1>1, <1>2, <1>6, <2>0 DEF ShortcutKept, NoRequest, Nothing, Waits
  <2> QED BY <2>1, <2>2, <2>3, <2>4 DEF KeptInvariant
<1> QED BY <1>7, <1>8, <1>9, <1>10, <1>11, <1>12 DEF DraftInvariant, CopyInvariant

\* What is saved is announced, then answered.
LEMMA SavesLemma ==
  ASSUME DraftInvariant, MainSaves
  PROVE  DraftInvariant'
<1>0. TypeOK /\ Shape /\ OneAsked /\ LastIsSaved /\ CopyIsSaved /\ OnlyTouched
  BY DEF DraftInvariant, CopyInvariant
<1>1. /\ request.kind \in Waits /\ request' = NoRequest /\ saved' = Over(request.patch, saved)
      /\ toDialog' = Append(Append(toDialog, Changed(saved')), Answer(TRUE, saved'))
      /\ UNCHANGED <<wanted, touched, edits, others>> /\ effective' \in BOOLEAN
  BY DEF MainSaves, Waits
<1>2. UNCHANGED <<open, pushed, settings, persisted, dirty, submitted, saving, status>>
  BY DEF MainSaves, dialog
<1>3. saved \in Settings /\ request.patch \in Patches /\ toDialog \in Seq(Messages)
  BY <1>0, <1>1, EmptyPatch DEF TypeOK, Requests
<1>4. /\ saved' \in Settings
      /\ \A f \in Fields : saved'[f] = IF f \in DOMAIN request.patch THEN request.patch[f] ELSE saved[f]
  BY <1>1, <1>3, OverSettings
<1>5. PICK c \in Messages : c = Changed(saved') /\ c.kind = "changed" /\ c.settings = saved'
  <2>1. PICK s \in Settings : s = saved' BY <1>4
  <2>2. Changed(s) \in Messages /\ Changed(s).kind = "changed" /\ Changed(s).settings = s
    BY DEF Changed, Messages
  <2> QED BY <2>1, <2>2
<1>6. PICK a \in Messages : a = Answer(TRUE, saved') /\ a.kind = "answer" /\ a.settings = saved' /\ a.ok
  <2>1. PICK s \in Settings : s = saved' BY <1>4
  <2>2. /\ Answer(TRUE, s) \in Messages /\ Answer(TRUE, s).kind = "answer"
        /\ Answer(TRUE, s).settings = s /\ Answer(TRUE, s).ok
    BY DEF Answer, Messages
  <2> QED BY <2>1, <2>2
<1>7. PICK q \in Seq(Messages) : q = toDialog BY <1>3
<1>8. PICK r \in Seq(Messages) :
        /\ r = Append(q, c) /\ \A kind : Has(r, kind) <=> Has(q, kind) \/ kind = "changed"
        /\ Tells(r, saved') /\ (Once(q) => Once(r))
        /\ \A i \in 1 .. Len(r) : r[i] = c \/ (i \in 1 .. Len(q) /\ r[i] = q[i])
  <2>1. /\ Append(q, c) \in Seq(Messages)
        /\ \A kind : Has(Append(q, c), kind) <=> Has(q, kind) \/ kind = c.kind
        /\ Tells(q, c.settings) \/ c.kind = "changed" => Tells(Append(q, c), c.settings)
        /\ Once(q) /\ ~(c.kind \in {"initial", "answer"} /\ Has(q, c.kind)) => Once(Append(q, c))
        /\ \A i \in 1 .. Len(Append(q, c)) :
             Append(q, c)[i] = c \/ (i \in 1 .. Len(q) /\ Append(q, c)[i] = q[i])
    BY Sends
  <2> QED BY <1>5, <2>1
<1>9. toDialog' = Append(r, a) BY <1>1, <1>5, <1>6, <1>7, <1>8
<1>10. /\ toDialog' \in Seq(Messages)
       /\ \A kind : Has(toDialog', kind) <=> Has(r, kind) \/ kind = "answer"
       /\ Tells(toDialog', saved')
       /\ Once(r) /\ ~Has(r, "answer") => Once(toDialog')
       /\ \A i \in 1 .. Len(toDialog') : toDialog'[i] = a \/ (i \in 1 .. Len(r) /\ toDialog'[i] = r[i])
  <2>1. /\ Append(r, a) \in Seq(Messages)
        /\ \A kind : Has(Append(r, a), kind) <=> Has(r, kind) \/ kind = a.kind
        /\ Tells(r, a.settings) => Tells(Append(r, a), a.settings)
        /\ Once(r) /\ ~(a.kind \in {"initial", "answer"} /\ Has(r, a.kind)) => Once(Append(r, a))
        /\ \A i \in 1 .. Len(Append(r, a)) :
             Append(r, a)[i] = a \/ (i \in 1 .. Len(r) /\ Append(r, a)[i] = r[i])
    BY Sends
  <2> QED BY <1>6, <1>8, <1>9, <2>1
<1>11. \A kind : UnderWay(kind)' <=> UnderWay(kind) \/ kind \in {"changed", "answer"}
  BY <1>7, <1>8, <1>10 DEF UnderWay
<1>12. saving = request.kind /\ ~UnderWay("answer") /\ Loaded /\ open
  BY <1>0, <1>1, Asked DEF Shape, Waits
<1>13. \A i \in 1 .. Len(toDialog') :
         \/ toDialog'[i] = a \/ toDialog'[i] = c
         \/ i \in 1 .. Len(toDialog) /\ toDialog'[i] = toDialog[i] /\ toDialog[i].kind # "answer"
  BY <1>7, <1>8, <1>10, <1>12 DEF UnderWay, Has
<1>14. TypeOK' BY <1>0, <1>1, <1>2, <1>4, <1>10 DEF TypeOK, NoRequest
<1>15. Shape' BY <1>0, <1>1, <1>2, <1>12 DEF Shape, Loaded
<1>16. OneAsked'
  <2>1. Once(toDialog') BY <1>0, <1>7, <1>8, <1>10, <1>12 DEF OneAsked, UnderWay
  <2> QED BY <1>0, <1>1, <1>2, <1>11, <1>12, <2>1 DEF OneAsked, Loaded, Waits, Nothing, NoRequest
<1>17. LastIsSaved' BY <1>10 DEF LastIsSaved
<1>18. CopyIsSaved' BY <1>11 DEF CopyIsSaved
<1>19. OnlyTouched' BY <1>0, <1>1, <1>2, EmptyPatch DEF OnlyTouched, NoRequest
<1>20. ASSUME KeptInvariant PROVE KeptInvariant'
  <2>0. Patched /\ Agree /\ Drafted /\ ShortcutKept BY <1>20 DEF KeptInvariant
  <2>1. ASSUME saving = "patch"
        PROVE  /\ toDialog = <<>> /\ submitted # Empty /\ DOMAIN submitted \subseteq DOMAIN dirty
               /\ \A f \in DOMAIN submitted : f \in Fields /\ saved'[f] = submitted[f]
               /\ \A f \in Fields : f \notin DOMAIN submitted => saved'[f] = saved[f]
    <3>1. /\ request.patch = submitted /\ DOMAIN submitted \subseteq DOMAIN dirty /\ toDialog = <<>>
          /\ submitted # Empty
      BY <1>12, <2>0, <2>1 DEF Patched
    <3>2. DOMAIN submitted \subseteq Fields BY <1>0, PatchDef DEF TypeOK
    <3> QED BY <1>4, <3>1, <3>2
  <2>2. ASSUME saving # "patch", NEW f \in Mine PROVE saved'[f] = saved[f]
    <3>1. DOMAIN request.patch \subseteq {"shortcut"}
      BY <1>1, <1>12, <2>0, <2>2, EmptyPatch DEF Patched, Waits
    <3> QED BY <1>4, <3>1 DEF Mine
  <2>3. Patched'
    <3>1. ASSUME saving = "patch", NEW i \in 1 .. Len(toDialog'), toDialog'[i].kind = "answer"
          PROVE  /\ ~Followed(toDialog', i) /\ toDialog'[i].ok
                 /\ \A f \in DOMAIN submitted : saved'[f] = submitted[f]
      <4>1. q = <<>> BY <1>7, <2>1, <3>1
      <4>2. Len(toDialog') = 2 /\ toDialog'[1] = c /\ toDialog'[2] = a
        <5>1. Len(q) = 0 BY <4>1
        <5>2. Len(r) = 1 /\ r[1] = c BY <1>8, <5>1
        <5>3. /\ Len(Append(r, a)) = Len(r) + 1 /\ Append(r, a)[Len(r) + 1] = a
              /\ \A j \in 1 .. Len(r) : Append(r, a)[j] = r[j]
          OBVIOUS
        <5>4. 1 \in 1 .. Len(r) /\ Len(r) + 1 = 2 BY <5>2
        <5> QED BY <1>9, <5>2, <5>3, <5>4
      <4>3. i = 2 BY <1>5, <3>1, <4>2
      <4>4. ~Followed(toDialog', i) BY <4>2, <4>3 DEF Followed
      <4> QED BY <1>6, <2>1, <3>1, <4>2, <4>3, <4>4
    <3> QED BY <1>1, <1>2, <1>12, <2>0, <3>1 DEF Patched, NoRequest, Nothing, Waits
  <2>4. Agree'
    <3> SUFFICES ASSUME NEW i \in 1 .. Len(toDialog'), NEW f \in Mine,
                        toDialog'[i].kind \in {"changed", "answer"}
                 PROVE  toDialog'[i].settings[f] = saved'[f]
      BY DEF Agree
    <3>1. CASE toDialog'[i] = a \/ toDialog'[i] = c BY <1>5, <1>6, <3>1
    <3>2. CASE i \in 1 .. Len(toDialog) /\ toDialog'[i] = toDialog[i]
      <4>1. toDialog # <<>> BY <1>3, <3>2
      <4>2. saved'[f] = saved[f] BY <2>1, <2>2, <4>1
      <4>3. toDialog[i].settings[f] = saved[f] BY <2>0, <3>2 DEF Agree
      <4> QED BY <3>2, <4>2, <4>3
    <3> QED BY <1>13, <3>1, <3>2
  <2>5. Drafted'
    <3> SUFFICES ASSUME NEW f \in Mine, wanted[f] # Nothing
                 PROVE  /\ f \in DOMAIN dirty => Switch(dirty[f]) = wanted[f]
                        /\ f \notin DOMAIN dirty => Switch(saved'[f]) = wanted[f]
                        /\ submitted = Empty /\ f \in DOMAIN dirty /\ dirty[f] = persisted[f] =>
                             saved'[f] = dirty[f]
      BY <1>1, <1>2 DEF Drafted
    <3>1. /\ f \in DOMAIN dirty => Switch(dirty[f]) = wanted[f]
          /\ f \notin DOMAIN dirty => Switch(saved[f]) = wanted[f]
          /\ submitted = Empty /\ f \in DOMAIN dirty /\ dirty[f] = persisted[f] => saved[f] = dirty[f]
      BY <2>0 DEF Drafted
    <3>2. f \in Fields BY DEF Mine
    <3>3. CASE saving = "patch" BY <2>1, <3>1, <3>2, <3>3
    <3>4. CASE saving # "patch"
      <4>1. saved'[f] = saved[f] BY <2>2, <3>4
      <4> QED BY <3>1, <4>1
    <3> QED BY <3>3, <3>4
  <2>6. ShortcutKept'
    <3>1. "shortcut" \in Fields BY DraftAssumption
    <3>2. CASE request.kind = "shortcut"
      <4>1. saved'["shortcut"] = request.patch["shortcut"] BY <1>4, <2>0, <3>1, <3>2 DEF Patched
      <4> QED BY <1>1, <2>0, <3>2, <4>1 DEF ShortcutKept, NoRequest, Nothing
    <3>3. CASE request.kind # "shortcut"
      <4>1. "shortcut" \notin DOMAIN request.patch
        BY <1>1, <2>0, <3>3, EmptyPatch DEF Patched, Waits
      <4>2. saved'["shortcut"] = saved["shortcut"] BY <1>4, <3>1, <4>1
      <4> QED BY <1>1, <1>12, <2>0, <3>3, <4>2 DEF ShortcutKept, NoRequest, Nothing
    <3> QED BY <3>2, <3>3
  <2> QED BY <2>3, <2>4, <2>5, <2>6 DEF KeptInvariant
<1> QED BY <1>14, <1>15, <1>16, <1>17, <1>18, <1>19, <1>20 DEF DraftInvariant, CopyInvariant

LEMMA RefusesLemma ==
  ASSUME DraftInvariant, MainRefuses
  PROVE  DraftInvariant'
<1>0. TypeOK /\ Shape /\ OneAsked /\ LastIsSaved /\ CopyIsSaved /\ OnlyTouched
  BY DEF DraftInvariant, CopyInvariant
<1>1. /\ request.kind \in Waits /\ request' = NoRequest /\ effective' \in BOOLEAN
      /\ toDialog' = Append(toDialog, Answer(FALSE, saved))
      /\ UNCHANGED <<saved, wanted, touched, edits, others>>
  BY DEF MainRefuses, Waits
<1>2. UNCHANGED <<open, pushed, settings, persisted, dirty, submitted, saving, status>>
  BY DEF MainRefuses, dialog
<1>3. PICK m \in Messages : /\ m.kind = "answer" /\ m.settings = saved /\ m.ok = FALSE
                            /\ toDialog' = Append(toDialog, m)
  BY <1>0, <1>1 DEF Answer, Messages, TypeOK
<1>4. /\ toDialog' \in Seq(Messages)
      /\ \A kind : Has(toDialog', kind) <=> Has(toDialog, kind) \/ kind = "answer"
      /\ Tells(toDialog, saved) => Tells(toDialog', saved)
      /\ Once(toDialog) /\ ~Has(toDialog, "answer") => Once(toDialog')
      /\ \A i \in 1 .. Len(toDialog') : \/ toDialog'[i] = m
                                        \/ i \in 1 .. Len(toDialog) /\ toDialog'[i] = toDialog[i]
      /\ Len(toDialog') \in 1 .. Len(toDialog') /\ toDialog'[Len(toDialog')] = m
  BY <1>0, <1>3, Sends DEF TypeOK
<1>5. saving = request.kind /\ ~UnderWay("answer") /\ Loaded /\ open
  BY <1>0, <1>1, Asked DEF Shape, Waits
<1>6. TypeOK' BY <1>0, <1>1, <1>2, <1>4 DEF TypeOK, NoRequest
<1>7. Shape' BY <1>0, <1>1, <1>2, <1>5 DEF Shape, Loaded
<1>8. OneAsked'
  BY <1>0, <1>1, <1>2, <1>4, <1>5 DEF OneAsked, Loaded, UnderWay, Waits, Nothing, NoRequest
<1>9. LastIsSaved' /\ CopyIsSaved' BY <1>0, <1>1, <1>2, <1>4 DEF LastIsSaved, CopyIsSaved, Loaded, UnderWay
<1>10. OnlyTouched' BY <1>0, <1>1, <1>2, EmptyPatch DEF OnlyTouched, NoRequest
<1>11. ASSUME KeptInvariant PROVE KeptInvariant'
  <2>0. Patched /\ Agree /\ Drafted /\ ShortcutKept BY <1>11 DEF KeptInvariant
  <2>1. ASSUME saving = "patch", NEW i \in 1 .. Len(toDialog'), toDialog'[i].kind = "answer"
        PROVE  ~Followed(toDialog', i) /\ toDialog'[i].ok = FALSE /\ ~UnderWay("changed")'
    <3>1. toDialog = <<>> BY <1>5, <2>0, <2>1 DEF Patched
    <3>2. toDialog' = <<m>> BY <1>3, <3>1
    <3>3. Len(toDialog') = 1 /\ toDialog'[1] = m BY <3>2
    <3>4. i = 1 BY <2>1, <3>3
    <3>5. ~Followed(toDialog', i) /\ ~Has(toDialog', "changed") BY <1>3, <3>3, <3>4 DEF Followed, Has
    <3> QED BY <1>3, <3>3, <3>4, <3>5 DEF UnderWay
  <2>2. Patched' BY <1>1, <1>2, <1>5, <2>0, <2>1 DEF Patched, NoRequest, Nothing, Waits
  <2>3. Agree'
    <3> SUFFICES ASSUME NEW i \in 1 .. Len(toDialog'), NEW f \in Mine,
                        toDialog'[i].kind \in {"changed", "answer"}
                 PROVE  toDialog'[i].settings[f] = saved[f]
      BY <1>1 DEF Agree
    <3>1. CASE toDialog'[i] = m BY <1>3, <3>1
    <3>2. CASE i \in 1 .. Len(toDialog) /\ toDialog'[i] = toDialog[i] BY <2>0, <3>2 DEF Agree
    <3> QED BY <1>4, <3>1, <3>2
  <2>4. Drafted' BY <1>1, <1>2, <2>0 DEF Drafted
  <2>5. ShortcutKept' BY <1>1, <1>2, <1>3, <1>4, <1>5, <2>0 DEF ShortcutKept, NoRequest, Nothing
  <2> QED BY <2>2, <2>3, <2>4, <2>5 DEF KeptInvariant
<1> QED BY <1>6, <1>7, <1>8, <1>9, <1>10, <1>11 DEF DraftInvariant, CopyInvariant

\* Another surface saves where nothing of the dialog waits, unless it races.
LEMMA OtherSurfaceLemma ==
  ASSUME DraftInvariant, NEW f \in Fields, NEW value \in BOOLEAN, OtherSurface(f, value)
  PROVE  DraftInvariant'
<1>0. TypeOK /\ Shape /\ OneAsked /\ LastIsSaved /\ CopyIsSaved /\ OnlyTouched
  BY DEF DraftInvariant, CopyInvariant
<1>1. /\ saved' = [saved EXCEPT ![f] = value] /\ toDialog' = Append(toDialog, Changed(saved'))
      /\ wanted' = [wanted EXCEPT ![f] = Nothing] /\ others' = others + 1 /\ others < MaxOthers
      /\ UNCHANGED <<effective, request, touched, edits>>
      /\ Racing \/ (saving = "no" /\ \A i \in DOMAIN toDialog : toDialog[i].kind \notin {"answer", "changed"})
  BY DEF OtherSurface
<1>2. UNCHANGED <<open, pushed, settings, persisted, dirty, submitted, saving, status>>
  BY DEF OtherSurface, dialog
<1>3. /\ saved' \in Settings /\ saved' \in [Fields -> BOOLEAN]
      /\ \A g \in Fields : g # f => saved'[g] = saved[g]
  BY <1>0, <1>1 DEF TypeOK, Settings
<1>4. PICK m \in Messages : m = Changed(saved') /\ m.kind = "changed" /\ m.settings = saved'
  <2>1. PICK s \in Settings : s = saved' BY <1>3
  <2>2. Changed(s) \in Messages /\ Changed(s).kind = "changed" /\ Changed(s).settings = s
    BY DEF Changed, Messages
  <2> QED BY <2>1, <2>2
<1>5. PICK q \in Seq(Messages) : q = toDialog BY <1>0 DEF TypeOK
<1>6. /\ toDialog' \in Seq(Messages)
      /\ \A kind : Has(toDialog', kind) <=> Has(toDialog, kind) \/ kind = "changed"
      /\ Tells(toDialog', saved')
      /\ Once(toDialog) => Once(toDialog')
      /\ \A i \in 1 .. Len(toDialog') : \/ toDialog'[i] = m
                                        \/ i \in 1 .. Len(toDialog) /\ toDialog'[i] = toDialog[i]
  <2>1. /\ Append(q, m) \in Seq(Messages)
        /\ \A kind : Has(Append(q, m), kind) <=> Has(q, kind) \/ kind = m.kind
        /\ Tells(q, m.settings) \/ m.kind = "changed" => Tells(Append(q, m), m.settings)
        /\ Once(q) /\ ~(m.kind \in {"initial", "answer"} /\ Has(q, m.kind)) => Once(Append(q, m))
        /\ \A i \in 1 .. Len(Append(q, m)) :
             Append(q, m)[i] = m \/ (i \in 1 .. Len(q) /\ Append(q, m)[i] = q[i])
    BY Sends
  <2> QED BY <1>1, <1>4, <1>5, <2>1
<1>7. TypeOK'
  <2>1. wanted' \in [Fields -> {"on", "off", Nothing}] BY <1>0, <1>1 DEF TypeOK
  <2>2. others' \in 0 .. MaxOthers BY <1>0, <1>1, DraftAssumption DEF TypeOK
  <2> QED BY <1>0, <1>1, <1>2, <1>3, <1>6, <2>1, <2>2 DEF TypeOK
<1>8. Shape' BY <1>0, <1>1, <1>2, <1>6 DEF Shape, Loaded, UnderWay
<1>9. OneAsked' BY <1>0, <1>1, <1>2, <1>6 DEF OneAsked, Loaded, UnderWay
<1>10. LastIsSaved' /\ CopyIsSaved' BY <1>6 DEF LastIsSaved, CopyIsSaved, UnderWay
<1>11. OnlyTouched' BY <1>0, <1>1, <1>2 DEF OnlyTouched
<1>12. ASSUME ~Racing, KeptInvariant PROVE KeptInvariant'
  <2>0. /\ Patched /\ Agree /\ Drafted /\ ShortcutKept /\ saving = "no"
        /\ \A i \in 1 .. Len(toDialog) : toDialog[i].kind \notin {"answer", "changed"}
    BY <1>0, <1>1, <1>12 DEF KeptInvariant, TypeOK
  <2>1. Patched'
    <3>1. request.kind \notin Waits BY <1>0, <2>0, Asked DEF Waits
    <3> QED BY <1>1, <1>2, <2>0, <3>1 DEF Patched, Waits
  <2>2. Agree' BY <1>4, <1>6, <2>0 DEF Agree
  <2>3. ASSUME NEW g \in Mine, wanted'[g] # Nothing PROVE saved'[g] = saved[g] /\ wanted'[g] = wanted[g]
    <3>1. g \in Fields /\ wanted \in [Fields -> {"on", "off", Nothing}] BY <1>0 DEF Mine, TypeOK
    <3>2. g # f BY <1>1, <2>3, <3>1
    <3> QED BY <1>1, <1>3, <3>1, <3>2
  <2>4. Drafted' BY <1>2, <2>0, <2>3 DEF Drafted
  <2>5. ShortcutKept'
    <3>1. "shortcut" \in Fields /\ wanted \in [Fields -> {"on", "off", Nothing}]
      BY <1>0, DraftAssumption DEF TypeOK
    <3>2. request.kind # "shortcut" BY <1>0, <2>0, Asked DEF Waits
    <3>3. CASE f = "shortcut"
      <4>1. wanted'["shortcut"] = Nothing BY <1>1, <3>1, <3>3
      <4> QED BY <4>1 DEF ShortcutKept
    <3>4. CASE f # "shortcut"
      <4>1. wanted'["shortcut"] = wanted["shortcut"] /\ saved'["shortcut"] = saved["shortcut"]
        BY <1>1, <1>3, <3>1, <3>4
      <4> QED BY <1>1, <1>2, <2>0, <3>2, <4>1 DEF ShortcutKept
    <3> QED BY <3>3, <3>4
  <2> QED BY <2>1, <2>2, <2>4, <2>5 DEF KeptInvariant
<1> QED BY <1>7, <1>8, <1>9, <1>10, <1>11, <1>12 DEF DraftInvariant, CopyInvariant

-----------------------------------------------------------------------------
(* What reaches the dialog *)

\* What is left of the messages when the first has arrived.
LEMMA Taken ==
  ASSUME TypeOK, NEW kind, Takes(kind)
  PROVE  LET m == Head(toDialog)
         IN  /\ toDialog' \in Seq(Messages) /\ m \in Messages /\ m.kind = kind /\ toDialog # <<>>
             /\ 1 \in 1 .. Len(toDialog) /\ toDialog[1] = m
             /\ \A i \in 1 .. Len(toDialog') : i + 1 \in 1 .. Len(toDialog) /\ toDialog'[i] = toDialog[i + 1]
             /\ \A i \in 1 .. Len(toDialog) :
                  i = 1 \/ (i - 1 \in 1 .. Len(toDialog') /\ toDialog'[i - 1] = toDialog[i])
             /\ \A k : Has(toDialog, k) <=> Has(toDialog', k) \/ k = kind
             /\ \A s : Tells(toDialog, s) => Tells(toDialog', s) /\ (~Has(toDialog', "changed") => m.settings = s)
             /\ Once(toDialog) => Once(toDialog') /\ ~(kind \in {"initial", "answer"} /\ Has(toDialog', kind))
             /\ \A i \in 1 .. Len(toDialog') : Followed(toDialog', i) => Followed(toDialog, i + 1)
             /\ Has(toDialog', "changed") => Followed(toDialog, 1)
<1>1. toDialog \in Seq(Messages) /\ toDialog # <<>> /\ Head(toDialog).kind = kind /\ toDialog' = Tail(toDialog)
  BY DEF TypeOK, Takes
<1> QED BY <1>1, TakesFirst

\* What the rest of the messages keeps of Agree and Patched.
LEMMA RestAgrees ==
  ASSUME TypeOK, NEW kind, Takes(kind), Agree, saved' = saved
  PROVE  Agree'
<1>1. \A i \in 1 .. Len(toDialog') : i + 1 \in 1 .. Len(toDialog) /\ toDialog'[i] = toDialog[i + 1]
  BY Taken
<1> QED BY <1>1 DEF Agree

\* An announcement arrives: the copy is the newer one, and what agrees with it leaves the draft.
LEMMA ChangedLemma ==
  ASSUME DraftInvariant, DeliverChanged
  PROVE  DraftInvariant'
<1> DEFINE m == Head(toDialog)
<1>0. TypeOK /\ Shape /\ OneAsked /\ LastIsSaved /\ CopyIsSaved /\ OnlyTouched
  BY DEF DraftInvariant, CopyInvariant
<1>1. /\ Takes("changed")
      /\ IF open THEN pushed' = TRUE /\ applyPersistedSettings(m.settings)
         ELSE UNCHANGED <<pushed, persisted, dirty, settings>>
      /\ UNCHANGED <<saved, effective, request, open, submitted, saving, status, wanted, touched, edits, others>>
  BY DEF DeliverChanged
<1>2. /\ toDialog' \in Seq(Messages) /\ m \in Messages /\ m.kind = "changed" /\ toDialog # <<>>
      /\ 1 \in 1 .. Len(toDialog) /\ toDialog[1] = m
      /\ \A i \in 1 .. Len(toDialog') : i + 1 \in 1 .. Len(toDialog) /\ toDialog'[i] = toDialog[i + 1]
      /\ \A i \in 1 .. Len(toDialog) :
           i = 1 \/ (i - 1 \in 1 .. Len(toDialog') /\ toDialog'[i - 1] = toDialog[i])
      /\ \A k : Has(toDialog, k) <=> Has(toDialog', k) \/ k = "changed"
      /\ Tells(toDialog, saved) => Tells(toDialog', saved) /\ (~Has(toDialog', "changed") => m.settings = saved)
      /\ Once(toDialog) => Once(toDialog')
      /\ \A i \in 1 .. Len(toDialog') : Followed(toDialog', i) => Followed(toDialog, i + 1)
  BY <1>0, <1>1, Taken
<1> HIDE DEF m
<1>3. PICK s \in Settings : s = m.settings BY <1>2 DEF Messages
<1>4. PICK draft \in Patches : draft = dirty BY <1>0 DEF TypeOK
<1>5. PICK left \in Patches :
        /\ left = settingsDraftComparedWithSaved(s, draft, Nothing)
        /\ \A f \in DOMAIN left : left[f] = draft[f]
        /\ DOMAIN left \subseteq DOMAIN draft
        /\ \A f \in DOMAIN draft : draft[f] # s[f] => f \in DOMAIN left
        /\ \A f \in DOMAIN left : left[f] # s[f]
  BY ComparedPatch
<1>6. open => pushed' /\ persisted' = s /\ dirty' = left /\ settings' = Over(left, s)
  BY <1>1, <1>3, <1>4, <1>5 DEF applyPersistedSettings, settingsWithPendingDraft
<1>7. Over(left, s) \in Settings /\ Over(left, s) # Empty /\ s # Empty
  <2>1. Over(left, s) \in Settings BY OverSettings
  <2> QED BY <2>1, SettingsLoaded
<1>8. ~open => UNCHANGED <<pushed, persisted, dirty, settings>> /\ ~Loaded BY <1>0, <1>1 DEF Shape
<1>9. DOMAIN dirty' \subseteq DOMAIN dirty BY <1>4, <1>5, <1>6, <1>8
<1>10. TypeOK'
  <2>1. CASE open BY <1>0, <1>1, <1>2, <1>6, <1>7, <2>1 DEF TypeOK
  <2>2. CASE ~open BY <1>0, <1>1, <1>2, <1>8, <2>2 DEF TypeOK
  <2> QED BY <2>1, <2>2
<1>11. Shape'
  <2>1. CASE open BY <1>0, <1>1, <1>6, <1>7, <1>9, <2>1 DEF Shape, Loaded
  <2>2. CASE ~open BY <1>0, <1>1, <1>2, <1>8, <2>2 DEF Shape, Loaded, UnderWay
  <2> QED BY <2>1, <2>2
<1>12. OneAsked' BY <1>0, <1>1, <1>2, <1>6, <1>8 DEF OneAsked, Loaded, UnderWay
<1>13. LastIsSaved' BY <1>0, <1>1, <1>2 DEF LastIsSaved
<1>14. CopyIsSaved' BY <1>0, <1>1, <1>2, <1>3, <1>6, <1>8 DEF CopyIsSaved, LastIsSaved, Loaded, UnderWay
<1>15. OnlyTouched' BY <1>0, <1>1, <1>9 DEF OnlyTouched
<1>16. ASSUME KeptInvariant PROVE KeptInvariant'
  <2>0. Patched /\ Agree /\ Drafted /\ ShortcutKept BY <1>16 DEF KeptInvariant
  <2>1. UnderWay("changed") BY <1>2 DEF UnderWay
  <2>2. Patched'
    <3>1. request.kind # "patch" /\ saving # "confirm" BY <1>2, <2>0, <2>1 DEF Patched
    <3>2. ASSUME saving = "patch", NEW i \in 1 .. Len(toDialog'), toDialog'[i].kind = "answer"
          PROVE  /\ ~Followed(toDialog', i) /\ toDialog'[i].ok
                 /\ \A f \in DOMAIN submitted : saved[f] = submitted[f]
      <4>1. i + 1 \in 1 .. Len(toDialog) /\ toDialog'[i] = toDialog[i + 1] BY <1>2
      <4> QED BY <1>2, <2>0, <2>1, <3>2, <4>1 DEF Patched
    <3> QED BY <1>1, <2>0, <3>1, <3>2 DEF Patched
  <2>3. Agree' BY <1>0, <1>1, <2>0, RestAgrees
  <2>4. Drafted'
    <3>1. CASE ~open BY <1>1, <1>8, <2>0, <3>1 DEF Drafted
    <3>2. CASE open
      <4> SUFFICES ASSUME NEW f \in Mine, wanted[f] # Nothing
                   PROVE  /\ f \in DOMAIN dirty' => Switch(dirty'[f]) = wanted[f]
                          /\ f \notin DOMAIN dirty' => Switch(saved[f]) = wanted[f]
                          /\ f \in DOMAIN dirty' => dirty'[f] # persisted'[f]
        BY <1>1 DEF Drafted
      <4>1. s[f] = saved[f] BY <1>2, <1>3, <2>0 DEF Agree
      <4>2. /\ f \in DOMAIN draft => Switch(draft[f]) = wanted[f]
            /\ f \notin DOMAIN draft => Switch(saved[f]) = wanted[f]
        BY <1>4, <2>0 DEF Drafted
      <4>3. f \in DOMAIN draft /\ f \notin DOMAIN left => draft[f] = saved[f] BY <1>5, <4>1
      <4> QED BY <1>5, <1>6, <3>2, <4>2, <4>3
    <3> QED BY <3>1, <3>2
  <2>5. ShortcutKept'
    <3>1. ASSUME NEW i \in 1 .. Len(toDialog), toDialog[i].kind = "answer", ~toDialog[i].ok
          PROVE  \E j \in 1 .. Len(toDialog') : toDialog'[j].kind = "answer" /\ ~toDialog'[j].ok
      BY <1>2, <3>1
    <3> QED BY <1>1, <2>0, <3>1 DEF ShortcutKept
  <2> QED BY <2>2, <2>3, <2>4, <2>5 DEF KeptInvariant
<1> QED BY <1>10, <1>11, <1>12, <1>13, <1>14, <1>15, <1>16 DEF DraftInvariant, CopyInvariant

\* The answer to the first load counts when nothing was announced: nothing is drafted yet.
LEMMA InitialLemma ==
  ASSUME DraftInvariant, DeliverInitial
  PROVE  DraftInvariant'
<1> DEFINE m == Head(toDialog)
<1>0. TypeOK /\ Shape /\ OneAsked /\ LastIsSaved /\ CopyIsSaved /\ OnlyTouched
  BY DEF DraftInvariant, CopyInvariant
<1>1. /\ Takes("initial")
      /\ IF ~pushed /\ m.ok THEN applyPersistedSettings(m.settings)
         ELSE UNCHANGED <<persisted, dirty, settings>>
      /\ UNCHANGED <<saved, effective, request, open, pushed, submitted, saving, status, wanted, touched, edits, others>>
  BY DEF DeliverInitial
<1>2. /\ toDialog' \in Seq(Messages) /\ m \in Messages /\ m.kind = "initial" /\ toDialog # <<>>
      /\ \A i \in 1 .. Len(toDialog') : i + 1 \in 1 .. Len(toDialog) /\ toDialog'[i] = toDialog[i + 1]
      /\ \A i \in 1 .. Len(toDialog) :
           toDialog[i] = m \/ (i - 1 \in 1 .. Len(toDialog') /\ toDialog'[i - 1] = toDialog[i])
      /\ \A k : Has(toDialog, k) <=> Has(toDialog', k) \/ k = "initial"
      /\ Tells(toDialog, saved) => Tells(toDialog', saved) /\ (~Has(toDialog', "changed") => m.settings = saved)
      /\ Once(toDialog) => Once(toDialog') /\ ~Has(toDialog', "initial")
      /\ \A i \in 1 .. Len(toDialog') : Followed(toDialog', i) => Followed(toDialog, i + 1)
  BY <1>0, <1>1, Taken
<1> HIDE DEF m
<1>3. PICK s \in Settings : s = m.settings BY <1>2 DEF Messages
<1>4. open /\ request.kind # "get" /\ ~UnderWay("initial")' /\ (Loaded => pushed)
  BY <1>0, <1>2 DEF Shape, OneAsked, UnderWay
<1>5. PICK left \in Patches :
        left = settingsDraftComparedWithSaved(s, Empty, Nothing) /\ DOMAIN left \subseteq DOMAIN Empty
  BY EmptyPatch, ComparedPatch
<1>6. left = Empty BY <1>5, EmptyPatch, EmptyIsOnly
<1>7. Over(Empty, s) \in Settings /\ Over(Empty, s) # Empty /\ s # Empty
  <2>1. Over(Empty, s) \in Settings BY EmptyPatch, OverSettings
  <2> QED BY <2>1, SettingsLoaded
<1>8. /\ UNCHANGED dirty
      /\ \/ UNCHANGED <<persisted, settings>>
         \/ ~Loaded /\ dirty = Empty /\ persisted' = s /\ settings' = Over(Empty, s)
  <2>1. CASE ~pushed /\ m.ok
    <3>1. ~Loaded /\ dirty = Empty BY <1>0, <1>4, <2>1 DEF Shape
    <3> QED BY <1>1, <1>3, <1>5, <1>6, <2>1, <3>1 DEF applyPersistedSettings, settingsWithPendingDraft
  <2>2. CASE ~(~pushed /\ m.ok) BY <1>1, <2>2
  <2> QED BY <2>1, <2>2
<1>9. TypeOK'
  <2>1. settings' \in Settings \union {Empty} /\ persisted' \in Settings \union {Empty}
    BY <1>0, <1>7, <1>8 DEF TypeOK
  <2> QED BY <1>0, <1>1, <1>2, <1>8, <2>1 DEF TypeOK
<1>10. Shape' BY <1>0, <1>1, <1>4, <1>7, <1>8 DEF Shape, Loaded
<1>11. OneAsked' BY <1>0, <1>1, <1>2, <1>4 DEF OneAsked, UnderWay
<1>12. LastIsSaved' BY <1>0, <1>1, <1>2 DEF LastIsSaved
<1>13. CopyIsSaved' BY <1>0, <1>1, <1>2, <1>3, <1>8 DEF CopyIsSaved, LastIsSaved, Loaded, UnderWay
<1>14. OnlyTouched' BY <1>0, <1>1, <1>8 DEF OnlyTouched
<1>15. ASSUME KeptInvariant PROVE KeptInvariant'
  <2>0. Patched /\ Agree /\ Drafted /\ ShortcutKept BY <1>15 DEF KeptInvariant
  <2>1. Patched'
    <3>1. request.kind # "patch" BY <1>2, <2>0 DEF Patched
    <3>2. ASSUME saving = "patch", NEW i \in 1 .. Len(toDialog'), toDialog'[i].kind = "answer"
          PROVE  /\ ~Followed(toDialog', i)
                 /\ IF toDialog'[i].ok THEN \A f \in DOMAIN submitted : saved[f] = submitted[f]
                    ELSE ~UnderWay("changed")
      <4>1. i + 1 \in 1 .. Len(toDialog) /\ toDialog'[i] = toDialog[i + 1] BY <1>2
      <4> QED BY <1>2, <2>0, <3>2, <4>1 DEF Patched
    <3>3. UnderWay("changed")' <=> UnderWay("changed") BY <1>2 DEF UnderWay
    <3> QED BY <1>1, <1>8, <2>0, <3>1, <3>2, <3>3 DEF Patched
  <2>2. Agree' BY <1>0, <1>1, <2>0, RestAgrees
  <2>3. Drafted'
    <3>1. CASE UNCHANGED persisted BY <1>1, <1>8, <2>0, <3>1 DEF Drafted
    <3>2. CASE dirty = Empty
      <4>1. DOMAIN dirty = {} BY <3>2, EmptyPatch
      <4> QED BY <1>1, <1>8, <2>0, <4>1 DEF Drafted
    <3> QED BY <1>8, <3>1, <3>2
  <2>4. ShortcutKept'
    <3>1. ASSUME NEW i \in 1 .. Len(toDialog), toDialog[i].kind = "answer", ~toDialog[i].ok
          PROVE  \E j \in 1 .. Len(toDialog') : toDialog'[j].kind = "answer" /\ ~toDialog'[j].ok
      BY <1>2, <3>1
    <3> QED BY <1>1, <2>0, <3>1 DEF ShortcutKept
  <2> QED BY <2>1, <2>2, <2>3, <2>4 DEF KeptInvariant
<1> QED BY <1>9, <1>10, <1>11, <1>12, <1>13, <1>14, <1>15 DEF DraftInvariant, CopyInvariant

LEMMA UnheardLemma ==
  ASSUME DraftInvariant, DeliverUnheard
  PROVE  DraftInvariant'
<1>0. TypeOK /\ Shape /\ OneAsked /\ LastIsSaved /\ CopyIsSaved /\ OnlyTouched
  BY DEF DraftInvariant, CopyInvariant
<1>1. /\ Takes("unheard")
      /\ UNCHANGED <<saved, effective, request, open, pushed, settings, persisted, dirty, submitted, saving, status,
                     wanted, touched, edits, others>>
  BY DEF DeliverUnheard, dialog
<1>2. /\ toDialog' \in Seq(Messages) /\ toDialog # <<>>
      /\ \A i \in 1 .. Len(toDialog') : i + 1 \in 1 .. Len(toDialog) /\ toDialog'[i] = toDialog[i + 1]
      /\ \A i \in 1 .. Len(toDialog) :
           toDialog[i].kind = "unheard" \/ (i - 1 \in 1 .. Len(toDialog') /\ toDialog'[i - 1] = toDialog[i])
      /\ \A k : Has(toDialog, k) <=> Has(toDialog', k) \/ k = "unheard"
      /\ Tells(toDialog, saved) => Tells(toDialog', saved)
      /\ Once(toDialog) => Once(toDialog')
      /\ \A i \in 1 .. Len(toDialog') : Followed(toDialog', i) => Followed(toDialog, i + 1)
  BY <1>0, <1>1, Taken
<1>3. TypeOK' BY <1>0, <1>1, <1>2 DEF TypeOK
<1>4. Shape' BY <1>0, <1>1, <1>2 DEF Shape, Loaded, UnderWay
<1>5. OneAsked' BY <1>0, <1>1, <1>2 DEF OneAsked, Loaded, UnderWay
<1>6. LastIsSaved' /\ CopyIsSaved' BY <1>0, <1>1, <1>2 DEF LastIsSaved, CopyIsSaved, Loaded, UnderWay
<1>7. OnlyTouched' BY <1>0, <1>1 DEF OnlyTouched
<1>8. ASSUME KeptInvariant PROVE KeptInvariant'
  <2>0. Patched /\ Agree /\ Drafted /\ ShortcutKept BY <1>8 DEF KeptInvariant
  <2>1. Patched'
    <3>1. request.kind # "patch" BY <1>2, <2>0 DEF Patched
    <3>2. UnderWay("changed")' <=> UnderWay("changed") BY <1>2 DEF UnderWay
    <3>3. ASSUME saving = "patch", NEW i \in 1 .. Len(toDialog'), toDialog'[i].kind = "answer"
          PROVE  /\ ~Followed(toDialog', i)
                 /\ IF toDialog'[i].ok THEN \A f \in DOMAIN submitted : saved[f] = submitted[f]
                    ELSE ~UnderWay("changed")
      <4>1. i + 1 \in 1 .. Len(toDialog) /\ toDialog'[i] = toDialog[i + 1] BY <1>2
      <4> QED BY <1>2, <2>0, <3>3, <4>1 DEF Patched
    <3> QED BY <1>1, <2>0, <3>1, <3>2, <3>3 DEF Patched
  <2>2. Agree' BY <1>0, <1>1, <2>0, RestAgrees
  <2>3. Drafted' BY <1>1, <2>0 DEF Drafted
  <2>4. ShortcutKept'
    <3>1. ASSUME NEW i \in 1 .. Len(toDialog), toDialog[i].kind = "answer", ~toDialog[i].ok
          PROVE  \E j \in 1 .. Len(toDialog') : toDialog'[j].kind = "answer" /\ ~toDialog'[j].ok
      BY <1>2, <3>1
    <3> QED BY <1>1, <2>0, <3>1 DEF ShortcutKept
  <2> QED BY <2>1, <2>2, <2>3, <2>4 DEF KeptInvariant
<1> QED BY <1>3, <1>4, <1>5, <1>6, <1>7, <1>8 DEF DraftInvariant, CopyInvariant

\* What a saved patch leaves of the draft: what was not sent, or edited since, and is not saved anyway.
LEMMA SavesDef ==
  ASSUME NEW s \in Settings, dirty \in Patches, submitted \in Patches, Saves(s)
  PROVE  /\ persisted' = s /\ dirty' \in Patches /\ settings' = Over(dirty', s)
         /\ DOMAIN dirty' \subseteq DOMAIN dirty /\ \A f \in DOMAIN dirty' : dirty'[f] = dirty[f] /\ dirty'[f] # s[f]
         /\ \A f \in DOMAIN dirty \ DOMAIN dirty' : \/ f \in DOMAIN submitted /\ dirty[f] = submitted[f]
                                                    \/ dirty[f] = s[f]
<1>1. PICK draft \in Patches : draft = dirty OBVIOUS
<1>2. PICK sent \in Patches : sent = submitted OBVIOUS
<1>3. PICK left \in Patches :
        /\ left = pendingSettingsAfterSave(draft, sent) /\ \A f \in DOMAIN left : left[f] = draft[f]
        /\ DOMAIN left = {f \in DOMAIN draft : f \notin DOMAIN sent \/ draft[f] # sent[f]}
  <2>1. pendingSettingsAfterSave(draft, sent) \in Patches BY PendingPatch
  <2>2. DOMAIN pendingSettingsAfterSave(draft, sent) =
          {f \in DOMAIN draft : f \notin DOMAIN sent \/ draft[f] # sent[f]}
    BY PendingPatch
  <2>3. \A f \in DOMAIN pendingSettingsAfterSave(draft, sent) :
          pendingSettingsAfterSave(draft, sent)[f] = draft[f]
    BY PendingPatch
  <2> QED BY <2>1, <2>2, <2>3
<1>4. PICK rest \in Patches :
        /\ rest = settingsDraftComparedWithSaved(s, left, Nothing)
        /\ \A f \in DOMAIN rest : rest[f] = left[f]
        /\ DOMAIN rest \subseteq DOMAIN left
        /\ \A f \in DOMAIN left : left[f] # s[f] => f \in DOMAIN rest
        /\ \A f \in DOMAIN rest : rest[f] # s[f]
  BY ComparedPatch
<1>5. persisted' = s /\ dirty' = rest /\ settings' = Over(rest, s)
  BY <1>1, <1>2, <1>3, <1>4 DEF Saves, Adopt, settingsWithPendingDraft
<1>6. /\ DOMAIN rest \subseteq DOMAIN draft /\ \A f \in DOMAIN rest : rest[f] = draft[f] /\ rest[f] # s[f]
  BY <1>3, <1>4
<1>7. ASSUME NEW f \in DOMAIN draft, f \notin DOMAIN rest
      PROVE  (f \in DOMAIN sent /\ draft[f] = sent[f]) \/ draft[f] = s[f]
  BY <1>3, <1>4, <1>7
<1> QED BY <1>1, <1>2, <1>5, <1>6, <1>7

LEMMA AnswerLemma ==
  ASSUME DraftInvariant, DeliverAnswer
  PROVE  DraftInvariant'
<1> DEFINE m == Head(toDialog)
<1>0. TypeOK /\ Shape /\ OneAsked /\ LastIsSaved /\ CopyIsSaved /\ OnlyTouched
  BY DEF DraftInvariant, CopyInvariant
<1>1. /\ Takes("answer") /\ saving' = EndsSave(m.ok) /\ submitted' = IF saving' = "no" THEN Empty ELSE submitted
      /\ wanted' = IF m.ok \/ saving # "shortcut" THEN wanted ELSE [wanted EXCEPT !["shortcut"] = Nothing]
      /\ UNCHANGED <<saved, effective, request, open, pushed, status, touched, edits, others>>
  BY DEF DeliverAnswer
<1>2. /\ toDialog' \in Seq(Messages) /\ m \in Messages /\ m.kind = "answer" /\ toDialog # <<>>
      /\ 1 \in 1 .. Len(toDialog) /\ toDialog[1] = m
      /\ \A k : Has(toDialog, k) <=> Has(toDialog', k) \/ k = "answer"
      /\ Tells(toDialog, saved) => Tells(toDialog', saved) /\ (~Has(toDialog', "changed") => m.settings = saved)
      /\ Once(toDialog) => Once(toDialog') /\ ~Has(toDialog', "answer")
      /\ Has(toDialog', "changed") => Followed(toDialog, 1)
  BY <1>0, <1>1, Taken
<1>3. PICK s \in Settings : s = m.settings BY <1>2 DEF Messages
<1>4. /\ saving \in Waits /\ request = NoRequest /\ ~UnderWay("answer")' /\ Loaded /\ open /\ m.ok \in BOOLEAN
      /\ \A i \in 1 .. Len(toDialog) : toDialog[i].kind = "answer" => i = 1
  <2>1. UnderWay("answer") BY <1>2 DEF UnderWay
  <2>2. ~UnderWay("answer")' /\ \A i \in 1 .. Len(toDialog) : toDialog[i].kind = "answer" => i = 1
    BY <1>0, <1>2 DEF OneAsked, UnderWay, Once
  <2>3. saving \in Waits /\ request = NoRequest BY <1>0, <2>1 DEF OneAsked
  <2> QED BY <1>0, <1>2, <2>2, <2>3 DEF Shape, Waits, Messages
<1>5. \/ /\ m.ok /\ saving = "patch" /\ Saves(s)
      \/ /\ m.ok /\ saving = "shortcut" /\ Adopt(s, Without(dirty, {"shortcut"}))
      \/ /\ ~(m.ok /\ saving \in {"patch", "shortcut"}) /\ UNCHANGED <<persisted, dirty, settings>>
  BY <1>3 DEF DeliverAnswer
<1> HIDE DEF m
<1>6. /\ saving' \in {"no", "confirm"} /\ (saving' = "confirm" => saving = "patch" /\ m.ok)
      /\ submitted' = IF saving' = "no" THEN Empty ELSE submitted
  BY <1>1 DEF EndsSave
<1>7. dirty \in Patches /\ submitted \in Patches /\ "shortcut" \notin DOMAIN dirty BY <1>0 DEF TypeOK, Shape
<1>8. m.ok /\ saving = "shortcut" => persisted' = s /\ dirty' = dirty /\ settings' = Over(dirty, s)
  <2> SUFFICES ASSUME m.ok, saving = "shortcut"
               PROVE  persisted' = s /\ dirty' = dirty /\ settings' = Over(dirty, s)
    OBVIOUS
  <2>1. Without(dirty, {"shortcut"}) = dirty
    <3>1. DOMAIN dirty \ {"shortcut"} = DOMAIN dirty BY <1>7
    <3>2. dirty \in [DOMAIN dirty -> BOOLEAN] BY <1>7, PatchDef
    <3> QED BY <3>1, <3>2 DEF Without
  <2>2. Adopt(s, Without(dirty, {"shortcut"})) BY <1>5
  <2> QED BY <2>1, <2>2 DEF Adopt, settingsWithPendingDraft
<1>9. m.ok /\ saving = "patch" =>
        /\ persisted' = s /\ dirty' \in Patches /\ settings' = Over(dirty', s)
        /\ DOMAIN dirty' \subseteq DOMAIN dirty /\ \A f \in DOMAIN dirty' : dirty'[f] = dirty[f] /\ dirty'[f] # s[f]
        /\ \A f \in DOMAIN dirty \ DOMAIN dirty' : \/ f \in DOMAIN submitted /\ dirty[f] = submitted[f]
                                                   \/ dirty[f] = s[f]
  <2> SUFFICES ASSUME m.ok, saving = "patch"
               PROVE  /\ persisted' = s /\ dirty' \in Patches /\ settings' = Over(dirty', s)
                      /\ DOMAIN dirty' \subseteq DOMAIN dirty
                      /\ \A f \in DOMAIN dirty' : dirty'[f] = dirty[f] /\ dirty'[f] # s[f]
                      /\ \A f \in DOMAIN dirty \ DOMAIN dirty' :
                           \/ f \in DOMAIN submitted /\ dirty[f] = submitted[f]
                           \/ dirty[f] = s[f]
    OBVIOUS
  <2>1. Saves(s) BY <1>5
  <2> QED BY <1>7, <2>1, SavesDef
<1>10. ~(m.ok /\ saving \in {"patch", "shortcut"}) => UNCHANGED <<persisted, dirty, settings>> BY <1>5
<1>11. /\ \/ UNCHANGED <<persisted, dirty, settings>>
          \/ /\ persisted' = s /\ dirty' \in Patches /\ settings' = Over(dirty', s)
             /\ settings' \in Settings /\ settings' # Empty /\ s # Empty
       /\ dirty' \in Patches /\ DOMAIN dirty' \subseteq DOMAIN dirty
  <2>1. dirty' \in Patches => Over(dirty', s) \in Settings BY OverSettings
  <2>2. Over(dirty', s) \in Settings => Over(dirty', s) # Empty BY SettingsLoaded
  <2>3. s # Empty BY SettingsLoaded
  <2> QED BY <1>7, <1>8, <1>9, <1>10, <2>1, <2>2, <2>3
<1>12. TypeOK'
  <2>1. wanted' \in [Fields -> {"on", "off", Nothing}] BY <1>0, <1>1 DEF TypeOK
  <2>2. submitted' \in Patches BY <1>6, <1>7, EmptyPatch
  <2>3. settings' \in Settings \union {Empty} /\ persisted' \in Settings \union {Empty}
    BY <1>0, <1>11 DEF TypeOK
  <2> QED BY <1>0, <1>1, <1>2, <1>6, <1>11, <2>1, <2>2, <2>3 DEF TypeOK
<1>13. Shape' BY <1>0, <1>1, <1>4, <1>7, <1>11 DEF Shape, Loaded
<1>14. OneAsked'
  BY <1>0, <1>1, <1>2, <1>4, <1>6 DEF OneAsked, Loaded, UnderWay, Waits, NoRequest, Nothing
<1>15. LastIsSaved' BY <1>0, <1>1, <1>2 DEF LastIsSaved
<1>16. CopyIsSaved'
  BY <1>0, <1>1, <1>2, <1>3, <1>4, <1>11 DEF CopyIsSaved, LastIsSaved, Loaded, UnderWay
<1>17. OnlyTouched' BY <1>0, <1>1, <1>11 DEF OnlyTouched
<1>18. ASSUME KeptInvariant PROVE KeptInvariant'
  <2>0. Patched /\ Agree /\ Drafted /\ ShortcutKept BY <1>18 DEF KeptInvariant
  <2>1. saving = "patch" =>
          /\ ~UnderWay("changed")'
          /\ m.ok => \A f \in DOMAIN submitted : saved[f] = submitted[f]
          /\ ~m.ok => ~UnderWay("changed")
    BY <1>2, <2>0 DEF Patched, UnderWay
  <2>2. Patched'
    <3>1. submitted' # Empty <=> saving' = "confirm" BY <1>6, <2>0 DEF Patched
    <3>2. "shortcut" \notin DOMAIN submitted' BY <1>6, <2>0, EmptyPatch DEF Patched
    <3> QED BY <1>1, <1>4, <1>6, <2>1, <3>1, <3>2 DEF Patched, NoRequest, Nothing
  <2>3. Agree' BY <1>0, <1>1, <2>0, RestAgrees
  <2>4. Drafted'
    <3> SUFFICES ASSUME NEW f \in Mine, wanted'[f] # Nothing
                 PROVE  /\ f \in DOMAIN dirty' => Switch(dirty'[f]) = wanted'[f]
                        /\ f \notin DOMAIN dirty' => Switch(saved[f]) = wanted'[f]
                        /\ submitted' = Empty /\ f \in DOMAIN dirty' /\ dirty'[f] = persisted'[f] =>
                             saved[f] = dirty'[f]
      BY <1>1 DEF Drafted
    <3>1. wanted'[f] = wanted[f] BY <1>0, <1>1 DEF TypeOK, Mine
    <3>2. /\ f \in DOMAIN dirty => Switch(dirty[f]) = wanted[f]
          /\ f \notin DOMAIN dirty => Switch(saved[f]) = wanted[f]
          /\ submitted = Empty /\ f \in DOMAIN dirty /\ dirty[f] = persisted[f] => saved[f] = dirty[f]
      BY <2>0, <3>1 DEF Drafted
    <3>3. s[f] = saved[f] BY <1>2, <1>3, <2>0 DEF Agree
    <3>4. CASE m.ok /\ saving = "patch"
      <4>1. f \in DOMAIN dirty /\ f \notin DOMAIN dirty' => dirty[f] = saved[f]
        BY <1>9, <2>1, <3>3, <3>4
      <4>2. f \in DOMAIN dirty' => f \in DOMAIN dirty /\ dirty'[f] = dirty[f] /\ dirty'[f] # persisted'[f]
        BY <1>9, <3>4
      <4> QED BY <3>1, <3>2, <4>1, <4>2
    <3>5. CASE m.ok /\ saving = "shortcut" BY <1>8, <3>1, <3>2, <3>3, <3>5
    <3>6. CASE ~m.ok /\ saving = "patch"
      <4>1. persisted = saved BY <1>0, <1>4, <2>1, <3>6 DEF CopyIsSaved
      <4> QED BY <1>10, <3>1, <3>2, <3>6, <4>1
    <3>7. CASE saving # "patch" /\ ~(m.ok /\ saving = "shortcut")
      <4>1. submitted = Empty BY <1>4, <2>0, <3>7 DEF Patched, Waits
      <4> QED BY <1>10, <3>1, <3>2, <3>7, <4>1
    <3> QED BY <3>4, <3>5, <3>6, <3>7
  <2>5. ShortcutKept'
    <3>1. "shortcut" \in Fields /\ wanted \in [Fields -> {"on", "off", Nothing}]
      BY <1>0, DraftAssumption DEF TypeOK
    <3>2. CASE ~m.ok /\ saving = "shortcut"
      <4>1. wanted'["shortcut"] = Nothing BY <1>1, <3>1, <3>2
      <4> QED BY <4>1 DEF ShortcutKept
    <3>3. CASE m.ok \/ saving # "shortcut"
      <4>1. ~(saving = "shortcut" /\ \E i \in 1 .. Len(toDialog) : toDialog[i].kind = "answer" /\ ~toDialog[i].ok)
        BY <1>2, <1>4, <3>3
      <4> QED BY <1>1, <1>4, <2>0, <3>3, <4>1 DEF ShortcutKept, NoRequest, Nothing
    <3> QED BY <3>2, <3>3
  <2> QED BY <2>2, <2>3, <2>4, <2>5 DEF KeptInvariant
<1> QED BY <1>12, <1>13, <1>14, <1>15, <1>16, <1>17, <1>18 DEF DraftInvariant, CopyInvariant

\* The saved login item was looked at: no announcement is under way, and the copy is what is saved.
LEMMA ConfirmLemma ==
  ASSUME DraftInvariant, Confirm
  PROVE  DraftInvariant'
<1> USE DEF Confirm
<1>0. TypeOK /\ Shape /\ OneAsked /\ LastIsSaved /\ CopyIsSaved /\ OnlyTouched
  BY DEF DraftInvariant, CopyInvariant
<1>1. request = NoRequest /\ ~UnderWay("answer") /\ Loaded BY <1>0 DEF OneAsked, Shape, Waits
<1>2. TypeOK' BY <1>0, EmptyPatch DEF TypeOK, Switch
<1>3. Shape' BY <1>0, <1>1 DEF Shape, Loaded, UnderWay
<1>4. OneAsked' BY <1>0, <1>1 DEF OneAsked, Loaded, UnderWay, Waits, NoRequest, Nothing
<1>5. LastIsSaved' /\ CopyIsSaved' BY <1>0 DEF LastIsSaved, CopyIsSaved, Loaded, UnderWay
<1>6. OnlyTouched' BY <1>0 DEF OnlyTouched
<1>7. ASSUME KeptInvariant PROVE KeptInvariant'
  <2>0. Patched /\ Agree /\ Drafted /\ ShortcutKept BY <1>7 DEF KeptInvariant
  <2>1. Patched' BY <1>1, EmptyPatch DEF Patched, NoRequest, Nothing
  <2>2. Agree' BY <2>0 DEF Agree
  <2>3. persisted = saved BY <1>0, <1>1, <2>0 DEF CopyIsSaved, Patched
  <2>4. Drafted' BY <2>0, <2>3 DEF Drafted
  <2>5. ShortcutKept' BY <1>1, <2>0 DEF ShortcutKept, NoRequest, Nothing
  <2> QED BY <2>1, <2>2, <2>4, <2>5 DEF KeptInvariant
<1> QED BY <1>2, <1>3, <1>4, <1>5, <1>6, <1>7 DEF DraftInvariant, CopyInvariant

\* What only the state of the login item hears of.
LEMMA SystemLemma ==
  ASSUME DraftInvariant, SystemChanges \/ LaunchStatus \/ UNCHANGED vars
  PROVE  DraftInvariant'
<1>0. TypeOK /\ Shape /\ OneAsked /\ LastIsSaved /\ CopyIsSaved /\ OnlyTouched
  BY DEF DraftInvariant, CopyInvariant
<1>1. UNCHANGED <<saved, request, toDialog, open, pushed, settings, persisted, dirty, submitted, saving,
                  wanted, touched, edits>>
  BY DEF SystemChanges, LaunchStatus, vars, dialog
<1>2. effective' \in BOOLEAN /\ status' \in {"on", "off", Nothing} /\ others' \in 0 .. MaxOthers
  <2>1. CASE SystemChanges BY <1>0, <2>1, DraftAssumption DEF SystemChanges, TypeOK, dialog
  <2>2. CASE LaunchStatus BY <1>0, <2>2 DEF LaunchStatus, TypeOK, Switch
  <2>3. CASE UNCHANGED vars BY <1>0, <2>3 DEF vars, dialog, TypeOK
  <2> QED BY <2>1, <2>2, <2>3
<1>3. TypeOK' BY <1>0, <1>1, <1>2 DEF TypeOK
<1>4. Shape' BY <1>0, <1>1 DEF Shape, Loaded, UnderWay
<1>5. OneAsked' BY <1>0, <1>1 DEF OneAsked, Loaded, UnderWay
<1>6. LastIsSaved' /\ CopyIsSaved' /\ OnlyTouched'
  BY <1>0, <1>1 DEF LastIsSaved, CopyIsSaved, OnlyTouched, Loaded, UnderWay
<1>7. ASSUME KeptInvariant PROVE KeptInvariant'
  BY <1>1, <1>7 DEF KeptInvariant, Patched, Agree, Drafted, ShortcutKept, UnderWay
<1> QED BY <1>3, <1>4, <1>5, <1>6, <1>7 DEF DraftInvariant, CopyInvariant

-----------------------------------------------------------------------------
(* What the dialog promises *)

LEMMA DraftStep ==
  ASSUME DraftInvariant, [Next]_vars
  PROVE  DraftInvariant'
<1>1. CASE Open BY <1>1, OpenLemma
<1>2. CASE Close BY <1>2, CloseLemma
<1>3. CASE Save BY <1>3, SaveLemma
<1>4. CASE ResetSavedData BY <1>4, ResetLemma
<1>5. CASE \E f \in Fields, value \in BOOLEAN : Edit(f, value) BY <1>5, EditLemma
<1>6. CASE \E value \in BOOLEAN : CommitShortcut(value) BY <1>6, CommitShortcutLemma
<1>7. CASE MainAnswersGet BY <1>7, AnswersGetLemma
<1>8. CASE MainSaves BY <1>8, SavesLemma
<1>9. CASE MainRefuses BY <1>9, RefusesLemma
<1>10. CASE \E f \in Fields, value \in BOOLEAN : OtherSurface(f, value) BY <1>10, OtherSurfaceLemma
<1>11. CASE DeliverChanged BY <1>11, ChangedLemma
<1>12. CASE DeliverInitial BY <1>12, InitialLemma
<1>13. CASE DeliverUnheard BY <1>13, UnheardLemma
<1>14. CASE DeliverAnswer BY <1>14, AnswerLemma
<1>15. CASE Confirm BY <1>15, ConfirmLemma
<1>16. CASE SystemChanges \/ LaunchStatus \/ UNCHANGED vars BY <1>16, SystemLemma
<1> QED BY <1>1, <1>2, <1>3, <1>4, <1>5, <1>6, <1>7, <1>8, <1>9, <1>10, <1>11, <1>12, <1>13, <1>14, <1>15, <1>16
        DEF Next, User, Main, Others, Arrives

\* The dialog and the main process keep DraftInvariant (StyleSettings.tsx, main.ts).
THEOREM DraftInvariantHolds == Spec => []DraftInvariant
<1>1. Init => DraftInvariant BY InitLemma
<1>2. DraftInvariant /\ [Next]_vars => DraftInvariant' BY DraftStep
<1> QED BY <1>1, <1>2, PTL DEF Spec

\* No older copy of the settings comes back to the screen, and, where no other surface saves during
\* a save of the dialog, the last edit of every setting is saved or still waits.
THEOREM DialogStaysTrue == Spec => []DialogIsTrue
<1>1. DraftInvariant => DialogIsTrue
  <2> SUFFICES ASSUME DraftInvariant PROVE DialogIsTrue OBVIOUS
  <2>0. TypeOK /\ Shape /\ OneAsked /\ CopyIsSaved BY DEF DraftInvariant, CopyInvariant
  <2>1. Settled => ~UnderWay("changed") /\ Len(toDialog) = 0 BY DEF Settled, UnderWay, Has
  <2>2. NoStaleCopy BY <2>0, <2>1 DEF NoStaleCopy, Settled, Shape, CopyIsSaved
  <2>3. ASSUME ~Racing, Settled, NEW f \in Fields
        PROVE  wanted[f] = Nothing \/ Switch(saved[f]) = wanted[f]
                 \/ (f \in DOMAIN dirty /\ Switch(dirty[f]) = wanted[f])
    <3>1. Drafted /\ ShortcutKept BY <2>3 DEF DraftInvariant, KeptInvariant
    <3>2. CASE f \in Mine BY <3>1, <3>2 DEF Drafted
    <3>3. CASE f = "shortcut"
      <4>1. saving = "no" /\ request.kind # "shortcut" BY <2>0, <2>3, Asked DEF Settled, Waits
      <4> QED BY <3>1, <3>3, <4>1 DEF ShortcutKept
    <3> QED BY <3>2, <3>3 DEF Mine
  <2> QED BY <2>0, <2>2, <2>3 DEF DialogIsTrue, LastEditIsKept
<1> QED BY <1>1, DraftInvariantHolds, PTL

\* A save of the dialog changes only what the user edited in it (savePatch of StyleSettings.tsx).
THEOREM OnlyEditsAreSaved == Spec => [][SavesOnlyEdits]_vars
<1>1. ASSUME DraftInvariant, [Next]_vars PROVE SavesOnlyEdits
  <2> SUFFICES ASSUME saved' # saved, request # request', NEW f \in Fields, saved'[f] # saved[f]
               PROVE  f \in touched
    BY DEF SavesOnlyEdits
  <2>0. TypeOK /\ OnlyTouched BY <1>1 DEF DraftInvariant, CopyInvariant
  <2>1. MainSaves
    BY <1>1 DEF Next, vars, dialog, User, Main, Others, Arrives, Open, Close, Save, ResetSavedData, Edit,
                CommitShortcut, MainAnswersGet, MainRefuses, SystemChanges, OtherSurface, DeliverChanged,
                DeliverInitial, DeliverUnheard, DeliverAnswer, Confirm, LaunchStatus
  <2>2. saved' = Over(request.patch, saved) /\ saved \in Settings /\ request.patch \in Patches
    BY <2>0, <2>1, EmptyPatch DEF MainSaves, TypeOK, Requests
  <2>3. saved'[f] = IF f \in DOMAIN request.patch THEN request.patch[f] ELSE saved[f]
    BY <2>2, OverSettings
  <2> QED BY <2>0, <2>3 DEF OnlyTouched
<1> QED BY <1>1, DraftInvariantHolds, PTL DEF Spec

\* What another surface saves leaves the edits of the user on the screen.
THEOREM EditsStayOnScreen == Spec => [][DraftStays]_vars
<1>1. ASSUME DraftInvariant, [Next]_vars PROVE DraftStays
  <2> SUFFICES ASSUME DeliverChanged, open, NEW f \in DOMAIN dirty \ {"launch"}
               PROVE  Shown(f)' = Shown(f)
    BY DEF DraftStays
  <2>0. TypeOK /\ Shape BY <1>1 DEF DraftInvariant, CopyInvariant
  <2>1. PICK draft \in Patches : draft = dirty BY <2>0 DEF TypeOK
  <2>2. f \in Fields /\ f \in DOMAIN draft BY <2>1, PatchDef
  <2>3. PICK s \in Settings : applyPersistedSettings(s)
    <3>1. Head(toDialog) \in Messages BY <2>0, Taken DEF DeliverChanged
    <3> QED BY <3>1 DEF DeliverChanged, Messages
  <2>4. settings' = Over(draft, s)
    <3>1. Over(settingsDraftComparedWithSaved(s, draft, Nothing), s) = Over(draft, s) BY ComparedPatch
    <3> QED BY <2>1, <2>3, <3>1 DEF applyPersistedSettings, settingsWithPendingDraft
  <2>5. settings'[f] = dirty[f] BY <2>1, <2>2, <2>4, OverSettings
  <2>6. Loaded /\ settings = Over(dirty, persisted) /\ persisted \in Settings
    <3>1. DOMAIN dirty # {} BY <2>1, <2>2
    <3> QED BY <2>0, <3>1, EmptyPatch DEF Shape, TypeOK, Loaded
  <2>7. settings[f] = dirty[f] BY <2>1, <2>2, <2>6, OverSettings
  <2> QED BY <2>5, <2>7 DEF Shown
<1> QED BY <1>1, DraftInvariantHolds, PTL DEF Spec

-----------------------------------------------------------------------------
(***************************************************************************)
(* The Models page (ModelScreen), an instance because its variables are    *)
(* its own.  PageInvariant is inductive for every set of models, of        *)
(* languages and of slots, and every number of presses and moves.          *)
(***************************************************************************)
CONSTANTS Families, Languages, LanguagesOf, ModesOf, Slots, MaxPresses, MaxMoves
VARIABLES disk, library, selection, loaded, language, page, mounts, catalog, catalogError, first, draft, busy,
  painted, stopping, feedback, call, screenDialog, frozen, consented, doubt, presses, moves

Page == INSTANCE ModelScreen WITH dialog <- screenDialog

Calls == [kind : Page!Kinds \union {"all"}, page : Nat, asks : Page!Selections, doubts : SUBSET Families,
          todo : Seq(Page!Steps), family : Families, at : {"asked", "reading"}]

Typed ==
  /\ disk \in [Families -> Page!Status] /\ library \subseteq Families
  /\ selection \in Page!Selections /\ loaded \in BOOLEAN /\ language \in Languages
  /\ mounts \in Nat /\ page \in 0..mounts /\ catalog \in Page!Catalogs \union {Page!NoCatalog}
  /\ catalogError \in BOOLEAN /\ first \in {"asked", Page!Nothing}
  /\ draft \in Page!Selections \union {Page!NoDraft}
  /\ busy \in BOOLEAN /\ painted \in BOOLEAN /\ stopping \in BOOLEAN
  /\ feedback \in {"none", "done", "failed", "stopped", "all"}
  /\ call \in [Slots -> Calls \union {Page!NoCall}]
  /\ screenDialog \in {"closed", "open", "dirty", "saving"} /\ frozen \in BOOLEAN /\ consented \in BOOLEAN
  /\ doubt \subseteq Families /\ presses \in 0..MaxPresses /\ moves \in 0..MaxMoves

Running(c) == call[c].at # Page!Nothing

\* One operation runs, on the page that is mounted, and everything that could take that page
\* away finds it busy.
OnePage ==
  /\ \A c, d \in Slots : Running(c) /\ Running(d) => c = d
  /\ \A c \in Slots : Running(c) => call[c].page = page /\ busy /\ page # 0
  /\ page = 0 \/ screenDialog # "closed" \/ frozen => ~busy
  /\ page = 0 => catalog = Page!NoCatalog /\ draft = Page!NoDraft /\ first = Page!Nothing

\* Before the first reading of the catalog is answered nothing can be pressed but Refresh.
FirstRead ==
  first = "asked" => /\ catalog = Page!NoCatalog
                     /\ \A c \in Slots : Running(c) => call[c].kind = "refresh" /\ call[c].at = "reading"

\* The dialog opens over a draft only with the user's consent to lose it.
Consent == screenDialog # "closed" /\ draft # Page!NoDraft => consented

\* The catalog is out of date only between an operation and the reading that ends it.
Agrees == catalog.library = library /\ \A f \in Families \ doubt : catalog.disk[f] = disk[f]
Told ==
  catalog # Page!NoCatalog /\ (\A c \in Slots : Running(c) => call[c].at = "asked" /\ call[c].kind # "all") => Agrees

Fits == \A c \in Slots : Running(c) /\ call[c].kind = "apply" => Page!Accepts(call[c].asks) \/ call[c].asks.family \in doubt

\* What Download all has not done is in its list.
ToAdd(todo) == \A f \in Families \ library : \E i \in DOMAIN todo : todo[i] = [kind |-> "add", family |-> f]
ToFetch(todo, doubts) ==
  \A f \in Families \ doubts : disk[f] # "verified" => \E i \in DOMAIN todo : todo[i].kind # "add" /\ todo[i].family = f
Remaining ==
  \A c \in Slots : Running(c) /\ call[c].kind = "all" =>
    /\ call[c].at = "asked" => call[c].todo # <<>>
    /\ ToAdd(call[c].todo) /\ ToFetch(call[c].todo, call[c].doubts)

PageInvariant == Typed /\ OnePage /\ FirstRead /\ Consent /\ Told /\ Fits /\ Remaining
-----------------------------------------------------------------------------
LEMMA RunningCalls ==
  ASSUME Typed, NEW c \in Slots
  PROVE  /\ Running(c) <=> call[c] \in Calls
         /\ ~Running(c) <=> call[c] = Page!NoCall
         /\ Running(c) <=> Page!Running(c)
         /\ Running(c) => call[c].at \in {"asked", "reading"}
<1>1. \A one \in Calls : one.at \in {"asked", "reading"} BY DEF Calls
<1>2. Page!NoCall.at = Page!Nothing /\ Page!Nothing \notin {"asked", "reading"} BY DEF Page!NoCall, Page!Nothing
<1>3. call[c] \in Calls \/ call[c] = Page!NoCall BY DEF Typed
<1> QED BY <1>1, <1>2, <1>3 DEF Running, Page!Running

LEMMA PageStarts == ASSUME Page!ScreenAssumption, Page!Init PROVE PageInvariant
<1> USE DEF Page!Init
<1>1. Typed
  <2>1. MaxPresses \in Nat /\ MaxMoves \in Nat BY DEF Page!ScreenAssumption
  <2>2. selection \in Page!Selections /\ library \subseteq Families OBVIOUS
  <2>3. call \in [Slots -> Calls \union {Page!NoCall}] OBVIOUS
  <2>4. 0 \in 0..0 /\ 0 \in 0..MaxPresses /\ 0 \in 0..MaxMoves BY <2>1
  <2> QED BY <2>2, <2>3, <2>4 DEF Typed
<1>2. \A c \in Slots : ~Running(c) BY DEF Running, Page!NoCall
<1> QED BY <1>1, <1>2 DEF PageInvariant, OnePage, FirstRead, Consent, Told, Fits, Remaining, Page!Nothing

\* What a press lists: every family of the set, in some order.
LEMMA OrderedHasAll ==
  ASSUME Page!ScreenAssumption, NEW F \in SUBSET Families
  PROVE  /\ Page!Ordered(F) \in Seq(F) /\ Len(Page!Ordered(F)) = Page!Cardinality(F) /\ Page!Cardinality(F) \in Nat
         /\ \A f \in F : \E i \in 1..Len(Page!Ordered(F)) : Page!Ordered(F)[i] = f
<1>1. IsFiniteSet(F)
  <2>1. Page!IsFiniteSet(Families) BY DEF Page!ScreenAssumption
  <2>2. IsFiniteSet(Families) BY <2>1 DEF Page!IsFiniteSet, IsFiniteSet
  <2> QED BY <2>2, FS_Subset
<1>2. Page!Cardinality(F) = Cardinality(F) BY DEF Page!Cardinality, Cardinality
<1>3. Cardinality(F) \in Nat BY <1>1, FS_CardinalityType
<1>4. \E f : f \in [1..Cardinality(F) -> F] /\ Page!IsInjective(f)
  <2>1. PICK f \in Bijection(1..Cardinality(F), F) : TRUE BY <1>1, FS_CardinalityType DEF ExistsBijection
  <2> QED BY <2>1 DEF Bijection, Injection, Page!IsInjective, IsInjective
<1>5. Page!Ordered(F) \in [1..Cardinality(F) -> F] /\ Page!IsInjective(Page!Ordered(F))
  BY <1>2, <1>4 DEF Page!Ordered, Page!SetToSeq
<1> DEFINE o == Page!Ordered(F)
<1> HIDE DEF o
<1>6. o \in [1..Cardinality(F) -> F] /\ o \in Seq(F) /\ Len(o) = Cardinality(F) BY <1>3, <1>5 DEF o
<1>7. o \in Surjection(1..Cardinality(F), F)
  <2>1. o \in Injection(1..Cardinality(F), F) BY <1>5, <1>6 DEF o, Injection, Page!IsInjective, IsInjective
  <2>2. IsFiniteSet(1..Cardinality(F)) /\ Cardinality(1..Cardinality(F)) = Cardinality(F)
    BY <1>3, FS_Interval
  <2> QED BY <1>1, <2>1, <2>2, FS_Injection
<1>8. \A f \in F : \E i \in 1..Len(o) : o[i] = f BY <1>6, <1>7 DEF Surjection
<1> QED BY <1>2, <1>3, <1>6, <1>8 DEF o

-----------------------------------------------------------------------------
(* The steps *)

LEMMA PageFacts ==
  /\ Page!Kinds = {"install", "repair", "remove", "add", "refresh", "apply"}
  /\ Page!Steps = [kind : {"install", "repair", "add"}, family : Families]
  /\ Page!Selections = {s \in [family : Families, mode : Page!Modes] : s.mode \in ModesOf[s.family]}
  /\ Page!Nothing = "nothing" /\ Page!NoCall.at = "nothing"
  /\ Page!Present = [disk |-> disk, library |-> library]
BY DEF Page!Kinds, Page!Steps, Page!Selections, Page!Nothing, Page!NoCall, Page!Present

\* What was told of is what there is.
LEMMA PresentAgrees ==
  ASSUME catalog' = Page!Present' PROVE Agrees'
<1>1. catalog'.disk = disk' /\ catalog'.library = library' BY PageFacts DEF Page!Present
<1> QED BY <1>1 DEF Agrees

LEMMA PresentIsCatalog ==
  ASSUME disk \in [Families -> Page!Status], library \subseteq Families PROVE Page!Present \in Page!Catalogs
BY DEF Page!Present, Page!Catalogs

\* When nothing runs afterwards.
LEMMA AtRest ==
  ASSUME PageInvariant, Typed', \A c \in Slots : ~Running(c)', busy' = FALSE,
         page' = 0 => catalog' = Page!NoCatalog /\ draft' = Page!NoDraft /\ first' = Page!Nothing,
         first' = "asked" => catalog' = Page!NoCatalog,
         Consent', catalog' # Page!NoCatalog => Agrees'
  PROVE  PageInvariant'
BY DEF PageInvariant, OnePage, FirstRead, Told, Fits, Remaining

\* The operation that runs ends.
LEMMA EndsAll ==
  ASSUME PageInvariant, NEW c \in Slots, Running(c), NEW line, Page!Ends(c, line)
  PROVE  /\ \A d \in Slots : ~Running(d)'
         /\ busy' = FALSE /\ feedback' = line /\ page # 0
         /\ call' \in [Slots -> Calls \union {Page!NoCall}]
<1>1. call[c].page = page /\ page # 0 /\ \A d \in Slots : Running(d) => d = c
  BY DEF PageInvariant, OnePage
<1>2. call' = [call EXCEPT ![c] = Page!NoCall] /\ busy' = FALSE /\ feedback' = line
  BY <1>1 DEF Page!Ends, Page!Here
<1>3. call \in [Slots -> Calls \union {Page!NoCall}] BY DEF PageInvariant, Typed
<1>4. ASSUME NEW d \in Slots PROVE ~Running(d)'
  <2>1. CASE d = c BY <1>2, <1>3, <2>1, PageFacts DEF Running
  <2>2. CASE d # c BY <1>1, <1>2, <1>3, <2>2 DEF Running
  <2> QED BY <2>1, <2>2
<1> QED BY <1>1, <1>2, <1>3, <1>4

LEMMA Listed ==
  ASSUME NEW S, NEW n \in Nat, NEW f \in [1..n -> S]
  PROVE  f \in Seq(S) /\ Len(f) = n /\ DOMAIN f = 1..n /\ \A i \in 1..n : f[i] \in S
OBVIOUS

LEMMA Joined ==
  ASSUME NEW S, NEW s \in Seq(S), NEW t \in Seq(S)
  PROVE  /\ s \o t \in Seq(S) /\ DOMAIN (s \o t) = 1..(Len(s) + Len(t)) /\ Len(s \o t) = Len(s) + Len(t)
         /\ Len(s) \in Nat /\ Len(t) \in Nat
         /\ \A i \in 1..Len(s) : (s \o t)[i] = s[i] /\ i \in 1..(Len(s) + Len(t))
         /\ \A i \in 1..Len(t) : (s \o t)[Len(s) + i] = t[i] /\ Len(s) + i \in 1..(Len(s) + Len(t))
<1>1. Len(s) \in Nat /\ Len(t) \in Nat /\ s \o t \in Seq(S) /\ Len(s \o t) = Len(s) + Len(t) OBVIOUS
<1>2. \A i \in 1..Len(s) : (s \o t)[i] = s[i] OBVIOUS
<1>3. \A i \in 1..Len(t) : (s \o t)[Len(s) + i] = t[i] OBVIOUS
<1>4. DOMAIN (s \o t) = 1..(Len(s) + Len(t)) BY <1>1
<1>5. \A i \in 1..Len(s) : i \in 1..(Len(s) + Len(t)) BY <1>1
<1>6. \A i \in 1..Len(t) : Len(s) + i \in 1..(Len(s) + Len(t)) BY <1>1
<1> QED BY <1>1, <1>2, <1>3, <1>4, <1>5, <1>6

\* What Download all does first.
LEMMA NeededIsAll ==
  ASSUME Page!ScreenAssumption, Typed, catalog # Page!NoCatalog
  PROVE  /\ Page!Needed \in Seq(Page!Steps)
         /\ Agrees => ToAdd(Page!Needed) /\ ToFetch(Page!Needed, doubt)
         /\ ~(Page!AllDownloaded /\ Page!AllInLibrary) => Page!Needed # <<>>
<1> DEFINE A == Families \ catalog.library
           B == {f \in Families : catalog.disk[f] # "verified"}
           a == Page!Ordered(A)
           b == Page!Ordered(B)
           adds == [i \in 1..Page!Cardinality(A) |-> [kind |-> "add", family |-> a[i]]]
           gets == [i \in DOMAIN b |-> [kind |-> IF catalog.disk[b[i]] = "invalid" THEN "repair" ELSE "install",
                                        family |-> b[i]]]
<1>1. catalog \in Page!Catalogs /\ catalog.library \subseteq Families BY DEF Typed, Page!Catalogs
<1>2. Page!Needed = adds \o gets BY DEF Page!Needed
<1>3. /\ a \in Seq(A) /\ Len(a) = Page!Cardinality(A) /\ Page!Cardinality(A) \in Nat
      /\ \A f \in A : \E i \in 1..Len(a) : a[i] = f
  BY OrderedHasAll
<1>4. /\ b \in Seq(B) /\ Len(b) = Page!Cardinality(B) /\ Page!Cardinality(B) \in Nat
      /\ \A f \in B : \E i \in 1..Len(b) : b[i] = f
  BY OrderedHasAll
<1> HIDE DEF a, b
<1>5. \A i \in 1..Len(a) : a[i] \in A BY <1>3
<1>6. \A i \in 1..Len(b) : b[i] \in B /\ DOMAIN b = 1..Len(b) BY <1>4
<1>7. adds \in Seq(Page!Steps) /\ Len(adds) = Len(a)
      /\ \A i \in 1..Len(a) : adds[i] = [kind |-> "add", family |-> a[i]]
  <2>1. \A i \in 1..Len(a) : [kind |-> "add", family |-> a[i]] \in Page!Steps BY <1>5, PageFacts
  <2>2. adds \in [1..Len(a) -> Page!Steps] BY <1>3, <2>1
  <2>3. \A i \in 1..Len(a) : adds[i] = [kind |-> "add", family |-> a[i]] BY <1>3
  <2> HIDE DEF adds
  <2> QED BY <1>3, <2>2, <2>3, Listed
<1>8. gets \in Seq(Page!Steps) /\ Len(gets) = Len(b)
      /\ \A i \in 1..Len(b) : gets[i].kind # "add" /\ gets[i].family = b[i]
  <2>1. DOMAIN b = 1..Len(b) BY <1>4
  <2>2. \A i \in 1..Len(b) :
          [kind |-> IF catalog.disk[b[i]] = "invalid" THEN "repair" ELSE "install", family |-> b[i]] \in Page!Steps
    BY <1>6, PageFacts
  <2>3. gets \in [1..Len(b) -> Page!Steps] BY <2>1, <2>2
  <2>4. \A i \in 1..Len(b) : gets[i] =
          [kind |-> IF catalog.disk[b[i]] = "invalid" THEN "repair" ELSE "install", family |-> b[i]]
    BY <2>1
  <2>5. \A i \in 1..Len(b) : gets[i].kind # "add" /\ gets[i].family = b[i] BY <2>4
  <2> HIDE DEF gets
  <2> QED BY <1>4, <2>3, <2>5, Listed
<1> HIDE DEF adds, gets
<1>9. /\ adds \o gets \in Seq(Page!Steps) /\ Len(adds \o gets) = Len(a) + Len(b)
      /\ DOMAIN (adds \o gets) = 1..(Len(a) + Len(b))
      /\ \A i \in 1..Len(a) : (adds \o gets)[i] = adds[i] /\ i \in 1..(Len(a) + Len(b))
      /\ \A i \in 1..Len(b) : (adds \o gets)[Len(a) + i] = gets[i] /\ Len(a) + i \in 1..(Len(a) + Len(b))
  <2>1. adds \in Seq(Page!Steps) /\ gets \in Seq(Page!Steps) /\ Len(adds) = Len(a) /\ Len(gets) = Len(b)
    BY <1>7, <1>8
  <2>2. /\ adds \o gets \in Seq(Page!Steps) /\ DOMAIN (adds \o gets) = 1..(Len(adds) + Len(gets))
        /\ Len(adds \o gets) = Len(adds) + Len(gets)
        /\ \A i \in 1..Len(adds) : (adds \o gets)[i] = adds[i] /\ i \in 1..(Len(adds) + Len(gets))
        /\ \A i \in 1..Len(gets) : /\ (adds \o gets)[Len(adds) + i] = gets[i]
                                   /\ Len(adds) + i \in 1..(Len(adds) + Len(gets))
    BY <2>1, Joined, Zenon
  <2> QED BY <2>1, <2>2
<1>10. ASSUME Agrees PROVE ToAdd(Page!Needed) /\ ToFetch(Page!Needed, doubt)
  <2>1. ASSUME NEW f \in Families \ library
        PROVE  \E i \in DOMAIN Page!Needed : Page!Needed[i] = [kind |-> "add", family |-> f]
    <3>1. f \in A BY <1>10, <2>1 DEF Agrees
    <3>2. PICK i \in 1..Len(a) : a[i] = f BY <1>3, <3>1
    <3> QED BY <1>2, <1>7, <1>9, <3>2
  <2>2. ASSUME NEW f \in Families \ doubt, disk[f] # "verified"
        PROVE  \E i \in DOMAIN Page!Needed : Page!Needed[i].kind # "add" /\ Page!Needed[i].family = f
    <3>1. f \in B BY <1>10, <2>2 DEF Agrees
    <3>2. PICK i \in 1..Len(b) : b[i] = f BY <1>4, <3>1
    <3> QED BY <1>2, <1>8, <1>9, <3>2
  <2> QED BY <2>1, <2>2 DEF ToAdd, ToFetch
<1>11. ASSUME ~(Page!AllDownloaded /\ Page!AllInLibrary) PROVE Page!Needed # <<>>
  <2>1. A # {} \/ B # {} BY <1>1, <1>11 DEF Page!AllDownloaded, Page!AllInLibrary
  <2>2. Len(a) + Len(b) > 0
    <3>0. Len(a) \in Nat /\ Len(b) \in Nat BY <1>3, <1>4
    <3>1. CASE A # {}
      <4>1. PICK i \in 1..Len(a) : TRUE BY <1>3, <3>1
      <4> QED BY <3>0, <4>1
    <3>2. CASE B # {}
      <4>1. PICK i \in 1..Len(b) : TRUE BY <1>4, <3>2
      <4> QED BY <3>0, <4>1
    <3> QED BY <2>1, <3>1, <3>2
  <2>3. Len(Page!Needed) # 0 /\ Len(<<>>) = 0
    <3>1. Len(a) \in Nat /\ Len(b) \in Nat BY <1>3, <1>4
    <3>2. Len(Page!Needed) = Len(a) + Len(b) BY <1>2, <1>9
    <3> QED BY <2>2, <3>1, <3>2
  <2> QED BY <2>3
<1> QED BY <1>2, <1>9, <1>10, <1>11

LEMMA PendingIsOffered ==
  ASSUME Typed PROVE Page!Pending \in Page!Selections
BY DEF Typed, Page!Pending

LEMMA PressStep ==
  ASSUME Page!ScreenAssumption, PageInvariant, NEW c \in Slots, NEW kind \in Page!Kinds \union {"all"},
         NEW f \in Families, Page!Press(c, kind, f)
  PROVE  PageInvariant'
<1> DEFINE new == [kind |-> kind, page |-> page, asks |-> Page!Pending, doubts |-> doubt,
        todo |-> IF kind = "all" THEN Page!Needed
                 ELSE IF kind \in {"install", "repair", "add"} THEN <<[kind |-> kind, family |-> f]>> ELSE <<>>,
        family |-> f, at |-> IF kind = "refresh" THEN "reading" ELSE "asked"]
<1> USE DEF PageInvariant
<1>1. /\ call' = [call EXCEPT ![c] = new] /\ busy' = TRUE /\ presses < MaxPresses /\ presses' = presses + 1
      /\ stopping' = (IF kind = "all" THEN FALSE ELSE stopping)
      /\ page # 0 /\ screenDialog = "closed" /\ ~frozen /\ ~busy /\ Page!Offered(kind, f)
      /\ UNCHANGED <<disk, library, selection, loaded, language, page, mounts, catalog, catalogError, first, draft,
                     painted, feedback, screenDialog, frozen, consented, doubt, moves>>
  BY DEF Page!Press, Page!Usable, Page!MayStart, Page!facts, Page!hub, Page!ghost
<1>2. \A d \in Slots : ~Running(d) BY <1>1 DEF OnePage
<1>3. kind # "refresh" => catalog # Page!NoCatalog
  BY <1>1, PageFacts DEF Page!Offered, Page!HasCatalog, Page!ApplyEligible
<1>4. kind = "all" => ~(Page!AllDownloaded /\ Page!AllInLibrary) BY <1>1, PageFacts DEF Page!Offered
<1>5. kind = "apply" => Page!ApplyEligible BY <1>1, PageFacts DEF Page!Offered
<1>6. catalog # Page!NoCatalog => Agrees BY <1>2 DEF Told
<1>0. new.todo = IF kind = "all" THEN Page!Needed
                 ELSE IF kind \in {"install", "repair", "add"} THEN <<[kind |-> kind, family |-> f]>> ELSE <<>>
  OBVIOUS
<1>7. new.todo \in Seq(Page!Steps)
  <2>1. CASE kind = "all" BY <1>3, <2>1, NeededIsAll
  <2>2. CASE kind \in {"install", "repair", "add"}
    <3>1. [kind |-> kind, family |-> f] \in Page!Steps BY <2>2, PageFacts
    <3>2. new.todo = <<[kind |-> kind, family |-> f]>> BY <1>0, <2>2, PageFacts
    <3>3. \A x \in Page!Steps : <<x>> \in Seq(Page!Steps) OBVIOUS
    <3> QED BY <3>1, <3>2, <3>3
  <2>3. CASE kind \notin {"all", "install", "repair", "add"} BY <2>3
  <2> QED BY <2>1, <2>2, <2>3
<1>8. new \in Calls
  <2>1. page \in Nat BY DEF Typed
  <2>2. doubt \subseteq Families BY DEF Typed
  <2>3. new.at \in {"asked", "reading"} OBVIOUS
  <2> QED BY <1>7, <2>1, <2>2, <2>3, PendingIsOffered DEF Calls
<1> HIDE DEF new
<1>9. Typed'
  <2>1. call' \in [Slots -> Calls \union {Page!NoCall}] BY <1>1, <1>8 DEF Typed
  <2>2. presses' \in 0..MaxPresses BY <1>1 DEF Typed, Page!ScreenAssumption
  <2>3. stopping' \in BOOLEAN
    <3>1. CASE kind = "all" BY <1>1, <3>1
    <3>2. CASE kind # "all" BY <1>1, <3>2 DEF Typed
    <3> QED BY <3>1, <3>2
  <2> QED BY <1>1, <2>1, <2>2, <2>3 DEF Typed, Page!Catalogs, Page!Selections
<1>10. \A d \in Slots : Running(d)' <=> d = c
  BY <1>1, <1>2, <1>8, PageFacts DEF Running, Typed, Calls
<1>11. call'[c] = new BY <1>1 DEF Typed
<1>12. /\ new.page = page /\ new.kind = kind /\ new.asks = Page!Pending /\ new.doubts = doubt
       /\ new.at = (IF kind = "refresh" THEN "reading" ELSE "asked")
       /\ (kind = "all" => new.todo = Page!Needed)
  BY DEF new
<1>13. OnePage'
  <2>1. \A d \in Slots : Running(d)' => call'[d].page = page' /\ busy' /\ page' # 0
    BY <1>1, <1>10, <1>11, <1>12
  <2> QED BY <1>1, <1>10, <2>1 DEF OnePage
<1>14. FirstRead'
  <2> SUFFICES ASSUME first = "asked" PROVE catalog = Page!NoCatalog /\ kind = "refresh"
    BY <1>1, <1>10, <1>11, <1>12 DEF FirstRead
  <2> QED BY <1>3 DEF FirstRead
<1>15. Consent' BY <1>1 DEF Consent
<1>16. Told' BY <1>1, <1>6 DEF Told, Agrees
<1>17. Fits'
  <2> SUFFICES ASSUME kind = "apply"
               PROVE  Page!Accepts(Page!Pending) \/ Page!Pending.family \in doubt
    BY <1>1, <1>10, <1>11, <1>12 DEF Fits, Page!Accepts
  <2>1. Page!Pending \in Page!Selections /\ Page!Pending.family \in Families BY PendingIsOffered, PageFacts
  <2> QED BY <1>3, <1>5, <1>6, <2>1, PageFacts DEF Page!ApplyEligible, Page!SupportsLanguage, Page!Accepts, Agrees
<1>18. Remaining'
  <2> SUFFICES ASSUME kind = "all"
               PROVE  Page!Needed # <<>> /\ ToAdd(Page!Needed) /\ ToFetch(Page!Needed, doubt)
    BY <1>1, <1>10, <1>11, <1>12 DEF Remaining, ToAdd, ToFetch
  <2> QED BY <1>3, <1>4, <1>6, NeededIsAll
<1> QED BY <1>9, <1>13, <1>14, <1>15, <1>16, <1>17, <1>18

LEMMA PaintStep ==
  ASSUME PageInvariant, Page!Paint \/ Page!Stop PROVE PageInvariant'
<1>1. /\ painted' \in BOOLEAN /\ stopping' \in BOOLEAN
      /\ UNCHANGED <<disk, library, selection, loaded, language, page, mounts, catalog, catalogError, first, draft,
                     busy, feedback, call, screenDialog, frozen, consented, doubt, presses, moves>>
  <2>1. CASE Page!Paint
    BY <2>1 DEF Page!Paint, Page!facts, Page!hub, Page!ghost, Page!count, PageInvariant, Typed
  <2>2. CASE Page!Stop
    BY <2>2 DEF Page!Stop, Page!facts, Page!hub, Page!ghost, Page!count, PageInvariant, Typed
  <2> QED BY <2>1, <2>2
<1>2. Typed' BY <1>1 DEF PageInvariant, Typed, Page!Catalogs, Page!Selections
<1> QED BY <1>1, <1>2 DEF PageInvariant, OnePage, FirstRead, Consent, Told, Agrees, Fits, Page!Accepts, Remaining,
                          ToAdd, ToFetch, Running

LEMMA ChoiceStep ==
  ASSUME Page!ScreenAssumption, PageInvariant, Page!ChoosesModel PROVE PageInvariant'
<1>1. PICK s \in Page!Selections : Page!Choose(s)
  <2>1. PICK f \in Families : Page!ChooseFamily(f) \/ \E m \in Page!Modes : Page!ChooseExperience(m, f)
    BY DEF Page!ChoosesModel
  <2>2. CASE Page!ChooseFamily(f)
    <3>1. ModesOf[f] \subseteq Page!Modes /\ ModesOf[f] # {} BY DEF Page!ScreenAssumption
    <3>2. Page!ModeFor(f) \in ModesOf[f] BY <3>1 DEF Page!ModeFor
    <3>3. [family |-> f, mode |-> Page!ModeFor(f)] \in Page!Selections BY <3>1, <3>2, PageFacts
    <3> QED BY <2>2, <3>3 DEF Page!ChooseFamily
  <2>3. ASSUME NEW m \in Page!Modes, Page!ChooseExperience(m, f)
        PROVE  \E s \in Page!Selections : Page!Choose(s)
    <3>1. [family |-> f, mode |-> m] \in Page!Selections BY <2>3, PageFacts DEF Page!ChooseExperience
    <3> QED BY <2>3, <3>1 DEF Page!ChooseExperience
  <2> QED BY <2>1, <2>2, <2>3
<1>2. /\ screenDialog = "closed" /\ page # 0 /\ draft' = s /\ consented' = FALSE /\ moves < MaxMoves /\ moves' = moves + 1
      /\ UNCHANGED <<disk, library, selection, loaded, language, page, mounts, catalog, catalogError, first,
                     busy, painted, stopping, feedback, call, screenDialog, frozen, doubt, presses>>
  BY <1>1 DEF Page!Choose, Page!Usable, Page!facts, Page!hub
<1>3. moves' \in 0..MaxMoves BY <1>2 DEF PageInvariant, Typed, Page!ScreenAssumption
<1>4. Typed' BY <1>2, <1>3 DEF PageInvariant, Typed, Page!Catalogs, Page!Selections
<1> QED BY <1>2, <1>4 DEF PageInvariant, OnePage, FirstRead, Consent, Told, Agrees, Fits, Page!Accepts, Remaining,
                          ToAdd, ToFetch, Running

-----------------------------------------------------------------------------
(* Answers *)

\* What is known of the call that runs.
LEMMA AsksOnItsPage ==
  ASSUME PageInvariant, NEW c \in Slots, Page!Running(c)
  PROVE  /\ Running(c) /\ call[c] \in Calls /\ call[c].page = page /\ page # 0 /\ busy /\ Page!Here(c)
         /\ screenDialog = "closed" /\ ~frozen
         /\ \A d \in Slots : Running(d) => d = c
         /\ call[c].family \in Families /\ call[c].asks \in Page!Selections
         /\ call[c].todo \in Seq(Page!Steps) /\ call[c].doubts \subseteq Families
         /\ call[c].at \in {"asked", "reading"}
         /\ first = "asked" => call[c].kind = "refresh" /\ call[c].at = "reading" /\ catalog = Page!NoCatalog
         /\ call[c].at = "asked" /\ call[c].kind # "all" /\ catalog # Page!NoCatalog => Agrees
<1>1. Running(c) /\ call[c] \in Calls BY RunningCalls DEF PageInvariant
<1>2. \A d \in Slots : Running(d) => d = c BY <1>1 DEF PageInvariant, OnePage
<1>3. call[c].page = page /\ page # 0 /\ busy /\ Page!Here(c) BY <1>1 DEF PageInvariant, OnePage, Page!Here
<1>4. screenDialog = "closed" /\ ~frozen BY <1>3 DEF PageInvariant, OnePage
<1>5. /\ call[c].family \in Families /\ call[c].asks \in Page!Selections
      /\ call[c].todo \in Seq(Page!Steps) /\ call[c].doubts \subseteq Families
      /\ call[c].at \in {"asked", "reading"}
  BY <1>1 DEF Calls
<1>6. first = "asked" => call[c].kind = "refresh" /\ call[c].at = "reading" /\ catalog = Page!NoCatalog
  BY <1>1 DEF PageInvariant, FirstRead
<1>7. call[c].at = "asked" /\ call[c].kind # "all" /\ catalog # Page!NoCatalog => Agrees
  BY <1>2 DEF PageInvariant, Told
<1> QED BY <1>1, <1>2, <1>3, <1>4, <1>5, <1>6, <1>7

\* A step after which the call waits for the catalog.
LEMMA WaitsForCatalog ==
  ASSUME PageInvariant, NEW c \in Slots, Page!Running(c), call[c].at = "asked", call[c].kind # "all",
         call[c].kind # "apply",
         call' = [call EXCEPT ![c].at = "reading"],
         disk' \in [Families -> Page!Status],
         UNCHANGED <<library, selection, loaded, language, page, mounts, catalog, catalogError, first, draft,
                     busy, painted, stopping, feedback, screenDialog, frozen, consented, doubt, presses, moves>>
  PROVE  PageInvariant'
<1>1. /\ Running(c) /\ call[c] \in Calls /\ call[c].page = page /\ page # 0 /\ busy /\ first # "asked"
      /\ \A d \in Slots : Running(d) => d = c
  BY AsksOnItsPage
<1>2. call'[c] \in Calls /\ call'[c].at = "reading" /\ call'[c].page = page /\ call'[c].kind = call[c].kind
  BY <1>1 DEF PageInvariant, Typed, Calls
<1>3. \A d \in Slots : d # c => call'[d] = call[d] BY DEF PageInvariant, Typed
<1>4. \A d \in Slots : Running(d)' <=> d = c BY <1>1, <1>2, <1>3, PageFacts DEF Running
<1>5. call' \in [Slots -> Calls \union {Page!NoCall}] BY <1>2, <1>3 DEF PageInvariant, Typed
<1>6. Typed' BY <1>5 DEF PageInvariant, Typed, Page!Catalogs, Page!Selections
<1>7. OnePage' BY <1>1, <1>2, <1>4 DEF PageInvariant, OnePage
<1>8. FirstRead' BY <1>1 DEF FirstRead
<1>9. Consent' BY DEF PageInvariant, Consent
<1>10. Told' BY <1>2, <1>4 DEF Told
<1>11. Fits' /\ Remaining' BY <1>2, <1>4 DEF Fits, Remaining
<1> QED BY <1>6, <1>7, <1>8, <1>9, <1>10, <1>11 DEF PageInvariant

\* What an answer may change.
LEMMA AnswersKeepTypes ==
  ASSUME Typed, call' \in [Slots -> Calls \union {Page!NoCall}], disk' \in [Families -> Page!Status],
         library' \subseteq Families, busy' \in BOOLEAN, feedback' \in {"none", "done", "failed", "stopped", "all"},
         catalog' \in Page!Catalogs \union {Page!NoCatalog}, catalogError' \in BOOLEAN, doubt' \subseteq Families,
         UNCHANGED <<selection, loaded, language, page, mounts, first, draft, painted, stopping, screenDialog, frozen,
                     consented, presses, moves>>
  PROVE  Typed'
BY DEF Typed, Page!Catalogs, Page!Selections

LEMMA InstallAnswered ==
  ASSUME PageInvariant, NEW c \in Slots, NEW ok \in BOOLEAN, Page!AnswerInstall(c, ok) PROVE PageInvariant'
<1>1. /\ Page!Running(c) /\ call[c].at = "asked" /\ call[c].kind \in {"install", "repair"}
      /\ UNCHANGED <<library, selection, loaded, language, page, mounts, catalog, catalogError, first, draft,
                     painted, stopping, screenDialog, frozen, consented, doubt, presses, moves>>
      /\ disk' = (IF ok THEN [disk EXCEPT ![call[c].family] = "verified"] ELSE disk)
  BY DEF Page!AnswerInstall, Page!Fetched, Page!hub, Page!ghost, Page!count
<1>2. disk' \in [Families -> Page!Status]
  <2>1. disk \in [Families -> Page!Status] /\ "verified" \in Page!Status BY DEF PageInvariant, Typed, Page!Status
  <2>2. CASE ok BY <1>1, <2>1, <2>2
  <2>3. CASE ~ok BY <1>1, <2>1, <2>3
  <2> QED BY <2>2, <2>3
<1>3. CASE ok
  <2>1. call' = [call EXCEPT ![c].at = "reading"] /\ busy' = busy /\ feedback' = feedback
    BY <1>3 DEF Page!AnswerInstall
  <2> QED BY <1>1, <1>2, <2>1, WaitsForCatalog
<1>4. CASE ~ok
  <2>1. Page!Ends(c, "failed") /\ disk' = disk BY <1>1, <1>4 DEF Page!AnswerInstall
  <2>2. /\ \A d \in Slots : ~Running(d)' /\ busy' = FALSE /\ feedback' = "failed" /\ page # 0
        /\ call' \in [Slots -> Calls \union {Page!NoCall}]
    BY <1>1, <2>1, AsksOnItsPage, EndsAll
  <2>3. Typed'
    <3>1. Typed BY DEF PageInvariant
    <3>2. /\ library' \subseteq Families /\ catalog' \in Page!Catalogs \union {Page!NoCatalog}
          /\ catalogError' \in BOOLEAN /\ doubt' \subseteq Families
      BY <1>1, <3>1 DEF Typed
    <3>3. busy' \in BOOLEAN /\ feedback' \in {"none", "done", "failed", "stopped", "all"} BY <2>2
    <3> QED BY <1>1, <1>2, <2>2, <3>1, <3>2, <3>3, AnswersKeepTypes
  <2>4. Consent' BY <1>1 DEF PageInvariant, Consent
  <2>5. (catalog # Page!NoCatalog => Agrees) /\ first # "asked" BY <1>1, AsksOnItsPage
  <2>6. catalog' # Page!NoCatalog => Agrees' BY <1>1, <2>1, <2>5 DEF Agrees
  <2> QED BY <1>1, <2>2, <2>3, <2>4, <2>5, <2>6, AtRest
<1> QED BY <1>3, <1>4

LEMMA RemoveAnswered ==
  ASSUME PageInvariant, NEW c \in Slots, NEW ok \in BOOLEAN, Page!AnswerRemove(c, ok) PROVE PageInvariant'
<1>1. /\ Page!Running(c) /\ call[c].at = "asked" /\ call[c].kind = "remove"
      /\ UNCHANGED <<library, selection, loaded, language, page, mounts, catalog, catalogError, first, draft,
                     painted, stopping, screenDialog, frozen, consented, presses, moves>>
      /\ disk' = disk \/ disk' = [disk EXCEPT ![call[c].family] = "missing"]
      /\ doubt' = (IF ok THEN doubt ELSE doubt \union {call[c].family})
  BY DEF Page!AnswerRemove, Page!hub, Page!count
<1>2. disk' \in [Families -> Page!Status]
  BY <1>1 DEF PageInvariant, Typed, Page!Status
<1>3. CASE ok
  <2>1. call' = [call EXCEPT ![c].at = "reading"] /\ busy' = busy /\ feedback' = feedback /\ doubt' = doubt
    BY <1>1, <1>3 DEF Page!AnswerRemove
  <2> QED BY <1>1, <1>2, <2>1, WaitsForCatalog
<1>4. CASE ~ok
  <2>1. Page!Ends(c, "failed") BY <1>1, <1>4 DEF Page!AnswerRemove
  <2>2. /\ \A d \in Slots : ~Running(d)' /\ busy' = FALSE /\ feedback' = "failed" /\ page # 0
        /\ call' \in [Slots -> Calls \union {Page!NoCall}]
    BY <1>1, <2>1, AsksOnItsPage, EndsAll
  <2>3. call[c].family \in Families /\ (catalog # Page!NoCatalog => Agrees) /\ first # "asked"
    BY <1>1, AsksOnItsPage
  <2>4. Typed'
    <3>1. Typed BY DEF PageInvariant
    <3>2. /\ library' \subseteq Families /\ catalog' \in Page!Catalogs \union {Page!NoCatalog}
          /\ catalogError' \in BOOLEAN /\ doubt' \subseteq Families
      BY <1>1, <1>4, <2>3, <3>1 DEF Typed
    <3>3. busy' \in BOOLEAN /\ feedback' \in {"none", "done", "failed", "stopped", "all"} BY <2>2
    <3> QED BY <1>1, <1>2, <2>2, <3>1, <3>2, <3>3, AnswersKeepTypes
  <2>5. Consent' BY <1>1 DEF PageInvariant, Consent
  <2>6. ASSUME catalog' # Page!NoCatalog PROVE Agrees'
    <3>1. Agrees /\ disk \in [Families -> Page!Status] BY <1>1, <2>3, <2>6 DEF PageInvariant, Typed
    <3>2. \A f \in Families : f # call[c].family => disk'[f] = disk[f] BY <1>1, <3>1
    <3> QED BY <1>1, <1>4, <3>1, <3>2 DEF Agrees
  <2> QED BY <1>1, <2>2, <2>3, <2>4, <2>5, <2>6, AtRest
<1> QED BY <1>3, <1>4

\* What a page that heard an answer knows.
LEMMA LearnsHere ==
  ASSUME PageInvariant, NEW c \in Slots, Page!Running(c), NEW told, NEW error, Page!Learns(c, told, error)
  PROVE  catalog' = told /\ catalogError' = error /\ doubt' = {}
BY AsksOnItsPage DEF Page!Learns

LEMMA AddAnswered ==
  ASSUME PageInvariant, NEW c \in Slots, NEW ok \in BOOLEAN, Page!AnswerAdd(c, ok) PROVE PageInvariant'
<1>1. /\ Page!Running(c) /\ call[c].at = "asked" /\ call[c].kind = "add"
      /\ library' = (IF ok THEN library \union {call[c].family} ELSE library) /\ disk' = disk
      /\ UNCHANGED <<selection, loaded, language, page, mounts, first, draft,
                     painted, stopping, screenDialog, frozen, consented, presses, moves>>
  BY DEF Page!AnswerAdd, Page!hub, Page!count
<1>2. /\ Running(c) /\ page # 0 /\ first # "asked" /\ call[c].family \in Families
      /\ (catalog # Page!NoCatalog => Agrees) /\ screenDialog = "closed"
  BY <1>1, AsksOnItsPage
<1>3. PICK line \in {"done", "failed"} : Page!Ends(c, line) BY DEF Page!AnswerAdd
<1>4. /\ \A d \in Slots : ~Running(d)' /\ busy' = FALSE /\ feedback' = line
      /\ call' \in [Slots -> Calls \union {Page!NoCall}]
  BY <1>2, <1>3, EndsAll
<1>5. Consent' BY <1>1 DEF PageInvariant, Consent
<1>6. disk' \in [Families -> Page!Status] /\ library' \subseteq Families
  <2>1. disk \in [Families -> Page!Status] /\ library \subseteq Families BY DEF PageInvariant, Typed
  <2> QED BY <1>1, <1>2, <2>1
<1>7. CASE ok
  <2>1. catalog' = Page!Present' /\ catalogError' = FALSE /\ doubt' = {}
    BY <1>1, <1>7, LearnsHere DEF Page!AnswerAdd
  <2>2. Page!Present' \in Page!Catalogs BY <1>6 DEF Page!Present, Page!Catalogs
  <2>3. Typed' BY <1>1, <1>4, <1>6, <2>1, <2>2 DEF PageInvariant, Typed, Page!Catalogs, Page!Selections
  <2> QED BY <1>1, <1>2, <1>4, <1>5, <2>1, <2>3, PresentAgrees, AtRest
<1>8. CASE ~ok
  <2>1. UNCHANGED <<catalog, catalogError, doubt, library, disk>> BY <1>1, <1>8 DEF Page!AnswerAdd
  <2>2. Typed'
    <3>1. feedback' \in {"done", "failed"} BY <1>4
    <3>2. disk' = disk /\ library' = library /\ busy' = FALSE BY <1>1, <1>4, <2>1
    <3>3. call' \in [Slots -> Calls \union {Page!NoCall}] BY <1>4
    <3>4. Typed BY DEF PageInvariant
    <3>5. catalog' \in Page!Catalogs \union {Page!NoCatalog} /\ catalogError' \in BOOLEAN /\ doubt' \subseteq Families
      BY <2>1, <3>4 DEF Typed, Page!Catalogs
    <3> QED BY <1>1, <1>6, <3>1, <3>2, <3>3, <3>4, <3>5, AnswersKeepTypes
  <2>3. catalog' # Page!NoCatalog => Agrees' BY <1>2, <2>1 DEF Agrees
  <2> QED BY <1>1, <1>2, <1>4, <1>5, <2>1, <2>2, <2>3, AtRest
<1> QED BY <1>7, <1>8

LEMMA ReadAnswered ==
  ASSUME PageInvariant, NEW c \in Slots, Page!AnswerRead(c) \/ Page!ReadFails(c) PROVE PageInvariant'
<1>1. /\ Page!Running(c) /\ first = Page!Nothing
      /\ UNCHANGED <<disk, library, selection, loaded, language, page, mounts, first, draft,
                     painted, stopping, screenDialog, frozen, consented, presses, moves>>
  BY DEF Page!AnswerRead, Page!ReadFails, Page!hub, Page!count, Page!facts
<1>2. PICK line \in {"done", "failed", "stopped", "all"} : Page!Ends(c, line)
  BY DEF Page!AnswerRead, Page!ReadFails, Page!LineOf
<1>3. /\ \A d \in Slots : ~Running(d)' /\ busy' = FALSE /\ feedback' = line /\ page # 0
      /\ call' \in [Slots -> Calls \union {Page!NoCall}]
  BY <1>1, <1>2, AsksOnItsPage, EndsAll
<1>4. Consent' BY <1>1 DEF PageInvariant, Consent
<1>5. /\ catalog' \in {Page!Present, Page!NoCatalog} /\ catalogError' \in BOOLEAN /\ doubt' = {}
  <2>1. CASE Page!AnswerRead(c)
    BY <1>1, <2>1, LearnsHere DEF Page!AnswerRead, Page!TakesCatalog
  <2>2. CASE Page!ReadFails(c) BY <1>1, <2>2, LearnsHere DEF Page!ReadFails
  <2> QED BY <2>1, <2>2
<1>6. Page!Present \in Page!Catalogs BY PresentIsCatalog DEF PageInvariant, Typed
<1>7. Typed'
  <2>1. feedback' \in {"none", "done", "failed", "stopped", "all"} BY <1>3
  <2>2. catalog' \in Page!Catalogs \union {Page!NoCatalog} BY <1>5, <1>6
  <2>3. doubt' \subseteq Families /\ catalogError' \in BOOLEAN /\ busy' \in BOOLEAN BY <1>3, <1>5
  <2> QED BY <1>1, <1>3, <2>1, <2>2, <2>3 DEF PageInvariant, Typed, Page!Catalogs, Page!Selections
<1>8. catalog' # Page!NoCatalog => Agrees'
  <2>1. Page!Present' = Page!Present BY <1>1 DEF Page!Present
  <2> QED BY <1>5, <2>1, PresentAgrees
<1> QED BY <1>1, <1>3, <1>4, <1>7, <1>8, PageFacts, AtRest

LEMMA ApplyAnswered ==
  ASSUME PageInvariant, NEW c \in Slots, NEW ok \in BOOLEAN, Page!AnswerApply(c, ok) PROVE PageInvariant'
<1>1. /\ Page!Running(c) /\ call[c].at = "asked" /\ call[c].kind = "apply"
      /\ UNCHANGED <<disk, library, language, page, mounts, first,
                     painted, stopping, screenDialog, frozen, consented, presses, moves>>
  BY DEF Page!AnswerApply, Page!hub, Page!count
<1>2. /\ Running(c) /\ page # 0 /\ first # "asked" /\ call[c].asks \in Page!Selections
      /\ (catalog # Page!NoCatalog => Agrees) /\ screenDialog = "closed" /\ Page!Here(c)
  BY <1>1, AsksOnItsPage
<1>3. PICK line \in {"done", "failed"} : Page!Ends(c, line) BY DEF Page!AnswerApply
<1>4. /\ \A d \in Slots : ~Running(d)' /\ busy' = FALSE /\ feedback' = line
      /\ call' \in [Slots -> Calls \union {Page!NoCall}]
  BY <1>2, <1>3, EndsAll
<1>5. Consent' BY <1>1, <1>2 DEF Consent
<1>6. selection' \in Page!Selections /\ loaded' \in BOOLEAN
  <2>1. CASE ok BY <1>2, <2>1 DEF Page!AnswerApply
  <2>2. CASE ~ok BY <2>2 DEF Page!AnswerApply, PageInvariant, Typed
  <2> QED BY <2>1, <2>2
<1>7. CASE ok
  <2>1. catalog' = Page!Present /\ catalogError' = FALSE /\ doubt' = {} /\ draft' = Page!NoDraft
    BY <1>1, <1>2, <1>7, LearnsHere DEF Page!AnswerApply
  <2>2. Page!Present \in Page!Catalogs /\ Page!Present' = Page!Present
    BY <1>1, PresentIsCatalog DEF PageInvariant, Typed, Page!Present
  <2>3. Typed' BY <1>1, <1>4, <1>6, <2>1, <2>2 DEF PageInvariant, Typed, Page!Catalogs, Page!Selections
  <2> QED BY <1>1, <1>2, <1>4, <1>5, <2>1, <2>2, <2>3, PresentAgrees, AtRest
<1>8. CASE ~ok
  <2>1. UNCHANGED <<catalog, catalogError, doubt, draft>> BY <1>1, <1>8 DEF Page!AnswerApply
  <2>2. Typed' BY <1>1, <1>4, <1>6, <2>1 DEF PageInvariant, Typed, Page!Catalogs, Page!Selections
  <2>3. catalog' # Page!NoCatalog => Agrees' BY <1>1, <1>2, <2>1 DEF Agrees
  <2> QED BY <1>1, <1>2, <1>4, <1>5, <2>1, <2>2, <2>3, AtRest
<1> QED BY <1>7, <1>8

LEMMA FirstAnswered ==
  ASSUME PageInvariant, NEW ok \in BOOLEAN, Page!FirstAnswers(ok) PROVE PageInvariant'
<1>1. /\ first = "asked" /\ first' = Page!Nothing /\ doubt' = {} /\ catalogError' = ~ok
      /\ catalog' \in {Page!Present, Page!NoCatalog}
      /\ UNCHANGED <<disk, library, selection, loaded, language, page, mounts, draft, busy,
                     painted, stopping, feedback, call, screenDialog, frozen, consented, presses, moves>>
  BY DEF Page!FirstAnswers, Page!hub, Page!count, Page!facts
<1>2. Page!Present \in Page!Catalogs /\ Page!Present' = Page!Present
  BY <1>1, PresentIsCatalog DEF PageInvariant, Typed, Page!Present
<1>3. Typed'
  <2>1. catalogError' \in BOOLEAN BY <1>1
  <2> QED BY <1>1, <1>2, <2>1, PageFacts DEF PageInvariant, Typed, Page!Catalogs, Page!Selections
<1>4. \A c \in Slots : Running(c) => call[c].kind = "refresh" BY <1>1 DEF PageInvariant, FirstRead
<1>5. OnePage' /\ FirstRead' /\ Consent'
  BY <1>1, PageFacts DEF PageInvariant, OnePage, FirstRead, Consent, Running
<1>6. Told'
  <2>1. catalog' # Page!NoCatalog => Agrees' BY <1>1, <1>2, PresentAgrees
  <2> QED BY <2>1 DEF Told
<1>7. Fits' /\ Remaining' BY <1>1, <1>4 DEF Fits, Remaining, Running
<1> QED BY <1>3, <1>5, <1>6, <1>7 DEF PageInvariant

LEMMA RestOfMany ==
  ASSUME NEW S, NEW s \in Seq(S), Len(s) > 1 PROVE Tail(s) # <<>>
<1>1. \E n \in Nat : Len(s) = n OBVIOUS
<1>2. PICK n \in Nat : Len(s) = n /\ n > 1 BY <1>1
<1>3. Len(Tail(s)) = n - 1 BY <1>2
<1>4. n - 1 # 0 BY <1>2
<1>5. Len(Tail(s)) # 0 BY <1>3, <1>4
<1>6. Len(<<>>) = 0 OBVIOUS
<1> QED BY <1>5, <1>6

LEMMA ItemAnswered ==
  ASSUME PageInvariant, NEW c \in Slots, NEW ok \in BOOLEAN, Page!AnswerItem(c, ok) PROVE PageInvariant'
<1> DEFINE todo == call[c].todo
           item == Head(todo)
           next == [todo |-> IF ok THEN Tail(todo) ELSE todo, at |-> IF Page!GoesOn(c, ok) THEN "asked" ELSE "reading"]
<1>1. /\ Page!Running(c) /\ call[c].at = "asked" /\ call[c].kind = "all"
      /\ UNCHANGED <<selection, loaded, language, page, mounts, first, draft, busy,
                     painted, stopping, feedback, screenDialog, frozen, consented, presses, moves>>
      /\ IF item.kind = "add"
         THEN /\ library' = (IF ok THEN library \union {item.family} ELSE library) /\ disk' = disk
              /\ IF ok THEN Page!Learns(c, Page!Present', catalogError) ELSE UNCHANGED <<catalog, catalogError, doubt>>
         ELSE /\ disk' = (IF ok THEN [disk EXCEPT ![item.family] = "verified"] ELSE disk) /\ library' = library
              /\ UNCHANGED <<catalog, catalogError, doubt>>
      /\ call' = [call EXCEPT ![c].todo = IF ok THEN Tail(@) ELSE @,
                              ![c].at = IF Page!GoesOn(c, ok) THEN "asked" ELSE "reading"]
  BY DEF Page!AnswerItem, Page!Fetched, Page!hub, Page!count
<1>2. /\ Running(c) /\ call[c] \in Calls /\ call[c].page = page /\ page # 0 /\ busy /\ first # "asked"
      /\ \A d \in Slots : Running(d) => d = c
      /\ todo \in Seq(Page!Steps)
  BY <1>1, AsksOnItsPage
<1>3. todo # <<>> /\ ToAdd(todo) /\ ToFetch(todo, call[c].doubts)
  BY <1>1, <1>2 DEF PageInvariant, Remaining
<1>4. /\ item \in Page!Steps /\ Tail(todo) \in Seq(Page!Steps) /\ item = todo[1] /\ item.family \in Families
      /\ Len(todo) \in Nat /\ Len(todo) >= 1 /\ Len(Tail(todo)) = Len(todo) - 1 /\ DOMAIN todo = 1..Len(todo)
      /\ DOMAIN Tail(todo) = 1..(Len(todo) - 1)
      /\ \A i \in 1..(Len(todo) - 1) : Tail(todo)[i] = todo[i + 1]
  <2>1. Len(todo) \in Nat /\ Len(todo) >= 1 /\ DOMAIN todo = 1..Len(todo) /\ item = todo[1] BY <1>2, <1>3
  <2>2. Tail(todo) \in Seq(Page!Steps) /\ Len(Tail(todo)) = Len(todo) - 1 BY <1>2, <1>3
  <2>3. \A i \in 1..(Len(todo) - 1) : Tail(todo)[i] = todo[i + 1] BY <1>2, <1>3
  <2>4. item \in Page!Steps BY <1>2, <2>1
  <2>5. DOMAIN Tail(todo) = 1..(Len(todo) - 1) BY <2>1, <2>2
  <2> QED BY <2>1, <2>2, <2>3, <2>4, <2>5, PageFacts
<1>5. /\ call'[c].todo = next.todo /\ call'[c].at = next.at /\ call'[c].page = page /\ call'[c].kind = "all"
      /\ call'[c].doubts = call[c].doubts /\ call'[c] \in Calls
      /\ \A d \in Slots : d # c => call'[d] = call[d]
  <2>1. /\ call'[c] = [call[c] EXCEPT !.todo = next.todo, !.at = next.at]
        /\ \A d \in Slots : d # c => call'[d] = call[d]
    BY <1>1 DEF PageInvariant, Typed
  <2>2. next.todo \in Seq(Page!Steps) /\ next.at \in {"asked", "reading"}
    <3>1. CASE ok BY <1>4, <3>1
    <3>2. CASE ~ok BY <1>2, <3>2
    <3> QED BY <3>1, <3>2
  <2> HIDE DEF next
  <2>3. [call[c] EXCEPT !.todo = next.todo, !.at = next.at] \in Calls BY <1>2, <2>2 DEF Calls
  <2>4. /\ call'[c].todo = next.todo /\ call'[c].at = next.at /\ call'[c].page = call[c].page
        /\ call'[c].kind = call[c].kind /\ call'[c].doubts = call[c].doubts
    BY <1>2, <2>1 DEF Calls
  <2> QED BY <1>1, <1>2, <2>1, <2>3, <2>4
<1>6. \A d \in Slots : Running(d)' <=> d = c
  <2>1. call'[c].at # Page!Nothing BY <1>5, PageFacts
  <2> QED BY <1>2, <1>5, <2>1 DEF Running
<1>7. call' \in [Slots -> Calls \union {Page!NoCall}]
  BY <1>1, <1>5 DEF PageInvariant, Typed
<1>8. disk' \in [Families -> Page!Status] /\ library' \subseteq Families
  <2>1. disk \in [Families -> Page!Status] /\ library \subseteq Families /\ "verified" \in Page!Status
    BY DEF PageInvariant, Typed, Page!Status
  <2> QED BY <1>1, <1>4, <2>1
<1>9. \/ UNCHANGED <<catalog, catalogError, doubt>>
      \/ catalog' = Page!Present' /\ catalogError' = catalogError /\ doubt' = {}
  BY <1>1, LearnsHere
<1>10. Page!Present' \in Page!Catalogs BY <1>8 DEF Page!Present, Page!Catalogs
<1>11. Typed'
  <2>1. catalog' \in Page!Catalogs \union {Page!NoCatalog} /\ catalogError' \in BOOLEAN /\ doubt' \subseteq Families
    BY <1>9, <1>10 DEF PageInvariant, Typed, Page!Catalogs
  <2>2. Typed BY DEF PageInvariant
  <2>3. busy' \in BOOLEAN /\ feedback' \in {"none", "done", "failed", "stopped", "all"}
    BY <1>1, <2>2 DEF Typed
  <2> QED BY <1>1, <1>7, <1>8, <2>1, <2>2, <2>3, AnswersKeepTypes
<1>12. OnePage'
  BY <1>1, <1>2, <1>5, <1>6 DEF PageInvariant, OnePage
<1>13. FirstRead' /\ Consent' BY <1>1, <1>2 DEF PageInvariant, FirstRead, Consent
<1>14. Told' BY <1>5, <1>6 DEF Told
<1>15. Fits' BY <1>5, <1>6 DEF Fits
<1>16. Remaining'
  <2>1. next.at = "asked" => next.todo # <<>>
    <3> SUFFICES ASSUME next.at = "asked" PROVE next.todo # <<>> OBVIOUS
    <3>1. ok /\ Len(todo) > 1 BY DEF Page!GoesOn
    <3>6. Len(todo) > 1 BY <3>1
    <3>4. Tail(todo) # <<>> BY <1>2, <3>6, RestOfMany
    <3>5. next.todo = Tail(todo) BY <3>1
    <3> HIDE DEF next
    <3> QED BY <3>4, <3>5, Zenon
  <2>2. CASE ~ok
    <3>1. library' = library /\ disk' = disk /\ next.todo = todo BY <1>1, <2>2
    <3> QED BY <1>3, <1>5, <1>6, <2>1, <3>1 DEF Remaining, ToAdd, ToFetch
  <2>3. CASE ok
    <3>0. next.todo = Tail(todo) BY <2>3
    <3> HIDE DEF next
    <3>1. ASSUME NEW f \in Families \ library'
          PROVE  \E i \in DOMAIN Tail(todo) : Tail(todo)[i] = [kind |-> "add", family |-> f]
      <4>1. f \in Families \ library BY <1>1, <2>3, <3>1
      <4>2. PICK i \in DOMAIN todo : todo[i] = [kind |-> "add", family |-> f] BY <1>3, <4>1 DEF ToAdd
      <4>3. i # 1
        <5>1. CASE item.kind = "add" BY <1>1, <1>4, <2>3, <3>1, <4>2, <5>1
        <5>2. CASE item.kind # "add" BY <1>4, <4>2, <5>2
        <5> QED BY <5>1, <5>2
      <4>4. i \in 1..Len(todo) /\ i - 1 \in 1..(Len(todo) - 1) /\ (i - 1) + 1 = i BY <1>4, <4>3
      <4> QED BY <1>4, <4>2, <4>4
    <3>2. ASSUME NEW f \in Families \ call[c].doubts, disk'[f] # "verified"
          PROVE  \E i \in DOMAIN Tail(todo) : Tail(todo)[i].kind # "add" /\ Tail(todo)[i].family = f
      <4>0. disk \in [Families -> Page!Status] BY DEF PageInvariant, Typed
      <4>1. disk[f] # "verified" /\ (item.kind # "add" => f # item.family) BY <1>1, <1>4, <2>3, <3>2, <4>0
      <4>2. PICK i \in DOMAIN todo : todo[i].kind # "add" /\ todo[i].family = f BY <1>3, <3>2, <4>1 DEF ToFetch
      <4>3. i # 1 BY <1>4, <4>1, <4>2
      <4>4. i \in 1..Len(todo) /\ i - 1 \in 1..(Len(todo) - 1) /\ (i - 1) + 1 = i BY <1>4, <4>3
      <4> QED BY <1>4, <4>2, <4>4
    <3>3. call'[c].todo = Tail(todo) /\ call'[c].doubts = call[c].doubts BY <1>5, <3>0
    <3>4. \A f \in Families \ library' :
            \E i \in DOMAIN call'[c].todo : call'[c].todo[i] = [kind |-> "add", family |-> f]
      BY <3>1, <3>3
    <3>5. \A f \in Families \ call'[c].doubts : disk'[f] # "verified" =>
            \E i \in DOMAIN call'[c].todo : call'[c].todo[i].kind # "add" /\ call'[c].todo[i].family = f
      BY <3>2, <3>3
    <3> QED BY <1>5, <1>6, <2>1, <3>4, <3>5 DEF Remaining, ToAdd, ToFetch
  <2> QED BY <2>2, <2>3
<1> QED BY <1>11, <1>12, <1>13, <1>14, <1>15, <1>16 DEF PageInvariant

-----------------------------------------------------------------------------
(* The window around the page *)

LEMMA IdleRunsNothing ==
  ASSUME PageInvariant, page = 0 \/ ~busy PROVE \A c \in Slots : ~Running(c)
BY DEF PageInvariant, OnePage

\* What a step of the window leaves alone.
LEMMA AroundThePage ==
  ASSUME PageInvariant,
         UNCHANGED <<disk, library, selection, loaded, language, page, mounts, catalog, catalogError, first, draft,
                     busy, painted, stopping, feedback, call, doubt, presses>>,
         screenDialog' \in {"closed", "open", "dirty", "saving"}, frozen' \in BOOLEAN, consented' \in BOOLEAN,
         moves' \in 0..MaxMoves, screenDialog' # "closed" \/ frozen' => page = 0 \/ ~busy,
         Consent'
  PROVE  PageInvariant'
<1>1. Typed' BY DEF PageInvariant, Typed, Page!Catalogs, Page!Selections
<1>2. OnePage' BY DEF PageInvariant, OnePage, Running
<1> QED BY <1>1, <1>2 DEF PageInvariant, FirstRead, Told, Agrees, Fits, Page!Accepts, Remaining, ToAdd, ToFetch, Running

\* A page that is mounted or taken away is empty.
LEMMA PageReplaced ==
  ASSUME PageInvariant, page = 0 \/ ~busy, Page!Mount \/ Page!Unmount,
         UNCHANGED <<disk, library, selection, loaded, language, call, frozen, doubt, presses>>,
         screenDialog' \in {"closed", "open", "dirty", "saving"}, consented' \in BOOLEAN, moves' \in 0..MaxMoves
  PROVE  PageInvariant'
<1>1. \A c \in Slots : ~Running(c)' BY IdleRunsNothing DEF Running
<1>2. /\ catalog' = Page!NoCatalog /\ catalogError' = FALSE /\ draft' = Page!NoDraft /\ busy' = FALSE
      /\ painted' = FALSE /\ stopping' = FALSE /\ feedback' = "none"
      /\ mounts' \in Nat /\ page' \in 0..mounts' /\ first' \in {"asked", Page!Nothing}
      /\ page' = 0 => first' = Page!Nothing
  <2>1. mounts \in Nat BY DEF PageInvariant, Typed
  <2>2. CASE Page!Mount BY <2>1, <2>2 DEF Page!Mount, Page!Blank
  <2>3. CASE Page!Unmount BY <2>1, <2>3 DEF Page!Unmount, Page!Blank
  <2> QED BY <2>2, <2>3
<1>3. Typed' BY <1>2 DEF PageInvariant, Typed, Page!Catalogs, Page!Selections
<1>4. Consent' BY <1>2 DEF Consent
<1> QED BY <1>1, <1>2, <1>3, <1>4, AtRest

\* Who asks about a draft and may go on has its user's consent.
LEMMA AskedBefore ==
  ASSUME PageInvariant, NEW yes \in BOOLEAN, Page!Asks(yes)
  PROVE  /\ consented' \in BOOLEAN
         /\ Page!Allows(yes) => /\ page = 0 \/ ~busy
                                /\ draft # Page!NoDraft => consented'
<1>1. consented \in BOOLEAN /\ (page = 0 => draft = Page!NoDraft) BY DEF PageInvariant, Typed, OnePage
<1>2. CASE page # 0 /\ ~busy /\ draft # Page!NoDraft /\ yes
  BY <1>1, <1>2 DEF Page!Asks, Page!Allows, Page!Held
<1>3. CASE ~(page # 0 /\ ~busy /\ draft # Page!NoDraft /\ yes)
  BY <1>1, <1>3 DEF Page!Asks, Page!Allows, Page!Held
<1> QED BY <1>2, <1>3

LEMMA SectionOpened ==
  ASSUME Page!ScreenAssumption, PageInvariant, NEW target \in {"models", "notes", "other"}, NEW yes \in BOOLEAN,
         NEW dialogYes \in BOOLEAN, Page!OpenSection(target, yes, dialogYes)
  PROVE  PageInvariant'
<1>1. /\ ~frozen /\ moves < MaxMoves /\ moves' = moves + 1 /\ screenDialog' = "closed" /\ Page!Asks(yes)
      /\ UNCHANGED <<disk, library, selection, loaded, language, call, frozen, doubt, presses>>
      /\ \/ UNCHANGED Page!screen
         \/ Page!Asked(yes) /\ (Page!Mount \/ Page!Unmount)
  BY DEF Page!OpenSection, Page!facts
<1>2. consented' \in BOOLEAN /\ (Page!Asked(yes) => page = 0 \/ ~busy) BY <1>1, AskedBefore DEF Page!Asked
<1>3. moves' \in 0..MaxMoves BY <1>1 DEF PageInvariant, Typed, Page!ScreenAssumption
<1>4. CASE UNCHANGED Page!screen
  <2>1. UNCHANGED <<page, mounts, catalog, catalogError, first, draft, busy, painted, stopping, feedback>>
    BY <1>4 DEF Page!screen
  <2>2. frozen' \in BOOLEAN /\ ~frozen' BY <1>1 DEF PageInvariant, Typed
  <2>3. Consent' BY <1>1 DEF Consent
  <2> QED BY <1>1, <1>2, <1>3, <2>1, <2>2, <2>3, AroundThePage
<1>5. CASE Page!Asked(yes) /\ (Page!Mount \/ Page!Unmount) BY <1>1, <1>2, <1>3, <1>5, PageReplaced
<1> QED BY <1>1, <1>4, <1>5

LEMMA SettingsOpened ==
  ASSUME Page!ScreenAssumption, PageInvariant, NEW yes \in BOOLEAN,
         Page!OpenSettings(yes) \/ Page!PrepareUpdate(yes)
  PROVE  PageInvariant'
<1>1. /\ ~frozen /\ moves < MaxMoves /\ moves' = moves + 1 /\ Page!Asks(yes)
      /\ UNCHANGED <<disk, library, selection, loaded, language, page, mounts, catalog, catalogError, first, draft,
                     busy, painted, stopping, feedback, call, doubt, presses>>
  BY DEF Page!OpenSettings, Page!PrepareUpdate, Page!facts, Page!screen
<1>2. /\ consented' \in BOOLEAN
      /\ Page!Allows(yes) => (page = 0 \/ ~busy) /\ (draft # Page!NoDraft => consented')
  BY <1>1, AskedBefore
<1>3. moves' \in 0..MaxMoves BY <1>1 DEF PageInvariant, Typed, Page!ScreenAssumption
<1>4. CASE Page!OpenSettings(yes)
  <2>1. screenDialog = "closed" /\ frozen' = frozen /\ screenDialog' = (IF Page!Asked(yes) THEN "open" ELSE screenDialog)
    BY <1>4 DEF Page!OpenSettings
  <2>2. frozen' \in BOOLEAN /\ screenDialog' \in {"closed", "open"} BY <1>1, <2>1 DEF PageInvariant, Typed
  <2>3. Consent' BY <1>1, <1>2, <2>1 DEF Consent, Page!Asked
  <2>4. screenDialog' # "closed" => page = 0 \/ ~busy BY <1>2, <2>1 DEF Page!Asked
  <2> QED BY <1>1, <1>2, <1>3, <2>1, <2>2, <2>3, <2>4, AroundThePage
<1>5. CASE Page!PrepareUpdate(yes)
  <2>1. screenDialog' = screenDialog /\ frozen' \in BOOLEAN /\ (frozen' => Page!Allows(yes))
    BY <1>5 DEF Page!PrepareUpdate
  <2>2. screenDialog \in {"closed", "open", "dirty", "saving"} /\ (screenDialog # "closed" => ~busy)
    BY DEF PageInvariant, Typed, OnePage
  <2>3. Consent'
    <3>1. consented => consented' BY <1>1 DEF Page!Asks
    <3> QED BY <1>1, <2>1, <3>1 DEF PageInvariant, Consent
  <2> QED BY <1>1, <1>2, <1>3, <2>1, <2>2, <2>3, AroundThePage
<1> QED BY <1>4, <1>5

LEMMA DialogStep ==
  ASSUME PageInvariant,
         Page!DialogEdits \/ Page!DialogSaves \/ Page!CloseDialog \/ Page!CancelUpdate
  PROVE  PageInvariant'
<1>1. /\ screenDialog' \in {"closed", "open", "dirty", "saving"} /\ frozen' \in BOOLEAN
      /\ screenDialog' # "closed" => screenDialog # "closed"
      /\ frozen' => frozen
      /\ UNCHANGED <<disk, library, selection, loaded, language, page, mounts, catalog, catalogError, first, draft,
                     busy, painted, stopping, feedback, call, consented, doubt, presses, moves>>
  <2> USE DEF Page!facts, Page!screen, Page!ghost, Page!count
  <2>0. screenDialog \in {"closed", "open", "dirty", "saving"} /\ frozen \in BOOLEAN BY DEF PageInvariant, Typed
  <2>1. CASE Page!DialogEdits BY <2>0, <2>1 DEF Page!DialogEdits
  <2>2. CASE Page!DialogSaves BY <2>0, <2>2 DEF Page!DialogSaves
  <2>3. CASE Page!CloseDialog BY <2>0, <2>3 DEF Page!CloseDialog
  <2>4. CASE Page!CancelUpdate BY <2>0, <2>4 DEF Page!CancelUpdate
  <2> QED BY <2>1, <2>2, <2>3, <2>4
<1>2. consented \in BOOLEAN /\ moves \in 0..MaxMoves BY DEF PageInvariant, Typed
<1>3. Consent' BY <1>1 DEF PageInvariant, Consent
<1>4. screenDialog # "closed" \/ frozen => ~busy BY DEF PageInvariant, OnePage
<1> QED BY <1>1, <1>2, <1>3, <1>4, AroundThePage

LEMMA LanguageSaved ==
  ASSUME PageInvariant, NEW l \in Languages, Page!DialogSaved(l) PROVE PageInvariant'
<1>1. /\ screenDialog = "saving" /\ screenDialog' = "open" /\ language' = l /\ loaded' \in BOOLEAN
      /\ UNCHANGED <<disk, library, selection, page, mounts, catalog, catalogError, first, draft,
                     busy, painted, stopping, feedback, call, frozen, consented, doubt, presses, moves>>
  BY DEF Page!DialogSaved, Page!screen, Page!ghost, Page!count
<1>2. ~busy /\ busy \in BOOLEAN BY <1>1 DEF PageInvariant, OnePage, Typed
<1>3. \A c \in Slots : ~Running(c)' BY <1>1, <1>2, IdleRunsNothing DEF Running
<1>4. Typed' BY <1>1 DEF PageInvariant, Typed, Page!Catalogs, Page!Selections
<1>5. Consent' BY <1>1 DEF PageInvariant, Consent
<1>6. catalog # Page!NoCatalog => Agrees BY <1>2, IdleRunsNothing DEF PageInvariant, Told
<1>7. catalog' # Page!NoCatalog => Agrees' BY <1>1, <1>6 DEF Agrees
<1>8. /\ page' = 0 => catalog' = Page!NoCatalog /\ draft' = Page!NoDraft /\ first' = Page!Nothing
      /\ first' = "asked" => catalog' = Page!NoCatalog
  BY <1>1 DEF PageInvariant, OnePage, FirstRead
<1> QED BY <1>1, <1>2, <1>3, <1>4, <1>5, <1>7, <1>8, AtRest

LEMMA DataWasReset ==
  ASSUME Page!ScreenAssumption, PageInvariant, Page!DataReset PROVE PageInvariant'
<1>1. /\ screenDialog = "saving" /\ screenDialog' = "open" /\ moves < MaxMoves /\ moves' = moves + 1
      /\ IF page = 0 THEN UNCHANGED Page!screen ELSE Page!Mount
      /\ UNCHANGED <<disk, library, selection, loaded, language, call, frozen, consented, doubt, presses>>
  BY DEF Page!DataReset, Page!facts, Page!ghost
<1>2. ~busy /\ consented \in BOOLEAN /\ frozen \in BOOLEAN BY <1>1 DEF PageInvariant, OnePage, Typed
<1>3. moves' \in 0..MaxMoves BY <1>1 DEF PageInvariant, Typed, Page!ScreenAssumption
<1>4. CASE page = 0
  <2>1. Consent' BY <1>1, <1>4 DEF PageInvariant, Consent, Page!screen
  <2> QED BY <1>1, <1>2, <1>3, <1>4, <2>1, AroundThePage DEF Page!screen
<1>5. CASE page # 0 BY <1>1, <1>2, <1>3, <1>5, PageReplaced
<1> QED BY <1>4, <1>5

-----------------------------------------------------------------------------
LEMMA PageStep ==
  ASSUME Page!ScreenAssumption, PageInvariant, [Page!Next]_(Page!vars) PROVE PageInvariant'
<1>1. CASE Page!Presses BY <1>1, PressStep DEF Page!Presses
<1>2. CASE Page!Paint \/ Page!Stop BY <1>2, PaintStep
<1>3. CASE Page!ChoosesModel BY <1>3, ChoiceStep
<1>4. CASE Page!FirstAnswer BY <1>4, FirstAnswered DEF Page!FirstAnswer
<1>5. ASSUME NEW c \in Slots, Page!Answers(c) PROVE PageInvariant'
  BY <1>5, ReadAnswered, InstallAnswered, RemoveAnswered, AddAnswered, ItemAnswered, ApplyAnswered DEF Page!Answers
<1>6. CASE Page!Hub
  BY <1>6, SectionOpened, SettingsOpened, DialogStep, LanguageSaved, DataWasReset DEF Page!Hub
<1>7. CASE UNCHANGED Page!vars
  <2>1. UNCHANGED <<disk, library, selection, loaded, language, page, mounts, catalog, catalogError, first, draft,
                    busy, painted, stopping, feedback, call, screenDialog, frozen, consented, doubt, presses, moves>>
    BY <1>7 DEF Page!vars, Page!facts, Page!screen, Page!hub, Page!count, Page!ghost
  <2>2. /\ screenDialog \in {"closed", "open", "dirty", "saving"} /\ frozen \in BOOLEAN /\ consented \in BOOLEAN
        /\ moves \in 0..MaxMoves /\ (screenDialog # "closed" \/ frozen => ~busy) /\ Consent
    BY DEF PageInvariant, Typed, OnePage
  <2>3. Consent' BY <2>1, <2>2 DEF Consent
  <2> QED BY <2>1, <2>2, <2>3, AroundThePage
<1> QED BY <1>1, <1>2, <1>3, <1>4, <1>5, <1>6, <1>7 DEF Page!Next

LEMMA PageInvariantSays ==
  ASSUME PageInvariant
  PROVE  /\ Page!TypeOK /\ Page!OneOperation /\ Page!OutcomeIsShown /\ Page!CatalogIsTrue
         /\ Page!ApplyIsAccepted /\ Page!UpdateFindsIdle
<1>1. \A c \in Slots : Page!Running(c) <=> Running(c) BY DEF Page!Running, Running
<1>2. Page!OneOperation
  <2> DEFINE R == {c \in Slots : Page!Running(c)}
  <2>1. Page!Cardinality(R) = Cardinality(R) BY DEF Page!Cardinality, Cardinality
  <2>2. CASE R = {} BY <2>1, <2>2, FS_EmptySet DEF Page!OneOperation
  <2>3. CASE R # {}
    <3>1. PICK c : c \in R BY <2>3
    <3>2. R = {c} BY <1>1, <3>1 DEF PageInvariant, OnePage
    <3> QED BY <2>1, <3>2, FS_Singleton DEF Page!OneOperation
  <2> QED BY <2>2, <2>3
<1>3. Page!OutcomeIsShown /\ Page!UpdateFindsIdle
  BY <1>1 DEF PageInvariant, OnePage, Page!OutcomeIsShown, Page!Here, Page!UpdateFindsIdle
<1>4. Page!CatalogIsTrue
  BY <1>1 DEF PageInvariant, Told, Agrees, Page!CatalogIsTrue, Page!HasCatalog
<1>5. Page!ApplyIsAccepted BY <1>1 DEF PageInvariant, Fits, Page!ApplyIsAccepted
<1>6. Page!TypeOK
  <2>1. ASSUME NEW c \in Slots, Page!Running(c)
        PROVE  /\ call[c].at \in {"asked", "reading"} /\ call[c].kind \in Page!Kinds \union {"all"}
               /\ call[c].page \in 1..mounts
               /\ \A i \in DOMAIN call[c].todo : call[c].todo[i] \in Page!Steps
    <3>1. call[c] \in Calls /\ call[c].page = page /\ page # 0 BY <2>1, AsksOnItsPage
    <3>2. page \in 0..mounts /\ mounts \in Nat BY DEF PageInvariant, Typed
    <3> QED BY <3>1, <3>2 DEF Calls
  <2>2. Page!NoDraft = [mode |-> Page!Nothing] /\ Page!NoCatalog = [disk |-> Page!Nothing]
    BY DEF Page!NoDraft, Page!NoCatalog
  <2> QED BY <2>1, <2>2 DEF Page!TypeOK, PageInvariant, Typed
<1> QED BY <1>2, <1>3, <1>4, <1>5, <1>6

\* The Models page, for any families, presses and windows around it: one operation runs at a
\* time, on the page that is mounted, so how it ended is shown; an idle page shows the packages
\* as they are, but for one whose removal failed; what Apply asks for is accepted; and an update
\* finds the page idle (modelOperationInFlight, attemptDismissal(), refreshModelCatalog()).
THEOREM PageStaysTrue ==
  ASSUME Page!ScreenAssumption
  PROVE  Page!Spec => [](/\ Page!TypeOK /\ Page!OneOperation /\ Page!OutcomeIsShown /\ Page!CatalogIsTrue
                         /\ Page!ApplyIsAccepted /\ Page!UpdateFindsIdle)
<1>1. Page!Init => PageInvariant BY PageStarts
<1>2. PageInvariant /\ [Page!Next]_(Page!vars) => PageInvariant' BY PageStep
<1>3. PageInvariant => /\ Page!TypeOK /\ Page!OneOperation /\ Page!OutcomeIsShown /\ Page!CatalogIsTrue
                       /\ Page!ApplyIsAccepted /\ Page!UpdateFindsIdle
  BY PageInvariantSays
<1> QED BY <1>1, <1>2, <1>3, PTL DEF Page!Spec

LEMMA DraftGoesWithConsent ==
  ASSUME PageInvariant, Page!Next PROVE Page!DraftNeedsConsent
<1> SUFFICES ASSUME draft # Page!NoDraft, draft' = Page!NoDraft
             PROVE  consented \/ consented' \/ \E c \in Slots : Page!Running(c) /\ Page!AnswerApply(c, TRUE)
  BY DEF Page!DraftNeedsConsent
<1>1. page # 0 BY DEF PageInvariant, OnePage
<1>2. CASE Page!Presses BY <1>2 DEF Page!Presses, Page!Press
<1>3. CASE Page!Paint \/ Page!Stop \/ Page!FirstAnswer
  BY <1>3 DEF Page!Paint, Page!Stop, Page!FirstAnswer, Page!FirstAnswers
<1>4. CASE Page!ChoosesModel
  <2>1. PICK f, m : Page!Choose([family |-> f, mode |-> m])
    BY <1>4 DEF Page!ChoosesModel, Page!ChooseFamily, Page!ChooseExperience
  <2>2. [family |-> f, mode |-> m] = Page!NoDraft BY <2>1 DEF Page!Choose
  <2>3. DOMAIN [family |-> f, mode |-> m] = {"family", "mode"} OBVIOUS
  <2>4. DOMAIN Page!NoDraft = {"mode"} BY DEF Page!NoDraft
  <2> QED BY <2>2, <2>3, <2>4
<1>5. ASSUME NEW c \in Slots, Page!Answers(c)
      PROVE  \E d \in Slots : Page!Running(d) /\ Page!AnswerApply(d, TRUE)
  <2>1. PICK ok \in BOOLEAN : Page!AnswerApply(c, ok)
    BY <1>5 DEF Page!Answers, Page!AnswerRead, Page!ReadFails, Page!AnswerInstall, Page!AnswerRemove,
                Page!AnswerAdd, Page!AnswerItem
  <2>2. ok = TRUE
    <3>1. CASE ok = FALSE
      <4>1. Page!AnswerApply(c, FALSE) BY <2>1, <3>1
      <4>2. draft' = draft BY <4>1 DEF Page!AnswerApply
      <4> QED BY <4>2
    <3> QED BY <3>1
  <2> QED BY <2>1, <2>2 DEF Page!AnswerApply
<1>6. CASE Page!Hub
  <2>1. ASSUME NEW target \in {"models", "notes", "other"}, NEW yes \in BOOLEAN, NEW dialogYes \in BOOLEAN,
               Page!OpenSection(target, yes, dialogYes)
        PROVE  consented'
    <3>1. Page!Asks(yes) /\ (UNCHANGED Page!screen \/ Page!Asked(yes)) BY <2>1 DEF Page!OpenSection
    <3>2. Page!Asked(yes) BY <3>1 DEF Page!screen
    <3> QED BY <3>1, <3>2, AskedBefore DEF Page!Asked
  <2>2. CASE Page!DataReset
    BY <2>2 DEF Page!DataReset, PageInvariant, Consent
  <2>3. CASE \/ \E yes \in BOOLEAN : Page!OpenSettings(yes) \/ Page!PrepareUpdate(yes)
             \/ Page!DialogEdits \/ Page!DialogSaves \/ Page!CloseDialog \/ Page!CancelUpdate
             \/ \E l \in Languages : Page!DialogSaved(l)
    BY <2>3 DEF Page!OpenSettings, Page!PrepareUpdate, Page!DialogEdits, Page!DialogSaves, Page!CloseDialog,
                Page!CancelUpdate, Page!DialogSaved, Page!screen
  <2> QED BY <1>6, <2>1, <2>2, <2>3 DEF Page!Hub
<1> QED BY <1>2, <1>3, <1>4, <1>5, <1>6 DEF Page!Next

LEMMA AllIsSaidOfAll ==
  ASSUME PageInvariant, Page!Next PROVE Page!AllMeansAll
<1> SUFFICES ASSUME feedback # "all", feedback' = "all"
             PROVE  /\ library' = Families
                    /\ \A f \in Families \ UNION {call[c].doubts : c \in {d \in Slots : Page!Running(d)}} :
                         disk'[f] = "verified"
  BY DEF Page!AllMeansAll, Page!SaysAll
<1>1. PICK c \in Slots : Page!AnswerRead(c) /\ Page!LineOf(c) = "all"
  <2>1. CASE Page!Presses BY <2>1 DEF Page!Presses, Page!Press
  <2>2. CASE Page!Paint \/ Page!Stop \/ Page!FirstAnswer
    BY <2>2 DEF Page!Paint, Page!Stop, Page!FirstAnswer, Page!FirstAnswers
  <2>3. CASE Page!ChoosesModel
    BY <2>3 DEF Page!ChoosesModel, Page!ChooseFamily, Page!ChooseExperience, Page!Choose
  <2>4. CASE Page!Hub
    BY <2>4 DEF Page!Hub, Page!OpenSettings, Page!PrepareUpdate, Page!DialogEdits, Page!DialogSaves,
       Page!CloseDialog, Page!CancelUpdate, Page!DialogSaved, Page!screen, Page!DataReset, Page!OpenSection,
       Page!Mount, Page!Unmount, Page!Blank
  <2>5. ASSUME NEW c \in Slots, Page!Answers(c)
        PROVE  \E d \in Slots : Page!AnswerRead(d) /\ Page!LineOf(d) = "all"
    <3>1. CASE Page!AnswerRead(c) BY <3>1 DEF Page!AnswerRead, Page!Ends
    <3>2. CASE Page!ReadFails(c) BY <3>2 DEF Page!ReadFails, Page!Ends
    <3>3. ASSUME NEW ok \in BOOLEAN, Page!AnswerInstall(c, ok) PROVE FALSE
      BY <3>3 DEF Page!AnswerInstall, Page!Ends
    <3>4. ASSUME NEW ok \in BOOLEAN, Page!AnswerRemove(c, ok) PROVE FALSE
      BY <3>4 DEF Page!AnswerRemove, Page!Ends
    <3>5. ASSUME NEW ok \in BOOLEAN, Page!AnswerAdd(c, ok) PROVE FALSE
      BY <3>5 DEF Page!AnswerAdd, Page!Ends
    <3>6. ASSUME NEW ok \in BOOLEAN, Page!AnswerItem(c, ok) PROVE FALSE
      BY <3>6 DEF Page!AnswerItem
    <3>7. ASSUME NEW ok \in BOOLEAN, Page!AnswerApply(c, ok) PROVE FALSE
      BY <3>7 DEF Page!AnswerApply, Page!Ends
    <3> QED BY <2>5, <3>1, <3>2, <3>3, <3>4, <3>5, <3>6, <3>7 DEF Page!Answers
  <2> QED BY <2>1, <2>2, <2>3, <2>4, <2>5 DEF Page!Next
<1>2. /\ Page!Running(c) /\ call[c].kind = "all" /\ call[c].todo = <<>> /\ disk' = disk /\ library' = library
  BY <1>1 DEF Page!AnswerRead, Page!LineOf, Page!facts
<1>3. ToAdd(<<>>) /\ ToFetch(<<>>, call[c].doubts)
  BY <1>2, AsksOnItsPage DEF PageInvariant, Remaining
<1>4. DOMAIN <<>> = {} OBVIOUS
<1>5. library = Families BY <1>3, <1>4 DEF ToAdd, PageInvariant, Typed
<1>6. \A f \in Families \ call[c].doubts : disk[f] = "verified" BY <1>3, <1>4 DEF ToFetch
<1> QED BY <1>2, <1>5, <1>6

\* A choice that is not applied is only given up with the user's consent, and Download all says
\* that all packages are there only when they are, but for those whose removal had failed before
\* the press (decideSettingsDismissal(), installAllModels()).
THEOREM NothingIsGivenUp ==
  ASSUME Page!ScreenAssumption
  PROVE  Page!Spec => [][Page!DraftNeedsConsent /\ Page!AllMeansAll]_(Page!vars)
<1>1. Page!Init => PageInvariant BY PageStarts
<1>2. PageInvariant /\ [Page!Next]_(Page!vars) => PageInvariant' BY PageStep
<1>3. PageInvariant /\ [Page!Next]_(Page!vars) => [Page!DraftNeedsConsent /\ Page!AllMeansAll]_(Page!vars)
  BY DraftGoesWithConsent, AllIsSaidOfAll
<1> QED BY <1>1, <1>2, <1>3, PTL DEF Page!Spec
=============================================================================
