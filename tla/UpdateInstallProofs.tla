-------------------------- MODULE UpdateInstallProofs --------------------------
(***************************************************************************)
(* For any set of editors and any number of releases and preparations:     *)
(* the update retires the application only over saved, frozen editors, an  *)
(* editor is frozen for a reason, and the process is replaced with its     *)
(* runtime released.                                                       *)
(*                                                                         *)
(* The numbers of the preparations do the work: each message, reply and    *)
(* drain of an editor carries one, none is ahead of `attempts', and the    *)
(* preparation in progress is the newest (Numbers, Mail).  So a reply that *)
(* counts was sent by an editor frozen for this preparation, which nothing *)
(* on its way can thaw (Saved), and what froze an editor is either still   *)
(* there or has sent its release behind (Reasons).                         *)
(*                                                                         *)
(* Then the two editors' sides of it, each a component of its own: the     *)
(* notes an update asks to save (Pad, an instance of NotesEditor), and the *)
(* windows themselves, which fail and are replaced (Screen, an instance of *)
(* AppWindows).                                                            *)
(***************************************************************************)
EXTENDS UpdateInstall, FiniteSetTheorems, SequenceTheorems, TLAPS

\* How the preparation, the action and Quit go together.
Admission ==
  /\ isPreparing => attempt.id = attempts /\ attempt.id # NoRequest /\ ~busy
  /\ isPreparing /\ ~attempt.retiring => action = "preparing" /\ ~quitting
  /\ attempt.retiring => isPreparing /\ quitting /\ attempt.pending = {}
  /\ prepared # "none" => action = "preparing"
  /\ prepared = "resolved" => isPreparing /\ attempt.pending = {}
  /\ prepared = "rejected" => ~isPreparing
  /\ isPreparing => Open \subseteq attempt.editors
  /\ action \in {"queued", "awaitsCheck", "validating", "downloading", "install"} => attempts < MaxAttempts
  /\ action = "releasing" => attempt.retiring
  /\ installStarted => attempt.retiring /\ release = "done"

\* Whom nothing freezes, and whose mail is empty, has no window.
Closed(e) == ~window[e] => inbox[e] = <<>> /\ request[e] = NoRequest

\* No number is ahead of the preparations begun.
Numbers(e) ==
  /\ request[e] <= attempts /\ \A id \in draining[e] : id <= attempts
  /\ \A i \in DOMAIN inbox[e] : inbox[e][i].id <= attempts
  /\ \A i \in DOMAIN replies[e] : replies[e][i].id <= attempts

\* A preparation is asked for once; its release is not under way while it lasts.
Mail(e) ==
  /\ \A i, j \in DOMAIN inbox[e] :
       inbox[e][i].kind = "prepare" /\ inbox[e][j].kind = "prepare"
         /\ inbox[e][i].id = inbox[e][j].id => i = j
  /\ \A i \in DOMAIN inbox[e] : inbox[e][i].kind = "prepare" => inbox[e][i].id \notin draining[e]
  /\ isPreparing => \A i \in DOMAIN inbox[e] :
                      inbox[e][i].kind = "cancel" => inbox[e][i].id # attempt.id

\* The editor holds nothing unsaved, and nothing under way can thaw it.
Done(e) ==
  /\ request[e] = attempt.id /\ ~unsaved[e] /\ attempt.id \notin draining[e]
  /\ \A i \in DOMAIN inbox[e] : inbox[e][i].id # attempt.id

Saved(e) ==
  isPreparing =>
    /\ \A i \in DOMAIN replies[e] :
         replies[e][i].prepared /\ replies[e][i].id = attempt.id => Done(e)
    /\ e \in attempt.editors \ attempt.pending /\ window[e] => Done(e)

Current(e, id) == isPreparing /\ attempt.id = id /\ e \in attempt.editors

ReleaseOf(id) == [kind |-> "cancel", id |-> id]

\* What freezes an editor, or will, is the preparation in progress, or is released later.
Reasons(e) ==
  /\ request[e] # NoRequest =>
       Current(e, request[e]) \/ \E j \in DOMAIN inbox[e] : inbox[e][j] = ReleaseOf(request[e])
  /\ \A i \in DOMAIN inbox[e] : inbox[e][i].kind = "prepare" =>
       \/ Current(e, inbox[e][i].id)
       \/ \E j \in DOMAIN inbox[e] : j > i /\ inbox[e][j] = ReleaseOf(inbox[e][i].id)

EditorInv(e) == Closed(e) /\ Numbers(e) /\ Mail(e) /\ Saved(e) /\ Reasons(e)

Inv == TypeOK /\ Admission /\ \A e \in Editors : EditorInv(e)

-----------------------------------------------------------------------------
(* Sequences.                                                               *)

LEMMA Appended ==
  ASSUME NEW S, NEW s \in Seq(S), NEW x \in S
  PROVE  /\ Append(s, x) \in Seq(S) /\ DOMAIN Append(s, x) = 1 .. (Len(s) + 1)
         /\ DOMAIN s = 1 .. Len(s) /\ Len(s) \in Nat
         /\ \A i \in 1 .. Len(s) : Append(s, x)[i] = s[i]
         /\ Append(s, x)[Len(s) + 1] = x
OBVIOUS

LEMMA Taken ==
  ASSUME NEW S, NEW s \in Seq(S), s # <<>>
  PROVE  /\ Tail(s) \in Seq(S) /\ Head(s) = s[1] /\ 1 \in DOMAIN s /\ s[1] \in S
         /\ DOMAIN Tail(s) = 1 .. (Len(s) - 1) /\ DOMAIN s = 1 .. Len(s) /\ Len(s) \in Nat
         /\ \A i \in 1 .. (Len(s) - 1) : Tail(s)[i] = s[i + 1]
OBVIOUS

-----------------------------------------------------------------------------
(* Types.                                                                   *)

Attempts == [id : Requests \union {NoRequest}, editors : SUBSET Editors,
             pending : SUBSET Editors, retiring : BOOLEAN, watched : BOOLEAN]

FlagTypeOK ==
  /\ nativeAttempted \in BOOLEAN /\ nativeActive \in BOOLEAN /\ nativeAvailable \in BOOLEAN
  /\ installStarted \in BOOLEAN /\ disposed \in BOOLEAN /\ busy \in BOOLEAN
  /\ quitting \in BOOLEAN /\ exited \in BOOLEAN

FlowTypeOK ==
  /\ phase \in Phases /\ selected \in Versions \union {NoVersion}
  /\ check \in {"none", "queued", "running"} /\ action \in Actions
  /\ native \in {"idle", "checking", "downloading", "over", "failed"}
  /\ staged \in Versions \union {NoVersion} /\ offered \in Versions \union {NoVersion}
  /\ approved \in Versions \union {NoVersion}
  /\ release \in {"none", "running", "done", "failed"}

AttemptTypeOK ==
  attempt \in Attempts /\ attempts \in 0 .. MaxAttempts /\ prepared \in {"none", "resolved", "rejected"}

EditorTypeOK ==
  /\ window \in [Editors -> BOOLEAN] /\ request \in [Editors -> Requests \union {NoRequest}]
  /\ draining \in [Editors -> SUBSET Requests] /\ unsaved \in [Editors -> BOOLEAN]
  /\ inbox \in [Editors -> Seq(Messages)] /\ replies \in [Editors -> Seq(Replies)]

LEMMA TypeParts == TypeOK <=> FlagTypeOK /\ FlowTypeOK /\ AttemptTypeOK /\ EditorTypeOK
BY DEF TypeOK, FlagTypeOK, FlowTypeOK, AttemptTypeOK, EditorTypeOK, Attempts

LEMMA TypePartsNext == FlagTypeOK' /\ FlowTypeOK' /\ AttemptTypeOK' /\ EditorTypeOK' => TypeOK'
BY DEF TypeOK, FlagTypeOK, FlowTypeOK, AttemptTypeOK, EditorTypeOK, Attempts

LEMMA TypeInit == Init => TypeOK
<1> SUFFICES ASSUME Init PROVE TypeOK  OBVIOUS
<1>1. FlagTypeOK  BY Zenon DEF Init, FlagTypeOK
<1>2. FlowTypeOK  BY DEF Init, FlowTypeOK, Phases, Actions, NoVersion
<1>3. AttemptTypeOK
  BY UpdateAssumption DEF Init, AttemptTypeOK, Attempts, NoAttempt, NoRequest
<1>4. <<>> \in Seq(Messages) /\ <<>> \in Seq(Replies)  OBVIOUS
<1>5. EditorTypeOK  BY <1>4 DEF Init, EditorTypeOK
<1> QED  BY <1>1, <1>2, <1>3, <1>5, TypeParts

\* Only the messages change when some are posted.
LEMMA PostType ==
  ASSUME EditorTypeOK, NEW editors \in SUBSET Editors, NEW kind \in {"prepare", "cancel"},
         NEW id \in Requests, Post(editors, kind, id)
  PROVE  inbox' \in [Editors -> Seq(Messages)]
<1>1. [kind |-> kind, id |-> id] \in Messages  BY DEF Messages
<1>2. \A e \in Editors : Append(inbox[e], [kind |-> kind, id |-> id]) \in Seq(Messages)
  BY <1>1 DEF EditorTypeOK
<1>3. \A e \in Editors : inbox[e] \in Seq(Messages)  BY DEF EditorTypeOK
<1> QED  BY <1>2, <1>3 DEF Post

LEMMA CancelType ==
  ASSUME EditorTypeOK, AttemptTypeOK, Admission, CancelAttempt, attempts' = attempts
  PROVE  AttemptTypeOK' /\ inbox' \in [Editors -> Seq(Messages)]
<1>1. CASE ~isPreparing \/ attempt.retiring
  BY <1>1 DEF CancelAttempt, AttemptTypeOK, EditorTypeOK
<1>2. CASE isPreparing /\ ~attempt.retiring
  <2>1. attempt.id \in Requests /\ attempt.editors \in SUBSET Editors
    BY <1>2 DEF Admission, AttemptTypeOK, Attempts
  <2>2. inbox' \in [Editors -> Seq(Messages)]
    BY <1>2, <2>1, PostType DEF CancelAttempt, ToRelease
  <2>3. NoAttempt \in Attempts  BY DEF NoAttempt, NoRequest, Attempts
  <2>4. attempt' = NoAttempt /\ prepared' = "rejected"  BY <1>2 DEF CancelAttempt
  <2> QED  BY <2>2, <2>3, <2>4 DEF AttemptTypeOK
<1> QED  BY <1>1, <1>2

LEMMA FlagType == FlagTypeOK /\ Next => FlagTypeOK'
<1> SUFFICES ASSUME FlagTypeOK, Next PROVE FlagTypeOK'  OBVIOUS
<1> USE DEF discoveryVars, nativeVars, runtimeVars, admissionVars, editorVars, publish, Phases, Actions,
            NoVersion, CompleteNative
<1>1. CASE Check  BY <1>1, Zenon DEF Check, FlagTypeOK
<1>2. CASE CheckStarts  BY <1>2, Zenon DEF CheckStarts, FlagTypeOK
<1>3. CASE CheckEnds  BY <1>3, Zenon DEF CheckEnds, FlagTypeOK
<1>4. CASE Offers  BY <1>4, Zenon DEF Offers, FlagTypeOK
<1>5. CASE DownloadAndRestart  BY <1>5, Zenon DEF DownloadAndRestart, FlagTypeOK
<1>6. CASE ActionStarts  BY <1>6, Zenon DEF ActionStarts, FlagTypeOK
<1>7. CASE FeedValidated  BY <1>7, Zenon DEF FeedValidated, FlagTypeOK
<1>8. CASE UpdateAvailable  BY <1>8, Zenon DEF UpdateAvailable, FlagTypeOK
<1>9. CASE UpdateDownloaded  BY <1>9, Zenon DEF UpdateDownloaded, FlagTypeOK
<1>10. CASE UpdateNotAvailable  BY <1>10, Zenon DEF UpdateNotAvailable, FlagTypeOK
<1>11. CASE NativeError  BY <1>11, Zenon DEF NativeError, FlagTypeOK
<1>12. CASE InstallReady  BY <1>12, Zenon DEF InstallReady, FlagTypeOK
<1>13. CASE PreparationTimesOut  BY <1>13, Zenon DEF PreparationTimesOut, FlagTypeOK
<1>14. CASE BeginWork  BY <1>14, Zenon DEF BeginWork, FlagTypeOK
<1>15. CASE EndWork  BY <1>15, Zenon DEF EndWork, FlagTypeOK
<1>16. CASE Prepared  BY <1>16, Zenon DEF Prepared, FlagTypeOK
<1>17. CASE Released  BY <1>17, Zenon DEF Released, FlagTypeOK
<1>18. CASE Installs  BY <1>18, Zenon DEF Installs, FlagTypeOK
<1>19. CASE FailureShown  BY <1>19, Zenon DEF FailureShown, FlagTypeOK
<1>20. CASE Quit  BY <1>20, Zenon DEF Quit, FlagTypeOK
<1>21. ASSUME NEW e \in Editors, Acknowledge(e) PROVE FlagTypeOK'  BY <1>21, Zenon DEF Acknowledge, FlagTypeOK
<1>22. ASSUME NEW e \in Editors, EditorLost(e) PROVE FlagTypeOK'  BY <1>22, Zenon DEF EditorLost, FlagTypeOK
<1>23. ASSUME NEW e \in Editors, OpenEditor(e) PROVE FlagTypeOK'  BY <1>23, Zenon DEF OpenEditor, FlagTypeOK
<1>24. ASSUME NEW e \in Editors, Edit(e) PROVE FlagTypeOK'  BY <1>24, Zenon DEF Edit, FlagTypeOK
<1>25. ASSUME NEW e \in Editors, EditorHears(e) PROVE FlagTypeOK'  BY <1>25, Zenon DEF EditorHears, FlagTypeOK
<1>26. ASSUME NEW e \in Editors, NEW id \in Requests, EditorDrained(e, id) PROVE FlagTypeOK'
  BY <1>26, Zenon DEF EditorDrained, FlagTypeOK
<1> QED
  BY <1>1, <1>2, <1>3, <1>4, <1>5, <1>6, <1>7, <1>8, <1>9, <1>10, <1>11, <1>12, <1>13, <1>14, <1>15, <1>16, <1>17, <1>18, <1>19, <1>20, <1>21, <1>22, <1>23, <1>24, <1>25, <1>26
  DEF Next, Continues, Events, EditorStep

LEMMA FlowType == FlowTypeOK /\ Next => FlowTypeOK'
<1> SUFFICES ASSUME FlowTypeOK, Next PROVE FlowTypeOK'  OBVIOUS
<1> USE DEF discoveryVars, nativeVars, runtimeVars, admissionVars, editorVars, publish, Phases, Actions,
            NoVersion, CompleteNative
<1>1. CASE Check  BY <1>1 DEF Check, FlowTypeOK
<1>2. CASE CheckStarts  BY <1>2 DEF CheckStarts, FlowTypeOK
<1>3. CASE CheckEnds  BY <1>3 DEF CheckEnds, FlowTypeOK
<1>4. CASE Offers  BY <1>4 DEF Offers, FlowTypeOK
<1>5. CASE DownloadAndRestart  BY <1>5 DEF DownloadAndRestart, FlowTypeOK
<1>6. CASE ActionStarts  BY <1>6 DEF ActionStarts, FlowTypeOK
<1>7. CASE FeedValidated  BY <1>7 DEF FeedValidated, FlowTypeOK
<1>8. CASE UpdateAvailable  BY <1>8 DEF UpdateAvailable, FlowTypeOK
<1>9. CASE UpdateDownloaded  BY <1>9 DEF UpdateDownloaded, FlowTypeOK
<1>10. CASE UpdateNotAvailable  BY <1>10 DEF UpdateNotAvailable, FlowTypeOK
<1>11. CASE NativeError  BY <1>11 DEF NativeError, FlowTypeOK
<1>12. CASE InstallReady  BY <1>12 DEF InstallReady, FlowTypeOK
<1>13. CASE PreparationTimesOut  BY <1>13 DEF PreparationTimesOut, FlowTypeOK
<1>14. CASE BeginWork  BY <1>14 DEF BeginWork, FlowTypeOK
<1>15. CASE EndWork  BY <1>15 DEF EndWork, FlowTypeOK
<1>16. CASE Prepared  BY <1>16 DEF Prepared, FlowTypeOK
<1>17. CASE Released  BY <1>17 DEF Released, FlowTypeOK
<1>18. CASE Installs  BY <1>18 DEF Installs, FlowTypeOK
<1>19. CASE FailureShown  BY <1>19 DEF FailureShown, FlowTypeOK
<1>20. CASE Quit  BY <1>20 DEF Quit, FlowTypeOK
<1>21. ASSUME NEW e \in Editors, Acknowledge(e) PROVE FlowTypeOK'  BY <1>21 DEF Acknowledge, FlowTypeOK
<1>22. ASSUME NEW e \in Editors, EditorLost(e) PROVE FlowTypeOK'  BY <1>22 DEF EditorLost, FlowTypeOK
<1>23. ASSUME NEW e \in Editors, OpenEditor(e) PROVE FlowTypeOK'  BY <1>23 DEF OpenEditor, FlowTypeOK
<1>24. ASSUME NEW e \in Editors, Edit(e) PROVE FlowTypeOK'  BY <1>24 DEF Edit, FlowTypeOK
<1>25. ASSUME NEW e \in Editors, EditorHears(e) PROVE FlowTypeOK'  BY <1>25 DEF EditorHears, FlowTypeOK
<1>26. ASSUME NEW e \in Editors, NEW id \in Requests, EditorDrained(e, id) PROVE FlowTypeOK'
  BY <1>26 DEF EditorDrained, FlowTypeOK
<1> QED
  BY <1>1, <1>2, <1>3, <1>4, <1>5, <1>6, <1>7, <1>8, <1>9, <1>10, <1>11, <1>12, <1>13, <1>14, <1>15, <1>16, <1>17, <1>18, <1>19, <1>20, <1>21, <1>22, <1>23, <1>24, <1>25, <1>26
  DEF Next, Continues, Events, EditorStep

-----------------------------------------------------------------------------
(* What keeps the invariant of one editor.                                  *)

Rest == AttemptTypeOK /\ EditorTypeOK /\ Admission /\ \A e \in Editors : EditorInv(e)

\* Nothing of the editor changes but that answers are taken, nor of the preparation but that it
\* no longer awaits those that are done.
LEMMA Untouched ==
  ASSUME NEW e \in Editors, EditorInv(e), attempts' = attempts,
         attempt'.id = attempt.id, attempt'.editors = attempt.editors, isPreparing' = isPreparing,
         e \in attempt.editors \ attempt'.pending => e \notin attempt.pending \/ Done(e),
         window'[e] = window[e], request'[e] = request[e], draining'[e] = draining[e],
         unsaved'[e] = unsaved[e], inbox'[e] = inbox[e],
         \A i \in DOMAIN replies'[e] : \E j \in DOMAIN replies[e] : replies'[e][i] = replies[e][j]
  PROVE  EditorInv(e)'
<1>1. Closed(e)' /\ Mail(e)'  BY DEF EditorInv, Closed, Mail
<1>2. Numbers(e)'  BY DEF EditorInv, Numbers
<1>3. Done(e) => Done(e)'  BY DEF Done
<1>4. Saved(e)'  BY <1>3 DEF EditorInv, Saved
<1>5. Reasons(e)'  BY DEF EditorInv, Reasons, Current, ReleaseOf, NoRequest
<1> QED  BY <1>1, <1>2, <1>4, <1>5 DEF EditorInv

\* A window that is gone, or whose page begins anew, has forgotten everything.
LEMMA Emptied ==
  ASSUME NEW e \in Editors, attempts' \in Nat, inbox'[e] = <<>>, request'[e] = NoRequest,
         draining'[e] = {}, replies'[e] = <<>>,
         isPreparing' => ~(e \in attempt'.editors \ attempt'.pending /\ window'[e])
  PROVE  EditorInv(e)'
<1>1. DOMAIN inbox'[e] = {} /\ DOMAIN replies'[e] = {}  OBVIOUS
<1>2. Closed(e)' /\ Numbers(e)' /\ Mail(e)'  BY <1>1 DEF Closed, Numbers, Mail, NoRequest
<1>3. Saved(e)' /\ Reasons(e)'  BY <1>1 DEF Saved, Reasons
<1> QED  BY <1>2, <1>3 DEF EditorInv

\* The preparation is cancelled: a release is sent behind what froze the editor.
LEMMA Cancelled ==
  ASSUME AttemptTypeOK, EditorTypeOK, Admission, NEW e \in Editors, EditorInv(e),
         isPreparing, attempt' = NoAttempt, attempts' = attempts,
         inbox'[e] = IF e \in attempt.editors /\ window[e]
                     THEN Append(inbox[e], ReleaseOf(attempt.id)) ELSE inbox[e],
         window'[e] = window[e], request'[e] = request[e], draining'[e] = draining[e],
         \A i \in DOMAIN replies'[e] : replies'[e][i].id <= attempts
  PROVE  EditorInv(e)'
<1>1. ~isPreparing'  BY DEF isPreparing
<1>2. attempt.id = attempts /\ attempt.id # NoRequest /\ attempt.id \in Requests
      /\ ReleaseOf(attempt.id) \in Messages /\ inbox[e] \in Seq(Messages)
  BY DEF Admission, AttemptTypeOK, EditorTypeOK, Attempts, ReleaseOf, Messages
<1>3. CASE ~(e \in attempt.editors /\ window[e])
  <2>1. inbox'[e] = inbox[e]  BY <1>3
  <2>2. Closed(e)' /\ Numbers(e)' /\ Mail(e)' /\ Saved(e)'
    BY <1>1, <2>1 DEF EditorInv, Closed, Numbers, Mail, Saved
  <2>3. e \in attempt.editors => DOMAIN inbox[e] = {} /\ request[e] = NoRequest
    BY <1>3 DEF EditorInv, Closed
  <2>4. Reasons(e)'  BY <2>1, <2>3 DEF EditorInv, Reasons, Current, ReleaseOf, NoRequest
  <2> QED  BY <2>2, <2>4 DEF EditorInv
<1>4. CASE e \in attempt.editors /\ window[e]
  <2> DEFINE n == Len(inbox[e]) + 1
  <2>1. /\ DOMAIN inbox'[e] = 1 .. n /\ DOMAIN inbox[e] = 1 .. (n - 1) /\ n \in Nat \ {0}
        /\ \A i \in 1 .. (n - 1) : inbox'[e][i] = inbox[e][i]
        /\ inbox'[e][n] = ReleaseOf(attempt.id)
    BY <1>2, <1>4, Appended
  <2> HIDE DEF n
  <2>2. \A i \in 1 .. n : i # n => i \in 1 .. (n - 1)  BY <2>1
  <2>3. ReleaseOf(attempt.id).kind = "cancel" /\ ReleaseOf(attempt.id).id = attempt.id
    BY DEF ReleaseOf
  <2>4. Closed(e)'  BY <1>4 DEF Closed
  <2>5. Numbers(e)'
    <3>1. \A i \in DOMAIN inbox'[e] : inbox'[e][i].id <= attempts
      BY <1>2, <2>1, <2>2, <2>3 DEF EditorInv, Numbers, AttemptTypeOK
    <3> QED  BY <3>1 DEF EditorInv, Numbers
  <2>6. \A i \in 1 .. n : inbox'[e][i].kind = "prepare" =>
            i \in 1 .. (n - 1) /\ inbox[e][i].kind = "prepare" /\ inbox'[e][i] = inbox[e][i]
    BY <2>1, <2>2, <2>3
  <2>7. Mail(e)' /\ Saved(e)'  BY <1>1, <2>1, <2>6 DEF EditorInv, Mail, Saved
  <2>8. Reasons(e)'
    <3>1. ASSUME NEW id, Current(e, id) \/ \E j \in DOMAIN inbox[e] : inbox[e][j] = ReleaseOf(id)
          PROVE  \E j \in DOMAIN inbox'[e] : inbox'[e][j] = ReleaseOf(id)
      <4>1. CASE Current(e, id)  BY <2>1, <4>1 DEF Current
      <4>2. CASE \E j \in DOMAIN inbox[e] : inbox[e][j] = ReleaseOf(id)  BY <2>1, <4>2
      <4> QED  BY <3>1, <4>1, <4>2
    <3>2. request'[e] # NoRequest =>
            \E j \in DOMAIN inbox'[e] : inbox'[e][j] = ReleaseOf(request'[e])
      BY <3>1 DEF EditorInv, Reasons, NoRequest
    <3>3. ASSUME NEW i \in DOMAIN inbox'[e], inbox'[e][i].kind = "prepare"
          PROVE  \E j \in DOMAIN inbox'[e] : j > i /\ inbox'[e][j] = ReleaseOf(inbox'[e][i].id)
      <4>1. i \in 1 .. (n - 1) /\ inbox'[e][i] = inbox[e][i] /\ inbox[e][i].kind = "prepare"
        BY <2>1, <2>6, <3>3
      <4>2. CASE Current(e, inbox[e][i].id)  BY <2>1, <4>1, <4>2 DEF Current
      <4>3. CASE \E j \in DOMAIN inbox[e] : j > i /\ inbox[e][j] = ReleaseOf(inbox[e][i].id)
        BY <2>1, <4>1, <4>3
      <4> QED  BY <2>1, <4>1, <4>2, <4>3 DEF EditorInv, Reasons
    <3> QED  BY <3>2, <3>3 DEF Reasons, ReleaseOf, NoRequest
  <2> QED  BY <2>4, <2>5, <2>7, <2>8 DEF EditorInv
<1> QED  BY <1>3, <1>4
-----------------------------------------------------------------------------
(* What each action keeps.                                                  *)

\* Checks, downloads and Squirrel: the preparation and the editors do not change.
Quiet ==
  /\ UNCHANGED <<attempt, attempts, prepared, window, request, draining, unsaved, inbox, replies,
                 busy, quitting, release>>
  /\ installStarted' => installStarted
  /\ \/ action' = action
     \/ action # "preparing" /\ action' \notin {"preparing", "releasing"} /\ attempts < MaxAttempts

LEMMA QuietKeeps == ASSUME Rest, Quiet PROVE Rest'
<1>1. AttemptTypeOK' /\ EditorTypeOK'  BY DEF Rest, Quiet, AttemptTypeOK, EditorTypeOK
<1>2. Admission'  BY DEF Rest, Quiet, Admission, isPreparing, Open, NoRequest
<1>3. ASSUME NEW e \in Editors PROVE EditorInv(e)'
  BY Untouched DEF Rest, Quiet, isPreparing
<1> QED  BY <1>1, <1>2, <1>3 DEF Rest

LEMMA QuietSteps ==
  ASSUME Rest, \/ Check \/ CheckStarts \/ CheckEnds \/ Offers \/ DownloadAndRestart \/ ActionStarts
               \/ FeedValidated \/ UpdateAvailable \/ UpdateDownloaded \/ UpdateNotAvailable
               \/ NativeError \/ Installs \/ FailureShown
  PROVE  Quiet
<1> USE DEF Quiet, discoveryVars, nativeVars, runtimeVars, admissionVars, editorVars, CompleteNative,
            Rest, Admission
<1>1. CASE Check  BY <1>1 DEF Check
<1>2. CASE CheckStarts  BY <1>2 DEF CheckStarts
<1>3. CASE CheckEnds  BY <1>3 DEF CheckEnds
<1>4. CASE Offers  BY <1>4 DEF Offers
<1>5. CASE DownloadAndRestart  BY <1>5 DEF DownloadAndRestart
<1>6. CASE ActionStarts  BY <1>6 DEF ActionStarts
<1>7. CASE FeedValidated  BY <1>7 DEF FeedValidated
<1>8. CASE UpdateAvailable  BY <1>8 DEF UpdateAvailable
<1>9. CASE UpdateDownloaded  BY <1>9 DEF UpdateDownloaded
<1>10. CASE UpdateNotAvailable  BY <1>10 DEF UpdateNotAvailable
<1>11. CASE NativeError  BY <1>11 DEF NativeError
<1>12. CASE Installs  BY <1>12 DEF Installs
<1>13. CASE FailureShown  BY <1>13 DEF FailureShown
<1> QED  BY <1>1, <1>2, <1>3, <1>4, <1>5, <1>6, <1>7, <1>8, <1>9, <1>10, <1>11, <1>12, <1>13

\* Work begins only under no preparation, and its end disturbs none; nor does a runtime's release.
LEMMA WorkKeeps == ASSUME Rest, BeginWork \/ EndWork \/ Released \/ Prepared PROVE Rest'
<1> USE DEF discoveryVars, nativeVars, runtimeVars, admissionVars, editorVars
<1>1. UNCHANGED <<attempts, window, request, draining, unsaved, inbox, replies>>
  BY DEF BeginWork, EndWork, Released, Prepared
<1>2. /\ attempt'.id = attempt.id /\ attempt'.editors = attempt.editors
      /\ attempt'.pending = attempt.pending /\ isPreparing' = isPreparing
      /\ attempt' \in Attempts
  <2>1. CASE attempt' = attempt  BY <2>1 DEF isPreparing, Rest, AttemptTypeOK
  <2>2. CASE attempt' = [attempt EXCEPT !.retiring = TRUE] /\ isPreparing
    <3>1. attempt'.id = attempt.id /\ attempt.id # NoRequest
      BY <2>2 DEF Rest, AttemptTypeOK, Attempts, Admission
    <3> QED  BY <2>2, <3>1 DEF isPreparing, NoAttempt, Rest, AttemptTypeOK, Attempts
  <2> QED  BY <2>1, <2>2 DEF BeginWork, EndWork, Released, Prepared
<1>3. prepared' \in {prepared, "none"}  BY DEF BeginWork, EndWork, Released, Prepared
<1>4. AttemptTypeOK' /\ EditorTypeOK'  BY <1>1, <1>2, <1>3 DEF Rest, AttemptTypeOK, EditorTypeOK
<1>5. ASSUME NEW e \in Editors PROVE EditorInv(e)'  BY <1>1, <1>2, Untouched DEF Rest
<1>6. Open' = Open  BY <1>1 DEF Open
<1>7. Admission'
  <2> USE <1>1, <1>6 DEF Rest, Admission
  <2>1. CASE BeginWork  BY <2>1 DEF BeginWork, MayBegin, isPreparing
  <2>2. CASE EndWork  BY <2>2 DEF EndWork, isPreparing
  <2>3. CASE Released  BY <2>3 DEF Released, isPreparing
  <2>4. CASE Prepared
    <3>1. CASE prepared = "resolved" /\ isPreparing /\ ~quitting
      BY <1>2, <2>4, <3>1 DEF Prepared, AttemptTypeOK, Attempts
    <3>2. CASE ~(prepared = "resolved" /\ isPreparing /\ ~quitting)
      BY <1>2, <2>4, <3>2 DEF Prepared, AttemptTypeOK
    <3> QED  BY <3>1, <3>2
  <2> QED  BY <2>1, <2>2, <2>3, <2>4
<1> QED  BY <1>4, <1>5, <1>7 DEF Rest

\* A cancellation, by the timer, an editor that could not save, or Quit: the preparation's action
\* is left waiting for its answer, and every editor is told.
LEMMA CancelKeeps ==
  ASSUME Rest, CancelAttempt, attempts' = attempts, prepared = "none",
         action' = action \/ (action = "downloading" /\ action' = "install"),
         UNCHANGED <<window, request, draining, unsaved, installStarted>>,
         release' = release \/ ~quitting, busy' => busy, quitting => quitting',
         replies' \in [Editors -> Seq(Replies)],
         \A e \in Editors : \A i \in DOMAIN replies'[e] :
           \E j \in DOMAIN replies[e] : replies'[e][i] = replies[e][j]
  PROVE  Rest'
<1>1. AttemptTypeOK' /\ EditorTypeOK'  BY CancelType DEF Rest, EditorTypeOK
<1>2. ASSUME NEW e \in Editors PROVE \A i \in DOMAIN replies'[e] : replies'[e][i].id <= attempts
  BY DEF Rest, EditorInv, Numbers
<1>3. CASE isPreparing /\ ~attempt.retiring
  <2>1. attempt' = NoAttempt /\ prepared' = "rejected" /\ ~isPreparing' /\ ~attempt'.retiring
    BY <1>3 DEF CancelAttempt, NoAttempt, isPreparing
  <2>2. Admission'  BY <1>3, <2>1 DEF Rest, Admission
  <2>3. ASSUME NEW e \in Editors PROVE EditorInv(e)'
    <3>1. inbox'[e] = IF e \in attempt.editors /\ window[e]
                      THEN Append(inbox[e], ReleaseOf(attempt.id)) ELSE inbox[e]
      BY <1>3 DEF CancelAttempt, Post, ToRelease, ReleaseOf
    <3> QED  BY <1>2, <1>3, <2>1, <3>1, Cancelled DEF Rest
  <2> QED  BY <1>1, <2>2, <2>3 DEF Rest
<1>4. CASE ~(isPreparing /\ ~attempt.retiring)
  <2>1. UNCHANGED <<attempt, prepared, inbox>>  BY <1>4 DEF CancelAttempt
  <2>2. isPreparing' = isPreparing /\ Open' = Open  BY <2>1 DEF isPreparing, Open
  <2>3. Admission'  BY <1>4, <2>1, <2>2 DEF Rest, Admission
  <2>4. ASSUME NEW e \in Editors PROVE EditorInv(e)'  BY <2>1, <2>2, Untouched DEF Rest
  <2> QED  BY <1>1, <2>3, <2>4 DEF Rest
<1> QED  BY <1>3, <1>4

LEMMA TimerKeeps == ASSUME Rest, PreparationTimesOut, TurnOver PROVE Rest'
BY CancelKeeps
DEF PreparationTimesOut, TurnOver, discoveryVars, nativeVars, editorVars, runtimeVars, Rest, EditorTypeOK

LEMMA QuitKeeps == ASSUME Rest, Quit, TurnOver PROVE Rest'
<1>1. CASE quitting
  <2>1. Quiet  BY <1>1 DEF Quit, Quiet, discoveryVars
  <2> QED  BY <2>1, QuietKeeps
<1>2. CASE ~quitting
  BY <1>2, CancelKeeps DEF Quit, TurnOver, CompleteNative, Rest, EditorTypeOK
<1> QED  BY <1>1, <1>2

\* An answer counts once, from an editor the preparation awaits.
LEMMA AcknowledgeKeeps ==
  ASSUME Rest, TurnOver, NEW e \in Editors, Acknowledge(e) PROVE Rest'
<1> DEFINE reply == Head(replies[e])
           ignored == ~window[e] \/ quitting \/ ~IsCurrent(reply) \/ attempt.retiring
                      \/ e \notin attempt.pending
<1>1. /\ replies[e] \in Seq(Replies) /\ replies[e] # <<>> /\ replies' = [replies EXCEPT ![e] = Tail(@)]
      /\ UNCHANGED <<attempts, action, window, request, draining, unsaved, busy, quitting, release,
                     installStarted>>
  BY DEF Acknowledge, Rest, EditorTypeOK, runtimeVars
<1>2. /\ Tail(replies[e]) \in Seq(Replies) /\ reply = replies[e][1] /\ 1 \in DOMAIN replies[e]
      /\ \A i \in DOMAIN Tail(replies[e]) : i + 1 \in DOMAIN replies[e]
                                            /\ Tail(replies[e])[i] = replies[e][i + 1]
      /\ reply \in Replies
  BY <1>1, Taken
<1>3. replies' \in [Editors -> Seq(Replies)]  BY <1>1, <1>2 DEF Rest, EditorTypeOK
<1>4. ASSUME NEW d \in Editors, NEW i \in DOMAIN replies'[d]
      PROVE  \E j \in DOMAIN replies[d] : replies'[d][i] = replies[d][j]
  BY <1>1, <1>2 DEF Rest, EditorTypeOK
<1>5. CASE ~ignored /\ ~reply.prepared
  <2>1. CancelAttempt  BY <1>5 DEF Acknowledge
  <2> QED  BY <1>1, <1>3, <1>4, <2>1, CancelKeeps DEF TurnOver
<1>6. CASE ignored
  <2>1. UNCHANGED <<attempt, prepared, inbox>>  BY <1>6 DEF Acknowledge
  <2>2. isPreparing' = isPreparing /\ Open' = Open  BY <1>1, <2>1 DEF isPreparing, Open
  <2>3. AttemptTypeOK' /\ EditorTypeOK'
    BY <1>1, <1>3, <2>1 DEF Rest, AttemptTypeOK, EditorTypeOK
  <2>4. Admission'  BY <1>1, <2>1, <2>2 DEF Rest, Admission
  <2>5. ASSUME NEW d \in Editors PROVE EditorInv(d)'
    BY <1>1, <1>4, <2>1, <2>2, Untouched DEF Rest
  <2> QED  BY <2>3, <2>4, <2>5 DEF Rest
<1>7. CASE ~ignored /\ reply.prepared
  <2> DEFINE left == attempt.pending \ {e}
  <2>1. /\ attempt' = [attempt EXCEPT !.pending = left, !.watched = TimerRuns(left)]
        /\ prepared' = IF left = {} THEN "resolved" ELSE prepared
        /\ inbox' = inbox
    BY <1>7 DEF Acknowledge
  <2>2. attempt \in Attempts /\ isPreparing /\ reply.id = attempt.id /\ ~attempt.retiring
    BY <1>7 DEF Rest, AttemptTypeOK, IsCurrent
  <2>3. /\ attempt'.id = attempt.id /\ attempt'.editors = attempt.editors /\ attempt'.pending = left
        /\ attempt'.retiring = attempt.retiring /\ attempt' \in Attempts
    BY <2>1, <2>2 DEF Attempts, TimerRuns
  <2>4. attempt.id # NoRequest  BY <2>2 DEF Rest, Admission
  <2>5. isPreparing'  BY <2>3, <2>4 DEF isPreparing, NoAttempt
  <2>6. Done(e)  BY <1>2, <1>7, <2>2 DEF Rest, EditorInv, Saved
  <2>7. Open' = Open  BY <1>1 DEF Open
  <2>8. AttemptTypeOK' /\ EditorTypeOK'
    BY <1>1, <1>3, <2>1, <2>3 DEF Rest, AttemptTypeOK, EditorTypeOK
  <2>9. Admission'
    BY <1>1, <1>7, <2>1, <2>2, <2>3, <2>5, <2>7 DEF Rest, Admission, TurnOver
  <2>10. ASSUME NEW d \in Editors PROVE EditorInv(d)'
    <3>1. d \in attempt.editors \ left => d \notin attempt.pending \/ Done(d)  BY <2>6
    <3> QED  BY <1>1, <1>4, <2>1, <2>2, <2>3, <2>5, <3>1, Untouched DEF Rest
  <2> QED  BY <2>8, <2>9, <2>10 DEF Rest
<1> QED  BY <1>5, <1>6, <1>7

\* A lost editor takes the preparation that awaits it, or has it, along.
LEMMA LostKeeps ==
  ASSUME Rest, TurnOver, NEW e \in Editors, EditorLost(e) PROVE Rest'
<1>1. /\ window' = [window EXCEPT ![e] = FALSE] \/ (~quitting /\ window' = window)
      /\ request' = [request EXCEPT ![e] = NoRequest] /\ draining' = [draining EXCEPT ![e] = {}]
      /\ unsaved' = [unsaved EXCEPT ![e] = FALSE] /\ replies' = [replies EXCEPT ![e] = <<>>]
      /\ UNCHANGED <<attempts, action, busy, quitting, release, installStarted>>
  BY DEF EditorLost, runtimeVars
<1>2. request'[e] = NoRequest /\ draining'[e] = {} /\ replies'[e] = <<>>
  BY <1>1 DEF Rest, EditorTypeOK
<1>3. ASSUME NEW d \in Editors, d # e
      PROVE  UNCHANGED <<window[d], request[d], draining[d], unsaved[d], replies[d]>>
  BY <1>1, <1>3 DEF Rest, EditorTypeOK
<1>4. attempts \in Nat  BY DEF Rest, AttemptTypeOK
<1>5. <<>> \in Seq(Messages) /\ <<>> \in Seq(Replies)  OBVIOUS
<1>6. /\ window' \in [Editors -> BOOLEAN] /\ request' \in [Editors -> Requests \union {NoRequest}]
      /\ draining' \in [Editors -> SUBSET Requests] /\ unsaved' \in [Editors -> BOOLEAN]
      /\ replies' \in [Editors -> Seq(Replies)] /\ Open' \subseteq Open
  BY <1>1, <1>5 DEF Rest, EditorTypeOK, Open
<1>7. CASE isPreparing /\ ~attempt.retiring /\ LossCancels(e)
  <2>1. /\ attempt' = NoAttempt /\ prepared' = "rejected"
        /\ inbox' = [d \in Editors |->
                       IF d = e THEN <<>>
                       ELSE IF d \in attempt.editors /\ window[d]
                            THEN Append(inbox[d], ReleaseOf(attempt.id)) ELSE inbox[d]]
    BY <1>7 DEF EditorLost, ToRelease, ReleaseOf
  <2>2. ~isPreparing' /\ ~attempt'.retiring /\ attempt'.pending = {} /\ attempt' \in Attempts
    BY <2>1 DEF isPreparing, NoAttempt, NoRequest, Attempts
  <2>3. attempt.id \in Requests  BY <1>7 DEF Rest, Admission, AttemptTypeOK, Attempts
  <2>8. ReleaseOf(attempt.id) \in Messages  BY <2>3 DEF ReleaseOf, Messages
  <2>4. \A d \in Editors : inbox[d] \in Seq(Messages)
                             /\ Append(inbox[d], ReleaseOf(attempt.id)) \in Seq(Messages)
    BY <2>8, Appended DEF Rest, EditorTypeOK
  <2>5. AttemptTypeOK' /\ EditorTypeOK'
    BY <1>1, <1>5, <1>6, <2>1, <2>2, <2>4 DEF Rest, AttemptTypeOK, EditorTypeOK
  <2>6. Admission'  BY <1>1, <1>7, <2>1, <2>2 DEF Rest, Admission
  <2>7. ASSUME NEW d \in Editors PROVE EditorInv(d)'
    <3>1. CASE d = e  BY <1>1, <1>2, <1>4, <2>1, <2>2, <3>1, Emptied
    <3>2. CASE d # e
      <4>1. \A i \in DOMAIN replies'[d] : replies'[d][i].id <= attempts
        BY <1>3, <3>2 DEF Rest, EditorInv, Numbers
      <4> QED  BY <1>1, <1>3, <1>7, <2>1, <3>2, <4>1, Cancelled DEF Rest
    <3> QED  BY <3>1, <3>2
  <2> QED  BY <2>5, <2>6, <2>7 DEF Rest
<1>8. CASE ~(isPreparing /\ ~attempt.retiring /\ LossCancels(e))
  <2>1. inbox' = [inbox EXCEPT ![e] = <<>>] /\ UNCHANGED <<attempt, prepared>>
    BY <1>8 DEF EditorLost
  <2>2. isPreparing' = isPreparing /\ inbox'[e] = <<>>
    BY <2>1 DEF isPreparing, Rest, EditorTypeOK
  <2>3. AttemptTypeOK' /\ EditorTypeOK'
    BY <1>1, <1>5, <1>6, <2>1 DEF Rest, AttemptTypeOK, EditorTypeOK
  <2>4. Admission'  BY <1>1, <1>6, <2>1, <2>2 DEF Rest, Admission
  <2>5. isPreparing => ~(e \in attempt.editors \ attempt.pending /\ window'[e])
    BY <1>1, <1>8 DEF LossCancels, Rest, Admission, EditorTypeOK
  <2>6. ASSUME NEW d \in Editors PROVE EditorInv(d)'
    <3>1. CASE d = e  BY <1>1, <1>2, <1>4, <2>1, <2>2, <2>5, <3>1, Emptied
    <3>2. CASE d # e
      <4>1. inbox'[d] = inbox[d]  BY <2>1, <3>2 DEF Rest, EditorTypeOK
      <4> QED  BY <1>1, <1>3, <2>1, <2>2, <3>2, <4>1, Untouched DEF Rest
    <3> QED  BY <3>1, <3>2
  <2> QED  BY <2>3, <2>4, <2>6 DEF Rest
<1> QED  BY <1>7, <1>8

\* A new window opens under no preparation; one that is frozen is not edited.
LEMMA OpenKeeps == ASSUME Rest, NEW e \in Editors, OpenEditor(e) PROVE Rest'
<1>1. /\ ~isPreparing /\ window' = [window EXCEPT ![e] = TRUE]
      /\ UNCHANGED <<attempt, attempts, prepared, action, busy, quitting, release, installStarted,
                     request, draining, unsaved, inbox, replies>>
  BY DEF OpenEditor, MayOpen, runtimeVars, admissionVars
<1>2. ~isPreparing'  BY <1>1 DEF isPreparing
<1>3. AttemptTypeOK' /\ EditorTypeOK'  BY <1>1 DEF Rest, AttemptTypeOK, EditorTypeOK
<1>4. Admission'  BY <1>1, <1>2 DEF Rest, Admission
<1>5. ASSUME NEW d \in Editors PROVE EditorInv(d)'
  <2>1. Closed(d)'  BY <1>1 DEF Rest, EditorInv, Closed, EditorTypeOK
  <2>2. Numbers(d)' /\ Mail(d)' /\ Saved(d)'
    BY <1>1, <1>2 DEF Rest, EditorInv, Numbers, Mail, Saved
  <2>3. EditorInv(d) /\ isPreparing' = isPreparing  BY <1>1 DEF Rest, isPreparing
  <2>4. Reasons(d)'  BY <1>1, <2>3 DEF EditorInv, Reasons, Current, ReleaseOf, NoRequest
  <2> QED  BY <2>1, <2>2, <2>4 DEF EditorInv
<1> QED  BY <1>3, <1>4, <1>5 DEF Rest

LEMMA EditKeeps == ASSUME Rest, NEW e \in Editors, Edit(e) PROVE Rest'
<1>1. /\ ~Frozen(e) /\ unsaved' = [unsaved EXCEPT ![e] = TRUE]
      /\ UNCHANGED <<attempt, attempts, prepared, action, busy, quitting, release, installStarted,
                     window, request, draining, inbox, replies>>
  BY DEF Edit, runtimeVars, admissionVars
<1>2. isPreparing' = isPreparing /\ Open' = Open  BY <1>1 DEF isPreparing, Open
<1>3. AttemptTypeOK' /\ EditorTypeOK'  BY <1>1 DEF Rest, AttemptTypeOK, EditorTypeOK
<1>4. Admission'  BY <1>1, <1>2 DEF Rest, Admission
<1>5. ASSUME NEW d \in Editors PROVE EditorInv(d)'
  <2>1. CASE d # e
    <3>1. unsaved'[d] = unsaved[d]  BY <1>1, <2>1 DEF Rest, EditorTypeOK
    <3> QED  BY <1>1, <1>2, <3>1, Untouched DEF Rest
  <2>2. CASE d = e
    <3>1. EditorInv(e)  BY DEF Rest
    <3>2. Closed(e)' /\ Numbers(e)' /\ Mail(e)'
      BY <1>1, <1>2, <3>1 DEF EditorInv, Closed, Numbers, Mail
    <3>3. isPreparing => ~Done(e)  BY <1>1 DEF Done, Frozen, Rest, Admission, NoRequest
    <3>4. Saved(e)'  BY <1>1, <1>2, <3>1, <3>3 DEF EditorInv, Saved
    <3>5. Reasons(e)'  BY <1>1, <1>2, <3>1 DEF EditorInv, Reasons, Current, ReleaseOf, NoRequest
    <3> QED  BY <2>2, <3>2, <3>4, <3>5 DEF EditorInv
  <2> QED  BY <2>1, <2>2
<1> QED  BY <1>3, <1>4, <1>5 DEF Rest

\* The editor reads the next message: it is frozen, answers that it is already, or thaws.
LEMMA HearsKeeps == ASSUME Rest, NEW e \in Editors, EditorHears(e) PROVE Rest'
<1> DEFINE m == Head(inbox[e])
<1>1. /\ inbox[e] # <<>> /\ inbox' = [inbox EXCEPT ![e] = Tail(@)]
      /\ UNCHANGED <<attempt, attempts, prepared, action, busy, quitting, release, installStarted,
                     window, unsaved>>
  BY DEF EditorHears, runtimeVars, admissionVars
<1>2. /\ m \in Messages /\ 1 \in DOMAIN inbox[e] /\ inbox[e][1] = m /\ Tail(inbox[e]) \in Seq(Messages)
      /\ \A i \in DOMAIN Tail(inbox[e]) : i + 1 \in DOMAIN inbox[e] /\ i + 1 # 1
                                            /\ Tail(inbox[e])[i] = inbox[e][i + 1]
      /\ \A j \in DOMAIN inbox[e] : j # 1 => j - 1 \in DOMAIN Tail(inbox[e])
                                            /\ Tail(inbox[e])[j - 1] = inbox[e][j]
      /\ DOMAIN inbox[e] \subseteq Nat /\ DOMAIN Tail(inbox[e]) \subseteq Nat
  BY <1>1, Taken DEF Rest, EditorTypeOK
<1> HIDE DEF m
<1>3. inbox'[e] = Tail(inbox[e]) /\ inbox' \in [Editors -> Seq(Messages)]
  BY <1>1, <1>2 DEF Rest, EditorTypeOK
<1>4. isPreparing' = isPreparing /\ Open' = Open  BY <1>1 DEF isPreparing, Open
<1>5. Admission'  BY <1>1, <1>4 DEF Rest, Admission
<1>6. AttemptTypeOK'  BY <1>1 DEF Rest, AttemptTypeOK
<1>7. m.id \in Requests /\ m.kind \in {"prepare", "cancel"} /\ m.id # NoRequest
  BY <1>2 DEF Messages, Requests, NoRequest
<1>8. EditorInv(e) /\ m.id <= attempts  BY <1>2 DEF Rest, EditorInv, Numbers
<1>9. Closed(e)'
  <2>1. window[e]  BY DEF EditorHears
  <2> QED  BY <1>1, <2>1 DEF Closed
<1>10. ASSUME NEW d \in Editors, d # e, request'[d] = request[d], draining'[d] = draining[d],
              replies'[d] = replies[d]
       PROVE  EditorInv(d)'
  <2>1. inbox'[d] = inbox[d]  BY <1>1, <1>10 DEF Rest, EditorTypeOK
  <2> QED  BY <1>1, <1>4, <1>10, <2>1, Untouched DEF Rest
<1>11. ASSUME NEW id, id # m.id \/ m.kind = "prepare",
              \E j \in DOMAIN inbox[e] : inbox[e][j] = ReleaseOf(id)
       PROVE  \E j \in DOMAIN inbox'[e] : inbox'[e][j] = ReleaseOf(id)
  <2>1. PICK j \in DOMAIN inbox[e] : inbox[e][j] = ReleaseOf(id)  BY <1>11
  <2>2. inbox[e][j].kind = "cancel" /\ inbox[e][j].id = id  BY <2>1 DEF ReleaseOf
  <2>3. j # 1  BY <1>2, <1>11, <2>2
  <2>4. j - 1 \in DOMAIN inbox'[e] /\ inbox'[e][j - 1] = ReleaseOf(id)  BY <1>2, <1>3, <2>1, <2>3
  <2> QED  BY <2>4
\* What waits behind the message keeps its reasons.
<1>12. ASSUME NEW i \in DOMAIN inbox'[e], inbox'[e][i].kind = "prepare"
       PROVE  \/ Current(e, inbox'[e][i].id)
              \/ \E j \in DOMAIN inbox'[e] : j > i /\ inbox'[e][j] = ReleaseOf(inbox'[e][i].id)
  <2>1. i + 1 \in DOMAIN inbox[e] /\ inbox'[e][i] = inbox[e][i + 1]  BY <1>2, <1>3
  <2>2. CASE Current(e, inbox[e][i + 1].id)  BY <2>1, <2>2
  <2>3. CASE \E j \in DOMAIN inbox[e] : j > i + 1 /\ inbox[e][j] = ReleaseOf(inbox[e][i + 1].id)
    <3>1. PICK j \in DOMAIN inbox[e] : j > i + 1 /\ inbox[e][j] = ReleaseOf(inbox[e][i + 1].id)
      BY <2>3
    <3>2. i \in Nat /\ j \in Nat /\ j # 1 /\ j - 1 > i  BY <1>2, <1>3, <3>1
    <3>3. j - 1 \in DOMAIN inbox'[e] /\ inbox'[e][j - 1] = ReleaseOf(inbox'[e][i].id)
      BY <1>2, <1>3, <2>1, <3>1, <3>2
    <3> QED  BY <3>2, <3>3
  <2> QED  BY <1>8, <1>12, <2>1, <2>2, <2>3 DEF EditorInv, Reasons
<1>13. /\ \A i \in DOMAIN inbox'[e] : inbox'[e][i].id <= attempts
       /\ \A i, j \in DOMAIN inbox'[e] :
            inbox'[e][i].kind = "prepare" /\ inbox'[e][j].kind = "prepare"
              /\ inbox'[e][i].id = inbox'[e][j].id => i = j
       /\ isPreparing => \A i \in DOMAIN inbox'[e] :
                           inbox'[e][i].kind = "cancel" => inbox'[e][i].id # attempt.id
       /\ \A i \in DOMAIN inbox'[e] : inbox'[e][i].kind = "prepare" => inbox'[e][i].id \notin draining[e]
  <2>1. \A i \in DOMAIN inbox'[e] : i + 1 \in DOMAIN inbox[e] /\ inbox'[e][i] = inbox[e][i + 1]
                                      /\ i \in Nat
    BY <1>2, <1>3
  <2> QED  BY <1>8, <2>1 DEF EditorInv, Numbers, Mail
<1>14. CASE m.kind = "cancel"
  <2>1. /\ request' = [request EXCEPT ![e] = IF Releases(e, m.id) THEN NoRequest ELSE @]
        /\ UNCHANGED <<draining, replies>>
    BY <1>14 DEF EditorHears, m
  <2>2. EditorTypeOK'  BY <1>1, <1>3, <2>1 DEF Rest, EditorTypeOK, NoRequest
  <2>3. /\ request'[e] = IF request[e] = m.id THEN NoRequest ELSE request[e]
        /\ \A d \in Editors : d # e => request'[d] = request[d]
    BY <2>1 DEF Releases, Rest, EditorTypeOK
  <2>4. Numbers(e)' /\ Mail(e)'
    BY <1>1, <1>4, <1>8, <1>13, <2>1, <2>3 DEF EditorInv, Numbers, Mail, NoRequest, Rest, AttemptTypeOK
  <2>5. Done(e) => Done(e)'  BY <1>1, <1>2, <1>3, <2>1, <2>3 DEF Done
  <2>6. Saved(e)'  BY <1>1, <1>4, <1>8, <2>1, <2>5 DEF EditorInv, Saved
  <2>7. request'[e] # NoRequest =>
          \/ Current(e, request'[e])
          \/ \E j \in DOMAIN inbox'[e] : inbox'[e][j] = ReleaseOf(request'[e])
    <3> SUFFICES ASSUME request'[e] # NoRequest
                 PROVE  \/ Current(e, request[e])
                        \/ \E j \in DOMAIN inbox'[e] : inbox'[e][j] = ReleaseOf(request[e])
      BY <2>3
    <3>1. request[e] # m.id /\ request[e] # NoRequest  BY <2>3
    <3> QED  BY <1>8, <1>11, <3>1 DEF EditorInv, Reasons
  <2>8. Reasons(e)'  BY <1>1, <1>4, <1>12, <2>7 DEF Reasons, Current, ReleaseOf, NoRequest
  <2> QED  BY <1>5, <1>6, <1>9, <1>10, <2>1, <2>2, <2>3, <2>4, <2>6, <2>8 DEF Rest, EditorInv
<1>15. CASE m.kind = "prepare" /\ Frozen(e)
  <2>1. Reply(e, m.id, FALSE) /\ UNCHANGED <<request, draining>>
    BY <1>15 DEF EditorHears, m
  <2>2. replies[e] \in Seq(Replies) /\ [id |-> m.id, prepared |-> FALSE] \in Replies
    BY <1>7 DEF Replies, Rest, EditorTypeOK
  <2>3. /\ replies' = [replies EXCEPT ![e] = Append(replies[e], [id |-> m.id, prepared |-> FALSE])]
        /\ Append(replies[e], [id |-> m.id, prepared |-> FALSE]) \in Seq(Replies)
    BY <2>1, <2>2, Appended DEF Reply
  <2>4. EditorTypeOK'  BY <1>1, <1>3, <2>1, <2>3 DEF Rest, EditorTypeOK
  <2>5. \A d \in Editors : d # e => replies'[d] = replies[d]  BY <2>3 DEF Rest, EditorTypeOK
  <2>6. replies'[e] = Append(replies[e], [id |-> m.id, prepared |-> FALSE])
    BY <2>3 DEF Rest, EditorTypeOK
  <2>7. \A i \in DOMAIN replies'[e] :
          \/ i \in DOMAIN replies[e] /\ replies'[e][i] = replies[e][i]
          \/ replies'[e][i] = [id |-> m.id, prepared |-> FALSE]
    BY <2>2, <2>6, Appended
  <2>8. Numbers(e)' /\ Mail(e)'
    BY <1>1, <1>4, <1>8, <1>13, <2>1, <2>7 DEF EditorInv, Numbers, Mail
  <2>9. Done(e) => Done(e)'  BY <1>1, <1>2, <1>3, <2>1 DEF Done
  <2>10. Saved(e)'  BY <1>1, <1>4, <1>8, <2>7, <2>9 DEF EditorInv, Saved
  <2>11. Reasons(e)'
    <3>1. request[e] # NoRequest => \/ Current(e, request[e])
                                    \/ \E j \in DOMAIN inbox'[e] : inbox'[e][j] = ReleaseOf(request[e])
      BY <1>8, <1>11, <1>15 DEF EditorInv, Reasons
    <3> QED  BY <1>1, <1>4, <1>12, <2>1, <3>1 DEF Reasons, Current, ReleaseOf, NoRequest
  <2> QED  BY <1>5, <1>6, <1>9, <1>10, <2>1, <2>4, <2>5, <2>8, <2>10, <2>11 DEF Rest, EditorInv
<1>16. CASE m.kind = "prepare" /\ ~Frozen(e)
  <2>1. /\ request' = [request EXCEPT ![e] = m.id]
        /\ draining' = [draining EXCEPT ![e] = @ \union {m.id}] /\ UNCHANGED replies
    BY <1>16 DEF EditorHears, m
  <2>2. EditorTypeOK'  BY <1>1, <1>3, <1>7, <2>1 DEF Rest, EditorTypeOK
  <2>3. /\ request'[e] = m.id /\ draining'[e] = draining[e] \union {m.id}
        /\ \A d \in Editors : d # e => request'[d] = request[d] /\ draining'[d] = draining[d]
    BY <2>1 DEF Rest, EditorTypeOK
  <2>4. \A i \in DOMAIN inbox'[e] : inbox'[e][i].kind = "prepare" => inbox'[e][i].id # m.id
    <3>1. \A i \in DOMAIN inbox'[e] : i + 1 \in DOMAIN inbox[e] /\ inbox'[e][i] = inbox[e][i + 1]
                                        /\ i + 1 # 1
      BY <1>2, <1>3
    <3> QED  BY <1>2, <1>8, <1>16, <3>1 DEF EditorInv, Mail
  <2>5. Numbers(e)' /\ Mail(e)'
    BY <1>1, <1>4, <1>8, <1>13, <2>1, <2>3, <2>4 DEF EditorInv, Numbers, Mail
  <2>6. isPreparing => ~Done(e)  BY <1>16 DEF Done, Frozen, Rest, Admission
  <2>7. Saved(e)'  BY <1>1, <1>4, <1>8, <2>1, <2>6 DEF EditorInv, Saved
  <2>8. Reasons(e)'
    <3>1. \/ Current(e, m.id)
          \/ \E j \in DOMAIN inbox[e] : inbox[e][j] = ReleaseOf(m.id)
      BY <1>2, <1>8, <1>16 DEF EditorInv, Reasons
    <3>2. \/ Current(e, m.id)
          \/ \E j \in DOMAIN inbox'[e] : inbox'[e][j] = ReleaseOf(m.id)
      BY <1>11, <1>16, <3>1
    <3> QED  BY <1>1, <1>4, <1>12, <2>3, <3>2 DEF Reasons, Current, ReleaseOf, NoRequest
  <2> QED  BY <1>5, <1>6, <1>9, <1>10, <2>1, <2>2, <2>3, <2>5, <2>7, <2>8 DEF Rest, EditorInv
<1> QED  BY <1>7, <1>14, <1>15, <1>16

\* Only an editor that saved everything, and is still frozen for the request, says so.
LEMMA DrainedKeeps ==
  ASSUME Rest, NEW e \in Editors, NEW id \in Requests, EditorDrained(e, id) PROVE Rest'
<1>1. /\ window[e] /\ id \in draining[e] /\ draining' = [draining EXCEPT ![e] = @ \ {id}]
      /\ UNCHANGED <<attempt, attempts, prepared, action, busy, quitting, release, installStarted,
                     window, inbox>>
  BY DEF EditorDrained, runtimeVars, admissionVars
<1>2. PICK saved \in BOOLEAN :
        /\ unsaved' = [unsaved EXCEPT ![e] = @ /\ ~saved]
        /\ Reply(e, id, saved /\ request[e] = id)
        /\ request' = [request EXCEPT ![e] = IF saved \/ @ # id THEN @ ELSE NoRequest]
  BY DEF EditorDrained
<1> DEFINE answer == [id |-> id, prepared |-> saved /\ request[e] = id]
<1>3. replies[e] \in Seq(Replies) /\ answer \in Replies  BY DEF Replies, Rest, EditorTypeOK
<1>4. answer.id = id /\ (answer.prepared <=> saved /\ request[e] = id)  OBVIOUS
<1>5. replies' = [replies EXCEPT ![e] = Append(replies[e], answer)]  BY <1>2 DEF Reply
<1> HIDE DEF answer
<1>6. Append(replies[e], answer) \in Seq(Replies)
      /\ \A i \in DOMAIN Append(replies[e], answer) :
           \/ i \in DOMAIN replies[e] /\ Append(replies[e], answer)[i] = replies[e][i]
           \/ Append(replies[e], answer)[i] = answer
  BY <1>3, Appended
<1>7. /\ draining'[e] = draining[e] \ {id} /\ (unsaved'[e] <=> unsaved[e] /\ ~saved)
      /\ request'[e] = (IF saved \/ request[e] # id THEN request[e] ELSE NoRequest)
      /\ replies'[e] = Append(replies[e], answer)
  BY <1>1, <1>2, <1>5 DEF Rest, EditorTypeOK
<1>8. \A d \in Editors : d # e => UNCHANGED <<draining[d], unsaved[d], request[d], replies[d]>>
  BY <1>1, <1>2, <1>5 DEF Rest, EditorTypeOK
<1>9. AttemptTypeOK' /\ EditorTypeOK'
  <2>1. AttemptTypeOK'  BY <1>1 DEF Rest, AttemptTypeOK
  <2>2. replies' \in [Editors -> Seq(Replies)]  BY <1>5, <1>6 DEF Rest, EditorTypeOK
  <2>3. request' \in [Editors -> Requests \union {NoRequest}]  BY <1>2 DEF Rest, EditorTypeOK
  <2>4. unsaved' \in [Editors -> BOOLEAN]  BY <1>2 DEF Rest, EditorTypeOK
  <2>5. draining' \in [Editors -> SUBSET Requests]  BY <1>1 DEF Rest, EditorTypeOK
  <2> QED  BY <1>1, <2>1, <2>2, <2>3, <2>4, <2>5 DEF Rest, EditorTypeOK
<1>10. isPreparing' = isPreparing /\ Open' = Open  BY <1>1 DEF isPreparing, Open
<1>11. Admission'  BY <1>1, <1>10 DEF Rest, Admission
<1>12. ASSUME NEW d \in Editors, d # e PROVE EditorInv(d)'
  BY <1>1, <1>8, <1>10, <1>12, Untouched DEF Rest
<1>13. EditorInv(e) /\ id <= attempts /\ id # NoRequest
  BY <1>1 DEF Rest, EditorInv, Numbers, Requests, NoRequest
<1>14. Closed(e)'  BY <1>1 DEF Closed
<1>15. Numbers(e)' /\ Mail(e)'
  BY <1>1, <1>4, <1>6, <1>7, <1>10, <1>13
  DEF EditorInv, Numbers, Mail, NoRequest, Rest, AttemptTypeOK
<1>16. isPreparing /\ Done(e) => Done(e)'  BY <1>1, <1>7 DEF Done
<1>17. isPreparing /\ saved /\ request[e] = id /\ id = attempt.id => Done(e)'
  <2> SUFFICES ASSUME isPreparing, saved, request[e] = id, id = attempt.id
               PROVE  \A i \in DOMAIN inbox[e] : inbox[e][i].id # attempt.id
    BY <1>1, <1>7 DEF Done
  <2> TAKE i \in DOMAIN inbox[e]
  <2>1. inbox[e][i].kind \in {"prepare", "cancel"}
    <3>1. inbox[e] \in Seq(Messages)  BY DEF Rest, EditorTypeOK
    <3>2. inbox[e][i] \in Messages  BY <3>1
    <3> QED  BY <3>2 DEF Messages
  <2> QED  BY <1>1, <1>13, <2>1 DEF EditorInv, Mail
<1>18. Saved(e)'
  BY <1>1, <1>4, <1>6, <1>7, <1>10, <1>13, <1>16, <1>17 DEF EditorInv, Saved
<1>19. Reasons(e)'
  BY <1>1, <1>7, <1>10, <1>13 DEF EditorInv, Reasons, Current, ReleaseOf, NoRequest
<1> QED  BY <1>9, <1>11, <1>12, <1>13, <1>14, <1>15, <1>18, <1>19 DEF Rest, EditorInv

\* A preparation begins with a number of its own, and asks the editors there are.
LEMMA InstallKeeps == ASSUME Rest, InstallReady PROVE Rest'
<1>1. /\ action = "install"
      /\ UNCHANGED <<busy, quitting, release, installStarted, window, request, draining, unsaved, replies>>
  BY DEF InstallReady, runtimeVars
<1>2. CASE disposed \/ phase # "ready" \/ ~isIdle
  <2>1. Quiet  BY <1>1, <1>2 DEF InstallReady, Quiet, admissionVars, Rest, Admission
  <2> QED  BY <2>1, QuietKeeps
<1>3. CASE ~(disposed \/ phase # "ready" \/ ~isIdle)
  <2> DEFINE id == attempts + 1
  <2>1. /\ attempts' = id /\ action' = "preparing"
        /\ attempt' = [id |-> id, editors |-> Open, pending |-> Open, retiring |-> FALSE,
                       watched |-> Open # {}]
        /\ prepared' = IF Open = {} THEN "resolved" ELSE prepared
        /\ Post(Open, "prepare", id)
    BY <1>3 DEF InstallReady, NextRequest
  <2>2. /\ ~isPreparing /\ ~quitting /\ ~busy /\ prepared = "none" /\ attempts < MaxAttempts
        /\ attempts \in Nat /\ id \in Requests /\ id # NoRequest /\ Open \in SUBSET Editors
        /\ ~installStarted /\ release' = release
    BY <1>1, <1>3, UpdateAssumption
    DEF isIdle, Rest, Admission, AttemptTypeOK, Requests, NoRequest, Open
  <2> HIDE DEF id
  <2>3. /\ isPreparing' /\ attempt'.id = id /\ attempt'.editors = Open /\ attempt'.pending = Open
        /\ attempt'.retiring = FALSE /\ attempt' \in Attempts
    BY <2>1, <2>2 DEF isPreparing, NoAttempt, Attempts
  <2>4. AttemptTypeOK'
    <3>1. id \in 0 .. MaxAttempts  BY <2>2 DEF Requests
    <3> QED  BY <2>1, <2>2, <2>3, <3>1 DEF AttemptTypeOK
  <2>5. inbox' \in [Editors -> Seq(Messages)]  BY <2>1, <2>2, PostType DEF Rest
  <2>6. EditorTypeOK'  BY <1>1, <2>5 DEF Rest, EditorTypeOK
  <2>7. Open' = Open  BY <1>1 DEF Open
  <2>8. Admission'  BY <1>1, <2>1, <2>2, <2>3, <2>7 DEF Admission
  <2>9. id > attempts  BY <2>2 DEF id
  <2>10. ASSUME NEW e \in Editors PROVE EditorInv(e)'
    <3> DEFINE m == [kind |-> "prepare", id |-> id]
               n == Len(inbox[e]) + 1
    <3>1. m \in Messages /\ m.kind = "prepare" /\ m.id = id  BY <2>2 DEF Messages
    <3> HIDE DEF m
    <3>2. EditorInv(e) /\ inbox[e] \in Seq(Messages) /\ replies[e] \in Seq(Replies)
      BY DEF Rest, EditorTypeOK
    <3>3. inbox'[e] = IF e \in Open THEN Append(inbox[e], m) ELSE inbox[e]
      BY <2>1 DEF Post, Open, m
    <3>4. DOMAIN inbox[e] = 1 .. (n - 1) /\ n \in Nat \ {0}  BY <3>2
    <3>5. \A i \in DOMAIN inbox'[e] :
            \/ i \in DOMAIN inbox[e] /\ inbox'[e][i] = inbox[e][i]
            \/ i = n /\ inbox'[e][i] = m /\ e \in Open
      BY <3>1, <3>2, <3>3, <3>4, Appended
    <3>6. \A i \in DOMAIN inbox[e] : i \in DOMAIN inbox'[e] /\ inbox'[e][i] = inbox[e][i]
      BY <3>1, <3>2, <3>3, <3>4, Appended
    <3> HIDE DEF n
    <3>7. /\ request[e] <= attempts /\ request[e] \in Nat
          /\ \A d \in draining[e] : d <= attempts /\ d \in Nat
          /\ \A i \in DOMAIN inbox[e] : inbox[e][i].id <= attempts /\ inbox[e][i].id \in Nat
          /\ \A i \in DOMAIN replies[e] : replies[e][i].id <= attempts /\ replies[e][i].id \in Nat
      <4>1. Requests \subseteq Nat /\ NoRequest \in Nat  BY DEF Requests, NoRequest
      <4>2. \A i \in DOMAIN inbox[e] : inbox[e][i].id \in Requests
        <5>1. \A i \in DOMAIN inbox[e] : inbox[e][i] \in Messages  BY <3>2
        <5> QED  BY <5>1 DEF Messages
      <4>3. \A i \in DOMAIN replies[e] : replies[e][i].id \in Requests
        <5>1. \A i \in DOMAIN replies[e] : replies[e][i] \in Replies  BY <3>2
        <5> QED  BY <5>1 DEF Replies
      <4> QED  BY <3>2, <4>1, <4>2, <4>3 DEF EditorInv, Numbers, Rest, EditorTypeOK
    <3>8. Closed(e)'  BY <1>1, <3>2, <3>3 DEF EditorInv, Closed, Open
    <3>9. Numbers(e)'
      <4>1. \A k \in Nat : k <= attempts => k <= id  BY <2>2, <2>9 DEF id
      <4>2. \A i \in DOMAIN inbox'[e] : inbox'[e][i].id <= id
        BY <2>2, <3>1, <3>5, <3>7, <4>1 DEF id
      <4> QED  BY <1>1, <2>1, <3>7, <4>1, <4>2 DEF Numbers
    <3>10. Mail(e)'
      <4>1. \A i, j \in DOMAIN inbox'[e] :
              inbox'[e][i].kind = "prepare" /\ inbox'[e][j].kind = "prepare"
                /\ inbox'[e][i].id = inbox'[e][j].id => i = j
        BY <2>2, <2>9, <3>1, <3>2, <3>5, <3>7 DEF EditorInv, Mail
      <4>2. \A i \in DOMAIN inbox'[e] :
              inbox'[e][i].kind = "prepare" => inbox'[e][i].id \notin draining'[e]
        BY <1>1, <2>2, <2>9, <3>1, <3>2, <3>5, <3>7 DEF EditorInv, Mail
      <4>3. \A i \in DOMAIN inbox'[e] : inbox'[e][i].kind = "cancel" => inbox'[e][i].id # attempt'.id
        BY <2>2, <2>3, <2>9, <3>1, <3>5, <3>7
      <4> QED  BY <4>1, <4>2, <4>3 DEF Mail
    <3>11. Saved(e)'
      BY <1>1, <2>2, <2>3, <2>9, <3>7 DEF Saved
    <3>12. Reasons(e)'
      <4>1. ~Current(e, request[e]) /\ \A i \in DOMAIN inbox[e] : ~Current(e, inbox[e][i].id)
        BY <2>2 DEF Current
      <4>2. request[e] # NoRequest => \E j \in DOMAIN inbox'[e] : inbox'[e][j] = ReleaseOf(request[e])
        BY <3>2, <3>6, <4>1 DEF EditorInv, Reasons
      <4>3. ASSUME NEW i \in DOMAIN inbox'[e], inbox'[e][i].kind = "prepare"
            PROVE  \/ isPreparing' /\ attempt'.id = inbox'[e][i].id /\ e \in attempt'.editors
                   \/ \E j \in DOMAIN inbox'[e] : j > i /\ inbox'[e][j] = ReleaseOf(inbox'[e][i].id)
        <5>1. CASE i \in DOMAIN inbox[e] /\ inbox'[e][i] = inbox[e][i]
          BY <3>2, <3>6, <4>1, <4>3, <5>1 DEF EditorInv, Reasons
        <5>2. CASE inbox'[e][i] = m /\ e \in Open  BY <2>3, <3>1, <5>2
        <5> QED  BY <3>5, <5>1, <5>2
      <4> QED  BY <1>1, <4>2, <4>3 DEF Reasons, Current, ReleaseOf, NoRequest
    <3> QED  BY <3>8, <3>9, <3>10, <3>11, <3>12 DEF EditorInv
  <2> QED  BY <2>4, <2>6, <2>8, <2>10 DEF Rest
<1> QED  BY <1>2, <1>3

-----------------------------------------------------------------------------
(* The theorems.                                                            *)

LEMMA InvInit == Init => Inv
<1> SUFFICES ASSUME Init PROVE Inv  OBVIOUS
<1>1. ~isPreparing /\ ~attempt.retiring  BY DEF Init, isPreparing, NoAttempt
<1>2. Admission  BY <1>1 DEF Init, Admission, NoAttempt
<1>3. DOMAIN <<>> = {}  OBVIOUS
<1>4. ASSUME NEW e \in Editors PROVE EditorInv(e)
  <2>1. /\ inbox[e] = <<>> /\ replies[e] = <<>> /\ request[e] = NoRequest /\ draining[e] = {}
        /\ attempts = 0
    BY DEF Init
  <2> QED
    BY <1>1, <1>3, <2>1
    DEF EditorInv, Closed, Numbers, Mail, Saved, Reasons, NoRequest
<1> QED  BY <1>2, <1>4, TypeInit DEF Inv

LEMMA InvStep == Inv /\ [Next]_vars => Inv'
<1> SUFFICES ASSUME Inv, [Next]_vars PROVE Inv'  OBVIOUS
<1>1. Rest /\ FlagTypeOK /\ FlowTypeOK  BY TypeParts DEF Inv, Rest
<1>2. CASE UNCHANGED vars
  <2>1. UNCHANGED <<attempt, attempts, prepared, window, request, draining, unsaved, inbox, replies,
                    busy, quitting, release, installStarted, action>>
    BY <1>2 DEF vars, admissionVars, editorVars, runtimeVars
  <2>2. Quiet  BY <2>1 DEF Quiet
  <2>3. Rest'  BY <1>1, <2>2, QuietKeeps
  <2>4. FlagTypeOK' /\ FlowTypeOK'
    BY <1>1, <1>2 DEF vars, discoveryVars, nativeVars, runtimeVars, FlagTypeOK, FlowTypeOK
  <2>5. TypeOK'  BY <2>3, <2>4, TypePartsNext DEF Rest
  <2> QED  BY <2>3, <2>5 DEF Inv, Rest
<1>3. CASE Next
  <2>1. FlagTypeOK' /\ FlowTypeOK'  BY <1>1, <1>3, FlagType, FlowType
  <2>2. ASSUME Continues PROVE Rest'
    BY <1>1, <2>2, QuietSteps, QuietKeeps, InstallKeeps, WorkKeeps DEF Continues
  <2>3. ASSUME TurnOver, Events PROVE Rest'
    BY <1>1, <2>3, QuietSteps, QuietKeeps, WorkKeeps, TimerKeeps, QuitKeeps, AcknowledgeKeeps,
       LostKeeps, OpenKeeps
    DEF Events
  <2>4. ASSUME NEW e \in Editors, EditorStep(e) PROVE Rest'
    BY <1>1, <2>4, EditKeeps, HearsKeeps, DrainedKeeps DEF EditorStep
  <2>5. Rest'  BY <1>3, <2>2, <2>3, <2>4 DEF Next
  <2>6. TypeOK'  BY <2>1, <2>5, TypePartsNext DEF Rest
  <2> QED  BY <2>5, <2>6 DEF Inv, Rest
<1> QED  BY <1>2, <1>3

\* What every reachable state satisfies.
THEOREM UpdateSafe == Spec => []Inv
BY InvInit, InvStep, PTL DEF Spec

\* Every reachable state is well typed: no answer of Squirrel, no loss and no order of messages
\* leaves a value of another kind behind.
THEOREM UpdateTypes == Spec => []TypeOK
<1>1. Inv => TypeOK  BY DEF Inv
<1> QED  BY UpdateSafe, <1>1, PTL

\* The application retires for an update only over editors that are frozen for this very
\* preparation and hold nothing unsaved, and it stays so until the process ends.
THEOREM UpdateSavesDrafts == Spec => []RetiresSavedEditors
<1>1. Inv => RetiresSavedEditors
  <2> SUFFICES ASSUME Inv, attempt.retiring, NEW e \in Open PROVE request[e] = attempt.id /\ ~unsaved[e]
    BY DEF RetiresSavedEditors
  <2>1. isPreparing /\ attempt.pending = {} /\ e \in attempt.editors /\ e \in Editors /\ window[e]
    BY DEF Inv, Admission, Open
  <2> QED  BY <2>1 DEF Inv, EditorInv, Saved, Done
<1> QED  BY UpdateSafe, <1>1, PTL

\* No order of cancellation, loss, late answers and new preparations leaves an editor frozen
\* for nothing.
THEOREM FreezesForAReason == Spec => []FrozenForAReason
<1>1. Inv => FrozenForAReason
  BY DEF Inv, EditorInv, Reasons, Current, ReleaseOf, FrozenForAReason, Frozen, Open
<1> QED  BY UpdateSafe, <1>1, PTL

\* The process is replaced only with its runtime released and no work in it.
THEOREM ReplacesReleased == Spec => []InstallsReleased
<1>1. Inv => InstallsReleased  BY DEF Inv, Admission, InstallsReleased
<1> QED  BY UpdateSafe, <1>1, PTL

-----------------------------------------------------------------------------
(* The Notes window.  Its proofs share no state with those above.            *)

CONSTANTS Notes, Bodies, Empty, Absent, Preparations, NoPreparation, MaxEdits, DeleteFails
VARIABLES loading, shown, disk, used, persisted, pending, timer, sequence, writing, saveState, deleted,
  deleting, notesUnsaved, creating, calls, drains, notesRequest, answered

Pad == INSTANCE NotesEditor WITH Requests <- Preparations, NoRequest <- NoPreparation,
  unsaved <- notesUnsaved, request <- notesRequest

Asks(q, kind, n) == \E i \in 1 .. Len(q) : q[i].kind = kind /\ q[i].note = n
\* No call is made twice, but for those that close the window.
OnceEach(q) ==
  \A i, j \in 1 .. Len(q) :
    q[i].kind = q[j].kind /\ q[i].note = q[j].note /\ q[i].kind # "close" => i = j
\* A note is written before it is deleted.
WrittenFirst(q) ==
  \A i, j \in 1 .. Len(q) :
    q[i].kind = "update" /\ q[j].kind = "delete" /\ q[i].note = q[j].note => i < j

\* What is in flight is in the calls, once.
InFlight ==
  /\ OnceEach(calls) /\ WrittenFirst(calls)
  /\ \A n \in Notes : writing[n] # 0 <=> Asks(calls, "update", n)
  /\ \A n \in Notes : n \in deleting <=> Asks(calls, "delete", n)
  /\ creating <=> Asks(calls, "create", Absent)

\* A write of the newest edit carries what is shown.
Carries ==
  \A i \in 1 .. Len(calls) :
    calls[i].kind = "update" /\ calls[i].note \notin deleted /\ writing[calls[i].note] = sequence[calls[i].note]
      => calls[i].body = shown[calls[i].note]

\* How what the window keeps of a note goes together.
NoteAgrees(n) ==
  /\ shown[n] = Absent => pending[n] = Absent /\ timer[n] = Absent /\ writing[n] = 0
  /\ shown[n] # Absent \/ disk[n] # Absent \/ n \in deleted => n \in used
  /\ n \in deleted => pending[n] = Absent /\ timer[n] = Absent
  /\ n \in deleted /\ n \notin deleting => shown[n] = Absent
  /\ n \in deleting => n \in deleted /\ notesUnsaved[n] \in {Absent, shown[n]} /\ sequence[n] <= MaxEdits
  /\ pending[n] # Absent \/ timer[n] # Absent => sequence[n] # 0
  /\ timer[n] \in {Absent, shown[n]} /\ pending[n] \in {Absent, shown[n]}
  /\ writing[n] <= sequence[n]
  /\ n \notin deleted /\ writing[n] \notin {0, sequence[n]} => pending[n] # Absent
  /\ pending[n] # Absent => timer[n] # Absent \/ writing[n] # 0 \/ saveState[n] = "save-error"
  /\ saveState[n] = "saved" => pending[n] = Absent

\* Nothing is known to be saved that is not; it is only claimed where no deletion is refused.
SavedIsKnown(n) ==
  n \notin deleted /\ shown[n] # Absent =>
    persisted[n] = disk[n] /\ (pending[n] = Absent => shown[n] = disk[n])

\* While the list is awaited there is nothing to show, and while an update is prepared nothing comes or goes.
WindowAgrees ==
  /\ loading => ~creating /\ deleted = {} /\ \A n \in Notes : shown[n] = Absent
  /\ notesRequest # NoPreparation => ~loading /\ ~creating /\ deleting = {}
  /\ \A r \in Preparations :
       notesRequest = r /\ answered[r] = "yes" => \A n \in Notes : pending[n] = Absent

PadInvariant ==
  /\ Pad!TypeOK /\ InFlight /\ Carries /\ WindowAgrees
  /\ \A n \in Notes : NoteAgrees(n)
  /\ ~DeleteFails => \A n \in Notes : SavedIsKnown(n)
-----------------------------------------------------------------------------
(* Calls *)

\* r is q with the calls of T behind it, each once.
Longer(q, r, T) ==
  /\ r \in Seq(Pad!Calls) /\ Len(q) \in Nat /\ Len(r) \in Nat /\ Len(q) <= Len(r)
  /\ \A i \in 1 .. Len(q) : r[i] = q[i]
  /\ \A i \in 1 .. Len(r) : i > Len(q) => r[i] \in T
  /\ \A i, j \in 1 .. Len(r) : i > Len(q) /\ j > Len(q) /\ r[i] = r[j] => i = j
  /\ \A t \in T : \E i \in 1 .. Len(r) : i > Len(q) /\ r[i] = t

LEMMA OneMore ==
  ASSUME NEW q \in Seq(Pad!Calls), NEW c \in Pad!Calls
  PROVE  Longer(q, Append(q, c), {c})
<1>1. /\ Append(q, c) \in Seq(Pad!Calls) /\ Len(q) \in Nat /\ Len(Append(q, c)) = Len(q) + 1
      /\ \A i \in 1 .. Len(q) : Append(q, c)[i] = q[i]
      /\ Append(q, c)[Len(q) + 1] = c
  OBVIOUS
<1>2. \A i \in 1 .. (Len(q) + 1) : i > Len(q) => i = Len(q) + 1 BY <1>1
<1>3. Len(q) + 1 \in 1 .. (Len(q) + 1) /\ Len(q) + 1 > Len(q) BY <1>1
<1> QED BY <1>1, <1>2, <1>3 DEF Longer

LEMMA SetInOrder ==
  ASSUME NEW T, IsFiniteSet(T)
  PROVE  /\ Cardinality(T) \in Nat /\ Pad!SetToSeq(T) \in [1 .. Cardinality(T) -> T]
         /\ Pad!SetToSeq(T) \in Seq(T) /\ Len(Pad!SetToSeq(T)) = Cardinality(T) /\ Pad!IsInjective(Pad!SetToSeq(T))
<1>1. Pad!Cardinality(T) = Cardinality(T) BY DEF Pad!Cardinality, Cardinality
<1>2. Cardinality(T) \in Nat BY FS_CardinalityType
<1>3. \E f : f \in [1 .. Cardinality(T) -> T] /\ Pad!IsInjective(f)
  <2>1. PICK f \in Bijection(1 .. Cardinality(T), T) : TRUE BY FS_CardinalityType DEF ExistsBijection
  <2> QED BY <2>1 DEF Bijection, Injection, Pad!IsInjective, IsInjective
<1>4. Pad!SetToSeq(T) \in [1 .. Cardinality(T) -> T] /\ Pad!IsInjective(Pad!SetToSeq(T))
  BY <1>1, <1>3 DEF Pad!SetToSeq
<1> QED BY <1>2, <1>4

LEMMA ManyMore ==
  ASSUME NEW q \in Seq(Pad!Calls), NEW T \in SUBSET Pad!Calls, IsFiniteSet(T)
  PROVE  Longer(q, q \o Pad!SetToSeq(T), T)
<1> DEFINE o == Pad!SetToSeq(T)
<1>2. Cardinality(T) \in Nat BY FS_CardinalityType
<1>4. o \in [1 .. Cardinality(T) -> T] /\ o \in Seq(T) /\ Len(o) = Cardinality(T) /\ Pad!IsInjective(o) BY SetInOrder
<1> HIDE DEF o
<1>5. o \in [1 .. Cardinality(T) -> T] /\ o \in Seq(T) /\ Len(o) = Cardinality(T) BY <1>4
<1>6. \A i, j \in 1 .. Len(o) : o[i] = o[j] => i = j BY <1>4 DEF Pad!IsInjective
<1>7. o \in Surjection(1 .. Cardinality(T), T)
  <2>1. o \in Injection(1 .. Cardinality(T), T) BY <1>4, <1>5 DEF Injection, Pad!IsInjective, IsInjective
  <2>2. IsFiniteSet(1 .. Cardinality(T)) /\ Cardinality(1 .. Cardinality(T)) = Cardinality(T)
    BY <1>2, FS_Interval
  <2> QED BY <2>1, <2>2, FS_Injection
<1>8. \A t \in T : \E i \in 1 .. Len(o) : o[i] = t BY <1>5, <1>7 DEF Surjection
<1>9. o \in Seq(Pad!Calls) /\ Len(q) \in Nat /\ Len(o) \in Nat BY <1>2, <1>5
<1>10. /\ q \o o \in Seq(Pad!Calls) /\ Len(q \o o) = Len(q) + Len(o)
       /\ \A i \in 1 .. Len(q) : (q \o o)[i] = q[i]
       /\ \A i \in 1 .. Len(q) + Len(o) : i > Len(q) => (q \o o)[i] = o[i - Len(q)]
  BY <1>9
<1>11. \A i \in 1 .. Len(q) + Len(o) : i > Len(q) => i - Len(q) \in 1 .. Len(o) BY <1>9
<1>12. \A i \in 1 .. Len(o) : i + Len(q) \in 1 .. Len(q) + Len(o) /\ i + Len(q) > Len(q) /\ (i + Len(q)) - Len(q) = i
  BY <1>9
<1> DEFINE r == q \o o
<1>13. r \in Seq(Pad!Calls) /\ Len(r) = Len(q) + Len(o) /\ Len(r) \in Nat /\ Len(q) <= Len(r) BY <1>9, <1>10
<1>14. \A i \in 1 .. Len(r) : i > Len(q) => r[i] \in T
  <2>1. \A k \in 1 .. Len(o) : o[k] \in T BY <1>5
  <2> QED BY <1>10, <1>11, <1>13, <2>1
<1>15. ASSUME NEW i \in 1 .. Len(r), NEW j \in 1 .. Len(r), i > Len(q), j > Len(q), r[i] = r[j] PROVE i = j
  <2>1. o[i - Len(q)] = o[j - Len(q)] BY <1>10, <1>13, <1>15
  <2>2. i - Len(q) = j - Len(q) BY <1>6, <1>11, <1>13, <1>15, <2>1
  <2> QED BY <1>9, <2>2
<1>16. ASSUME NEW t \in T PROVE \E i \in 1 .. Len(r) : i > Len(q) /\ r[i] = t
  <2>1. PICK k \in 1 .. Len(o) : o[k] = t BY <1>8
  <2> QED BY <1>10, <1>12, <1>13, <2>1
<1>17. \A i \in 1 .. Len(q) : r[i] = q[i] BY <1>10
<1> HIDE DEF r
<1>18. Longer(q, r, T) BY <1>9, <1>13, <1>14, <1>15, <1>16, <1>17 DEF Longer
<1> QED BY <1>18 DEF r, o

LEMMA LongerAsks ==
  ASSUME NEW q, NEW r, NEW T, Longer(q, r, T)
  PROVE  \A kind, n : Asks(r, kind, n) <=> Asks(q, kind, n) \/ \E t \in T : t.kind = kind /\ t.note = n
<1> SUFFICES ASSUME NEW kind, NEW n
             PROVE  Asks(r, kind, n) <=> Asks(q, kind, n) \/ \E t \in T : t.kind = kind /\ t.note = n
  OBVIOUS
<1>1. ASSUME Asks(r, kind, n) PROVE Asks(q, kind, n) \/ \E t \in T : t.kind = kind /\ t.note = n
  <2>1. PICK i \in 1 .. Len(r) : r[i].kind = kind /\ r[i].note = n BY <1>1 DEF Asks
  <2>2. CASE i > Len(q) BY <2>1, <2>2 DEF Longer
  <2>3. CASE ~(i > Len(q))
    <3>1. i \in 1 .. Len(q) BY <2>3 DEF Longer
    <3>2. q[i] = r[i] BY <3>1 DEF Longer
    <3> QED BY <2>1, <3>1, <3>2 DEF Asks
  <2> QED BY <2>2, <2>3
<1>2. ASSUME Asks(q, kind, n) PROVE Asks(r, kind, n)
  <2>1. PICK i \in 1 .. Len(q) : q[i].kind = kind /\ q[i].note = n BY <1>2 DEF Asks
  <2>2. i \in 1 .. Len(r) /\ r[i] = q[i] BY DEF Longer
  <2> QED BY <2>1, <2>2 DEF Asks
<1>3. ASSUME NEW t \in T, t.kind = kind /\ t.note = n PROVE Asks(r, kind, n)
  <2>1. PICK i \in 1 .. Len(r) : r[i] = t BY DEF Longer
  <2> QED BY <1>3, <2>1 DEF Asks
<1> QED BY <1>1, <1>2, <1>3

LEMMA LongerInOrder ==
  ASSUME NEW q, NEW r, NEW T, Longer(q, r, T), OnceEach(q), WrittenFirst(q),
         \A t \in T : t.kind # "close" => ~Asks(q, t.kind, t.note),
         \A t \in T : t.kind = "update" => ~Asks(q, "delete", t.note),
         \A s, t \in T : s.kind = t.kind /\ s.note = t.note => s = t,
         \A s, t \in T : ~(s.kind = "update" /\ t.kind = "delete")
  PROVE  OnceEach(r) /\ WrittenFirst(r)
<1> DEFINE n == Len(q)
           old == {i \in 1 .. Len(r) : i <= n}
           new == {i \in 1 .. Len(r) : i > n}
<1>1. \A i \in 1 .. Len(r) : i \in old \/ i \in new BY DEF Longer
<1>2. \A i \in old : i \in 1 .. Len(q) /\ r[i] = q[i] BY DEF Longer
<1>3. \A i \in new : r[i] \in T BY DEF Longer
<1>4. \A i \in old : \A j \in new : i < j BY DEF Longer
<1>5. ASSUME NEW i \in old, NEW j \in new, r[i].kind = r[j].kind, r[i].note = r[j].note, r[i].kind # "close"
      PROVE  FALSE
  BY <1>2, <1>3, <1>5 DEF Asks
<1>6. OnceEach(r)
  <2> SUFFICES ASSUME NEW i \in 1 .. Len(r), NEW j \in 1 .. Len(r),
                      r[i].kind = r[j].kind, r[i].note = r[j].note, r[i].kind # "close"
               PROVE  i = j
    BY DEF OnceEach
  <2>1. CASE i \in old /\ j \in old BY <1>2, <2>1 DEF OnceEach
  <2>2. CASE i \in new /\ j \in new
    <3>1. r[i] = r[j] BY <1>3, <2>2
    <3> QED BY <2>2, <3>1 DEF Longer
  <2>3. CASE i \in old /\ j \in new BY <1>5, <2>3
  <2>4. CASE i \in new /\ j \in old BY <1>5, <2>4
  <2> QED BY <1>1, <2>1, <2>2, <2>3, <2>4
<1>7. WrittenFirst(r)
  <2> SUFFICES ASSUME NEW i \in 1 .. Len(r), NEW j \in 1 .. Len(r),
                      r[i].kind = "update", r[j].kind = "delete", r[i].note = r[j].note
               PROVE  i < j
    BY DEF WrittenFirst
  <2>1. CASE i \in old /\ j \in old BY <1>2, <2>1 DEF WrittenFirst
  <2>2. CASE i \in new /\ j \in new BY <1>3, <2>2
  <2>3. CASE i \in old /\ j \in new BY <1>4, <2>3
  <2>4. CASE i \in new /\ j \in old
    <3>1. Asks(q, "delete", r[i].note) BY <1>2, <2>4 DEF Asks
    <3> QED BY <1>3, <2>4, <3>1
  <2> QED BY <1>1, <2>1, <2>2, <2>3, <2>4
<1> QED BY <1>6, <1>7

\* The first call is answered.
LEMMA ShorterInOrder ==
  ASSUME NEW q \in Seq(Pad!Calls), q # <<>>, OnceEach(q), WrittenFirst(q)
  PROVE  /\ Head(q) \in Pad!Calls /\ Head(q) = q[1] /\ 1 \in 1 .. Len(q)
         /\ Tail(q) \in Seq(Pad!Calls) /\ OnceEach(Tail(q)) /\ WrittenFirst(Tail(q))
         /\ \A i \in 1 .. Len(Tail(q)) : i + 1 \in 1 .. Len(q) /\ Tail(q)[i] = q[i + 1]
         /\ Head(q).kind # "close" =>
              \A kind, n : Asks(Tail(q), kind, n) <=> Asks(q, kind, n) /\ ~(Head(q).kind = kind /\ Head(q).note = n)
         /\ Head(q).kind = "close" => \A kind, n : kind # "close" => (Asks(Tail(q), kind, n) <=> Asks(q, kind, n))
         /\ Head(q).kind = "delete" => ~Asks(q, "update", Head(q).note)
<1>1. /\ Head(q) \in Pad!Calls /\ Head(q) = q[1] /\ 1 \in 1 .. Len(q)
      /\ Tail(q) \in Seq(Pad!Calls) /\ Len(Tail(q)) = Len(q) - 1 /\ Len(q) \in Nat
      /\ \A i \in 1 .. Len(Tail(q)) : i + 1 \in 1 .. Len(q) /\ Tail(q)[i] = q[i + 1]
  OBVIOUS
<1>2. \A i \in 1 .. Len(q) : i = 1 \/ (i - 1 \in 1 .. Len(Tail(q)) /\ (i - 1) + 1 = i) BY <1>1
<1> DEFINE t == Tail(q)
<1> HIDE DEF t
<1>3. \A i \in 1 .. Len(t) : i + 1 \in 1 .. Len(q) /\ t[i] = q[i + 1] /\ i \in Nat BY <1>1 DEF t
<1>4. OnceEach(t)
  <2> SUFFICES ASSUME NEW i \in 1 .. Len(t), NEW j \in 1 .. Len(t),
                      t[i].kind = t[j].kind, t[i].note = t[j].note, t[i].kind # "close"
               PROVE  i = j
    BY DEF OnceEach
  <2>1. i + 1 = j + 1 BY <1>3 DEF OnceEach
  <2> QED BY <1>3, <2>1
<1>5. WrittenFirst(t)
  <2> SUFFICES ASSUME NEW i \in 1 .. Len(t), NEW j \in 1 .. Len(t),
                      t[i].kind = "update", t[j].kind = "delete", t[i].note = t[j].note
               PROVE  i < j
    BY DEF WrittenFirst
  <2>1. i + 1 < j + 1 BY <1>3 DEF WrittenFirst
  <2> QED BY <1>3, <2>1
<1>6. \A kind, n : Asks(q, kind, n) => Asks(t, kind, n) \/ (Head(q).kind = kind /\ Head(q).note = n)
  <2> SUFFICES ASSUME NEW kind, NEW n, NEW i \in 1 .. Len(q), q[i].kind = kind /\ q[i].note = n, i # 1
               PROVE  Asks(t, kind, n)
    BY <1>1 DEF Asks
  <2>1. i - 1 \in 1 .. Len(t) /\ t[i - 1] = q[i] BY <1>2, <1>3 DEF t
  <2> QED BY <2>1 DEF Asks
<1>7. \A kind, n : Asks(t, kind, n) => Asks(q, kind, n) BY <1>3 DEF Asks
<1>8. \A kind, n : Head(q).kind = kind /\ Head(q).note = n /\ kind # "close" => ~Asks(t, kind, n)
  <2> SUFFICES ASSUME NEW i \in 1 .. Len(t), t[i].kind = Head(q).kind, t[i].note = Head(q).note, Head(q).kind # "close"
               PROVE  FALSE
    BY DEF Asks
  <2>1. i + 1 = 1 BY <1>1, <1>3 DEF OnceEach
  <2> QED BY <1>3, <2>1
<1>9. Head(q).kind = "delete" => ~Asks(q, "update", Head(q).note)
  <2> SUFFICES ASSUME Head(q).kind = "delete", NEW i \in 1 .. Len(q), q[i].kind = "update", q[i].note = Head(q).note
               PROVE  FALSE
    BY DEF Asks
  <2>1. i < 1 BY <1>1 DEF WrittenFirst
  <2> QED BY <2>1
<1>10. Head(q).kind # "close" =>
         \A kind, n : Asks(t, kind, n) <=> Asks(q, kind, n) /\ ~(Head(q).kind = kind /\ Head(q).note = n)
  BY <1>6, <1>7, <1>8
<1>11. Head(q).kind = "close" => \A kind, n : kind # "close" => (Asks(t, kind, n) <=> Asks(q, kind, n))
  BY <1>6, <1>7
<1> QED BY <1>1, <1>4, <1>5, <1>9, <1>10, <1>11 DEF t
-----------------------------------------------------------------------------
(* The parts of the state *)

DrainStates == [Pad!Drains -> [stage : {"none", "first", "second", "asked"}, waits : SUBSET Notes]]
Types ==
  /\ loading \in BOOLEAN /\ creating \in BOOLEAN
  /\ used \subseteq Notes /\ deleted \subseteq Notes /\ deleting \subseteq Notes
  /\ shown \in [Notes -> Pad!Texts] /\ disk \in [Notes -> Pad!Texts] /\ persisted \in [Notes -> Pad!Texts]
  /\ pending \in [Notes -> Pad!Texts] /\ timer \in [Notes -> Pad!Texts] /\ notesUnsaved \in [Notes -> Pad!Texts]
  /\ sequence \in [Notes -> 0 .. (MaxEdits + 1)] /\ writing \in [Notes -> 0 .. (MaxEdits + 1)]
  /\ saveState \in [Notes -> {"saved", "saving", "save-error"}]
  /\ calls \in Seq(Pad!Calls) /\ drains \in DrainStates
  /\ notesRequest \in Preparations \union {NoPreparation} /\ answered \in [Preparations -> {"none", "yes", "no"}]

LEMMA TypesAre == Pad!TypeOK <=> Types
BY DEF Pad!TypeOK, Types, DrainStates

LEMMA TypesAreNext == Pad!TypeOK' <=> Types'
BY DEF Pad!TypeOK, Types, DrainStates

LEMMA PadFacts ==
  ASSUME Pad!NotesAssumption
  PROVE  /\ IsFiniteSet(Notes) /\ MaxEdits \in Nat /\ Absent \notin Bodies /\ Empty \in Bodies
         /\ NoPreparation \notin Preparations /\ "close" \notin Preparations /\ Pad!Texts = Bodies \union {Absent}
         /\ \A kind, n, b : /\ Pad!Ask(kind, n, b).kind = kind /\ Pad!Ask(kind, n, b).note = n
                            /\ Pad!Ask(kind, n, b).body = b
         /\ \A n \in Notes : \A b \in Bodies : Pad!Ask("update", n, b) \in Pad!Calls
         /\ \A n \in Notes : Pad!Ask("delete", n, Absent) \in Pad!Calls
         /\ Pad!Ask("create", Absent, Absent) \in Pad!Calls /\ Pad!Ask("close", Absent, Absent) \in Pad!Calls
         /\ \A c \in Pad!Calls : /\ c.kind \in {"update", "delete", "create", "close"}
                                 /\ c.kind = "update" => c.note \in Notes /\ c.body \in Bodies
                                 /\ c.kind = "delete" => c.note \in Notes
                                 /\ c.kind = "create" => c.note = Absent
<1>1. Pad!IsFiniteSet(Notes) BY DEF Pad!NotesAssumption
<1>2. IsFiniteSet(Notes) BY <1>1 DEF Pad!IsFiniteSet, IsFiniteSet
<1>3. \A c \in Pad!Calls : /\ c.kind \in {"update", "delete", "create", "close"}
                           /\ c.kind = "update" => c.note \in Notes /\ c.body \in Bodies
                           /\ c.kind = "delete" => c.note \in Notes
                           /\ c.kind = "create" => c.note = Absent
  BY DEF Pad!Calls
<1> QED BY <1>2, <1>3 DEF Pad!NotesAssumption, Pad!Texts, Pad!Ask, Pad!Calls

\* A note nothing happens to.
LEMMA SameNote ==
  ASSUME NEW n \in Notes, NoteAgrees(n),
         shown'[n] = shown[n], disk'[n] = disk[n], pending'[n] = pending[n], timer'[n] = timer[n],
         sequence'[n] = sequence[n], writing'[n] = writing[n], saveState'[n] = saveState[n],
         notesUnsaved'[n] = notesUnsaved[n], n \in deleted' <=> n \in deleted, n \in deleting' <=> n \in deleting,
         n \in used => n \in used'
  PROVE  NoteAgrees(n)'
BY DEF NoteAgrees

LEMMA SameSaved ==
  ASSUME NEW n \in Notes, SavedIsKnown(n),
         shown'[n] = shown[n], disk'[n] = disk[n], pending'[n] = pending[n], persisted'[n] = persisted[n],
         n \in deleted' <=> n \in deleted
  PROVE  SavedIsKnown(n)'
BY DEF SavedIsKnown

LEMMA PadStarts == ASSUME Pad!NotesAssumption, Pad!Init PROVE PadInvariant
<1> USE PadFacts DEF Pad!Init
<1>1. Types
  <2>1. 0 \in 0 .. (MaxEdits + 1) OBVIOUS
  <2>2. drains \in DrainStates BY DEF DrainStates, Pad!Resting
  <2>3. used \subseteq Notes OBVIOUS
  <2>4. /\ shown \in [Notes -> Pad!Texts] /\ persisted \in [Notes -> Pad!Texts] /\ pending \in [Notes -> Pad!Texts]
        /\ timer \in [Notes -> Pad!Texts] /\ notesUnsaved \in [Notes -> Pad!Texts]
    OBVIOUS
  <2>5. disk \in [Notes -> Pad!Texts] OBVIOUS
  <2>6. sequence \in [Notes -> 0 .. (MaxEdits + 1)] /\ writing \in [Notes -> 0 .. (MaxEdits + 1)] BY <2>1
  <2>7. saveState \in [Notes -> {"saved", "saving", "save-error"}] OBVIOUS
  <2>8. answered \in [Preparations -> {"none", "yes", "no"}] /\ calls \in Seq(Pad!Calls) OBVIOUS
  <2> QED BY <2>2, <2>3, <2>4, <2>5, <2>6, <2>7, <2>8 DEF Types
<1>2. InFlight
  <2>1. Len(calls) = 0 OBVIOUS
  <2>2. ~creating /\ deleting = {} /\ \A n \in Notes : writing[n] = 0 OBVIOUS
  <2> QED BY <2>1, <2>2 DEF InFlight, OnceEach, WrittenFirst, Asks
<1>3. Carries
  <2>1. Len(calls) = 0 OBVIOUS
  <2> QED BY <2>1 DEF Carries
<1>4. WindowAgrees BY DEF WindowAgrees
<1>5. \A n \in Notes : NoteAgrees(n) BY DEF NoteAgrees
<1>6. \A n \in Notes : SavedIsKnown(n) BY DEF SavedIsKnown
<1> QED BY <1>1, <1>2, <1>3, <1>4, <1>5, <1>6, TypesAre DEF PadInvariant

-----------------------------------------------------------------------------
(* Writing *)

\* Writes of the newest edits begin.
LEMMA WritesBegin ==
  ASSUME Pad!NotesAssumption, PadInvariant, NEW start \in SUBSET Notes, NEW texts,
         \A n \in start : n \notin deleted /\ writing[n] = 0 /\ sequence[n] # 0
                          /\ texts[n] = shown[n] /\ shown[n] # Absent,
         calls' = calls \o Pad!SetToSeq({Pad!Ask("update", n, texts[n]) : n \in start}),
         writing' = [n \in Notes |-> IF n \in start THEN sequence[n] ELSE writing[n]],
         UNCHANGED <<shown, sequence, deleted, deleting, creating>>
  PROVE  InFlight' /\ Carries' /\ calls' \in Seq(Pad!Calls) /\ writing' \in [Notes -> 0 .. (MaxEdits + 1)]
<1> DEFINE T == {Pad!Ask("update", n, texts[n]) : n \in start}
<1>1. Types /\ InFlight /\ Carries BY TypesAre DEF PadInvariant
<1>2. IsFiniteSet(T)
  <2>1. IsFiniteSet(start) BY PadFacts, FS_Subset
  <2> DEFINE f == [n \in start |-> Pad!Ask("update", n, texts[n])]
  <2>2. f \in Surjection(start, T) BY DEF Surjection
  <2> QED BY <2>1, <2>2, FS_Surjection
<1>3. \A n \in start : shown[n] \in Bodies BY <1>1, PadFacts DEF Types
<1>4. T \subseteq Pad!Calls BY <1>3, PadFacts
<1>5. \A t \in T : t.kind = "update" /\ t.note \in start /\ t = Pad!Ask("update", t.note, texts[t.note])
                   /\ t.body = shown[t.note]
  BY PadFacts
<1>6. \A n \in start : \E t \in T : t.kind = "update" /\ t.note = n BY PadFacts
<1> HIDE DEF T
<1>7. Longer(calls, calls', T) BY <1>1, <1>2, <1>4, ManyMore DEF T, Types
<1>8. \A n \in start : ~Asks(calls, "update", n) /\ ~Asks(calls, "delete", n)
  <2>1. \A n \in start : n \notin deleting BY DEF PadInvariant, NoteAgrees
  <2> QED BY <1>1, <2>1 DEF InFlight
<1>9. OnceEach(calls') /\ WrittenFirst(calls')
  <2>1. \A t \in T : t.kind # "close" => ~Asks(calls, t.kind, t.note) BY <1>5, <1>8
  <2>2. \A t \in T : t.kind = "update" => ~Asks(calls, "delete", t.note) BY <1>5, <1>8
  <2>3. \A s, t \in T : s.kind = t.kind /\ s.note = t.note => s = t BY <1>5
  <2>4. \A s, t \in T : ~(s.kind = "update" /\ t.kind = "delete") BY <1>5
  <2> QED BY <1>1, <1>7, <2>1, <2>2, <2>3, <2>4, LongerInOrder DEF InFlight
<1>10. \A kind, n : Asks(calls', kind, n) <=> Asks(calls, kind, n) \/ (kind = "update" /\ n \in start)
  BY <1>5, <1>6, <1>7, LongerAsks
<1>11. \A n \in Notes : writing'[n] = IF n \in start THEN sequence[n] ELSE writing[n] OBVIOUS
<1>12. \A i \in 1 .. Len(calls') : (i \in 1 .. Len(calls) /\ calls'[i] = calls[i]) \/ calls'[i] \in T
  BY <1>7 DEF Longer
<1>13. InFlight'
  <2>2. \A n \in Notes : writing'[n] # 0 <=> Asks(calls', "update", n) BY <1>1, <1>10, <1>11 DEF InFlight
  <2>3. \A n \in Notes : n \in deleting' <=> Asks(calls', "delete", n) BY <1>1, <1>10 DEF InFlight
  <2>4. creating' <=> Asks(calls', "create", Absent) BY <1>1, <1>10 DEF InFlight
  <2> QED BY <1>9, <2>2, <2>3, <2>4 DEF InFlight
<1>14. Carries'
  <2> SUFFICES ASSUME NEW i \in 1 .. Len(calls'), calls'[i].kind = "update", calls'[i].note \notin deleted',
                      writing'[calls'[i].note] = sequence'[calls'[i].note]
               PROVE  calls'[i].body = shown'[calls'[i].note]
    BY DEF Carries
  <2>1. CASE calls'[i] \in T BY <1>5, <2>1
  <2>2. CASE i \in 1 .. Len(calls) /\ calls'[i] = calls[i]
    <3>1. calls[i].note \in Notes BY <1>1, <2>2, PadFacts DEF Types
    <3>2. Asks(calls, "update", calls[i].note) BY <2>2 DEF Asks
    <3>3. calls[i].note \notin start BY <1>8, <3>2
    <3>4. writing[calls[i].note] = sequence[calls[i].note] BY <1>11, <2>2, <3>1, <3>3
    <3> QED BY <1>1, <2>2, <3>4 DEF Carries
  <2> QED BY <1>12, <2>1, <2>2
<1>15. writing' \in [Notes -> 0 .. (MaxEdits + 1)] BY <1>1 DEF Types
<1> QED BY <1>7, <1>13, <1>14, <1>15 DEF Longer

LEMMA WindowStays ==
  ASSUME WindowAgrees, UNCHANGED <<loading, shown, deleted, deleting, creating, notesRequest, answered>>,
         \A n \in Notes : pending'[n] \in {pending[n], Absent}
  PROVE  WindowAgrees'
BY DEF WindowAgrees

\* persistNote() with nothing else.
LEMMA PersistKeeps ==
  ASSUME Pad!NotesAssumption, PadInvariant, NEW S \in SUBSET Notes, NEW texts, Pad!Persist(S, texts),
         \A n \in S : n \notin deleted => texts[n] = shown[n] /\ shown[n] # Absent /\ sequence[n] # 0,
         pending' = pending, timer' \in [Notes -> Pad!Texts],
         \A n \in Notes : timer'[n] = timer[n] \/ (timer'[n] = Absent /\ (n \in S \/ pending[n] = Absent)),
         UNCHANGED <<loading, shown, disk, used, persisted, sequence, deleted, deleting, notesUnsaved, creating,
                     notesRequest, answered>>,
         drains' \in DrainStates
  PROVE  PadInvariant'
<1> DEFINE start == {n \in S : Pad!MayWrite(n)}
<1>1. /\ writing' = [n \in Notes |-> IF n \in start THEN sequence[n] ELSE writing[n]]
      /\ saveState' = [n \in Notes |-> IF n \in start THEN "saving" ELSE saveState[n]]
      /\ calls' = calls \o Pad!SetToSeq({Pad!Ask("update", n, texts[n]) : n \in start})
  BY DEF Pad!Persist
<1>2. \A n \in start : n \in S /\ n \notin deleted /\ writing[n] = 0 BY DEF Pad!MayWrite
<1>3. \A n \in S : n \notin start => n \in deleted \/ writing[n] # 0 BY DEF Pad!MayWrite
<1> HIDE DEF start
<1>4. start \in SUBSET Notes BY DEF start
<1>5. InFlight' /\ Carries' /\ calls' \in Seq(Pad!Calls) /\ writing' \in [Notes -> 0 .. (MaxEdits + 1)]
  <2>1. \A n \in start : n \notin deleted /\ writing[n] = 0 /\ sequence[n] # 0
                          /\ texts[n] = shown[n] /\ shown[n] # Absent
    BY <1>2
  <2> QED BY <1>1, <1>4, <2>1, WritesBegin
<1>6. WindowAgrees' BY WindowStays DEF PadInvariant
<1>7. ASSUME NEW n \in Notes PROVE NoteAgrees(n)'
  <2>1. /\ writing'[n] = IF n \in start THEN sequence[n] ELSE writing[n]
        /\ saveState'[n] = IF n \in start THEN "saving" ELSE saveState[n]
    BY <1>1
  <2>2. NoteAgrees(n) BY DEF PadInvariant
  <2>3. CASE n \in start
    <3>1. n \in S /\ n \notin deleted /\ shown[n] # Absent /\ sequence[n] # 0 BY <1>2, <2>3
    <3>2. n \notin deleting BY <2>2, <3>1 DEF NoteAgrees
    <3>3. sequence[n] <= sequence[n] BY PadFacts, TypesAre DEF PadInvariant, Types
    <3> QED BY <2>1, <2>2, <2>3, <3>1, <3>2, <3>3 DEF NoteAgrees
  <2>4. CASE n \notin start
    <3>1. pending[n] # Absent /\ n \in S => writing[n] # 0 BY <1>3, <2>2, <2>4 DEF NoteAgrees
    <3>2. writing'[n] = writing[n] /\ saveState'[n] = saveState[n] BY <2>1, <2>4
    <3> QED BY <2>2, <3>1, <3>2 DEF NoteAgrees
  <2> QED BY <2>3, <2>4
<1>8. ~DeleteFails => \A n \in Notes : SavedIsKnown(n)' BY SameSaved DEF PadInvariant
<1>9. Types'
  <2>1. Types BY TypesAre DEF PadInvariant
  <2>2. saveState' \in [Notes -> {"saved", "saving", "save-error"}] BY <1>1, <2>1 DEF Types
  <2>3. /\ loading' \in BOOLEAN /\ creating' \in BOOLEAN
        /\ used' \subseteq Notes /\ deleted' \subseteq Notes /\ deleting' \subseteq Notes
    BY <2>1 DEF Types
  <2>4. shown' \in [Notes -> Pad!Texts] /\ disk' \in [Notes -> Pad!Texts] /\ persisted' \in [Notes -> Pad!Texts]
        /\ pending' \in [Notes -> Pad!Texts] /\ notesUnsaved' \in [Notes -> Pad!Texts]
        /\ sequence' \in [Notes -> 0 .. (MaxEdits + 1)]
    BY <2>1 DEF Types
  <2>5. notesRequest' \in Preparations \union {NoPreparation} /\ answered' \in [Preparations -> {"none", "yes", "no"}]
    BY <2>1 DEF Types
  <2> QED BY <1>5, <2>2, <2>3, <2>4, <2>5 DEF Types
<1> QED BY <1>5, <1>6, <1>7, <1>8, <1>9, TypesAreNext DEF PadInvariant

\* flushPendingSaves() with nothing else.
LEMMA FlushKeeps ==
  ASSUME Pad!NotesAssumption, PadInvariant, Pad!FlushPending, WindowAgrees',
         UNCHANGED <<loading, shown, disk, used, persisted, sequence, deleted, deleting, notesUnsaved, creating>>,
         drains' \in DrainStates, notesRequest' \in Preparations \union {NoPreparation},
         answered' \in [Preparations -> {"none", "yes", "no"}]
  PROVE  PadInvariant'
<1> DEFINE clean == Pad!Clean \ deleted
           start == {n \in (Pad!Pending \ deleted) \ clean : writing[n] # sequence[n] /\ Pad!MayWrite(n)}
<1>1. /\ timer' = [n \in Notes |-> IF n \in Pad!Pending THEN Absent ELSE timer[n]]
      /\ pending' = [n \in Notes |-> IF n \in clean THEN Absent ELSE pending[n]]
      /\ writing' = [n \in Notes |-> IF n \in start THEN sequence[n] ELSE writing[n]]
      /\ saveState' = [n \in Notes |-> IF n \in clean THEN "saved" ELSE IF n \in start THEN "saving" ELSE saveState[n]]
      /\ calls' = calls \o Pad!SetToSeq({Pad!Ask("update", n, pending[n]) : n \in start})
  BY DEF Pad!FlushPending
<1>2. Types /\ \A n \in Notes : NoteAgrees(n) BY TypesAre DEF PadInvariant
<1>3. \A n \in Notes : n \in clean <=> pending[n] # Absent /\ n \notin deleted /\ persisted[n] = pending[n] /\ writing[n] = 0
  BY DEF Pad!Clean, Pad!Pending
<1>4. \A n \in Notes : n \in start <=> pending[n] # Absent /\ n \notin deleted /\ n \notin clean
                                       /\ writing[n] # sequence[n] /\ writing[n] = 0
  BY DEF Pad!Pending, Pad!MayWrite
<1>5. start \in SUBSET Notes BY DEF Pad!Pending
<1>6. \A n \in Notes : n \in Pad!Pending <=> pending[n] # Absent BY DEF Pad!Pending
<1> HIDE DEF clean, start
<1>7. \A n \in start : n \notin deleted /\ writing[n] = 0 /\ sequence[n] # 0
                       /\ pending[n] = shown[n] /\ shown[n] # Absent
  BY <1>2, <1>4, <1>5 DEF NoteAgrees
<1>8. InFlight' /\ Carries' /\ calls' \in Seq(Pad!Calls) /\ writing' \in [Notes -> 0 .. (MaxEdits + 1)]
  BY <1>1, <1>5, <1>7, WritesBegin
<1>9. ASSUME NEW n \in Notes
      PROVE  /\ timer'[n] = IF pending[n] # Absent THEN Absent ELSE timer[n]
             /\ pending'[n] = IF n \in clean THEN Absent ELSE pending[n]
             /\ writing'[n] = IF n \in start THEN sequence[n] ELSE writing[n]
             /\ saveState'[n] = IF n \in clean THEN "saved" ELSE IF n \in start THEN "saving" ELSE saveState[n]
  BY <1>1, <1>6
<1>10. ASSUME NEW n \in Notes PROVE NoteAgrees(n)'
  <2>1. NoteAgrees(n) BY <1>2
  <2>2. CASE n \in clean
    <3>1. pending[n] # Absent /\ n \notin deleted /\ writing[n] = 0 /\ n \notin start BY <1>3, <1>4, <2>2
    <3>2. n \notin deleting BY <2>1, <3>1 DEF NoteAgrees
    <3>3. timer'[n] = Absent /\ pending'[n] = Absent /\ writing'[n] = 0 /\ saveState'[n] = "saved"
      BY <1>9, <2>2, <3>1
    <3> QED BY <2>1, <3>1, <3>2, <3>3 DEF NoteAgrees
  <2>3. CASE n \in start
    <3>1. pending[n] # Absent /\ n \notin deleted /\ writing[n] = 0 /\ n \notin clean BY <1>4, <2>3
    <3>2. n \notin deleting BY <2>1, <3>1 DEF NoteAgrees
    <3>3. timer'[n] = Absent /\ pending'[n] = pending[n] /\ writing'[n] = sequence[n] /\ saveState'[n] = "saving"
      BY <1>9, <2>3, <3>1
    <3>4. sequence[n] # 0 /\ sequence[n] <= sequence[n] BY <1>2, <1>7, <2>3, PadFacts DEF Types
    <3> QED BY <2>1, <3>1, <3>2, <3>3, <3>4 DEF NoteAgrees
  <2>4. CASE n \notin clean /\ n \notin start
    <3>1. pending'[n] = pending[n] /\ writing'[n] = writing[n] /\ saveState'[n] = saveState[n] BY <1>9, <2>4
    <3>2. timer'[n] \in {timer[n], Absent} BY <1>9
    <3>3. pending[n] # Absent => writing[n] # 0
      <4>1. pending[n] # Absent => n \notin deleted /\ sequence[n] # 0 BY <2>1 DEF NoteAgrees
      <4> QED BY <1>4, <2>4, <4>1
    <3> QED BY <2>1, <3>1, <3>2, <3>3 DEF NoteAgrees
  <2> QED BY <2>2, <2>3, <2>4
<1>11. ASSUME ~DeleteFails, NEW n \in Notes PROVE SavedIsKnown(n)'
  <2>1. NoteAgrees(n) /\ SavedIsKnown(n) BY <1>2, <1>11 DEF PadInvariant
  <2>2. CASE n \in clean
    <3>1. persisted[n] = pending[n] /\ pending[n] = shown[n] BY <1>3, <2>1, <2>2 DEF NoteAgrees
    <3> QED BY <2>1, <3>1 DEF SavedIsKnown
  <2>3. CASE n \notin clean BY <1>9, <2>1, <2>3 DEF SavedIsKnown
  <2> QED BY <2>2, <2>3
<1>12. Types'
  <2>1. /\ timer' \in [Notes -> Pad!Texts] /\ pending' \in [Notes -> Pad!Texts]
    BY <1>1, <1>2, PadFacts DEF Types
  <2>2. saveState' \in [Notes -> {"saved", "saving", "save-error"}] BY <1>1, <1>2 DEF Types
  <2>3. /\ loading' \in BOOLEAN /\ creating' \in BOOLEAN
        /\ used' \subseteq Notes /\ deleted' \subseteq Notes /\ deleting' \subseteq Notes
    BY <1>2 DEF Types
  <2>4. shown' \in [Notes -> Pad!Texts] /\ disk' \in [Notes -> Pad!Texts] /\ persisted' \in [Notes -> Pad!Texts]
        /\ notesUnsaved' \in [Notes -> Pad!Texts] /\ sequence' \in [Notes -> 0 .. (MaxEdits + 1)]
    BY <1>2 DEF Types
  <2> QED BY <1>8, <2>1, <2>2, <2>3, <2>4 DEF Types
<1> QED BY <1>8, <1>10, <1>11, <1>12, TypesAreNext DEF PadInvariant

LEMMA FlushStays ==
  ASSUME PadInvariant, Pad!FlushPending, UNCHANGED <<loading, shown, deleted, deleting, creating, notesRequest, answered>>
  PROVE  WindowAgrees'
<1>1. \A n \in Notes : pending'[n] \in {pending[n], Absent} BY DEF Pad!FlushPending
<1> QED BY <1>1, WindowStays DEF PadInvariant

LEMMA DrainTypes ==
  ASSUME Types
  PROVE  /\ drains \in DrainStates
         /\ \A d \in Pad!Drains : \A W \in SUBSET Notes : \A s \in {"first", "second"} :
              [drains EXCEPT ![d] = [stage |-> s, waits |-> W]] \in DrainStates
         /\ \A d \in Pad!Drains : [drains EXCEPT ![d] = Pad!Resting] \in DrainStates
         /\ \A d \in Pad!Drains : [drains EXCEPT ![d].stage = "asked"] \in DrainStates
         /\ \A n \in Notes : [d \in Pad!Drains |-> [drains[d] EXCEPT !.waits = @ \ {n}]] \in DrainStates
<1>1. drains \in DrainStates BY DEF Types
<1>2. Pad!Resting \in [stage : {"none", "first", "second", "asked"}, waits : SUBSET Notes] BY DEF Pad!Resting
<1>3. \A d \in Pad!Drains : [drains[d] EXCEPT !.stage = "asked"] \in
        [stage : {"none", "first", "second", "asked"}, waits : SUBSET Notes]
  BY <1>1 DEF DrainStates
<1>4. \A n \in Notes : \A d \in Pad!Drains : [drains[d] EXCEPT !.waits = @ \ {n}] \in
        [stage : {"none", "first", "second", "asked"}, waits : SUBSET Notes]
  BY <1>1 DEF DrainStates
<1> QED BY <1>1, <1>2, <1>3, <1>4 DEF DrainStates

LEMMA FlushStep == ASSUME Pad!NotesAssumption, PadInvariant, Pad!Flush PROVE PadInvariant'
<1>1. Types BY TypesAre DEF PadInvariant
<1>2. /\ Pad!FlushPending
      /\ UNCHANGED <<loading, shown, disk, used, persisted, sequence, deleted, deleting, notesUnsaved, creating,
                     drains, notesRequest, answered>>
  BY DEF Pad!Flush, Pad!opVars, Pad!drainVars
<1>3. WindowAgrees' BY <1>2, FlushStays
<1>4. drains' \in DrainStates /\ notesRequest' \in Preparations \union {NoPreparation}
      /\ answered' \in [Preparations -> {"none", "yes", "no"}]
  BY <1>1, <1>2 DEF Types
<1> QED BY <1>2, <1>3, <1>4, FlushKeeps

LEMMA CloseStep == ASSUME Pad!NotesAssumption, PadInvariant, Pad!CloseScratchpad PROVE PadInvariant'
<1>1. Types BY TypesAre DEF PadInvariant
<1>2. /\ Pad!FlushPending /\ Pad!Begins("close", drains)
      /\ UNCHANGED <<loading, shown, disk, used, persisted, sequence, deleted, deleting, notesUnsaved, creating,
                     notesRequest, answered>>
  BY DEF Pad!CloseScratchpad, Pad!opVars, Pad!Close
<1>3. WindowAgrees' BY <1>2, FlushStays
<1>4. drains' \in DrainStates
  <2>1. "close" \in Pad!Drains BY DEF Pad!Drains, Pad!Close
  <2>2. {n \in Notes : writing'[n] # 0} \in SUBSET Notes OBVIOUS
  <2> QED BY <1>1, <1>2, <2>1, <2>2, DrainTypes DEF Pad!Begins
<1>5. notesRequest' \in Preparations \union {NoPreparation} /\ answered' \in [Preparations -> {"none", "yes", "no"}]
  BY <1>1, <1>2 DEF Types
<1> QED BY <1>2, <1>3, <1>4, <1>5, FlushKeeps

\* Nothing but drains and requests is changed.
LEMMA OnlyDrains ==
  ASSUME PadInvariant, WindowAgrees', drains' \in DrainStates,
         notesRequest' \in Preparations \union {NoPreparation}, answered' \in [Preparations -> {"none", "yes", "no"}],
         UNCHANGED <<loading, shown, disk, used, persisted, pending, timer, sequence, writing, saveState, deleted,
                     deleting, notesUnsaved, creating, calls>>
  PROVE  PadInvariant'
<1>1. Types BY TypesAre DEF PadInvariant
<1>2. Types' BY <1>1 DEF Types
<1>3. InFlight' /\ Carries' BY DEF PadInvariant, InFlight, Carries, OnceEach, WrittenFirst, Asks
<1>4. \A n \in Notes : NoteAgrees(n)' BY DEF PadInvariant, NoteAgrees
<1>5. ~DeleteFails => \A n \in Notes : SavedIsKnown(n)' BY DEF PadInvariant, SavedIsKnown
<1> QED BY <1>2, <1>3, <1>4, <1>5, TypesAreNext DEF PadInvariant

LEMMA PrepareStep ==
  ASSUME Pad!NotesAssumption, PadInvariant, NEW r \in Preparations, Pad!PrepareInstall(r) PROVE PadInvariant'
<1>1. Types BY TypesAre DEF PadInvariant
<1>2. /\ answered[r] = "none"
      /\ UNCHANGED <<loading, shown, disk, used, deleted, deleting, notesUnsaved, creating>>
  BY DEF Pad!PrepareInstall, Pad!opVars
<1>3. CASE Pad!Frozen \/ ~Pad!CanPrepare
  <2>1. /\ answered' = [answered EXCEPT ![r] = "no"]
        /\ UNCHANGED <<persisted, pending, timer, sequence, writing, saveState, calls, drains, notesRequest>>
    BY <1>3 DEF Pad!PrepareInstall, Pad!noteVars
  <2>2. answered' \in [Preparations -> {"none", "yes", "no"}] BY <1>1, <2>1 DEF Types
  <2>3. \A s \in Preparations : answered'[s] = "yes" => answered[s] = "yes" BY <1>1, <2>1 DEF Types
  <2>4. WindowAgrees' BY <1>2, <2>1, <2>3 DEF PadInvariant, WindowAgrees
  <2>5. drains' \in DrainStates /\ notesRequest' \in Preparations \union {NoPreparation} BY <1>1, <2>1 DEF Types
  <2> QED BY <1>2, <2>1, <2>2, <2>4, <2>5, OnlyDrains
<1>4. CASE ~(Pad!Frozen \/ ~Pad!CanPrepare)
  <2>1. /\ notesRequest' = r /\ Pad!FlushPending /\ Pad!Begins(r, drains)
        /\ UNCHANGED <<persisted, sequence, answered>>
    BY <1>4 DEF Pad!PrepareInstall
  <2>2. ~loading /\ ~creating /\ deleting = {} BY <1>4 DEF Pad!CanPrepare, Pad!Busy
  <2>3. answered[r] # "yes" BY <1>2
  <2>4. WindowAgrees' BY <1>2, <2>1, <2>2, <2>3 DEF PadInvariant, WindowAgrees
  <2>5. drains' \in DrainStates
    <3>1. r \in Pad!Drains BY DEF Pad!Drains
    <3>2. {n \in Notes : writing'[n] # 0} \in SUBSET Notes OBVIOUS
    <3> QED BY <1>1, <2>1, <3>1, <3>2, DrainTypes DEF Pad!Begins
  <2>6. notesRequest' \in Preparations \union {NoPreparation} /\ answered' \in [Preparations -> {"none", "yes", "no"}]
    BY <1>1, <2>1 DEF Types
  <2> QED BY <1>2, <2>1, <2>4, <2>5, <2>6, FlushKeeps
<1> QED BY <1>3, <1>4

LEMMA PrepareDrainedStep ==
  ASSUME Pad!NotesAssumption, PadInvariant, NEW r \in Preparations, Pad!PrepareDrained(r) PROVE PadInvariant'
<1>1. Types BY TypesAre DEF PadInvariant
<1>2. /\ drains' = [drains EXCEPT ![r] = Pad!Resting]
      /\ answered' = [answered EXCEPT ![r] = IF Pad!Drained /\ notesRequest = r THEN "yes" ELSE "no"]
      /\ notesRequest' = IF notesRequest = r /\ ~Pad!Drained THEN NoPreparation ELSE notesRequest
      /\ UNCHANGED <<loading, shown, disk, used, persisted, pending, timer, sequence, writing, saveState, deleted,
                     deleting, notesUnsaved, creating, calls>>
  BY DEF Pad!PrepareDrained, Pad!noteVars, Pad!opVars
<1>3. drains' \in DrainStates
  <2>1. r \in Pad!Drains BY DEF Pad!Drains
  <2> QED BY <1>1, <1>2, <2>1, DrainTypes
<1>4. answered' \in [Preparations -> {"none", "yes", "no"}] BY <1>1, <1>2 DEF Types
<1>5. notesRequest' \in Preparations \union {NoPreparation} BY <1>1, <1>2 DEF Types
<1>6. \A s \in Preparations : answered'[s] = "yes" => answered[s] = "yes" \/ (s = r /\ Pad!Drained)
  BY <1>1, <1>2 DEF Types
<1>7. Pad!Drained => \A n \in Notes : pending[n] = Absent BY DEF Pad!Drained, Pad!Pending
<1>8. WindowAgrees'
  <2>1. notesRequest' \in {notesRequest, NoPreparation} BY <1>2
  <2>2. \A s \in Preparations : notesRequest' = s => notesRequest = s BY <2>1, PadFacts
  <2>3. WindowAgrees BY DEF PadInvariant
  <2>4. \A s \in Preparations : notesRequest' = s /\ answered'[s] = "yes" => \A n \in Notes : pending[n] = Absent
    BY <1>6, <1>7, <2>2, <2>3 DEF WindowAgrees
  <2>5. UNCHANGED <<loading, shown, deleted, deleting, creating, pending>> BY <1>2
  <2> QED BY <2>1, <2>3, <2>4, <2>5 DEF WindowAgrees
<1> QED BY <1>2, <1>3, <1>4, <1>5, <1>8, OnlyDrains

LEMMA CancelledStep ==
  ASSUME PadInvariant, NEW r \in Preparations, Pad!NotesAssumption, Pad!InstallCancelled(r) PROVE PadInvariant'
<1>1. Types BY TypesAre DEF PadInvariant
<1>2. /\ notesRequest' = NoPreparation
      /\ UNCHANGED <<loading, shown, disk, used, persisted, pending, timer, sequence, writing, saveState, deleted,
                     deleting, notesUnsaved, creating, calls, drains, answered>>
  BY DEF Pad!InstallCancelled, Pad!noteVars, Pad!opVars
<1>3. WindowAgrees' BY <1>2, PadFacts DEF PadInvariant, WindowAgrees
<1>4. drains' \in DrainStates /\ answered' \in [Preparations -> {"none", "yes", "no"}] BY <1>1, <1>2 DEF Types
<1> QED BY <1>2, <1>3, <1>4, OnlyDrains

LEMMA TimerStep ==
  ASSUME Pad!NotesAssumption, PadInvariant, NEW n \in Notes, Pad!SaveTimerFires(n) PROVE PadInvariant'
<1>1. Types /\ NoteAgrees(n) BY TypesAre DEF PadInvariant
<1>2. /\ timer[n] # Absent /\ timer' = [timer EXCEPT ![n] = Absent] /\ Pad!Persist({n}, timer)
      /\ UNCHANGED <<loading, shown, disk, used, persisted, pending, sequence, deleted, deleting, notesUnsaved,
                     creating, drains, notesRequest, answered>>
  BY DEF Pad!SaveTimerFires, Pad!opVars, Pad!drainVars, Pad!Timed
<1>3. timer' \in [Notes -> Pad!Texts] BY <1>1, <1>2, PadFacts DEF Types
<1>4. \A m \in Notes : timer'[m] = timer[m] \/ (timer'[m] = Absent /\ (m \in {n} \/ pending[m] = Absent))
  BY <1>1, <1>2 DEF Types
<1>5. timer[n] = shown[n] /\ shown[n] # Absent /\ sequence[n] # 0 BY <1>1, <1>2 DEF NoteAgrees
<1>6. drains' \in DrainStates BY <1>1, <1>2 DEF Types
<1> QED BY <1>2, <1>3, <1>4, <1>5, <1>6, PersistKeeps

LEMMA BlurStep ==
  ASSUME Pad!NotesAssumption, PadInvariant, NEW n \in Notes, Pad!FlushScheduledSave(n) PROVE PadInvariant'
<1>1. Types /\ NoteAgrees(n) BY TypesAre DEF PadInvariant
<1> DEFINE S == {n} \intersect Pad!Pending
<1>2. /\ timer' = [timer EXCEPT ![n] = Absent] /\ Pad!Persist(S, pending)
      /\ UNCHANGED <<loading, shown, disk, used, persisted, pending, sequence, deleted, deleting, notesUnsaved,
                     creating, drains, notesRequest, answered>>
  BY DEF Pad!FlushScheduledSave, Pad!Flushed, Pad!opVars, Pad!drainVars
<1>3. timer' \in [Notes -> Pad!Texts] BY <1>1, <1>2, PadFacts DEF Types
<1>4. \A m \in Notes : timer'[m] = timer[m] \/ (timer'[m] = Absent /\ (m \in S \/ pending[m] = Absent))
  BY <1>1, <1>2 DEF Types, Pad!Pending
<1>5. \A m \in S : pending[m] = shown[m] /\ shown[m] # Absent /\ sequence[m] # 0
  BY <1>1 DEF NoteAgrees, Pad!Pending
<1>6. drains' \in DrainStates BY <1>1, <1>2 DEF Types
<1>7. S \in SUBSET Notes OBVIOUS
<1> HIDE DEF S
<1> QED BY <1>2, <1>3, <1>4, <1>5, <1>6, <1>7, PersistKeeps

LEMMA DrainAgainStep ==
  ASSUME Pad!NotesAssumption, PadInvariant, NEW d \in Pad!Drains, Pad!DrainAgain(d) PROVE PadInvariant'
<1>1. Types BY TypesAre DEF PadInvariant
<1> DEFINE S == {n \in Pad!Pending : saveState[n] # "save-error"}
<1>2. /\ Pad!Persist(S, pending)
      /\ drains' = [drains EXCEPT ![d] = [stage |-> "second", waits |-> {n \in Notes : writing'[n] # 0}]]
      /\ UNCHANGED <<loading, shown, disk, used, persisted, pending, timer, sequence, deleted, deleting, notesUnsaved,
                     creating, notesRequest, answered>>
  BY DEF Pad!DrainAgain, Pad!opVars
<1>3. timer' \in [Notes -> Pad!Texts] BY <1>1, <1>2 DEF Types
<1>4. \A m \in Notes : timer'[m] = timer[m] BY <1>2
<1>5. \A m \in S : pending[m] = shown[m] /\ shown[m] # Absent /\ sequence[m] # 0
  BY DEF PadInvariant, NoteAgrees, Pad!Pending
<1>6. drains' \in DrainStates
  <2>1. {n \in Notes : writing'[n] # 0} \in SUBSET Notes OBVIOUS
  <2> QED BY <1>1, <1>2, <2>1, DrainTypes
<1>7. S \in SUBSET Notes BY DEF Pad!Pending
<1> HIDE DEF S
<1> QED BY <1>2, <1>3, <1>4, <1>5, <1>6, <1>7, PersistKeeps

LEMMA TypeStep ==
  ASSUME Pad!NotesAssumption, PadInvariant, NEW n \in Notes, NEW b \in Bodies, Pad!Type(n, b) PROVE PadInvariant'
<1>1. Types /\ NoteAgrees(n) BY TypesAre DEF PadInvariant
<1>2. /\ shown[n] # Absent /\ n \notin deleted /\ ~Pad!Frozen /\ sequence[n] < MaxEdits
      /\ shown' = [shown EXCEPT ![n] = b] /\ pending' = [pending EXCEPT ![n] = b]
      /\ sequence' = [sequence EXCEPT ![n] = @ + 1] /\ saveState' = [saveState EXCEPT ![n] = "saving"]
      /\ timer' = [timer EXCEPT ![n] = b]
      /\ UNCHANGED <<loading, disk, used, persisted, writing, deleted, deleting, notesUnsaved, creating, calls,
                     drains, notesRequest, answered>>
  BY DEF Pad!Type, Pad!opVars, Pad!drainVars, Pad!Listed
<1>3. b # Absent /\ b \in Pad!Texts BY PadFacts
<1>4. /\ shown'[n] = b /\ pending'[n] = b /\ sequence'[n] = sequence[n] + 1 /\ saveState'[n] = "saving" /\ timer'[n] = b
      /\ sequence[n] \in Nat /\ writing[n] \in Nat /\ sequence'[n] \in 0 .. (MaxEdits + 1)
  BY <1>1, <1>2, PadFacts DEF Types
<1>5. \A m \in Notes \ {n} : /\ shown'[m] = shown[m] /\ pending'[m] = pending[m] /\ sequence'[m] = sequence[m]
                             /\ saveState'[m] = saveState[m] /\ timer'[m] = timer[m]
  BY <1>1, <1>2 DEF Types
<1>6. ASSUME NEW m \in Notes PROVE NoteAgrees(m)'
  <2>1. CASE m = n
    <3>1. n \notin deleting BY <1>1, <1>2 DEF NoteAgrees
    <3>2. n \in used /\ n \in used' BY <1>1, <1>2 DEF NoteAgrees
    <3>3. writing'[n] <= sequence'[n] /\ sequence'[n] # 0 BY <1>1, <1>2, <1>4 DEF NoteAgrees
    <3>4. n \notin deleted' /\ n \notin deleting' BY <1>2, <3>1
    <3> QED BY <1>3, <1>4, <2>1, <3>2, <3>3, <3>4 DEF NoteAgrees
  <2>2. CASE m # n BY <1>2, <1>5, <2>2, SameNote DEF PadInvariant
  <2> QED BY <2>1, <2>2
<1>7. ASSUME ~DeleteFails, NEW m \in Notes PROVE SavedIsKnown(m)'
  <2>1. SavedIsKnown(m) BY <1>7 DEF PadInvariant
  <2>2. CASE m = n BY <1>2, <1>3, <1>4, <2>1, <2>2 DEF SavedIsKnown
  <2>3. CASE m # n BY <1>2, <1>5, <2>1, <2>3, SameSaved
  <2> QED BY <2>2, <2>3
<1>8. Types'
  <2>1. shown' \in [Notes -> Pad!Texts] /\ pending' \in [Notes -> Pad!Texts] /\ timer' \in [Notes -> Pad!Texts]
    BY <1>1, <1>2, <1>3 DEF Types
  <2>2. sequence' \in [Notes -> 0 .. (MaxEdits + 1)] BY <1>1, <1>2, <1>4 DEF Types
  <2>3. saveState' \in [Notes -> {"saved", "saving", "save-error"}] BY <1>1, <1>2 DEF Types
  <2>4. loading' \in BOOLEAN /\ creating' \in BOOLEAN BY <1>1, <1>2 DEF Types
  <2> QED BY <1>1, <1>2, <2>1, <2>2, <2>3, <2>4 DEF Types
<1>9. InFlight'
  <2>1. calls' = calls /\ writing' = writing /\ deleting' = deleting /\ (creating' <=> creating) BY <1>2
  <2> QED BY <2>1 DEF PadInvariant, InFlight
<1>10. Carries'
  <2> SUFFICES ASSUME NEW i \in 1 .. Len(calls'), calls'[i].kind = "update", calls'[i].note \notin deleted',
                      writing'[calls'[i].note] = sequence'[calls'[i].note]
               PROVE  calls'[i].body = shown'[calls'[i].note]
    BY DEF Carries
  <2>0. i \in 1 .. Len(calls) /\ calls'[i] = calls[i] BY <1>2
  <2>1. calls[i] \in Pad!Calls BY <1>1, <2>0 DEF Types
  <2>2. calls[i].note \in Notes BY <2>0, <2>1, PadFacts
  <2>3. CASE calls[i].note = n BY <1>1, <1>2, <1>4, <2>0, <2>3 DEF NoteAgrees
  <2>4. CASE calls[i].note # n BY <1>2, <1>5, <2>0, <2>2, <2>4 DEF PadInvariant, Carries
  <2> QED BY <2>3, <2>4
<1>11. WindowAgrees'
  <2>1. WindowAgrees BY DEF PadInvariant
  <2>2. ~loading BY <1>2, <2>1 DEF WindowAgrees
  <2>3. notesRequest' = NoPreparation BY <1>2 DEF Pad!Frozen
  <2> QED BY <1>2, <2>2, <2>3, PadFacts DEF WindowAgrees
<1> QED BY <1>6, <1>7, <1>8, <1>9, <1>10, <1>11, TypesAreNext DEF PadInvariant

\* A call is made.
LEMMA NextAsks ==
  ASSUME NEW q \in Seq(Pad!Calls), NEW c \in Pad!Calls, OnceEach(q), WrittenFirst(q),
         c.kind # "close" => ~Asks(q, c.kind, c.note), c.kind = "update" => ~Asks(q, "delete", c.note)
  PROVE  /\ Append(q, c) \in Seq(Pad!Calls) /\ OnceEach(Append(q, c)) /\ WrittenFirst(Append(q, c))
         /\ \A kind, n : Asks(Append(q, c), kind, n) <=> Asks(q, kind, n) \/ (c.kind = kind /\ c.note = n)
         /\ \A i \in 1 .. Len(Append(q, c)) : (i \in 1 .. Len(q) /\ Append(q, c)[i] = q[i]) \/ Append(q, c)[i] = c
<1> DEFINE r == Append(q, c)
<1>1. Longer(q, r, {c}) BY OneMore
<1> HIDE DEF r
<1>2. OnceEach(r) /\ WrittenFirst(r)
  <2>1. \A t \in {c} : t.kind # "close" => ~Asks(q, t.kind, t.note) OBVIOUS
  <2>2. \A t \in {c} : t.kind = "update" => ~Asks(q, "delete", t.note) OBVIOUS
  <2>3. \A s, t \in {c} : s.kind = t.kind /\ s.note = t.note => s = t OBVIOUS
  <2>4. \A s, t \in {c} : ~(s.kind = "update" /\ t.kind = "delete") OBVIOUS
  <2> QED BY <1>1, <2>1, <2>2, <2>3, <2>4, LongerInOrder
<1>3. \A kind, n : Asks(r, kind, n) <=> Asks(q, kind, n) \/ (c.kind = kind /\ c.note = n)
  BY <1>1, LongerAsks
<1>4. \A i \in 1 .. Len(r) : (i \in 1 .. Len(q) /\ r[i] = q[i]) \/ r[i] = c BY <1>1 DEF Longer
<1>5. r \in Seq(Pad!Calls) BY <1>1 DEF Longer
<1> QED BY <1>2, <1>3, <1>4, <1>5 DEF r

\* A call that writes nothing changes nothing of what is carried.
LEMMA CarriesStays ==
  ASSUME Carries, Types, Pad!NotesAssumption,
         \A i \in 1 .. Len(calls') : calls'[i].kind = "update" => \E j \in 1 .. Len(calls) : calls'[i] = calls[j],
         \A n \in Notes : n \notin deleted' /\ writing'[n] # 0 =>
           n \notin deleted /\ writing'[n] = writing[n] /\ sequence'[n] = sequence[n] /\ shown'[n] = shown[n],
         \A n \in Notes : Asks(calls', "update", n) => writing'[n] # 0
  PROVE  Carries'
<1> SUFFICES ASSUME NEW i \in 1 .. Len(calls'), calls'[i].kind = "update", calls'[i].note \notin deleted',
                    writing'[calls'[i].note] = sequence'[calls'[i].note]
             PROVE  calls'[i].body = shown'[calls'[i].note]
  BY DEF Carries
<1>1. PICK j \in 1 .. Len(calls) : calls'[i] = calls[j] OBVIOUS
<1>2. calls[j].note \in Notes
  <2>1. calls[j] \in Pad!Calls BY DEF Types
  <2> QED BY <1>1, <2>1, PadFacts
<1>3. Asks(calls', "update", calls[j].note) BY <1>1 DEF Asks
<1>4. writing'[calls[j].note] # 0 BY <1>2, <1>3
<1> QED BY <1>1, <1>2, <1>4 DEF Carries

LEMMA CloseDrainedStep == ASSUME Pad!NotesAssumption, PadInvariant, Pad!CloseDrained PROVE PadInvariant'
<1>1. Types BY TypesAre DEF PadInvariant
<1>2. UNCHANGED <<loading, shown, disk, used, persisted, pending, timer, sequence, writing, saveState, deleted,
                  deleting, notesUnsaved, creating, notesRequest, answered>>
  BY DEF Pad!CloseDrained, Pad!noteVars, Pad!opVars
<1>3. "close" \in Pad!Drains /\ Pad!Close = "close" BY DEF Pad!Drains, Pad!Close
<1>4. WindowAgrees' BY <1>2 DEF PadInvariant, WindowAgrees
<1>5. notesRequest' \in Preparations \union {NoPreparation} /\ answered' \in [Preparations -> {"none", "yes", "no"}]
  BY <1>1, <1>2 DEF Types
<1>6. CASE Pad!Drained
  <2>1. /\ calls' = Append(calls, Pad!Ask("close", Absent, Absent))
        /\ drains' = [drains EXCEPT !["close"].stage = "asked"]
    BY <1>3, <1>6 DEF Pad!CloseDrained
  <2>2. drains' \in DrainStates BY <1>1, <1>3, <2>1, DrainTypes
  <2> DEFINE c == Pad!Ask("close", Absent, Absent)
  <2>3. c \in Pad!Calls /\ c.kind = "close" BY PadFacts
  <2> HIDE DEF c
  <2>4. calls \in Seq(Pad!Calls) /\ OnceEach(calls) /\ WrittenFirst(calls) BY <1>1 DEF Types, PadInvariant, InFlight
  <2>5. calls' = Append(calls, c) BY <2>1 DEF c
  <2>6. /\ calls' \in Seq(Pad!Calls) /\ OnceEach(calls') /\ WrittenFirst(calls')
        /\ \A kind, n : Asks(calls', kind, n) <=> Asks(calls, kind, n) \/ (c.kind = kind /\ c.note = n)
        /\ \A i \in 1 .. Len(calls') : (i \in 1 .. Len(calls) /\ calls'[i] = calls[i]) \/ calls'[i] = c
    <3>1. (c.kind # "close" => ~Asks(calls, c.kind, c.note)) /\ (c.kind = "update" => ~Asks(calls, "delete", c.note))
      BY <2>3
    <3> QED BY <2>3, <2>4, <2>5, <3>1, NextAsks, Zenon
  <2>7. InFlight' BY <1>2, <2>3, <2>6 DEF PadInvariant, InFlight
  <2>8. Carries' BY <1>1, <1>2, <2>3, <2>6, <2>7, CarriesStays DEF PadInvariant, InFlight
  <2>9. \A n \in Notes : NoteAgrees(n)' BY <1>2 DEF PadInvariant, NoteAgrees
  <2>10. ~DeleteFails => \A n \in Notes : SavedIsKnown(n)' BY <1>2 DEF PadInvariant, SavedIsKnown
  <2>11. Types' BY <1>1, <1>2, <1>5, <2>2, <2>6 DEF Types
  <2> QED BY <1>4, <2>7, <2>8, <2>9, <2>10, <2>11, TypesAreNext DEF PadInvariant
<1>7. CASE ~Pad!Drained
  <2>1. drains' = [drains EXCEPT !["close"] = Pad!Resting] /\ calls' = calls BY <1>3, <1>7 DEF Pad!CloseDrained
  <2>2. drains' \in DrainStates BY <1>1, <1>3, <2>1, DrainTypes
  <2> QED BY <1>2, <1>4, <1>5, <2>1, <2>2, OnlyDrains
<1> QED BY <1>6, <1>7

LEMMA FirstCall ==
  ASSUME Types, InFlight, calls # <<>>
  PROVE  /\ Head(calls) \in Pad!Calls /\ Head(calls) = calls[1] /\ 1 \in 1 .. Len(calls)
         /\ Tail(calls) \in Seq(Pad!Calls) /\ OnceEach(Tail(calls)) /\ WrittenFirst(Tail(calls))
         /\ \A i \in 1 .. Len(Tail(calls)) : i + 1 \in 1 .. Len(calls) /\ Tail(calls)[i] = calls[i + 1]
         /\ Head(calls).kind # "close" =>
              \A kind, n : Asks(Tail(calls), kind, n) <=>
                           Asks(calls, kind, n) /\ ~(Head(calls).kind = kind /\ Head(calls).note = n)
         /\ Head(calls).kind = "close" =>
              \A kind, n : kind # "close" => (Asks(Tail(calls), kind, n) <=> Asks(calls, kind, n))
         /\ Head(calls).kind = "delete" => ~Asks(calls, "update", Head(calls).note)
         /\ Asks(calls, Head(calls).kind, Head(calls).note)
<1>1. calls \in Seq(Pad!Calls) /\ OnceEach(calls) /\ WrittenFirst(calls) BY DEF Types, InFlight
<1>2. Head(calls) = calls[1] /\ 1 \in 1 .. Len(calls) BY <1>1, ShorterInOrder
<1>3. Asks(calls, Head(calls).kind, Head(calls).note) BY <1>2 DEF Asks
<1> QED BY <1>1, <1>3, ShorterInOrder

LEMMA CloseAnsweredStep == ASSUME Pad!NotesAssumption, PadInvariant, Pad!CloseAnswered PROVE PadInvariant'
<1>1. Types /\ InFlight BY TypesAre DEF PadInvariant
<1>2. /\ calls # <<>> /\ Head(calls).kind = "close" /\ calls' = Tail(calls)
      /\ drains' = [drains EXCEPT ![Pad!Close] = Pad!Resting]
      /\ UNCHANGED <<loading, shown, disk, used, persisted, pending, timer, sequence, writing, saveState, deleted,
                     deleting, notesUnsaved, creating, notesRequest, answered>>
  BY DEF Pad!CloseAnswered, Pad!Answered, Pad!noteVars, Pad!opVars
<1>3. drains' \in DrainStates
  <2>1. Pad!Close \in Pad!Drains BY DEF Pad!Drains
  <2> QED BY <1>1, <1>2, <2>1, DrainTypes
<1>4. WindowAgrees' BY <1>2 DEF PadInvariant, WindowAgrees
<1>5. /\ calls' \in Seq(Pad!Calls) /\ OnceEach(calls') /\ WrittenFirst(calls')
      /\ \A i \in 1 .. Len(calls') : i + 1 \in 1 .. Len(calls) /\ calls'[i] = calls[i + 1]
      /\ \A kind, n : kind # "close" => (Asks(calls', kind, n) <=> Asks(calls, kind, n))
  BY <1>1, <1>2, FirstCall
<1>6. InFlight' BY <1>1, <1>2, <1>5 DEF InFlight
<1>7. Carries' BY <1>1, <1>2, <1>5, <1>6, CarriesStays DEF PadInvariant, InFlight
<1>8. \A n \in Notes : NoteAgrees(n)' BY <1>2 DEF PadInvariant, NoteAgrees
<1>9. ~DeleteFails => \A n \in Notes : SavedIsKnown(n)' BY <1>2 DEF PadInvariant, SavedIsKnown
<1>10. Types' BY <1>1, <1>2, <1>3, <1>5 DEF Types
<1> QED BY <1>4, <1>6, <1>7, <1>8, <1>9, <1>10, TypesAreNext DEF PadInvariant

\* addNewNote()
LEMMA CreateAsks ==
  ASSUME Pad!NotesAssumption, Types, InFlight, Carries, Pad!Create \/ UNCHANGED <<creating, calls>>,
         UNCHANGED <<writing, deleting, deleted, sequence>>,
         \A n \in Notes : writing[n] # 0 => shown'[n] = shown[n]
  PROVE  /\ InFlight' /\ Carries' /\ calls' \in Seq(Pad!Calls) /\ creating' \in BOOLEAN
         /\ creating' => creating \/ notesRequest = NoPreparation
<1> DEFINE c == Pad!Ask("create", Absent, Absent)
<1>1. c \in Pad!Calls /\ c.kind = "create" /\ c.note = Absent BY PadFacts
<1> HIDE DEF c
<1>2. CASE UNCHANGED <<creating, calls>>
  <2>1. \A n \in Notes : Asks(calls', "update", n) => writing'[n] # 0 BY <1>2 DEF InFlight
  <2>2. Carries' BY <1>2, <2>1, CarriesStays
  <2> QED BY <1>2, <2>2 DEF InFlight, Types
<1>3. CASE ~UNCHANGED <<creating, calls>>
  <2>1. ~creating /\ notesRequest = NoPreparation /\ creating' = TRUE /\ calls' = Append(calls, c)
    BY <1>3 DEF Pad!Create, Pad!Frozen, c
  <2>2. calls \in Seq(Pad!Calls) /\ OnceEach(calls) /\ WrittenFirst(calls) BY DEF Types, InFlight
  <2>3. (c.kind # "close" => ~Asks(calls, c.kind, c.note)) /\ (c.kind = "update" => ~Asks(calls, "delete", c.note))
    BY <1>1, <2>1 DEF InFlight
  <2>4. /\ calls' \in Seq(Pad!Calls) /\ OnceEach(calls') /\ WrittenFirst(calls')
        /\ \A kind, n : Asks(calls', kind, n) <=> Asks(calls, kind, n) \/ (c.kind = kind /\ c.note = n)
        /\ \A i \in 1 .. Len(calls') : (i \in 1 .. Len(calls) /\ calls'[i] = calls[i]) \/ calls'[i] = c
    BY <1>1, <2>1, <2>2, <2>3, NextAsks, Zenon
  <2>5. InFlight'
    <3>2. creating' <=> Asks(calls', "create", Absent) BY <1>1, <2>1, <2>4
    <3>3. \A n \in Notes : /\ Asks(calls', "update", n) <=> Asks(calls, "update", n)
                           /\ Asks(calls', "delete", n) <=> Asks(calls, "delete", n)
      BY <1>1, <2>4
    <3>4. \A n \in Notes : writing'[n] = writing[n] /\ (n \in deleting' <=> n \in deleting) OBVIOUS
    <3> QED BY <2>4, <3>2, <3>3, <3>4 DEF InFlight
  <2>6. Carries'
    <3>1. \A i \in 1 .. Len(calls') : calls'[i].kind = "update" => \E j \in 1 .. Len(calls) : calls'[i] = calls[j]
      BY <1>1, <2>4
    <3>2. \A n \in Notes : Asks(calls', "update", n) => writing'[n] # 0 BY <2>5 DEF InFlight
    <3> QED BY <3>1, <3>2, CarriesStays
  <2> QED BY <2>1, <2>4, <2>5, <2>6
<1> QED BY <1>2, <1>3

LEMMA LoadStep == ASSUME Pad!NotesAssumption, PadInvariant, Pad!Load PROVE PadInvariant'
<1>1. Types /\ InFlight /\ Carries /\ WindowAgrees BY TypesAre DEF PadInvariant
<1>2. /\ loading /\ loading' = FALSE
      /\ UNCHANGED <<disk, used, pending, timer, sequence, writing, saveState, deleted, deleting, notesUnsaved,
                     drains, notesRequest, answered>>
  BY DEF Pad!Load, Pad!drainVars
<1>3. \/ UNCHANGED <<shown, persisted, creating, calls>>
      \/ /\ shown' = disk /\ persisted' = disk /\ (Pad!Create \/ UNCHANGED <<creating, calls>>)
  BY DEF Pad!Load
<1>4. ~creating /\ deleted = {} /\ \A n \in Notes : shown[n] = Absent BY <1>1, <1>2 DEF WindowAgrees
<1>5. \A n \in Notes : /\ NoteAgrees(n) /\ pending[n] = Absent /\ timer[n] = Absent /\ writing[n] = 0
                       /\ n \notin deleted /\ n \notin deleting
  BY <1>4 DEF PadInvariant, NoteAgrees
<1>6. /\ InFlight' /\ Carries' /\ calls' \in Seq(Pad!Calls) /\ creating' \in BOOLEAN
      /\ creating' => creating \/ notesRequest = NoPreparation
  <2>1. Pad!Create \/ UNCHANGED <<creating, calls>> BY <1>3
  <2>2. UNCHANGED <<writing, deleting, deleted, sequence>> BY <1>2
  <2>3. \A n \in Notes : writing[n] # 0 => shown'[n] = shown[n] BY <1>5
  <2> QED BY <1>1, <2>1, <2>2, <2>3, CreateAsks
<1>7. \A n \in Notes : NoteAgrees(n)'
  <2> SUFFICES ASSUME NEW n \in Notes PROVE NoteAgrees(n)' OBVIOUS
  <2>1. /\ pending'[n] = Absent /\ timer'[n] = Absent /\ writing'[n] = 0 /\ n \notin deleted' /\ n \notin deleting'
        /\ sequence'[n] = sequence[n] /\ saveState'[n] = saveState[n] /\ disk'[n] = disk[n]
    BY <1>2, <1>5
  <2>2. shown'[n] \in {shown[n], disk[n]} BY <1>3
  <2>3. NoteAgrees(n) /\ shown[n] = Absent BY <1>4, <1>5
  <2>4. shown'[n] # Absent \/ disk'[n] # Absent => n \in used' BY <1>2, <2>1, <2>2, <2>3 DEF NoteAgrees
  <2>5. writing'[n] <= sequence'[n] BY <1>5, <2>1, <2>3 DEF NoteAgrees
  <2> QED BY <2>1, <2>4, <2>5 DEF NoteAgrees
<1>8. \A n \in Notes : SavedIsKnown(n)'
  <2> SUFFICES ASSUME NEW n \in Notes PROVE SavedIsKnown(n)' OBVIOUS
  <2>1. CASE UNCHANGED shown BY <1>4, <2>1 DEF SavedIsKnown
  <2>2. CASE shown' = disk /\ persisted' = disk BY <1>2, <2>2 DEF SavedIsKnown
  <2> QED BY <1>3, <2>1, <2>2
<1>9. Types'
  <2>1. shown' \in [Notes -> Pad!Texts] /\ persisted' \in [Notes -> Pad!Texts] BY <1>1, <1>3 DEF Types
  <2> QED BY <1>1, <1>2, <1>6, <2>1 DEF Types
<1>10. WindowAgrees'
  <2>1. notesRequest' = NoPreparation BY <1>1, <1>2 DEF WindowAgrees
  <2> QED BY <1>2, <2>1, PadFacts DEF WindowAgrees
<1> QED BY <1>6, <1>7, <1>8, <1>9, <1>10, TypesAreNext DEF PadInvariant

LEMMA AddStep == ASSUME Pad!NotesAssumption, PadInvariant, Pad!AddNewNote PROVE PadInvariant'
<1>1. Types /\ InFlight /\ Carries /\ WindowAgrees BY TypesAre DEF PadInvariant
<1>2. /\ ~loading /\ Pad!Create
      /\ UNCHANGED <<loading, shown, disk, used, persisted, pending, timer, sequence, writing, saveState, deleted,
                     deleting, notesUnsaved, drains, notesRequest, answered>>
  BY DEF Pad!AddNewNote, Pad!noteVars, Pad!drainVars
<1>3. /\ InFlight' /\ Carries' /\ calls' \in Seq(Pad!Calls) /\ creating' \in BOOLEAN
      /\ creating' => creating \/ notesRequest = NoPreparation
  BY <1>1, <1>2, CreateAsks
<1>4. Types' BY <1>1, <1>2, <1>3 DEF Types
<1>5. WindowAgrees' BY <1>1, <1>2, <1>3 DEF WindowAgrees
<1>6. \A n \in Notes : NoteAgrees(n)' BY <1>2 DEF PadInvariant, NoteAgrees
<1>7. ~DeleteFails => \A n \in Notes : SavedIsKnown(n)' BY <1>2 DEF PadInvariant, SavedIsKnown
<1> QED BY <1>3, <1>4, <1>5, <1>6, <1>7, TypesAreNext DEF PadInvariant

LEMMA DeleteStep ==
  ASSUME Pad!NotesAssumption, PadInvariant, NEW n \in Notes, Pad!DeleteNote(n) PROVE PadInvariant'
<1>1. Types /\ InFlight /\ Carries /\ WindowAgrees /\ NoteAgrees(n) BY TypesAre DEF PadInvariant
<1> DEFINE given == IF pending[n] # Absent THEN pending[n] ELSE IF persisted[n] # shown[n] THEN shown[n] ELSE Absent
           c == Pad!Ask("delete", n, Absent)
<1>2. /\ shown[n] # Absent /\ n \notin deleted /\ ~Pad!Frozen /\ sequence[n] <= MaxEdits
      /\ notesUnsaved' = [notesUnsaved EXCEPT ![n] = given] /\ timer' = [timer EXCEPT ![n] = Absent]
      /\ pending' = [pending EXCEPT ![n] = Absent]
      /\ deleted' = deleted \union {n} /\ deleting' = deleting \union {n} /\ calls' = Append(calls, c)
      /\ UNCHANGED <<loading, shown, disk, used, persisted, sequence, writing, saveState, creating, drains,
                     notesRequest, answered>>
  BY DEF Pad!DeleteNote, Pad!drainVars, Pad!Listed
<1>3. given \in {Absent, shown[n]} BY <1>1 DEF NoteAgrees
<1>4. c \in Pad!Calls /\ c.kind = "delete" /\ c.note = n BY PadFacts
<1> HIDE DEF given, c
<1>5. n \notin deleting BY <1>1, <1>2 DEF NoteAgrees
<1>6. /\ calls' \in Seq(Pad!Calls) /\ OnceEach(calls') /\ WrittenFirst(calls')
      /\ \A kind, m : Asks(calls', kind, m) <=> Asks(calls, kind, m) \/ (c.kind = kind /\ c.note = m)
      /\ \A i \in 1 .. Len(calls') : (i \in 1 .. Len(calls) /\ calls'[i] = calls[i]) \/ calls'[i] = c
  <2>1. calls \in Seq(Pad!Calls) /\ OnceEach(calls) /\ WrittenFirst(calls) BY <1>1 DEF Types, InFlight
  <2>2. (c.kind # "close" => ~Asks(calls, c.kind, c.note)) /\ (c.kind = "update" => ~Asks(calls, "delete", c.note))
    BY <1>1, <1>4, <1>5 DEF InFlight
  <2> QED BY <1>2, <1>4, <2>1, <2>2, NextAsks, Zenon
<1>7. InFlight'
  <2>2. creating' <=> Asks(calls', "create", Absent) BY <1>1, <1>2, <1>4, <1>6 DEF InFlight
  <2>3. \A m \in Notes : /\ Asks(calls', "update", m) <=> Asks(calls, "update", m)
                         /\ Asks(calls', "delete", m) <=> Asks(calls, "delete", m) \/ m = n
    BY <1>4, <1>6
  <2>4. \A m \in Notes : writing'[m] = writing[m] /\ (m \in deleting' <=> m \in deleting \/ m = n) BY <1>2
  <2> QED BY <1>1, <1>6, <2>2, <2>3, <2>4 DEF InFlight
<1>8. Carries'
  <2>1. \A i \in 1 .. Len(calls') : calls'[i].kind = "update" => \E j \in 1 .. Len(calls) : calls'[i] = calls[j]
    BY <1>4, <1>6
  <2>2. \A m \in Notes : Asks(calls', "update", m) => writing'[m] # 0 BY <1>7 DEF InFlight
  <2>3. \A m \in Notes : m \notin deleted' /\ writing'[m] # 0 =>
          m \notin deleted /\ writing'[m] = writing[m] /\ sequence'[m] = sequence[m] /\ shown'[m] = shown[m]
    BY <1>2
  <2> QED BY <1>1, <2>1, <2>2, <2>3, CarriesStays
<1>9. /\ notesUnsaved'[n] \in {Absent, shown[n]} /\ timer'[n] = Absent /\ pending'[n] = Absent
      /\ \A m \in Notes \ {n} : notesUnsaved'[m] = notesUnsaved[m] /\ timer'[m] = timer[m] /\ pending'[m] = pending[m]
  BY <1>1, <1>2, <1>3 DEF Types
<1>10. ASSUME NEW m \in Notes PROVE NoteAgrees(m)'
  <2>1. CASE m = n
    <3>1. n \in used' /\ n \in deleted' /\ n \in deleting' BY <1>1, <1>2 DEF NoteAgrees
    <3>2. writing'[n] <= sequence'[n] /\ sequence'[n] <= MaxEdits BY <1>1, <1>2 DEF NoteAgrees
    <3>3. shown'[n] = shown[n] /\ shown[n] # Absent BY <1>2
    <3> QED BY <1>9, <2>1, <3>1, <3>2, <3>3 DEF NoteAgrees
  <2>2. CASE m # n
    <3>1. m \in deleted' <=> m \in deleted BY <1>2, <2>2
    <3>2. m \in deleting' <=> m \in deleting BY <1>2, <2>2
    <3>3. NoteAgrees(m) BY DEF PadInvariant
    <3> QED BY <1>2, <1>9, <2>2, <3>1, <3>2, <3>3, SameNote
  <2> QED BY <2>1, <2>2
<1>11. ASSUME ~DeleteFails, NEW m \in Notes PROVE SavedIsKnown(m)'
  <2>1. SavedIsKnown(m) BY <1>11 DEF PadInvariant
  <2>2. CASE m = n BY <1>2, <2>2 DEF SavedIsKnown
  <2>3. CASE m # n
    <3>1. m \in deleted' <=> m \in deleted BY <1>2, <2>3
    <3> QED BY <1>2, <1>9, <2>1, <2>3, <3>1, SameSaved
  <2> QED BY <2>2, <2>3
<1>12. Types'
  <2>1. pending' \in [Notes -> Pad!Texts] /\ timer' \in [Notes -> Pad!Texts] BY <1>1, <1>2, PadFacts DEF Types
  <2>2. notesUnsaved' \in [Notes -> Pad!Texts]
    <3>1. given \in Pad!Texts BY <1>1, <1>3, PadFacts DEF Types
    <3> QED BY <1>1, <1>2, <3>1 DEF Types
  <2>3. deleted' \subseteq Notes /\ deleting' \subseteq Notes BY <1>1, <1>2 DEF Types
  <2>4. loading' \in BOOLEAN /\ creating' \in BOOLEAN BY <1>1, <1>2 DEF Types
  <2> QED BY <1>1, <1>2, <1>6, <2>1, <2>2, <2>3, <2>4 DEF Types
<1>13. WindowAgrees'
  <2>1. notesRequest' = NoPreparation BY <1>2 DEF Pad!Frozen
  <2>2. ~loading BY <1>1, <1>2 DEF WindowAgrees
  <2> QED BY <1>2, <2>1, <2>2, PadFacts DEF WindowAgrees
<1> QED BY <1>7, <1>8, <1>10, <1>11, <1>12, <1>13, TypesAreNext DEF PadInvariant

\* The write of what is shown of one note begins.
LEMMA CarriesOneMore ==
  ASSUME Carries, Types, Pad!NotesAssumption, NEW c, c.body = shown'[c.note],
         \A i \in 1 .. Len(calls') : calls'[i].kind = "update" =>
           calls'[i] = c \/ \E j \in 1 .. Len(calls) : calls'[i] = calls[j] /\ calls[j].note # c.note,
         \A n \in Notes \ {c.note} : n \notin deleted' =>
           n \notin deleted /\ writing'[n] = writing[n] /\ sequence'[n] = sequence[n] /\ shown'[n] = shown[n]
  PROVE  Carries'
<1> SUFFICES ASSUME NEW i \in 1 .. Len(calls'), calls'[i].kind = "update", calls'[i].note \notin deleted',
                    writing'[calls'[i].note] = sequence'[calls'[i].note]
             PROVE  calls'[i].body = shown'[calls'[i].note]
  BY DEF Carries
<1>1. CASE calls'[i] = c BY <1>1
<1>2. CASE \E j \in 1 .. Len(calls) : calls'[i] = calls[j] /\ calls[j].note # c.note
  <2>1. PICK j \in 1 .. Len(calls) : calls'[i] = calls[j] /\ calls[j].note # c.note BY <1>2
  <2>2. calls[j].note \in Notes
    <3>1. calls[j] \in Pad!Calls BY DEF Types
    <3> QED BY <2>1, <3>1, PadFacts
  <2> QED BY <2>1, <2>2 DEF Carries
<1> QED BY <1>1, <1>2

LEMMA UpdateAnsweredStep == ASSUME Pad!NotesAssumption, PadInvariant, Pad!UpdateAnswered PROVE PadInvariant'
<1>1. Types /\ InFlight /\ Carries /\ WindowAgrees BY TypesAre DEF PadInvariant
<1>2. calls # <<>> /\ Head(calls).kind = "update" BY DEF Pad!UpdateAnswered, Pad!Answered
<1>0. Head(calls).note \in Notes /\ Head(calls).body \in Bodies BY <1>1, <1>2, FirstCall, PadFacts
<1>note. PICK n \in Notes : n = Head(calls).note BY <1>0
<1>text. PICK body \in Bodies : body = Head(calls).body BY <1>0
<1> DEFINE settled == sequence[n] = writing[n]
           next == ~settled /\ n \notin deleted /\ pending[n] # Absent
           c == Pad!Ask("update", n, pending[n])
           q == Tail(calls)
<1>3. PICK ok \in BOOLEAN :
        /\ ok => disk[n] # Absent
        /\ disk' = IF ok THEN [disk EXCEPT ![n] = body] ELSE disk
        /\ persisted' = IF ok /\ n \notin deleted THEN [persisted EXCEPT ![n] = body] ELSE persisted
        /\ pending' = IF ok /\ n \notin deleted /\ settled THEN [pending EXCEPT ![n] = Absent] ELSE pending
        /\ shown' = IF ok /\ n \notin deleted /\ settled THEN [shown EXCEPT ![n] = body] ELSE shown
        /\ writing' = [writing EXCEPT ![n] = IF next THEN sequence[n] ELSE 0]
        /\ saveState' = [saveState EXCEPT ![n] =
             CASE ok /\ n \notin deleted /\ settled -> "saved" [] next -> "saving"
               [] ~ok /\ settled -> "save-error" [] OTHER -> @]
        /\ calls' = IF next THEN Append(q, c) ELSE q
  BY <1>note, <1>text DEF Pad!UpdateAnswered, Pad!Newer, Pad!SettlesEdit
<1>4. /\ drains' = [d \in Pad!Drains |-> [drains[d] EXCEPT !.waits = @ \ {n}]]
      /\ UNCHANGED <<loading, used, timer, sequence, deleted, deleting, notesUnsaved, creating, notesRequest, answered>>
  BY <1>note DEF Pad!UpdateAnswered, Pad!Settles, Pad!opVars
<1>5. n \in Notes /\ body \in Bodies OBVIOUS
<1>6. /\ Head(calls) = calls[1] /\ 1 \in 1 .. Len(calls)
      /\ q \in Seq(Pad!Calls) /\ OnceEach(q) /\ WrittenFirst(q)
      /\ \A i \in 1 .. Len(q) : i + 1 \in 1 .. Len(calls) /\ q[i] = calls[i + 1]
      /\ \A kind, m : Asks(q, kind, m) <=> Asks(calls, kind, m) /\ ~(kind = "update" /\ m = n)
      /\ Asks(calls, "update", n)
  BY <1>1, <1>2, <1>note, FirstCall
<1>7. writing[n] # 0 BY <1>1, <1>5, <1>6 DEF InFlight
<1>8. settled /\ n \notin deleted => body = shown[n] BY <1>1, <1>2, <1>6, <1>note, <1>text DEF Carries
<1>9. (c \in Pad!Calls /\ c.kind = "update" /\ c.note = n /\ c.body = pending[n]) \/ ~next
  BY <1>1, <1>5, PadFacts DEF Types
<1>10. NoteAgrees(n) BY <1>5 DEF PadInvariant
<1> HIDE DEF settled, next, c, q
<1>11. /\ settled => ~next
       /\ ~settled /\ n \notin deleted /\ pending[n] # Absent => next
       /\ next => n \notin deleted /\ pending[n] # Absent /\ pending[n] = shown[n] /\ sequence[n] # 0 /\ n \notin deleting
  BY <1>10 DEF next, NoteAgrees
<1>12. shown' = shown
  <2>1. CASE ok /\ n \notin deleted /\ settled
    <3>1. shown' = [shown EXCEPT ![n] = shown[n]] BY <1>3, <1>8, <2>1
    <3> QED BY <1>1, <1>5, <3>1 DEF Types
  <2>2. CASE ~(ok /\ n \notin deleted /\ settled) BY <1>3, <2>2
  <2> QED BY <2>1, <2>2
<1>13. /\ writing'[n] = IF next THEN sequence[n] ELSE 0
       /\ pending'[n] = IF ok /\ n \notin deleted /\ settled THEN Absent ELSE pending[n]
       /\ disk'[n] = IF ok THEN body ELSE disk[n]
       /\ persisted'[n] = IF ok /\ n \notin deleted THEN body ELSE persisted[n]
  BY <1>1, <1>3, <1>5 DEF Types
<1>14. /\ ok /\ n \notin deleted /\ settled => saveState'[n] = "saved"
       /\ next => saveState'[n] = "saving"
       /\ ~ok /\ settled => saveState'[n] = "save-error"
       /\ ~settled /\ ~next => saveState'[n] = saveState[n]
       /\ ok /\ settled /\ n \in deleted => saveState'[n] = saveState[n]
  <2>1. saveState'[n] = CASE ok /\ n \notin deleted /\ settled -> "saved" [] next -> "saving"
                          [] ~ok /\ settled -> "save-error" [] OTHER -> saveState[n]
    BY <1>1, <1>3, <1>5 DEF Types
  <2>2. CASE settled /\ ok /\ n \notin deleted BY <1>11, <2>1, <2>2
  <2>3. CASE settled /\ ok /\ n \in deleted BY <1>11, <2>1, <2>3
  <2>4. CASE settled /\ ~ok BY <1>11, <2>1, <2>4
  <2>5. CASE ~settled /\ next BY <1>11, <2>1, <2>5
  <2>6. CASE ~settled /\ ~next BY <1>11, <2>1, <2>6
  <2> QED BY <2>2, <2>3, <2>4, <2>5, <2>6, <1>11
<1>15. \A m \in Notes \ {n} : /\ writing'[m] = writing[m] /\ pending'[m] = pending[m] /\ disk'[m] = disk[m]
                              /\ persisted'[m] = persisted[m] /\ saveState'[m] = saveState[m]
  BY <1>1, <1>3, <1>5 DEF Types
<1>16. /\ calls' \in Seq(Pad!Calls) /\ OnceEach(calls') /\ WrittenFirst(calls')
       /\ \A kind, m : Asks(calls', kind, m) <=> Asks(calls, kind, m) /\ (kind = "update" /\ m = n => next)
       /\ \A i \in 1 .. Len(calls') : (next /\ calls'[i] = c) \/ (i \in 1 .. Len(q) /\ calls'[i] = q[i])
  <2>1. CASE next
    <3>1. c \in Pad!Calls /\ c.kind = "update" /\ c.note = n /\ c.kind # "close" BY <1>9, <2>1
    <3>2. ~Asks(q, "update", n) /\ ~Asks(q, "delete", n)
      <4>1. n \notin deleting BY <1>11, <2>1
      <4> QED BY <1>1, <1>5, <1>6, <4>1 DEF InFlight
    <3>3. (c.kind # "close" => ~Asks(q, c.kind, c.note)) /\ (c.kind = "update" => ~Asks(q, "delete", c.note))
      BY <3>1, <3>2
    <3>4. calls' = Append(q, c) BY <1>3, <2>1
    <3>5. /\ calls' \in Seq(Pad!Calls) /\ OnceEach(calls') /\ WrittenFirst(calls')
          /\ \A kind, m : Asks(calls', kind, m) <=> Asks(q, kind, m) \/ (c.kind = kind /\ c.note = m)
          /\ \A i \in 1 .. Len(calls') : (i \in 1 .. Len(q) /\ calls'[i] = q[i]) \/ calls'[i] = c
      BY <1>6, <3>1, <3>3, <3>4, NextAsks, Zenon
    <3>6. \A kind, m : Asks(calls', kind, m) <=> Asks(calls, kind, m) BY <1>6, <3>1, <3>5
    <3> QED BY <2>1, <3>5, <3>6
  <2>2. CASE ~next
    <3>1. calls' = q BY <1>3, <2>2
    <3> QED BY <1>6, <2>2, <3>1
  <2> QED BY <2>1, <2>2
<1>17. InFlight'
  <2>1. \A m \in Notes : writing'[m] # 0 <=> Asks(calls', "update", m)
    <3> SUFFICES ASSUME NEW m \in Notes PROVE writing'[m] # 0 <=> Asks(calls', "update", m) OBVIOUS
    <3>1. CASE m = n BY <1>6, <1>11, <1>13, <1>16, <3>1
    <3>2. CASE m # n BY <1>1, <1>15, <1>16, <3>2 DEF InFlight
    <3> QED BY <3>1, <3>2
  <2>2. \A m \in Notes : m \in deleting' <=> Asks(calls', "delete", m) BY <1>1, <1>4, <1>16 DEF InFlight
  <2>3. creating' <=> Asks(calls', "create", Absent) BY <1>1, <1>4, <1>16 DEF InFlight
  <2> QED BY <1>16, <2>1, <2>2, <2>3 DEF InFlight
<1>18. Carries'
  <2>1. CASE next
    <3>1. c.body = shown'[c.note] /\ c.note = n BY <1>9, <1>11, <1>12, <2>1
    <3>2. \A i \in 1 .. Len(calls') : calls'[i].kind = "update" =>
            calls'[i] = c \/ \E j \in 1 .. Len(calls) : calls'[i] = calls[j] /\ calls[j].note # c.note
      <4> SUFFICES ASSUME NEW i \in 1 .. Len(q), calls'[i] = q[i], q[i].kind = "update"
                   PROVE  \E j \in 1 .. Len(calls) : calls'[i] = calls[j] /\ calls[j].note # n
        BY <1>16, <3>1
      <4>1. Asks(q, "update", q[i].note) BY DEF Asks
      <4>2. q[i].note # n BY <1>6, <4>1
      <4> QED BY <1>6, <4>2
    <3>3. \A m \in Notes \ {c.note} : m \notin deleted' =>
            m \notin deleted /\ writing'[m] = writing[m] /\ sequence'[m] = sequence[m] /\ shown'[m] = shown[m]
      BY <1>4, <1>12, <1>15, <3>1
    <3> QED BY <1>1, <3>1, <3>2, <3>3, CarriesOneMore
  <2>2. CASE ~next
    <3>1. \A i \in 1 .. Len(calls') : calls'[i].kind = "update" => \E j \in 1 .. Len(calls) : calls'[i] = calls[j]
      BY <1>6, <1>16, <2>2
    <3>2. \A m \in Notes : Asks(calls', "update", m) => writing'[m] # 0 BY <1>17 DEF InFlight
    <3>3. \A m \in Notes : m \notin deleted' /\ writing'[m] # 0 =>
            m \notin deleted /\ writing'[m] = writing[m] /\ sequence'[m] = sequence[m] /\ shown'[m] = shown[m]
      BY <1>4, <1>12, <1>13, <1>15, <2>2
    <3> QED BY <1>1, <3>1, <3>2, <3>3, CarriesStays
  <2> QED BY <2>1, <2>2
<1>19. NoteAgrees(n)'
  <2>0. /\ n \in used' <=> n \in used
        /\ n \in deleted' <=> n \in deleted
        /\ n \in deleting' <=> n \in deleting
        /\ timer'[n] = timer[n] /\ sequence'[n] = sequence[n] /\ notesUnsaved'[n] = notesUnsaved[n] /\ shown'[n] = shown[n]
    BY <1>4, <1>12
  <2>1. sequence[n] \in Nat BY <1>1, <1>5, PadFacts DEF Types
  <2>2. shown[n] # Absent \/ disk'[n] # Absent \/ n \in deleted => n \in used BY <1>3, <1>10, <1>13 DEF NoteAgrees
  <2>3. shown[n] # Absent BY <1>7, <1>10 DEF NoteAgrees
  <2>4. CASE next
    <3>1. /\ writing'[n] = sequence[n] /\ pending'[n] = pending[n] /\ saveState'[n] = "saving" /\ sequence[n] # 0
          /\ sequence[n] <= sequence[n]
      BY <1>11, <1>13, <1>14, <2>1, <2>4
    <3> QED BY <1>10, <1>11, <2>0, <2>2, <2>3, <2>4, <3>1 DEF NoteAgrees
  <2>5. CASE ~next
    <3>1. writing'[n] = 0 /\ 0 <= sequence[n] BY <1>13, <2>1, <2>5
    <3>2. pending'[n] # Absent => pending'[n] = pending[n] /\ saveState'[n] = "save-error"
      <4> SUFFICES ASSUME pending'[n] # Absent PROVE pending'[n] = pending[n] /\ saveState'[n] = "save-error" OBVIOUS
      <4>1. pending'[n] = pending[n] /\ ~(ok /\ n \notin deleted /\ settled) BY <1>13
      <4>2. n \notin deleted BY <1>10, <4>1 DEF NoteAgrees
      <4>3. settled /\ ~ok BY <1>11, <2>5, <4>1, <4>2
      <4> QED BY <1>14, <4>1, <4>3
    <3>3. n \in deleted => pending'[n] = Absent BY <1>10, <1>13 DEF NoteAgrees
    <3> QED BY <1>10, <2>0, <2>2, <2>3, <3>1, <3>2, <3>3 DEF NoteAgrees
  <2> QED BY <2>4, <2>5
<1>20. \A m \in Notes : NoteAgrees(m)'
  <2> SUFFICES ASSUME NEW m \in Notes, m # n PROVE NoteAgrees(m)' BY <1>19
  <2> QED BY <1>4, <1>12, <1>15, SameNote DEF PadInvariant
<1>21. ~DeleteFails => \A m \in Notes : SavedIsKnown(m)'
  <2> SUFFICES ASSUME ~DeleteFails, NEW m \in Notes PROVE SavedIsKnown(m)' OBVIOUS
  <2>1. SavedIsKnown(m) BY DEF PadInvariant
  <2>2. CASE m # n BY <1>4, <1>12, <1>15, <2>1, <2>2, SameSaved
  <2>3. CASE m = n /\ n \notin deleted
    <3>1. CASE ok /\ settled BY <1>8, <1>12, <1>13, <2>3, <3>1 DEF SavedIsKnown
    <3>2. CASE ok /\ ~settled
      <4>1. pending[n] # Absent BY <1>7, <1>10, <2>3, <3>2 DEF NoteAgrees, settled
      <4> QED BY <1>12, <1>13, <2>3, <3>2, <4>1 DEF SavedIsKnown
    <3>3. CASE ~ok BY <1>12, <1>13, <2>1, <2>3, <3>3 DEF SavedIsKnown
    <3> QED BY <3>1, <3>2, <3>3
  <2>4. CASE m = n /\ n \in deleted BY <1>4, <2>4 DEF SavedIsKnown
  <2> QED BY <2>2, <2>3, <2>4
<1>22. Types'
  <2>1. disk' \in [Notes -> Pad!Texts] /\ persisted' \in [Notes -> Pad!Texts] /\ pending' \in [Notes -> Pad!Texts]
    BY <1>1, <1>3, <1>5, PadFacts DEF Types
  <2>2. shown' \in [Notes -> Pad!Texts] BY <1>1, <1>12 DEF Types
  <2>3. writing' \in [Notes -> 0 .. (MaxEdits + 1)]
    <3>1. (IF next THEN sequence[n] ELSE 0) \in 0 .. (MaxEdits + 1) BY <1>1, <1>5, PadFacts DEF Types
    <3> QED BY <1>1, <1>3, <3>1 DEF Types
  <2>4. saveState' \in [Notes -> {"saved", "saving", "save-error"}]
    <3> DEFINE v == CASE ok /\ n \notin deleted /\ settled -> "saved" [] next -> "saving"
                      [] ~ok /\ settled -> "save-error" [] OTHER -> saveState[n]
    <3>1. saveState' = [saveState EXCEPT ![n] = v] BY <1>3
    <3>2. v \in {"saved", "saving", "save-error"}
      <4>1. saveState'[n] = v BY <1>1, <1>5, <3>1 DEF Types
      <4>2. saveState[n] \in {"saved", "saving", "save-error"} BY <1>1, <1>5 DEF Types
      <4>3. saveState'[n] \in {"saved", "saving", "save-error", saveState[n]} BY <1>14, <1>11
      <4> HIDE DEF v
      <4> QED BY <4>1, <4>2, <4>3
    <3> HIDE DEF v
    <3> QED BY <1>1, <3>1, <3>2 DEF Types
  <2>5. drains' \in DrainStates BY <1>1, <1>4, <1>5, DrainTypes
  <2>6. loading' \in BOOLEAN /\ creating' \in BOOLEAN BY <1>1, <1>4 DEF Types
  <2> QED BY <1>1, <1>4, <1>16, <2>1, <2>2, <2>3, <2>4, <2>5, <2>6 DEF Types
<1>23. WindowAgrees'
  <2>1. \A m \in Notes : pending'[m] \in {pending[m], Absent}
    <3> SUFFICES ASSUME NEW m \in Notes PROVE pending'[m] \in {pending[m], Absent} OBVIOUS
    <3> QED BY <1>13, <1>15
  <2> QED BY <1>1, <1>4, <1>12, <2>1, WindowStays
<1> QED BY <1>17, <1>18, <1>20, <1>21, <1>22, <1>23, TypesAreNext DEF PadInvariant

LEMMA CreateAnsweredStep == ASSUME Pad!NotesAssumption, PadInvariant, Pad!CreateAnswered PROVE PadInvariant'
<1>1. Types /\ InFlight /\ Carries /\ WindowAgrees BY TypesAre DEF PadInvariant
<1>2. /\ calls # <<>> /\ Head(calls).kind = "create" /\ calls' = Tail(calls) /\ creating' = FALSE
      /\ UNCHANGED <<loading, pending, timer, sequence, writing, deleted, deleting, notesUnsaved, drains,
                     notesRequest, answered>>
  BY DEF Pad!CreateAnswered, Pad!Answered, Pad!drainVars
<1>3. \/ UNCHANGED <<shown, disk, used, persisted, saveState>>
      \/ \E n \in Notes \ used :
           /\ used' = used \union {n} /\ disk' = [disk EXCEPT ![n] = Empty] /\ shown' = [shown EXCEPT ![n] = Empty]
           /\ persisted' = [persisted EXCEPT ![n] = Empty] /\ saveState' = [saveState EXCEPT ![n] = "saved"]
  BY DEF Pad!CreateAnswered
<1>4. /\ calls' \in Seq(Pad!Calls) /\ OnceEach(calls') /\ WrittenFirst(calls')
      /\ \A i \in 1 .. Len(calls') : i + 1 \in 1 .. Len(calls) /\ calls'[i] = calls[i + 1]
      /\ \A kind, m : Asks(calls', kind, m) <=> Asks(calls, kind, m) /\ ~(kind = "create" /\ m = Absent)
      /\ Asks(calls, "create", Absent)
  <2>1. Head(calls) \in Pad!Calls BY <1>1, <1>2, FirstCall
  <2>2. Head(calls).note = Absent BY <1>2, <2>1, PadFacts
  <2> QED BY <1>1, <1>2, <2>2, FirstCall
<1>5. InFlight'
  <2>1. \A m \in Notes : /\ Asks(calls', "update", m) <=> Asks(calls, "update", m)
                         /\ Asks(calls', "delete", m) <=> Asks(calls, "delete", m)
    BY <1>4
  <2>2. ~creating' /\ ~Asks(calls', "create", Absent) BY <1>2, <1>4
  <2> QED BY <1>1, <1>2, <1>4, <2>1, <2>2 DEF InFlight
<1>6. creating BY <1>1, <1>4 DEF InFlight
<1>7. ASSUME NEW n \in Notes, n \notin used
      PROVE  /\ shown[n] = Absent /\ pending[n] = Absent /\ timer[n] = Absent /\ writing[n] = 0
             /\ n \notin deleted /\ n \notin deleting /\ writing[n] <= sequence[n]
  BY <1>7 DEF PadInvariant, NoteAgrees
<1>8. Carries'
  <2>1. \A i \in 1 .. Len(calls') : calls'[i].kind = "update" => \E j \in 1 .. Len(calls) : calls'[i] = calls[j]
    BY <1>4
  <2>2. \A m \in Notes : Asks(calls', "update", m) => writing'[m] # 0 BY <1>5 DEF InFlight
  <2>3. ASSUME NEW m \in Notes, m \notin deleted', writing'[m] # 0
        PROVE  m \notin deleted /\ writing'[m] = writing[m] /\ sequence'[m] = sequence[m] /\ shown'[m] = shown[m]
    <3>1. m \in used BY <1>2, <1>7, <2>3
    <3>2. shown'[m] = shown[m]
      <4>1. CASE UNCHANGED shown BY <4>1
      <4>2. CASE \E n \in Notes \ used : shown' = [shown EXCEPT ![n] = Empty] BY <1>1, <3>1, <4>2 DEF Types
      <4> QED BY <1>3, <4>1, <4>2
    <3> QED BY <1>2, <2>3, <3>2
  <2> QED BY <1>1, <2>1, <2>2, <2>3, CarriesStays
<1>9. WindowAgrees'
  <2>1. ~loading /\ notesRequest = NoPreparation BY <1>1, <1>6 DEF WindowAgrees
  <2> QED BY <1>2, <2>1, PadFacts DEF WindowAgrees
<1>10. CASE UNCHANGED <<shown, disk, used, persisted, saveState>>
  <2>1. \A n \in Notes : NoteAgrees(n)' BY <1>2, <1>10 DEF PadInvariant, NoteAgrees
  <2>2. ~DeleteFails => \A n \in Notes : SavedIsKnown(n)' BY <1>2, <1>10 DEF PadInvariant, SavedIsKnown
  <2>3. Types' BY <1>1, <1>2, <1>4, <1>10 DEF Types
  <2> QED BY <1>5, <1>8, <1>9, <2>1, <2>2, <2>3, TypesAreNext DEF PadInvariant
<1>11. CASE ~UNCHANGED <<shown, disk, used, persisted, saveState>>
  <2>1. PICK n \in Notes \ used :
           /\ used' = used \union {n} /\ disk' = [disk EXCEPT ![n] = Empty] /\ shown' = [shown EXCEPT ![n] = Empty]
           /\ persisted' = [persisted EXCEPT ![n] = Empty] /\ saveState' = [saveState EXCEPT ![n] = "saved"]
    BY <1>3, <1>11
  <2>2. /\ disk'[n] = Empty /\ shown'[n] = Empty /\ persisted'[n] = Empty /\ saveState'[n] = "saved"
        /\ \A m \in Notes \ {n} : /\ disk'[m] = disk[m] /\ shown'[m] = shown[m] /\ persisted'[m] = persisted[m]
                                  /\ saveState'[m] = saveState[m]
    BY <1>1, <2>1 DEF Types
  <2>3. ASSUME NEW m \in Notes PROVE NoteAgrees(m)'
    <3>1. CASE m = n
      <4>1. /\ shown[n] = Absent /\ pending[n] = Absent /\ timer[n] = Absent /\ writing[n] = 0
            /\ n \notin deleted /\ n \notin deleting /\ writing[n] <= sequence[n]
        BY <1>7
      <4>2. /\ pending'[n] = Absent /\ timer'[n] = Absent /\ writing'[n] = 0 /\ n \notin deleted' /\ n \notin deleting'
            /\ writing'[n] <= sequence'[n] /\ n \in used'
        BY <1>2, <2>1, <4>1
      <4> QED BY <2>2, <3>1, <4>2 DEF NoteAgrees
    <3>2. CASE m # n
      <4>1. m \in used => m \in used' BY <2>1
      <4>2. NoteAgrees(m) BY DEF PadInvariant
      <4> QED BY <1>2, <2>2, <3>2, <4>1, <4>2, SameNote
    <3> QED BY <3>1, <3>2
  <2>4. ASSUME ~DeleteFails, NEW m \in Notes PROVE SavedIsKnown(m)'
    <3>1. CASE m = n BY <2>2, <3>1 DEF SavedIsKnown
    <3>2. CASE m # n
      <4>1. SavedIsKnown(m) BY <2>4 DEF PadInvariant
      <4> QED BY <1>2, <2>2, <3>2, <4>1, SameSaved
    <3> QED BY <3>1, <3>2
  <2>5. Types'
    <3>1. /\ disk' \in [Notes -> Pad!Texts] /\ shown' \in [Notes -> Pad!Texts] /\ persisted' \in [Notes -> Pad!Texts]
          /\ saveState' \in [Notes -> {"saved", "saving", "save-error"}] /\ used' \subseteq Notes
      BY <1>1, <2>1, PadFacts DEF Types
    <3> QED BY <1>1, <1>2, <1>4, <3>1 DEF Types
  <2> QED BY <1>5, <1>8, <1>9, <2>3, <2>4, <2>5, TypesAreNext DEF PadInvariant
<1> QED BY <1>10, <1>11

\* What is known when a deletion is answered.
LEMMA Deletion ==
  ASSUME Pad!NotesAssumption, PadInvariant, calls # <<>>, Head(calls).kind = "delete", NEW n, n = Head(calls).note
  PROVE  /\ n \in Notes /\ n \in deleting /\ n \in deleted /\ writing[n] = 0 /\ pending[n] = Absent /\ timer[n] = Absent
         /\ n \in used /\ sequence[n] <= MaxEdits /\ notesUnsaved[n] \in {Absent, shown[n]}
         /\ ~loading /\ notesRequest = NoPreparation
         /\ Tail(calls) \in Seq(Pad!Calls) /\ OnceEach(Tail(calls)) /\ WrittenFirst(Tail(calls))
         /\ \A i \in 1 .. Len(Tail(calls)) : i + 1 \in 1 .. Len(calls) /\ Tail(calls)[i] = calls[i + 1]
         /\ \A kind, m : Asks(Tail(calls), kind, m) <=> Asks(calls, kind, m) /\ ~(kind = "delete" /\ m = n)
         /\ ~Asks(calls, "update", n)
<1>1. Types /\ InFlight /\ WindowAgrees BY TypesAre DEF PadInvariant
<1>2. n \in Notes
  <2>1. Head(calls) \in Pad!Calls BY <1>1, FirstCall
  <2> QED BY <2>1, PadFacts
<1>3. /\ Tail(calls) \in Seq(Pad!Calls) /\ OnceEach(Tail(calls)) /\ WrittenFirst(Tail(calls))
      /\ \A i \in 1 .. Len(Tail(calls)) : i + 1 \in 1 .. Len(calls) /\ Tail(calls)[i] = calls[i + 1]
      /\ \A kind, m : Asks(Tail(calls), kind, m) <=> Asks(calls, kind, m) /\ ~(kind = "delete" /\ m = n)
      /\ ~Asks(calls, "update", n) /\ Asks(calls, "delete", n)
  BY <1>1, FirstCall
<1>4. n \in deleting /\ writing[n] = 0 BY <1>1, <1>2, <1>3 DEF InFlight
<1>5. /\ n \in deleted /\ pending[n] = Absent /\ timer[n] = Absent /\ n \in used /\ sequence[n] <= MaxEdits
      /\ notesUnsaved[n] \in {Absent, shown[n]}
  BY <1>2, <1>4 DEF PadInvariant, NoteAgrees
<1>6. ~loading /\ notesRequest = NoPreparation BY <1>1, <1>4, <1>5 DEF WindowAgrees
<1> QED BY <1>2, <1>3, <1>4, <1>5, <1>6

LEMMA NoteDeletedStep == ASSUME Pad!NotesAssumption, PadInvariant, Pad!NoteDeleted PROVE PadInvariant'
<1>1. Types /\ InFlight /\ Carries /\ WindowAgrees BY TypesAre DEF PadInvariant
<1>2. calls # <<>> /\ Head(calls).kind = "delete" BY DEF Pad!NoteDeleted, Pad!Answered
<1>3. PICK n \in Notes : n = Head(calls).note BY <1>2, Deletion
<1> DEFINE q == Tail(calls)
           c == Pad!Ask("create", Absent, Absent)
<1>4. /\ disk' = [disk EXCEPT ![n] = Absent] /\ shown' = [shown EXCEPT ![n] = Absent]
      /\ persisted' = [persisted EXCEPT ![n] = Absent] /\ sequence' = [sequence EXCEPT ![n] = 0]
      /\ writing' = [writing EXCEPT ![n] = 0] /\ saveState' = [saveState EXCEPT ![n] = "saved"]
      /\ deleting' = deleting \ {n} /\ notesUnsaved' = [notesUnsaved EXCEPT ![n] = Absent]
      /\ \/ ~creating /\ creating' = TRUE /\ calls' = Append(q, c)
         \/ calls' = q /\ UNCHANGED creating
      /\ UNCHANGED <<loading, used, pending, timer, deleted, drains, notesRequest, answered>>
  BY <1>3 DEF Pad!NoteDeleted, Pad!drainVars
<1>5. /\ n \in deleting /\ n \in deleted /\ writing[n] = 0 /\ pending[n] = Absent /\ timer[n] = Absent
      /\ n \in used /\ ~loading /\ notesRequest = NoPreparation
      /\ q \in Seq(Pad!Calls) /\ OnceEach(q) /\ WrittenFirst(q)
      /\ \A i \in 1 .. Len(q) : i + 1 \in 1 .. Len(calls) /\ q[i] = calls[i + 1]
      /\ \A kind, m : Asks(q, kind, m) <=> Asks(calls, kind, m) /\ ~(kind = "delete" /\ m = n)
      /\ ~Asks(calls, "update", n)
  BY <1>2, <1>3, Deletion
<1>6. c \in Pad!Calls /\ c.kind = "create" /\ c.note = Absent BY PadFacts
<1> HIDE DEF q, c
<1>7. /\ calls' \in Seq(Pad!Calls) /\ OnceEach(calls') /\ WrittenFirst(calls') /\ creating' \in BOOLEAN
      /\ \A m \in Notes : /\ Asks(calls', "update", m) <=> Asks(calls, "update", m)
                          /\ Asks(calls', "delete", m) <=> Asks(calls, "delete", m) /\ m # n
      /\ creating' <=> Asks(calls', "create", Absent)
      /\ \A i \in 1 .. Len(calls') : calls'[i].kind = "update" => \E j \in 1 .. Len(calls) : calls'[i] = calls[j]
  <2>1. CASE ~creating /\ creating' = TRUE /\ calls' = Append(q, c)
    <3>1. ~Asks(q, "create", Absent) BY <1>1, <1>5, <2>1 DEF InFlight
    <3>2. (c.kind # "close" => ~Asks(q, c.kind, c.note)) /\ (c.kind = "update" => ~Asks(q, "delete", c.note))
      BY <1>6, <3>1
    <3>3. /\ calls' \in Seq(Pad!Calls) /\ OnceEach(calls') /\ WrittenFirst(calls')
          /\ \A kind, m : Asks(calls', kind, m) <=> Asks(q, kind, m) \/ (c.kind = kind /\ c.note = m)
          /\ \A i \in 1 .. Len(calls') : (i \in 1 .. Len(q) /\ calls'[i] = q[i]) \/ calls'[i] = c
      <4>1. q \in Seq(Pad!Calls) /\ OnceEach(q) /\ WrittenFirst(q) BY <1>5
      <4>2. c \in Pad!Calls BY <1>6
      <4>3. calls' = Append(q, c) BY <2>1
      <4> QED BY <3>2, <4>1, <4>2, <4>3, NextAsks, Zenon
    <3>4. \A i \in 1 .. Len(calls') : calls'[i].kind = "update" => \E j \in 1 .. Len(calls) : calls'[i] = calls[j]
      BY <1>5, <1>6, <3>3
    <3> QED BY <1>5, <1>6, <2>1, <3>3, <3>4
  <2>2. CASE calls' = q /\ UNCHANGED creating
    <3>1. creating' <=> Asks(calls', "create", Absent) BY <1>1, <1>5, <2>2 DEF InFlight
    <3>2. creating' \in BOOLEAN BY <1>1, <2>2 DEF Types
    <3>3. \A i \in 1 .. Len(calls') : calls'[i].kind = "update" => \E j \in 1 .. Len(calls) : calls'[i] = calls[j]
      BY <1>5, <2>2
    <3> QED BY <1>5, <2>2, <3>1, <3>2, <3>3
  <2> QED BY <1>4, <2>1, <2>2
<1>8. /\ disk'[n] = Absent /\ shown'[n] = Absent /\ sequence'[n] = 0 /\ writing'[n] = 0 /\ saveState'[n] = "saved"
      /\ \A m \in Notes \ {n} :
           /\ disk'[m] = disk[m] /\ shown'[m] = shown[m] /\ persisted'[m] = persisted[m] /\ sequence'[m] = sequence[m]
           /\ writing'[m] = writing[m] /\ saveState'[m] = saveState[m] /\ notesUnsaved'[m] = notesUnsaved[m]
  BY <1>1, <1>4 DEF Types
<1>9. InFlight'
  <2>1. ASSUME NEW m \in Notes
        PROVE (writing'[m] # 0 <=> Asks(calls', "update", m)) /\ (m \in deleting' <=> Asks(calls', "delete", m))
    <3>1. CASE m = n BY <1>4, <1>5, <1>7, <1>8, <3>1
    <3>2. CASE m # n BY <1>1, <1>4, <1>7, <1>8, <3>2 DEF InFlight
    <3> QED BY <3>1, <3>2
  <2> QED BY <1>7, <2>1 DEF InFlight
<1>10. Carries'
  <2>1. \A m \in Notes : Asks(calls', "update", m) => writing'[m] # 0 BY <1>9 DEF InFlight
  <2>2. \A m \in Notes : m \notin deleted' /\ writing'[m] # 0 =>
          m \notin deleted /\ writing'[m] = writing[m] /\ sequence'[m] = sequence[m] /\ shown'[m] = shown[m]
    BY <1>4, <1>8
  <2> QED BY <1>1, <1>7, <2>1, <2>2, CarriesStays
<1>11. ASSUME NEW m \in Notes PROVE NoteAgrees(m)'
  <2>1. CASE m = n
    <3>1. /\ pending'[n] = Absent /\ timer'[n] = Absent /\ n \in used' /\ n \in deleted' /\ n \notin deleting'
          /\ writing'[n] <= sequence'[n]
      BY <1>4, <1>5, <1>8
    <3> QED BY <1>8, <2>1, <3>1 DEF NoteAgrees
  <2>2. CASE m # n
    <3>1. NoteAgrees(m) BY DEF PadInvariant
    <3>2. m \in deleting' <=> m \in deleting BY <1>4, <2>2
    <3> QED BY <1>4, <1>8, <2>2, <3>1, <3>2, SameNote
  <2> QED BY <2>1, <2>2
<1>12. ASSUME ~DeleteFails, NEW m \in Notes PROVE SavedIsKnown(m)'
  <2>1. CASE m = n BY <1>4, <1>5, <2>1 DEF SavedIsKnown
  <2>2. CASE m # n
    <3>1. SavedIsKnown(m) BY <1>12 DEF PadInvariant
    <3> QED BY <1>4, <1>8, <2>2, <3>1, SameSaved
  <2> QED BY <2>1, <2>2
<1>13. Types'
  <2>1. /\ disk' \in [Notes -> Pad!Texts] /\ shown' \in [Notes -> Pad!Texts] /\ persisted' \in [Notes -> Pad!Texts]
        /\ notesUnsaved' \in [Notes -> Pad!Texts]
    BY <1>1, <1>4, PadFacts DEF Types
  <2>2. sequence' \in [Notes -> 0 .. (MaxEdits + 1)] /\ writing' \in [Notes -> 0 .. (MaxEdits + 1)]
    <3>1. 0 \in 0 .. (MaxEdits + 1) BY PadFacts
    <3> QED BY <1>1, <1>4, <3>1 DEF Types
  <2>3. saveState' \in [Notes -> {"saved", "saving", "save-error"}] BY <1>1, <1>4 DEF Types
  <2>4. deleting' \subseteq Notes BY <1>1, <1>4 DEF Types
  <2> QED BY <1>1, <1>4, <1>7, <2>1, <2>2, <2>3, <2>4 DEF Types
<1>14. WindowAgrees' BY <1>4, <1>5, PadFacts DEF WindowAgrees
<1> QED BY <1>9, <1>10, <1>11, <1>12, <1>13, <1>14, TypesAreNext DEF PadInvariant

LEMMA DeleteRefusedStep == ASSUME Pad!NotesAssumption, PadInvariant, Pad!DeleteRefused PROVE PadInvariant'
<1>1. Types /\ InFlight /\ Carries /\ WindowAgrees BY TypesAre DEF PadInvariant
<1>2. calls # <<>> /\ Head(calls).kind = "delete" /\ DeleteFails BY DEF Pad!DeleteRefused, Pad!Answered
<1>3. PICK n \in Notes : n = Head(calls).note BY <1>2, Deletion
<1> DEFINE again == notesUnsaved[n] # Absent /\ persisted[n] # notesUnsaved[n]
           q == Tail(calls)
           c == Pad!Ask("update", n, notesUnsaved[n])
<1>4. /\ n \in deleting /\ n \in deleted /\ writing[n] = 0 /\ pending[n] = Absent /\ timer[n] = Absent
      /\ n \in used /\ sequence[n] <= MaxEdits /\ notesUnsaved[n] \in {Absent, shown[n]}
      /\ ~loading /\ notesRequest = NoPreparation
      /\ q \in Seq(Pad!Calls) /\ OnceEach(q) /\ WrittenFirst(q)
      /\ \A i \in 1 .. Len(q) : i + 1 \in 1 .. Len(calls) /\ q[i] = calls[i + 1]
      /\ \A kind, m : Asks(q, kind, m) <=> Asks(calls, kind, m) /\ ~(kind = "delete" /\ m = n)
      /\ ~Asks(calls, "update", n)
  BY <1>2, <1>3, Deletion
<1>5. /\ deleted' = deleted \ {n} /\ deleting' = deleting \ {n} /\ notesUnsaved' = [notesUnsaved EXCEPT ![n] = Absent]
      /\ again => /\ pending' = [pending EXCEPT ![n] = notesUnsaved[n]] /\ sequence' = [sequence EXCEPT ![n] = @ + 1]
                  /\ saveState' = [saveState EXCEPT ![n] = "saving"]
                  /\ writing' = [writing EXCEPT ![n] = sequence[n] + 1] /\ calls' = Append(q, c)
      /\ ~again => calls' = q /\ UNCHANGED <<pending, sequence, saveState, writing>>
      /\ UNCHANGED <<loading, shown, disk, used, persisted, timer, creating, drains, notesRequest, answered>>
  BY <1>3, <1>4 DEF Pad!DeleteRefused, Pad!drainVars
<1>6. again => /\ c \in Pad!Calls /\ c.kind = "update" /\ c.note = n /\ c.body = notesUnsaved[n]
               /\ notesUnsaved[n] = shown[n] /\ shown[n] # Absent
  BY <1>1, <1>4, PadFacts DEF Types
<1>7. sequence[n] \in Nat /\ sequence[n] + 1 \in 0 .. (MaxEdits + 1) BY <1>1, <1>4, PadFacts DEF Types
<1> HIDE DEF again, q, c
<1>8. /\ calls' \in Seq(Pad!Calls) /\ OnceEach(calls') /\ WrittenFirst(calls')
      /\ \A kind, m : Asks(calls', kind, m) <=> Asks(q, kind, m) \/ (again /\ kind = "update" /\ m = n)
      /\ \A i \in 1 .. Len(calls') : (again /\ calls'[i] = c) \/ (i \in 1 .. Len(q) /\ calls'[i] = q[i])
  <2>1. CASE again
    <3>1. (c.kind # "close" => ~Asks(q, c.kind, c.note)) /\ (c.kind = "update" => ~Asks(q, "delete", c.note))
      BY <1>4, <1>6, <2>1
    <3>2. c \in Pad!Calls /\ calls' = Append(q, c) BY <1>5, <1>6, <2>1
    <3>3. /\ calls' \in Seq(Pad!Calls) /\ OnceEach(calls') /\ WrittenFirst(calls')
          /\ \A kind, m : Asks(calls', kind, m) <=> Asks(q, kind, m) \/ (c.kind = kind /\ c.note = m)
          /\ \A i \in 1 .. Len(calls') : (i \in 1 .. Len(q) /\ calls'[i] = q[i]) \/ calls'[i] = c
      <4>1. q \in Seq(Pad!Calls) /\ OnceEach(q) /\ WrittenFirst(q) BY <1>4
      <4>2. c \in Pad!Calls BY <3>2
      <4>3. calls' = Append(q, c) BY <3>2
      <4> QED BY <3>1, <4>1, <4>2, <4>3, NextAsks, Zenon
    <3> QED BY <1>6, <2>1, <3>3
  <2>2. CASE ~again BY <1>4, <1>5, <2>2
  <2> QED BY <2>1, <2>2
<1>9. /\ again => /\ pending'[n] = shown[n] /\ sequence'[n] = sequence[n] + 1 /\ saveState'[n] = "saving"
                  /\ writing'[n] = sequence[n] + 1
      /\ ~again => pending'[n] = Absent /\ sequence'[n] = sequence[n] /\ writing'[n] = 0
      /\ notesUnsaved'[n] = Absent
      /\ \A m \in Notes \ {n} : /\ pending'[m] = pending[m] /\ sequence'[m] = sequence[m] /\ saveState'[m] = saveState[m]
                                /\ writing'[m] = writing[m] /\ notesUnsaved'[m] = notesUnsaved[m]
                                /\ m \in deleted' <=> m \in deleted
                                /\ m \in deleting' <=> m \in deleting
  BY <1>1, <1>4, <1>5, <1>6 DEF Types
<1>10. InFlight'
  <2>1. ASSUME NEW m \in Notes
        PROVE (writing'[m] # 0 <=> Asks(calls', "update", m)) /\ (m \in deleting' <=> Asks(calls', "delete", m))
    <3>1. CASE m = n BY <1>4, <1>5, <1>7, <1>8, <1>9, <3>1
    <3>2. CASE m # n
      <4>1. Asks(calls', "update", m) <=> Asks(calls, "update", m) BY <1>4, <1>8, <3>2
      <4>2. Asks(calls', "delete", m) <=> Asks(calls, "delete", m) BY <1>4, <1>8, <3>2
      <4> QED BY <1>1, <1>9, <3>2, <4>1, <4>2 DEF InFlight
    <3> QED BY <3>1, <3>2
  <2>2. creating' <=> Asks(calls', "create", Absent) BY <1>1, <1>4, <1>5, <1>8 DEF InFlight
  <2> QED BY <1>8, <2>1, <2>2 DEF InFlight
<1>11. Carries'
  <2>1. CASE again
    <3>1. c.note = n /\ c.body = shown'[c.note] BY <1>5, <1>6, <2>1
    <3>2. \A i \in 1 .. Len(calls') : calls'[i].kind = "update" =>
            calls'[i] = c \/ \E j \in 1 .. Len(calls) : calls'[i] = calls[j] /\ calls[j].note # c.note
      <4> SUFFICES ASSUME NEW i \in 1 .. Len(q), calls'[i] = q[i], q[i].kind = "update"
                   PROVE  \E j \in 1 .. Len(calls) : calls'[i] = calls[j] /\ calls[j].note # n
        BY <1>8, <3>1
      <4>1. Asks(q, "update", q[i].note) BY DEF Asks
      <4>2. q[i].note # n BY <1>4, <4>1
      <4> QED BY <1>4, <4>2
    <3>3. \A m \in Notes \ {c.note} : m \notin deleted' =>
            m \notin deleted /\ writing'[m] = writing[m] /\ sequence'[m] = sequence[m] /\ shown'[m] = shown[m]
      BY <1>5, <1>9, <3>1
    <3> QED BY <1>1, <3>1, <3>2, <3>3, CarriesOneMore
  <2>2. CASE ~again
    <3>1. \A i \in 1 .. Len(calls') : calls'[i].kind = "update" => \E j \in 1 .. Len(calls) : calls'[i] = calls[j]
      BY <1>4, <1>8, <2>2
    <3>2. \A m \in Notes : Asks(calls', "update", m) => writing'[m] # 0 BY <1>10 DEF InFlight
    <3>3. \A m \in Notes : m \notin deleted' /\ writing'[m] # 0 =>
            m \notin deleted /\ writing'[m] = writing[m] /\ sequence'[m] = sequence[m] /\ shown'[m] = shown[m]
      BY <1>5, <1>9, <2>2
    <3> QED BY <1>1, <3>1, <3>2, <3>3, CarriesStays
  <2> QED BY <2>1, <2>2
<1>12. ASSUME NEW m \in Notes PROVE NoteAgrees(m)'
  <2>1. CASE m = n
    <3>1. /\ n \in used' /\ n \notin deleted' /\ n \notin deleting' /\ timer'[n] = Absent /\ shown'[n] = shown[n]
      BY <1>4, <1>5
    <3>2. CASE again
      <4>1. shown[n] # Absent BY <1>6, <3>2
      <4>2. /\ pending'[n] = shown[n] /\ saveState'[n] = "saving" /\ writing'[n] = sequence'[n] /\ sequence'[n] # 0
            /\ writing'[n] <= sequence'[n]
        BY <1>7, <1>9, <3>2
      <4> QED BY <2>1, <3>1, <4>1, <4>2 DEF NoteAgrees
    <3>3. CASE ~again
      <4>1. pending'[n] = Absent /\ writing'[n] = 0 /\ writing'[n] <= sequence'[n] BY <1>7, <1>9, <3>3
      <4> QED BY <2>1, <3>1, <4>1 DEF NoteAgrees
    <3> QED BY <3>2, <3>3
  <2>2. CASE m # n
    <3>1. NoteAgrees(m) BY DEF PadInvariant
    <3> QED BY <1>5, <1>9, <2>2, <3>1, SameNote
  <2> QED BY <2>1, <2>2
<1>13. Types'
  <2>1. /\ pending' \in [Notes -> Pad!Texts] /\ notesUnsaved' \in [Notes -> Pad!Texts]
    <3>1. Absent \in Pad!Texts /\ notesUnsaved[n] \in Pad!Texts BY <1>1, PadFacts DEF Types
    <3>2. CASE again BY <1>1, <1>5, <3>1, <3>2 DEF Types
    <3>3. CASE ~again BY <1>1, <1>5, <3>1, <3>3 DEF Types
    <3> QED BY <3>2, <3>3
  <2>2. sequence' \in [Notes -> 0 .. (MaxEdits + 1)] /\ writing' \in [Notes -> 0 .. (MaxEdits + 1)]
    <3>1. CASE again
      <4>1. sequence' = [sequence EXCEPT ![n] = sequence[n] + 1] BY <1>5, <3>1
      <4>2. writing' = [writing EXCEPT ![n] = sequence[n] + 1] BY <1>5, <3>1
      <4> QED BY <1>1, <1>7, <4>1, <4>2 DEF Types
    <3>2. CASE ~again BY <1>1, <1>5, <3>2 DEF Types
    <3> QED BY <3>1, <3>2
  <2>3. saveState' \in [Notes -> {"saved", "saving", "save-error"}]
    <3>1. CASE again BY <1>1, <1>5, <3>1 DEF Types
    <3>2. CASE ~again BY <1>1, <1>5, <3>2 DEF Types
    <3> QED BY <3>1, <3>2
  <2>4. deleting' \subseteq Notes /\ deleted' \subseteq Notes BY <1>1, <1>5 DEF Types
  <2>5. loading' \in BOOLEAN /\ creating' \in BOOLEAN BY <1>1, <1>5 DEF Types
  <2> QED BY <1>1, <1>5, <1>8, <2>1, <2>2, <2>3, <2>4, <2>5 DEF Types
<1>14. WindowAgrees' BY <1>4, <1>5, PadFacts DEF WindowAgrees
<1> QED BY <1>2, <1>10, <1>11, <1>12, <1>13, <1>14, TypesAreNext DEF PadInvariant

LEMMA PadStep == ASSUME Pad!NotesAssumption, PadInvariant, [Pad!Next]_(Pad!vars) PROVE PadInvariant'
<1>1. CASE UNCHANGED Pad!vars
  <2>1. UNCHANGED <<loading, shown, disk, used, persisted, pending, timer, sequence, writing, saveState, deleted,
                    deleting, notesUnsaved, creating, calls, drains, notesRequest, answered>>
    BY <1>1 DEF Pad!vars, Pad!noteVars, Pad!opVars, Pad!drainVars
  <2>2. Types /\ InFlight /\ Carries /\ WindowAgrees BY TypesAre DEF PadInvariant
  <2>3. Types' BY <2>1, <2>2 DEF Types
  <2>4. InFlight' BY <2>1, <2>2 DEF InFlight, OnceEach, WrittenFirst, Asks
  <2>5. Carries' BY <2>1, <2>2 DEF Carries
  <2>6. WindowAgrees' BY <2>1, <2>2 DEF WindowAgrees
  <2>7. \A n \in Notes : NoteAgrees(n)' BY <2>1 DEF PadInvariant, NoteAgrees
  <2>8. ~DeleteFails => \A n \in Notes : SavedIsKnown(n)' BY <2>1 DEF PadInvariant, SavedIsKnown
  <2> QED BY <2>3, <2>4, <2>5, <2>6, <2>7, <2>8, TypesAreNext DEF PadInvariant
<1>2. CASE Pad!MainAnswers
  <2>1. CASE Pad!UpdateAnswered BY <2>1, UpdateAnsweredStep
  <2>2. CASE Pad!CreateAnswered BY <2>2, CreateAnsweredStep
  <2>3. CASE Pad!NoteDeleted BY <2>3, NoteDeletedStep
  <2>4. CASE Pad!DeleteRefused BY <2>4, DeleteRefusedStep
  <2>5. CASE Pad!CloseAnswered BY <2>5, CloseAnsweredStep
  <2> QED BY <1>2, <2>1, <2>2, <2>3, <2>4, <2>5 DEF Pad!MainAnswers
<1>3. CASE \E n \in Notes : Pad!SaveTimerFires(n) \/ Pad!FlushScheduledSave(n) \/ Pad!DeleteNote(n)
                            \/ \E b \in Bodies : Pad!Type(n, b)
  BY <1>3, TimerStep, BlurStep, DeleteStep, TypeStep
<1>4. CASE \E r \in Preparations : Pad!PrepareInstall(r) \/ Pad!PrepareDrained(r) \/ Pad!InstallCancelled(r)
  BY <1>4, PrepareStep, PrepareDrainedStep, CancelledStep
<1>5. CASE \E d \in Pad!Drains : Pad!DrainAgain(d) BY <1>5, DrainAgainStep
<1>6. CASE Pad!Load BY <1>6, LoadStep
<1>7. CASE Pad!AddNewNote BY <1>7, AddStep
<1>8. CASE Pad!Flush BY <1>8, FlushStep
<1>9. CASE Pad!CloseScratchpad BY <1>9, CloseStep
<1>10. CASE Pad!CloseDrained BY <1>10, CloseDrainedStep
<1> QED BY <1>1, <1>2, <1>3, <1>4, <1>5, <1>6, <1>7, <1>8, <1>9, <1>10 DEF Pad!Next

\* What the Notes window keeps of its notes, its calls and its drains goes together
\* (scheduleSave, persistNote, flushPendingSaves, deleteNote, drainPendingSaves).
THEOREM PadInvariantHolds == ASSUME Pad!NotesAssumption PROVE Pad!Spec => []PadInvariant
<1>1. Pad!Init => PadInvariant BY PadStarts
<1>2. PadInvariant /\ [Pad!Next]_(Pad!vars) => PadInvariant' BY PadStep
<1> QED BY <1>1, <1>2, PTL DEF Pad!Spec

\* The variables of the Notes window have their types.
THEOREM NotesHaveTypes == ASSUME Pad!NotesAssumption PROVE Pad!Spec => []Pad!TypeOK
<1>1. PadInvariant => Pad!TypeOK BY DEF PadInvariant
<1> QED BY <1>1, PadInvariantHolds, PTL

-----------------------------------------------------------------------------
(* The window closes *)

\* The main process is asked once to close the window, and not while an update is prepared.
CloseAgrees ==
  /\ \A i \in 1 .. Len(calls) : calls[i].kind = "close" => drains["close"].stage = "asked"
  /\ \A i, j \in 1 .. Len(calls) : calls[i].kind = "close" /\ calls[j].kind = "close" => i = j
  /\ notesRequest # NoPreparation => drains["close"].stage = "none"

LEMMA ClosesStay ==
  ASSUME CloseAgrees, calls \in Seq(Pad!Calls), calls' \in Seq(Pad!Calls), NEW k \in {0, 1},
         \A i \in 1 .. Len(calls') : calls'[i].kind = "close" => i + k \in 1 .. Len(calls) /\ calls[i + k].kind = "close",
         drains'["close"].stage = drains["close"].stage \/ drains["close"].stage # "asked",
         notesRequest' # NoPreparation => drains'["close"].stage = "none"
  PROVE  CloseAgrees'
<1>1. \A i \in 1 .. Len(calls') : calls'[i].kind = "close" => drains'["close"].stage = "asked" BY DEF CloseAgrees
<1>2. ASSUME NEW i \in 1 .. Len(calls'), NEW j \in 1 .. Len(calls'), calls'[i].kind = "close", calls'[j].kind = "close"
      PROVE  i = j
  <2>1. i + k = j + k BY <1>2 DEF CloseAgrees
  <2> QED BY <2>1
<1> QED BY <1>1, <1>2 DEF CloseAgrees

LEMMA WritesOnly ==
  ASSUME Pad!NotesAssumption, calls \in Seq(Pad!Calls), NEW start \in SUBSET Notes, NEW texts,
         calls' = calls \o Pad!SetToSeq({Pad!Ask("update", n, texts[n]) : n \in start})
  PROVE  \A i \in 1 .. Len(calls') : calls'[i].kind = "close" => i + 0 \in 1 .. Len(calls) /\ calls[i + 0].kind = "close"
<1> DEFINE T == {Pad!Ask("update", n, texts[n]) : n \in start}
<1>1. IsFiniteSet(T)
  <2>1. IsFiniteSet(start) BY PadFacts, FS_Subset
  <2> DEFINE f == [n \in start |-> Pad!Ask("update", n, texts[n])]
  <2>2. f \in Surjection(start, T) BY DEF Surjection
  <2> QED BY <2>1, <2>2, FS_Surjection
<1>2. \A t \in T : t.kind = "update" BY PadFacts
<1> DEFINE o == Pad!SetToSeq(T)
<1>3. o \in Seq(T) BY <1>1, SetInOrder
<1>4. calls' = calls \o o OBVIOUS
<1> HIDE DEF T, o
<1>5. /\ Len(calls) \in Nat /\ Len(o) \in Nat
      /\ \A k \in 1 .. Len(o) : o[k] \in T
  BY <1>3
<1>6. /\ Len(calls') = Len(calls) + Len(o)
      /\ \A i \in 1 .. Len(calls) : calls'[i] = calls[i]
      /\ \A i \in 1 .. Len(calls) + Len(o) : i > Len(calls) => calls'[i] = o[i - Len(calls)]
  <2> DEFINE S == Pad!Calls \union T
  <2>1. calls \in Seq(S) /\ o \in Seq(S) BY <1>3, SeqMonotonic
  <2> HIDE DEF S
  <2>2. /\ Len(calls') = Len(calls) + Len(o)
        /\ \A i \in 1 .. Len(calls) + Len(o) : calls'[i] = IF i <= Len(calls) THEN calls[i] ELSE o[i - Len(calls)]
    BY <1>4, <2>1, ConcatProperties
  <2>3. \A i \in 1 .. Len(calls) : i \in 1 .. Len(calls) + Len(o) /\ i <= Len(calls) BY <1>5
  <2>4. \A i \in 1 .. Len(calls) + Len(o) : i > Len(calls) => ~(i <= Len(calls)) BY <1>5
  <2> QED BY <2>2, <2>3, <2>4
<1>7. ASSUME NEW i \in 1 .. Len(calls'), calls'[i].kind = "close" PROVE i \in 1 .. Len(calls) /\ calls'[i] = calls[i]
  <2>1. CASE i > Len(calls)
    <3>1. i - Len(calls) \in 1 .. Len(o) BY <1>5, <1>6, <2>1
    <3>2. calls'[i] \in T BY <1>5, <1>6, <2>1, <3>1
    <3> QED BY <1>2, <1>7, <3>2
  <2>2. CASE ~(i > Len(calls))
    <3>1. i \in 1 .. Len(calls) BY <1>5, <1>6, <2>2
    <3> QED BY <1>6, <3>1
  <2> QED BY <2>1, <2>2
<1> QED BY <1>5, <1>7

LEMMA PersistOnly ==
  ASSUME Pad!NotesAssumption, calls \in Seq(Pad!Calls), NEW S \in SUBSET Notes, NEW texts, Pad!Persist(S, texts)
  PROVE  \A i \in 1 .. Len(calls') : calls'[i].kind = "close" => i + 0 \in 1 .. Len(calls) /\ calls[i + 0].kind = "close"
<1>1. {n \in S : Pad!MayWrite(n)} \in SUBSET Notes OBVIOUS
<1>2. calls' = calls \o Pad!SetToSeq({Pad!Ask("update", n, texts[n]) : n \in {m \in S : Pad!MayWrite(m)}})
  BY DEF Pad!Persist
<1> QED BY <1>1, <1>2, WritesOnly

LEMMA FlushOnly ==
  ASSUME Pad!NotesAssumption, calls \in Seq(Pad!Calls), Pad!FlushPending
  PROVE  \A i \in 1 .. Len(calls') : calls'[i].kind = "close" => i + 0 \in 1 .. Len(calls) /\ calls[i + 0].kind = "close"
<1> DEFINE start == {n \in (Pad!Pending \ deleted) \ (Pad!Clean \ deleted) : writing[n] # sequence[n] /\ Pad!MayWrite(n)}
<1>1. calls' = calls \o Pad!SetToSeq({Pad!Ask("update", n, pending[n]) : n \in start}) BY DEF Pad!FlushPending
<1>2. start \in SUBSET Notes BY DEF Pad!Pending
<1> HIDE DEF start
<1> QED BY <1>1, <1>2, WritesOnly

\* What is appended asks for something else.
LEMMA AppendOnly ==
  ASSUME NEW q \in Seq(Pad!Calls), NEW c \in Pad!Calls, c.kind # "close", NEW r, r = q \/ r = Append(q, c)
  PROVE  \A i \in 1 .. Len(r) : r[i].kind = "close" => i \in 1 .. Len(q) /\ r[i] = q[i]
<1>1. \A i \in 1 .. Len(Append(q, c)) : (i \in 1 .. Len(q) /\ Append(q, c)[i] = q[i]) \/ Append(q, c)[i] = c OBVIOUS
<1> QED BY <1>1

LEMMA TailOnly ==
  ASSUME calls \in Seq(Pad!Calls), calls # <<>>, NEW c \in Pad!Calls, c.kind # "close",
         calls' = Tail(calls) \/ calls' = Append(Tail(calls), c)
  PROVE  \A i \in 1 .. Len(calls') : calls'[i].kind = "close" => i + 1 \in 1 .. Len(calls) /\ calls[i + 1].kind = "close"
<1>1. /\ Tail(calls) \in Seq(Pad!Calls)
      /\ \A i \in 1 .. Len(Tail(calls)) : i + 1 \in 1 .. Len(calls) /\ Tail(calls)[i] = calls[i + 1]
  OBVIOUS
<1>2. \A i \in 1 .. Len(calls') : calls'[i].kind = "close" => i \in 1 .. Len(Tail(calls)) /\ calls'[i] = Tail(calls)[i]
  BY <1>1, AppendOnly
<1> QED BY <1>1, <1>2

LEMMA CloseAgreesStep ==
  ASSUME Pad!NotesAssumption, PadInvariant, PadInvariant', CloseAgrees, [Pad!Next]_(Pad!vars)
  PROVE  CloseAgrees'
<1>1. /\ calls \in Seq(Pad!Calls) /\ calls' \in Seq(Pad!Calls) /\ drains \in DrainStates
      /\ \A n \in Notes : shown[n] \in Pad!Texts
      /\ Types
  BY TypesAre, TypesAreNext DEF PadInvariant, Types
<1>2. "close" \in Pad!Drains /\ Pad!Close = "close" /\ \A r \in Preparations : r \in Pad!Drains /\ r # "close"
  BY PadFacts DEF Pad!Drains, Pad!Close
<1> DEFINE None == \A i \in 1 .. Len(calls) : calls[i].kind # "close"
           Same == UNCHANGED <<drains, notesRequest>>
<1>3. Same => /\ drains'["close"].stage = drains["close"].stage
              /\ notesRequest' # NoPreparation => drains'["close"].stage = "none"
  BY DEF CloseAgrees
<1>4. drains["close"].stage # "asked" => None BY DEF CloseAgrees
<1>5. ASSUME UNCHANGED calls, Same PROVE CloseAgrees' BY <1>5 DEF CloseAgrees
<1>6. CASE UNCHANGED Pad!vars BY <1>5, <1>6 DEF Pad!vars, Pad!drainVars
<1>7. CASE \E n \in Notes, b \in Bodies : Pad!Type(n, b)
  <2>1. UNCHANGED calls /\ Same BY <1>7 DEF Pad!Type, Pad!drainVars
  <2> QED BY <1>5, <2>1
<1>8. CASE \E n \in Notes : Pad!SaveTimerFires(n) \/ Pad!FlushScheduledSave(n)
  <2>1. PICK n \in Notes : Pad!SaveTimerFires(n) \/ Pad!FlushScheduledSave(n) BY <1>8
  <2>2. Same /\ (Pad!Persist({n}, timer) \/ Pad!Persist(Pad!Flushed(n), pending))
    BY <2>1 DEF Pad!SaveTimerFires, Pad!FlushScheduledSave, Pad!drainVars
  <2>3. Pad!Flushed(n) \in SUBSET Notes /\ {n} \in SUBSET Notes BY DEF Pad!Flushed
  <2>4. \A i \in 1 .. Len(calls') : calls'[i].kind = "close" => i + 0 \in 1 .. Len(calls) /\ calls[i + 0].kind = "close"
    <3>1. CASE Pad!Persist({n}, timer) BY <1>1, <2>3, <3>1, PersistOnly
    <3>2. CASE Pad!Persist(Pad!Flushed(n), pending) BY <1>1, <2>3, <3>2, PersistOnly
    <3> QED BY <2>2, <3>1, <3>2
  <2> QED BY <1>1, <1>3, <2>2, <2>4, ClosesStay
<1>9. CASE \E n \in Notes : Pad!DeleteNote(n)
  <2>1. PICK n \in Notes : Pad!DeleteNote(n) BY <1>9
  <2> DEFINE c == Pad!Ask("delete", n, Absent)
  <2>2. c \in Pad!Calls /\ c.kind # "close" BY PadFacts
  <2>3. Same /\ calls' = Append(calls, c) BY <2>1 DEF Pad!DeleteNote, Pad!drainVars
  <2> HIDE DEF c
  <2>4. \A i \in 1 .. Len(calls') : calls'[i].kind = "close" => i \in 1 .. Len(calls) /\ calls'[i] = calls[i]
    BY <1>1, <2>2, <2>3, AppendOnly
  <2>5. \A i \in 1 .. Len(calls') : calls'[i].kind = "close" => i + 0 \in 1 .. Len(calls) /\ calls[i + 0].kind = "close"
    BY <2>4
  <2> QED BY <1>1, <1>3, <2>3, <2>5, ClosesStay
<1>10. CASE Pad!Load \/ Pad!AddNewNote
  <2> DEFINE c == Pad!Ask("create", Absent, Absent)
  <2>2. c \in Pad!Calls /\ c.kind # "close" BY PadFacts
  <2>3. Same /\ (calls' = calls \/ calls' = Append(calls, c))
    BY <1>10 DEF Pad!Load, Pad!AddNewNote, Pad!Create, Pad!drainVars
  <2> HIDE DEF c
  <2>4. \A i \in 1 .. Len(calls') : calls'[i].kind = "close" => i \in 1 .. Len(calls) /\ calls'[i] = calls[i]
    BY <1>1, <2>2, <2>3, AppendOnly
  <2>5. \A i \in 1 .. Len(calls') : calls'[i].kind = "close" => i + 0 \in 1 .. Len(calls) /\ calls[i + 0].kind = "close"
    BY <2>4
  <2> QED BY <1>1, <1>3, <2>3, <2>5, ClosesStay
<1>11. CASE Pad!Flush
  <2>1. Same /\ Pad!FlushPending BY <1>11 DEF Pad!Flush, Pad!drainVars
  <2>2. \A i \in 1 .. Len(calls') : calls'[i].kind = "close" => i + 0 \in 1 .. Len(calls) /\ calls[i + 0].kind = "close"
    BY <1>1, <2>1, FlushOnly
  <2> QED BY <1>1, <1>3, <2>1, <2>2, ClosesStay
<1>12. CASE Pad!UpdateAnswered
  <2>1. /\ calls # <<>> /\ Head(calls).kind = "update" /\ notesRequest' = notesRequest
        /\ Pad!Settles(Head(calls).note)
        /\ \/ calls' = Tail(calls)
           \/ Pad!Newer(Head(calls).note) /\
              calls' = Append(Tail(calls), Pad!Ask("update", Head(calls).note, pending[Head(calls).note]))
    BY <1>12 DEF Pad!UpdateAnswered, Pad!Answered
  <2>2. Head(calls) \in Pad!Calls BY <1>1, <2>1
  <2>3. PICK n \in Notes : n = Head(calls).note BY <2>1, <2>2, PadFacts
  <2>4. drains'["close"].stage = drains["close"].stage BY <1>1, <1>2, <2>1 DEF Pad!Settles, DrainStates
  <2>5. PICK c \in Pad!Calls : c.kind # "close" /\ (calls' = Tail(calls) \/ calls' = Append(Tail(calls), c))
    <3>1. CASE calls' = Tail(calls)
      <4>1. Pad!Ask("create", Absent, Absent) \in Pad!Calls /\ Pad!Ask("create", Absent, Absent).kind # "close" BY PadFacts
      <4> QED BY <3>1, <4>1
    <3>2. CASE Pad!Newer(n) /\ calls' = Append(Tail(calls), Pad!Ask("update", n, pending[n]))
      <4>1. pending[n] \in Bodies BY <1>1, <3>2, PadFacts DEF Pad!Newer, Types
      <4>2. Pad!Ask("update", n, pending[n]) \in Pad!Calls /\ Pad!Ask("update", n, pending[n]).kind # "close"
        BY <4>1, PadFacts
      <4> QED BY <3>2, <4>2
    <3> QED BY <2>1, <2>3, <3>1, <3>2
  <2>6. \A i \in 1 .. Len(calls') : calls'[i].kind = "close" => i + 1 \in 1 .. Len(calls) /\ calls[i + 1].kind = "close"
    BY <1>1, <2>1, <2>5, TailOnly
  <2>7. notesRequest' # NoPreparation => drains'["close"].stage = "none" BY <2>1, <2>4 DEF CloseAgrees
  <2> QED BY <1>1, <2>4, <2>6, <2>7, ClosesStay
<1>13. CASE Pad!CreateAnswered \/ Pad!NoteDeleted
  <2> DEFINE c == Pad!Ask("create", Absent, Absent)
  <2>1. c \in Pad!Calls /\ c.kind # "close" BY PadFacts
  <2>2. Same /\ calls # <<>> /\ (calls' = Tail(calls) \/ calls' = Append(Tail(calls), c))
    BY <1>13 DEF Pad!CreateAnswered, Pad!NoteDeleted, Pad!Answered, Pad!drainVars
  <2> HIDE DEF c
  <2>3. \A i \in 1 .. Len(calls') : calls'[i].kind = "close" => i + 1 \in 1 .. Len(calls) /\ calls[i + 1].kind = "close"
    BY <1>1, <2>1, <2>2, TailOnly
  <2> QED BY <1>1, <1>3, <2>2, <2>3, ClosesStay
<1>14. CASE Pad!DeleteRefused
  <2>1. /\ Same /\ calls # <<>> /\ Head(calls).kind = "delete"
        /\ \/ calls' = Tail(calls)
           \/ notesUnsaved[Head(calls).note] # Absent /\
              calls' = Append(Tail(calls), Pad!Ask("update", Head(calls).note, notesUnsaved[Head(calls).note]))
    BY <1>14 DEF Pad!DeleteRefused, Pad!Answered, Pad!drainVars
  <2>2. Head(calls) \in Pad!Calls BY <1>1, <2>1
  <2>3. PICK n \in Notes : n = Head(calls).note BY <2>1, <2>2, PadFacts
  <2>4. PICK c \in Pad!Calls : c.kind # "close" /\ (calls' = Tail(calls) \/ calls' = Append(Tail(calls), c))
    <3>1. CASE calls' = Tail(calls)
      <4>1. Pad!Ask("create", Absent, Absent) \in Pad!Calls /\ Pad!Ask("create", Absent, Absent).kind # "close" BY PadFacts
      <4> QED BY <3>1, <4>1
    <3>2. CASE notesUnsaved[n] # Absent /\ calls' = Append(Tail(calls), Pad!Ask("update", n, notesUnsaved[n]))
      <4>1. notesUnsaved[n] \in Bodies BY <1>1, <3>2, PadFacts DEF Types
      <4>2. Pad!Ask("update", n, notesUnsaved[n]) \in Pad!Calls /\ Pad!Ask("update", n, notesUnsaved[n]).kind # "close"
        BY <4>1, PadFacts
      <4> QED BY <3>2, <4>2
    <3> QED BY <2>1, <2>3, <3>1, <3>2
  <2>5. \A i \in 1 .. Len(calls') : calls'[i].kind = "close" => i + 1 \in 1 .. Len(calls) /\ calls[i + 1].kind = "close"
    BY <1>1, <2>1, <2>4, TailOnly
  <2> QED BY <1>1, <1>3, <2>1, <2>5, ClosesStay
<1>15. CASE Pad!CloseAnswered
  <2>1. /\ calls # <<>> /\ Head(calls).kind = "close" /\ calls' = Tail(calls) /\ notesRequest' = notesRequest
        /\ drains' = [drains EXCEPT !["close"] = Pad!Resting]
    BY <1>2, <1>15 DEF Pad!CloseAnswered, Pad!Answered
  <2>2. /\ 1 \in 1 .. Len(calls) /\ calls[1].kind = "close"
        /\ \A i \in 1 .. Len(calls') : i + 1 \in 1 .. Len(calls) /\ calls'[i] = calls[i + 1] /\ i + 1 # 1
    BY <1>1, <2>1
  <2>3. \A i \in 1 .. Len(calls') : calls'[i].kind # "close" BY <2>2 DEF CloseAgrees
  <2>4. drains'["close"].stage = "none" BY <1>1, <1>2, <2>1 DEF DrainStates, Pad!Resting
  <2> QED BY <2>3, <2>4 DEF CloseAgrees
<1>16. CASE Pad!CloseScratchpad
  <2>1. Pad!FlushPending /\ drains["close"].stage = "none" /\ notesRequest' = NoPreparation
    BY <1>2, <1>16 DEF Pad!CloseScratchpad, Pad!Closing, Pad!Frozen
  <2>2. \A i \in 1 .. Len(calls') : calls'[i].kind = "close" => i + 0 \in 1 .. Len(calls) /\ calls[i + 0].kind = "close"
    BY <1>1, <2>1, FlushOnly
  <2> QED BY <1>1, <2>1, <2>2, ClosesStay
<1>17. CASE Pad!CloseDrained
  <2>1. drains["close"].stage = "second" /\ notesRequest' = notesRequest BY <1>2, <1>17 DEF Pad!CloseDrained
  <2>2. None /\ notesRequest' = NoPreparation BY <1>4, <2>1 DEF CloseAgrees
  <2> DEFINE c == Pad!Ask("close", Absent, Absent)
  <2>3. c \in Pad!Calls BY PadFacts
  <2>4. \/ calls' = Append(calls, c) /\ drains' = [drains EXCEPT !["close"].stage = "asked"]
        \/ UNCHANGED calls
    BY <1>2, <1>17 DEF Pad!CloseDrained
  <2> HIDE DEF c
  <2>5. CASE calls' = Append(calls, c) /\ drains' = [drains EXCEPT !["close"].stage = "asked"]
    <3>1. drains'["close"].stage = "asked" BY <1>1, <1>2, <2>5 DEF DrainStates
    <3>2. \A i \in 1 .. Len(calls') : (i \in 1 .. Len(calls) /\ calls'[i] = calls[i]) \/ i = Len(calls) + 1
      BY <1>1, <2>3, <2>5
    <3>3. \A i \in 1 .. Len(calls') : calls'[i].kind = "close" => i = Len(calls) + 1 BY <2>2, <3>2
    <3> QED BY <2>2, <3>1, <3>3 DEF CloseAgrees
  <2>6. CASE UNCHANGED calls BY <2>2, <2>6 DEF CloseAgrees
  <2> QED BY <2>4, <2>5, <2>6
<1>18. CASE \E d \in Pad!Drains : Pad!DrainAgain(d)
  <2>1. PICK d \in Pad!Drains : Pad!DrainAgain(d) BY <1>18
  <2> DEFINE S == {n \in Pad!Pending : saveState[n] # "save-error"}
  <2>2. drains[d].stage = "first" /\ Pad!Persist(S, pending) /\ notesRequest' = notesRequest BY <2>1 DEF Pad!DrainAgain
  <2>3. S \in SUBSET Notes BY DEF Pad!Pending
  <2> HIDE DEF S
  <2>4. \A i \in 1 .. Len(calls') : calls'[i].kind = "close" => i + 0 \in 1 .. Len(calls) /\ calls[i + 0].kind = "close"
    BY <1>1, <2>2, <2>3, PersistOnly
  <2>5. CASE d = "close"
    <3>1. drains["close"].stage # "asked" /\ notesRequest' = NoPreparation BY <2>2, <2>5 DEF CloseAgrees
    <3> QED BY <1>1, <2>4, <3>1, ClosesStay
  <2>6. CASE d # "close"
    <3>1. drains'["close"] = drains["close"] BY <1>1, <1>2, <2>1, <2>6 DEF Pad!DrainAgain, DrainStates
    <3>2. notesRequest' # NoPreparation => drains'["close"].stage = "none" BY <2>2, <3>1 DEF CloseAgrees
    <3> QED BY <1>1, <2>4, <3>1, <3>2, ClosesStay
  <2> QED BY <2>5, <2>6
<1>19. CASE \E r \in Preparations : Pad!PrepareInstall(r)
  <2>1. PICK r \in Preparations : Pad!PrepareInstall(r) BY <1>19
  <2>2. CASE UNCHANGED <<calls, drains, notesRequest>> BY <1>5, <2>2
  <2>3. CASE Pad!CanPrepare /\ Pad!FlushPending /\ Pad!Begins(r, drains)
    <3>1. drains["close"].stage = "none" BY <1>2, <2>3 DEF Pad!CanPrepare, Pad!Closing
    <3>2. drains'["close"] = drains["close"] BY <1>1, <1>2, <2>3 DEF Pad!Begins, DrainStates
    <3>3. \A i \in 1 .. Len(calls') : calls'[i].kind = "close" => i + 0 \in 1 .. Len(calls) /\ calls[i + 0].kind = "close"
      BY <1>1, <2>3, FlushOnly
    <3> QED BY <1>1, <3>1, <3>2, <3>3, ClosesStay
  <2> QED BY <2>1, <2>2, <2>3 DEF Pad!PrepareInstall
<1>20. CASE \E r \in Preparations : Pad!PrepareDrained(r) \/ Pad!InstallCancelled(r)
  <2>1. PICK r \in Preparations : Pad!PrepareDrained(r) \/ Pad!InstallCancelled(r) BY <1>20
  <2>2. UNCHANGED calls /\ notesRequest' \in {notesRequest, NoPreparation}
    BY <2>1 DEF Pad!PrepareDrained, Pad!InstallCancelled
  <2>3. drains'["close"] = drains["close"]
    BY <1>1, <1>2, <2>1 DEF Pad!PrepareDrained, Pad!InstallCancelled, DrainStates
  <2> QED BY <2>2, <2>3 DEF CloseAgrees
<1> QED BY <1>6, <1>7, <1>8, <1>9, <1>10, <1>11, <1>12, <1>13, <1>14, <1>15, <1>16, <1>17, <1>18, <1>19, <1>20
  DEF Pad!Next, Pad!MainAnswers

THEOREM CloseAgreesHolds == ASSUME Pad!NotesAssumption PROVE Pad!Spec => []CloseAgrees
<1>1. Pad!Init => CloseAgrees BY DEF Pad!Init, CloseAgrees, Pad!Drains, Pad!Close, Pad!Resting
<1>2. PadInvariant /\ PadInvariant' /\ CloseAgrees /\ [Pad!Next]_(Pad!vars) => CloseAgrees' BY CloseAgreesStep
<1> QED BY <1>1, <1>2, PadInvariantHolds, PTL DEF Pad!Spec

\* Where the main process refuses no deletion, a text that is not in the database is pending,
\* "saved" is only said of a text that is, and a window that told an update it is prepared shows
\* only saved texts (persistNote, flushPendingSaves, drainPendingSaves, onPrepareInstall).
THEOREM NotesAreSaved ==
  ASSUME Pad!NotesAssumption, ~DeleteFails
  PROVE  Pad!Spec => [](Pad!NothingForgotten /\ Pad!SavedIsTrue /\ Pad!PreparedIsSaved)
<1>1. ASSUME PadInvariant PROVE Pad!NothingForgotten
  <2> SUFFICES ASSUME NEW n \in Notes, shown[n] # Absent, n \notin deleted, shown[n] # disk[n]
               PROVE  /\ pending[n] = shown[n] 
                      /\ n \in Pad!Timed \union Pad!Writes \/ saveState[n] = "save-error"
    BY DEF Pad!NothingForgotten, Pad!Kept, Pad!Listed
  <2>1. SavedIsKnown(n) /\ NoteAgrees(n) BY <1>1 DEF PadInvariant
  <2>2. pending[n] # Absent BY <2>1 DEF SavedIsKnown
  <2>3. pending[n] = shown[n] /\ (timer[n] # Absent \/ writing[n] # 0 \/ saveState[n] = "save-error")
    BY <2>1, <2>2 DEF NoteAgrees
  <2> QED BY <2>3 DEF Pad!Timed, Pad!Writes
<1>2. ASSUME PadInvariant PROVE Pad!SavedIsTrue
  <2> SUFFICES ASSUME NEW n \in Notes, shown[n] # Absent, n \notin deleted, saveState[n] = "saved"
               PROVE  shown[n] = disk[n]
    BY DEF Pad!SavedIsTrue, Pad!Kept, Pad!Listed
  <2>1. SavedIsKnown(n) /\ NoteAgrees(n) BY <1>2 DEF PadInvariant
  <2> QED BY <2>1 DEF SavedIsKnown, NoteAgrees
<1>3. ASSUME PadInvariant, CloseAgrees PROVE Pad!PreparedIsSaved
  <2> SUFFICES ASSUME NEW r \in Preparations, notesRequest = r, answered[r] = "yes"
               PROVE  /\ \A n \in Pad!Listed : shown[n] = disk[n]
                      /\ \A i \in DOMAIN calls : calls[i].kind = "update" /\ calls[i].body = disk[calls[i].note]
    BY DEF Pad!PreparedIsSaved
  <2>1. Types /\ InFlight /\ Carries /\ WindowAgrees BY <1>3, TypesAre DEF PadInvariant
  <2>2. deleting = {} /\ ~creating /\ \A n \in Notes : pending[n] = Absent BY <2>1, PadFacts DEF WindowAgrees
  <2>3. ASSUME NEW n \in Notes, shown[n] # Absent PROVE n \notin deleted /\ shown[n] = disk[n]
    <3>1. SavedIsKnown(n) /\ NoteAgrees(n) BY <1>3 DEF PadInvariant
    <3>2. n \notin deleted BY <2>2, <2>3, <3>1 DEF NoteAgrees
    <3> QED BY <2>2, <2>3, <3>1, <3>2 DEF SavedIsKnown
  <2>4. ASSUME NEW i \in DOMAIN calls PROVE calls[i].kind = "update" /\ calls[i].body = disk[calls[i].note]
    <3>1. i \in 1 .. Len(calls) /\ calls[i] \in Pad!Calls BY <2>1, <2>4 DEF Types
    <3>9. Asks(calls, calls[i].kind, calls[i].note) BY <3>1 DEF Asks
    <3>10. calls[i].kind # "delete" BY <2>1, <2>2, <3>1, <3>9, PadFacts DEF InFlight
    <3>11. calls[i].kind # "create" BY <2>1, <2>2, <3>1, <3>9, PadFacts DEF InFlight
    <3>12. calls[i].kind # "close" BY <1>3, <3>1, PadFacts DEF CloseAgrees
    <3>13. calls[i].kind = "update" BY <3>1, <3>10, <3>11, <3>12, PadFacts
    <3>2. PICK n \in Notes : n = calls[i].note BY <3>1, <3>13, PadFacts
    <3>3. Asks(calls, "update", n) BY <3>2, <3>9, <3>13
    <3>4. writing[n] # 0 BY <2>1, <3>3 DEF InFlight
    <3>5. NoteAgrees(n) BY <1>3 DEF PadInvariant
    <3>6. shown[n] # Absent BY <3>4, <3>5 DEF NoteAgrees
    <3>7. n \notin deleted /\ shown[n] = disk[n] BY <2>3, <3>6
    <3>8. writing[n] = sequence[n] BY <2>2, <3>4, <3>5, <3>7 DEF NoteAgrees
    <3> QED BY <2>1, <3>1, <3>2, <3>7, <3>8, <3>13 DEF Carries
  <2> QED BY <2>3, <2>4 DEF Pad!Listed
<1> QED BY <1>1, <1>2, <1>3, PadInvariantHolds, CloseAgreesHolds, PTL

\* The answer to a write leaves what is shown.
LEMMA AnswerLeavesShown ==
  ASSUME Pad!NotesAssumption, PadInvariant, Pad!UpdateAnswered PROVE UNCHANGED shown
<1>1. Types /\ InFlight /\ Carries BY TypesAre DEF PadInvariant
<1>2. calls # <<>> /\ Head(calls).kind = "update" BY DEF Pad!UpdateAnswered, Pad!Answered
<1>3. Head(calls) \in Pad!Calls /\ Head(calls) = calls[1] /\ 1 \in 1 .. Len(calls) BY <1>1, <1>2, FirstCall
<1>4. PICK n \in Notes : n = Head(calls).note BY <1>2, <1>3, PadFacts
<1>5. \/ UNCHANGED shown
      \/ n \notin deleted /\ writing[n] = sequence[n] /\ shown' = [shown EXCEPT ![n] = Head(calls).body]
  BY <1>4 DEF Pad!UpdateAnswered, Pad!SettlesEdit
<1>6. n \notin deleted /\ writing[n] = sequence[n] => Head(calls).body = shown[n] BY <1>1, <1>2, <1>3, <1>4 DEF Carries
<1> QED BY <1>1, <1>5, <1>6 DEF Types

\* What the window shows of a note changes only by an edit: no answer to an older write replaces
\* what was typed since, whether or not deletions are refused (persistNote).
THEOREM TypedStays == ASSUME Pad!NotesAssumption PROVE Pad!Spec => [][Pad!TypingIsKept]_(Pad!vars)
<1>1. ASSUME PadInvariant, Pad!Next PROVE Pad!TypingIsKept
  <2> SUFFICES ASSUME NEW m \in Notes, shown[m] # Absent
               PROVE  shown'[m] \in {shown[m], Absent} \/ sequence'[m] > sequence[m]
    BY DEF Pad!TypingIsKept, Pad!Listed
  <2>1. Types /\ InFlight /\ WindowAgrees BY <1>1, TypesAre DEF PadInvariant
  <2>2. NoteAgrees(m) BY <1>1 DEF PadInvariant
  <2>3. CASE UNCHANGED shown BY <2>3
  <2>4. CASE Pad!CreateAnswered
    <3>1. m \in used BY <2>2 DEF NoteAgrees
    <3>2. UNCHANGED shown \/ \E n \in Notes \ used : shown' = [shown EXCEPT ![n] = Empty]
      BY <2>4 DEF Pad!CreateAnswered
    <3> QED BY <2>1, <3>1, <3>2 DEF Types
  <2>5. CASE Pad!NoteDeleted
    <3>1. \E n : shown' = [shown EXCEPT ![n] = Absent] BY <2>5 DEF Pad!NoteDeleted
    <3> QED BY <2>1, <3>1 DEF Types
  <2>6. CASE \E n \in Notes, b \in Bodies : Pad!Type(n, b)
    <3>1. PICK n \in Notes, b \in Bodies : Pad!Type(n, b) BY <2>6
    <3>2. shown' = [shown EXCEPT ![n] = b] /\ sequence' = [sequence EXCEPT ![n] = @ + 1] BY <3>1 DEF Pad!Type
    <3>3. sequence[n] \in Nat BY <2>1, PadFacts DEF Types
    <3> QED BY <2>1, <3>2, <3>3 DEF Types
  <2>7. CASE Pad!Load BY <2>1, <2>7 DEF Pad!Load, WindowAgrees
  <2>8. CASE Pad!UpdateAnswered BY <1>1, <2>3, <2>8, AnswerLeavesShown
  <2>9. Pad!DeleteRefused \/ Pad!CloseAnswered => UNCHANGED shown BY DEF Pad!DeleteRefused, Pad!CloseAnswered
  <2>10. CASE \E n \in Notes : Pad!SaveTimerFires(n) \/ Pad!FlushScheduledSave(n) \/ Pad!DeleteNote(n)
    BY <2>3, <2>10 DEF Pad!SaveTimerFires, Pad!FlushScheduledSave, Pad!DeleteNote
  <2>11. CASE \E r \in Preparations : Pad!PrepareInstall(r) \/ Pad!PrepareDrained(r) \/ Pad!InstallCancelled(r)
    BY <2>3, <2>11 DEF Pad!PrepareInstall, Pad!PrepareDrained, Pad!InstallCancelled
  <2>12. CASE (\E d \in Pad!Drains : Pad!DrainAgain(d)) \/ Pad!AddNewNote \/ Pad!Flush \/ Pad!CloseScratchpad
              \/ Pad!CloseDrained
    BY <2>3, <2>12 DEF Pad!DrainAgain, Pad!AddNewNote, Pad!Flush, Pad!CloseScratchpad, Pad!CloseDrained
  <2> QED BY <1>1, <2>3, <2>4, <2>5, <2>6, <2>7, <2>8, <2>9, <2>10, <2>11, <2>12 DEF Pad!Next, Pad!MainAnswers
<1>2. PadInvariant /\ [Pad!Next]_(Pad!vars) => [Pad!TypingIsKept]_(Pad!vars) BY <1>1
<1> QED BY <1>2, PadInvariantHolds, PTL DEF Pad!Spec

-----------------------------------------------------------------------------
(* The windows *)

CONSTANTS Settings, Pill, MaxWindows, MaxFailures, Prompt
VARIABLES made, panes, owner, latch, failures, reports, queue, focus, session, active, showIdle, preparing,
  drained, ending

Screen == INSTANCE AppWindows WITH window <- panes, quitting <- ending

\* A window that came by itself: what it replaced, and how it appears.
Replaces(w) ==
  LET v == panes[w].of IN
  v # 0 =>
    /\ v \in 1 .. made /\ panes[v].destroyed /\ panes[v].surface = panes[w].surface
    /\ panes[v].loaded \/ panes[v].of = 0
    /\ panes[w].ready # "active"
    /\ panes[w].surface # Pill /\ panes[w].ready = "inactive" => panes[v].shown
    /\ panes[w].surface # Pill /\ panes[w].shown => panes[w].asked \/ panes[v].shown

\* A live window is the one of its surface.
Owned(w) == ~panes[w].destroyed => owner[panes[w].surface] = w

\* The window of a surface is its newest, and one that came by itself and never loaded is not
\* replaced by itself.
Newest(s) ==
  owner[s] # 0 =>
    /\ \A w \in 1 .. made : panes[w].surface = s => w <= owner[s]
    /\ s \in latch <=> panes[owner[s]].of # 0 /\ ~panes[owner[s]].loaded

\* A replacement that waits.
Waits(t) ==
  /\ panes[t.of].destroyed /\ panes[t.of].surface = t.surface
  /\ panes[t.of].loaded \/ panes[t.of].of = 0
  /\ t.ready = "inactive" => panes[t.of].shown
  /\ owner[t.surface] = 0 => t.surface \in latch
  /\ Prompt /\ t.surface \in Editors => ~preparing /\ ~ending /\ owner[t.surface] = 0

\* A surface without a window waits for one, never had one, or lost one that never loaded.
Gone(s) ==
  \/ \E t \in queue : t.surface = s
  \/ \A w \in 1 .. made : panes[w].surface # s
  \/ \E w \in 1 .. made :
       /\ panes[w].surface = s /\ \A v \in 1 .. made : panes[v].surface = s => v <= w
       /\ ~panes[w].loaded /\ panes[w].of # 0
Missed(s) == owner[s] = 0 => Gone(s)

Editing == {w \in 1 .. made : ~panes[w].destroyed /\ panes[w].surface # Pill}

\* What an update asked to save, what is dictated, and what the user types into.
Attended ==
  /\ preparing => Editing \subseteq drained /\ (ending \/ drained \subseteq Editing)
  /\ session = "busy" => active /\ owner[Pill] # 0
  /\ focus # 0 => panes[focus].of = 0 \/ panes[focus].asked

PillIsShown == owner[Pill] # 0 /\ ~ending /\ panes[owner[Pill]].painted =>
                 (panes[owner[Pill]].shown <=> session # "idle" \/ showIdle)

ScreenInvariant ==
  /\ Screen!TypeOK /\ Attended /\ PillIsShown
  /\ \A w \in 1 .. made : Owned(w) /\ Replaces(w)
  /\ \A s \in Editors \union {Pill} : Newest(s)
  /\ \A t \in queue : Waits(t)
  /\ Prompt => (\A t, u \in queue : t = u) /\ \A s \in Editors : Missed(s)

-----------------------------------------------------------------------------
(* The parts of the state *)

ScreenTypes ==
  /\ made \in 0 .. MaxWindows /\ panes \in [1 .. made -> Screen!Window]
  /\ owner \in [Editors \union {Pill} -> (1 .. made) \union {0}] /\ focus \in (1 .. made) \union {0}
  /\ latch \subseteq Editors \union {Pill} /\ failures \in 0 .. MaxFailures
  /\ reports \subseteq (1 .. made) \X {"load", "gone"}
  /\ queue \subseteq [surface : Editors \union {Pill}, of : 1 .. made, ready : {"inactive", "hidden"}]
  /\ session \in {"idle", "busy", "notice"} /\ drained \subseteq 1 .. made
  /\ active \in BOOLEAN /\ showIdle \in BOOLEAN /\ preparing \in BOOLEAN /\ ending \in BOOLEAN
  /\ \A s \in Editors \union {Pill} : owner[s] # 0 => ~panes[owner[s]].destroyed /\ panes[owner[s]].surface = s
  /\ focus # 0 => ~panes[focus].destroyed /\ panes[focus].surface # Pill

LEMMA ScreenTypesAre == Screen!TypeOK <=> ScreenTypes
BY DEF Screen!TypeOK, ScreenTypes, Screen!Windows, Screen!Surfaces, Screen!NoWindow, Screen!Live

LEMMA ScreenTypesNext == Screen!TypeOK' <=> ScreenTypes'
BY DEF Screen!TypeOK, ScreenTypes, Screen!Windows, Screen!Surfaces, Screen!NoWindow, Screen!Live

LEMMA ScreenFacts ==
  ASSUME Screen!WindowsAssumption
  PROVE  /\ Settings \in Editors /\ Pill \notin Editors /\ MaxWindows \in Nat /\ 2 <= MaxWindows /\ MaxFailures \in Nat /\ Prompt \in BOOLEAN
         /\ Screen!Windows = 1 .. made /\ Screen!NoWindow = 0 /\ Screen!Surfaces = Editors \union {Pill}
         /\ \A r \in Screen!Window :
              /\ r.surface \in Editors \union {Pill} /\ r.of \in 0 .. MaxWindows
              /\ r.page \in {"loading", "loaded", "failed", "crashed"} /\ r.ready \in {"active", "inactive", "hidden"}
              /\ r.loaded \in BOOLEAN /\ r.painted \in BOOLEAN /\ r.shown \in BOOLEAN /\ r.asked \in BOOLEAN
              /\ r.destroyed \in BOOLEAN
BY DEF Screen!WindowsAssumption, Screen!Windows, Screen!NoWindow, Screen!Surfaces, Screen!Window

\* Nothing becomes of a window but how it looks.
Kept(w) ==
  /\ panes'[w].surface = panes[w].surface /\ panes'[w].of = panes[w].of /\ panes'[w].ready = panes[w].ready
  /\ panes'[w].destroyed = panes[w].destroyed /\ panes'[w].loaded = panes[w].loaded
  /\ panes[w].asked => panes'[w].asked
  /\ panes[w].destroyed => panes'[w].shown = panes[w].shown

LEMMA Redrawn ==
  ASSUME Screen!WindowsAssumption, ScreenInvariant, ScreenTypes', UNCHANGED <<made, owner, latch, queue>>,
         \A w \in 1 .. made : Kept(w),
         \A w \in 1 .. made : panes[w].surface # Pill /\ panes[w].of # 0 /\ panes'[w].shown =>
           panes[w].shown \/ panes'[w].asked \/ panes[w].ready = "inactive",
         Prompt /\ queue # {} => UNCHANGED <<preparing, ending>>,
         Attended', PillIsShown'
  PROVE  ScreenInvariant'
<1>1. ScreenTypes BY ScreenTypesAre DEF ScreenInvariant
<1>2. \A w \in 1 .. made : Owned(w)' BY <1>1, ScreenFacts DEF ScreenInvariant, Owned, Kept
<1>3. ASSUME NEW w \in 1 .. made PROVE Replaces(w)'
  <2>1. Replaces(w) /\ Kept(w) BY DEF ScreenInvariant
  <2>2. CASE panes[w].of = 0 BY <2>1, <2>2 DEF Replaces, Kept
  <2>3. CASE panes[w].of # 0
    <3>1. PICK v \in 1 .. made : v = panes[w].of BY <2>1, <2>3 DEF Replaces
    <3>2. Kept(v) OBVIOUS
    <3> QED BY <2>1, <2>3, <3>1, <3>2 DEF Replaces, Kept
  <2> QED BY <2>2, <2>3
<1>4. ASSUME NEW s \in Editors \union {Pill} PROVE Newest(s)'
  <2>1. Newest(s) BY DEF ScreenInvariant
  <2>2. owner[s] # 0 => owner[s] \in 1 .. made BY <1>1 DEF ScreenTypes
  <2> QED BY <2>1, <2>2 DEF Newest, Kept
<1>5. ASSUME NEW t \in queue PROVE Waits(t)'
  <2>1. Waits(t) /\ t.of \in 1 .. made BY <1>1 DEF ScreenInvariant, ScreenTypes
  <2>2. Kept(t.of) BY <2>1
  <2> QED BY <2>1, <2>2 DEF Waits, Kept
<1>6. ASSUME Prompt, NEW s \in Editors PROVE Missed(s)'
  <2>1. Missed(s) BY <1>6 DEF ScreenInvariant
  <2> QED BY <2>1 DEF Missed, Gone, Kept
<1>7. Prompt => \A t, u \in queue : t = u BY DEF ScreenInvariant
<1> QED BY <1>2, <1>3, <1>4, <1>5, <1>6, <1>7, ScreenTypesNext DEF ScreenInvariant

LEMMA ScreenStarts == ASSUME Screen!WindowsAssumption, Screen!Init PROVE ScreenInvariant
<1>1. PICK opened \in BOOLEAN :
        /\ made = (IF opened THEN 2 ELSE 1)
        /\ panes = [w \in 1 .. made |->
                      IF w = 1 THEN Screen!New(Pill, 0, "hidden") ELSE Screen!New(Settings, 0, "active")]
        /\ owner = [s \in Editors \union {Pill} |-> IF s = Pill THEN 1 ELSE IF s = Settings /\ opened THEN 2 ELSE 0]
        /\ focus = 0 /\ latch = {} /\ failures = 0 /\ reports = {} /\ queue = {}
        /\ session = "idle" /\ active = FALSE /\ showIdle \in BOOLEAN
        /\ preparing = FALSE /\ drained = {} /\ ending = FALSE
  BY ScreenFacts DEF Screen!Init
<1>2. made \in 1 .. 2 /\ 1 \in 1 .. made BY <1>1
<1>3. \A s, r : /\ Screen!New(s, 0, r).surface = s /\ Screen!New(s, 0, r).of = 0 /\ Screen!New(s, 0, r).ready = r
                /\ Screen!New(s, 0, r).loaded = FALSE /\ Screen!New(s, 0, r).painted = FALSE
                /\ Screen!New(s, 0, r).destroyed = FALSE
  BY DEF Screen!New
<1>4. \A s \in Editors \union {Pill} : \A r \in {"active", "hidden"} : Screen!New(s, 0, r) \in Screen!Window
  BY ScreenFacts DEF Screen!New, Screen!Window, Screen!Surfaces
<1>5. /\ panes[1] = Screen!New(Pill, 0, "hidden") /\ (opened => panes[2] = Screen!New(Settings, 0, "active"))
      /\ \A w \in 1 .. made : w = 1 \/ (w = 2 /\ opened)
  BY <1>1, <1>2
<1>6. /\ owner[Pill] = 1 /\ (opened => owner[Settings] = 2)
      /\ \A s \in Editors : owner[s] # 0 => opened /\ s = Settings /\ owner[s] = 2
  BY <1>1, ScreenFacts
<1>7. ScreenTypes
  <2>1. panes \in [1 .. made -> Screen!Window] BY <1>1, <1>4, ScreenFacts
  <2>2. made \in 0 .. MaxWindows BY <1>1, ScreenFacts
  <2>3. owner \in [Editors \union {Pill} -> (1 .. made) \union {0}] BY <1>1
  <2>4. ASSUME NEW s \in Editors \union {Pill}, owner[s] # 0 PROVE ~panes[owner[s]].destroyed /\ panes[owner[s]].surface = s
    <3>1. CASE s = Pill BY <1>3, <1>5, <1>6, <3>1
    <3>2. CASE s \in Editors BY <1>3, <1>5, <1>6, <2>4, <3>2
    <3> QED BY <3>1, <3>2
  <2>5. /\ latch \subseteq Editors \union {Pill} /\ reports \subseteq (1 .. made) \X {"load", "gone"}
        /\ queue \subseteq [surface : Editors \union {Pill}, of : 1 .. made, ready : {"inactive", "hidden"}]
        /\ drained \subseteq 1 .. made
    BY <1>1
  <2>6. failures \in 0 .. MaxFailures BY <1>1, ScreenFacts
  <2>7. /\ focus \in (1 .. made) \union {0} /\ session \in {"idle", "busy", "notice"} /\ active \in BOOLEAN
        /\ showIdle \in BOOLEAN /\ preparing \in BOOLEAN /\ ending \in BOOLEAN /\ focus = 0
    BY <1>1
  <2> QED BY <2>1, <2>2, <2>3, <2>4, <2>5, <2>6, <2>7 DEF ScreenTypes
<1>8. ASSUME NEW w \in 1 .. made PROVE Owned(w) /\ Replaces(w)
  <2>1. panes[w].of = 0 BY <1>3, <1>5
  <2>2. owner[panes[w].surface] = w BY <1>3, <1>5, <1>6
  <2> QED BY <2>1, <2>2 DEF Owned, Replaces
<1>9. ASSUME NEW s \in Editors \union {Pill} PROVE Newest(s)
  <2>1. Settings # Pill BY ScreenFacts
  <2>2. \A w \in 1 .. made : panes[w].of = 0 BY <1>3, <1>5
  <2>3. CASE s = Pill
    <3>1. \A w \in 1 .. made : panes[w].surface = s => w = 1 BY <1>3, <1>5, <2>1, <2>3
    <3>2. owner[s] = 1 /\ s \notin latch /\ panes[1].of = 0 BY <1>1, <1>2, <1>6, <2>2, <2>3
    <3> QED BY <3>1, <3>2 DEF Newest
  <2>4. CASE s \in Editors
    <3>1. owner[s] # 0 => owner[s] = 2 /\ 2 \in 1 .. made BY <1>1, <1>6, <2>4
    <3>2. \A w \in 1 .. made : w <= 2 BY <1>2
    <3> QED BY <1>1, <2>2, <3>1, <3>2 DEF Newest
  <2> QED BY <2>3, <2>4
<1>10. ASSUME NEW s \in Editors PROVE Missed(s)
  <2>1. CASE opened /\ s = Settings BY <1>6, <2>1 DEF Missed
  <2>2. CASE ~(opened /\ s = Settings)
    <3>1. \A w \in 1 .. made : panes[w].surface # s BY <1>3, <1>5, <2>2, ScreenFacts
    <3> QED BY <3>1 DEF Missed, Gone
  <2> QED BY <2>1, <2>2
<1>11. Attended BY <1>1 DEF Attended
<1>12. PillIsShown
  <2>1. ~panes[owner[Pill]].painted BY <1>3, <1>5, <1>6
  <2> QED BY <2>1 DEF PillIsShown
<1> QED BY <1>1, <1>7, <1>8, <1>9, <1>10, <1>11, <1>12, ScreenTypesAre DEF ScreenInvariant

-----------------------------------------------------------------------------
(* How windows look *)

\* Types, of what a step leaves alone.
LEMMA TypesStay ==
  ASSUME ScreenTypes, UNCHANGED <<made, owner, latch, queue>>, panes' \in [1 .. made -> Screen!Window],
         \A w \in 1 .. made : panes'[w].surface = panes[w].surface /\ panes'[w].destroyed = panes[w].destroyed,
         failures' \in 0 .. MaxFailures, reports' \subseteq (1 .. made) \X {"load", "gone"},
         session' \in {"idle", "busy", "notice"}, drained' \subseteq 1 .. made,
         active' \in BOOLEAN, showIdle' \in BOOLEAN, preparing' \in BOOLEAN, ending' \in BOOLEAN,
         \/ focus' \in {focus, 0}
         \/ focus' \in 1 .. made /\ ~panes[focus'].destroyed /\ panes[focus'].surface # Pill
  PROVE  ScreenTypes'
<1>1. \A s \in Editors \union {Pill} : owner'[s] # 0 => ~panes'[owner'[s]].destroyed /\ panes'[owner'[s]].surface = s
  BY DEF ScreenTypes
<1>2. focus' \in (1 .. made) \union {0} /\ (focus' # 0 => ~panes'[focus'].destroyed /\ panes'[focus'].surface # Pill)
  BY DEF ScreenTypes
<1> QED BY <1>1, <1>2 DEF ScreenTypes

\* syncPillVisibility() changes the pill alone.
Synced(f, g, b) ==
  /\ g \in [1 .. made -> Screen!Window]
  /\ \A w \in 1 .. made : w # owner[Pill] => g[w] = f[w]
  /\ \A w \in 1 .. made : /\ g[w].surface = f[w].surface /\ g[w].of = f[w].of /\ g[w].ready = f[w].ready
                          /\ g[w].destroyed = f[w].destroyed /\ g[w].loaded = f[w].loaded
                          /\ g[w].asked = f[w].asked /\ g[w].painted = f[w].painted
  /\ owner[Pill] # 0 => g[owner[Pill]].shown = b

LEMMA Syncs ==
  ASSUME ScreenTypes, NEW f \in [1 .. made -> Screen!Window], NEW b \in BOOLEAN
  PROVE  Synced(f, Screen!SyncPill(f, owner[Pill], b), b)
<1> DEFINE g == Screen!SyncPill(f, owner[Pill], b)
<1> HIDE DEF g
<1>1. CASE owner[Pill] = 0
  <2>1. g = f BY <1>1 DEF g, Screen!SyncPill, Screen!NoWindow
  <2> QED BY <1>1, <2>1 DEF Synced, g
<1>2. CASE owner[Pill] # 0
  <2>1. PICK p \in 1 .. made : p = owner[Pill] BY <1>2 DEF ScreenTypes
  <2>2. g = [f EXCEPT ![p].shown = b] BY <1>2, <2>1 DEF g, Screen!SyncPill, Screen!NoWindow
  <2>3. g[p] = [f[p] EXCEPT !.shown = b] /\ \A w \in 1 .. made : w # p => g[w] = f[w] BY <2>2
  <2>4. /\ g[p] \in Screen!Window /\ g[p].shown = b
        /\ g[p].surface = f[p].surface /\ g[p].of = f[p].of /\ g[p].ready = f[p].ready
        /\ g[p].destroyed = f[p].destroyed /\ g[p].loaded = f[p].loaded
        /\ g[p].asked = f[p].asked /\ g[p].painted = f[p].painted
    BY <2>3 DEF Screen!Window
  <2>5. g \in [1 .. made -> Screen!Window] BY <2>2, <2>4
  <2> QED BY <2>1, <2>3, <2>4, <2>5 DEF Synced, g
<1> QED BY <1>1, <1>2

\* What holds of the windows when only how they look has changed.
LEMMA EditingStays ==
  ASSUME made' = made,
         \A w \in 1 .. made : panes'[w].surface = panes[w].surface /\ panes'[w].destroyed = panes[w].destroyed
  PROVE  Editing' = Editing
BY DEF Editing

LEMMA PageStep ==
  ASSUME Screen!WindowsAssumption, ScreenInvariant, NEW w \in 1 .. made, Screen!FailLoad(w) \/ Screen!Crash(w)
  PROVE  ScreenInvariant'
<1>1. ScreenTypes /\ Attended /\ PillIsShown BY ScreenTypesAre DEF ScreenInvariant
<1>2. /\ failures < MaxFailures /\ failures' = failures + 1
      /\ UNCHANGED <<made, owner, focus, latch, queue, session, active, showIdle, preparing, drained, ending>>
      /\ \E k \in {"load", "gone"} : reports' = reports \union {<<w, k>>}
      /\ \E p \in {"failed", "crashed"} : panes' = [panes EXCEPT ![w].page = p]
  BY DEF Screen!FailLoad, Screen!Crash, Screen!sessionVars, Screen!updateVars
<1>3. PICK p \in {"failed", "crashed"} : panes' = [panes EXCEPT ![w].page = p] BY <1>2
<1>4. panes'[w] = [panes[w] EXCEPT !.page = p] /\ \A v \in 1 .. made : v # w => panes'[v] = panes[v]
  BY <1>1, <1>3 DEF ScreenTypes
<1>5. /\ panes'[w] \in Screen!Window /\ panes'[w].shown = panes[w].shown
      /\ panes'[w].surface = panes[w].surface /\ panes'[w].of = panes[w].of /\ panes'[w].ready = panes[w].ready
      /\ panes'[w].destroyed = panes[w].destroyed /\ panes'[w].loaded = panes[w].loaded
      /\ panes'[w].asked = panes[w].asked /\ panes'[w].painted = panes[w].painted
  BY <1>1, <1>4 DEF Screen!Window, ScreenTypes
<1>6. \A v \in 1 .. made : Kept(v) /\ panes'[v].shown = panes[v].shown /\ panes'[v].painted = panes[v].painted
  BY <1>4, <1>5 DEF Kept
<1>7. panes' \in [1 .. made -> Screen!Window] BY <1>1, <1>3, <1>5 DEF ScreenTypes
<1>8. failures' \in 0 .. MaxFailures BY <1>1, <1>2, ScreenFacts DEF ScreenTypes
<1>9. ScreenTypes' BY <1>1, <1>2, <1>6, <1>7, <1>8, TypesStay DEF ScreenTypes, Kept
<1>10. Attended'
  <2>1. Editing' = Editing BY <1>2, <1>6, EditingStays DEF Kept
  <2>2. focus \in 1 .. made \/ focus = 0 BY <1>1 DEF ScreenTypes
  <2> QED BY <1>1, <1>2, <1>6, <2>1, <2>2 DEF Attended, Kept
<1>11. PillIsShown'
  <2>1. owner[Pill] \in 1 .. made \/ owner[Pill] = 0 BY <1>1 DEF ScreenTypes
  <2> QED BY <1>1, <1>2, <1>6, <2>1 DEF PillIsShown
<1> QED BY <1>2, <1>6, <1>9, <1>10, <1>11, Redrawn

\* The user closes a window, which hides it.
LEMMA HideStep ==
  ASSUME Screen!WindowsAssumption, ScreenInvariant, NEW s \in Editors, Screen!Close(s)
  PROVE  ScreenInvariant'
<1>1. ScreenTypes /\ Attended /\ PillIsShown BY ScreenTypesAre DEF ScreenInvariant
<1>2. /\ owner[s] # 0 /\ panes' = [panes EXCEPT ![owner[s]].shown = FALSE] /\ focus' \in {focus, 0}
      /\ UNCHANGED <<made, owner, latch, failures, reports, queue, session, active, showIdle, preparing, drained, ending>>
  BY DEF Screen!Close, Screen!NoWindow, Screen!failureVars, Screen!sessionVars, Screen!updateVars
<1>3. PICK w \in 1 .. made : w = owner[s] BY <1>1, <1>2 DEF ScreenTypes
<1>4. panes'[w] = [panes[w] EXCEPT !.shown = FALSE] /\ \A v \in 1 .. made : v # w => panes'[v] = panes[v]
  BY <1>1, <1>2, <1>3 DEF ScreenTypes
<1>5. /\ panes'[w] \in Screen!Window /\ panes'[w].shown = FALSE
      /\ panes'[w].surface = panes[w].surface /\ panes'[w].of = panes[w].of /\ panes'[w].ready = panes[w].ready
      /\ panes'[w].destroyed = panes[w].destroyed /\ panes'[w].loaded = panes[w].loaded
      /\ panes'[w].asked = panes[w].asked /\ panes'[w].painted = panes[w].painted
  <2>1. PICK b \in BOOLEAN : b = FALSE OBVIOUS
  <2>2. panes'[w] = [panes[w] EXCEPT !.shown = b] BY <1>4, <2>1
  <2>3. panes[w] \in Screen!Window BY <1>1 DEF ScreenTypes
  <2> QED BY <2>1, <2>2, <2>3 DEF Screen!Window
<1>6. ~panes[w].destroyed /\ panes[w].surface = s BY <1>1, <1>2, <1>3 DEF ScreenTypes
<1>7. \A v \in 1 .. made : Kept(v) /\ (panes'[v].shown => panes[v].shown) BY <1>4, <1>5, <1>6 DEF Kept
<1>8. panes' \in [1 .. made -> Screen!Window] BY <1>1, <1>2, <1>3, <1>5 DEF ScreenTypes
<1>9. ScreenTypes' BY <1>1, <1>2, <1>7, <1>8, TypesStay DEF ScreenTypes, Kept
<1>10. Attended'
  <2>1. Editing' = Editing BY <1>2, <1>7, EditingStays DEF Kept
  <2>2. focus \in 1 .. made \/ focus = 0 BY <1>1 DEF ScreenTypes
  <2> QED BY <1>1, <1>2, <1>7, <2>1, <2>2 DEF Attended, Kept
<1>11. PillIsShown'
  <2>1. owner[Pill] \in 1 .. made \/ owner[Pill] = 0 BY <1>1 DEF ScreenTypes
  <2>2. owner[Pill] # 0 => owner[Pill] # w BY <1>1, <1>3, <1>6, ScreenFacts DEF ScreenTypes
  <2> QED BY <1>1, <1>2, <1>4, <2>1, <2>2 DEF PillIsShown
<1> QED BY <1>2, <1>7, <1>9, <1>10, <1>11, Redrawn

-----------------------------------------------------------------------------
(* The dictation *)

\* The pill follows the dictation and the setting.
LEMMA PillFollows ==
  ASSUME Screen!WindowsAssumption, ScreenInvariant, NEW b \in BOOLEAN, panes' = Screen!SyncPill(panes, owner[Pill], b),
         ~ending' => (b <=> session' # "idle" \/ showIdle'),
         UNCHANGED <<made, owner, focus, latch, failures, reports, queue, preparing, drained, ending>>,
         session' \in {"idle", "busy", "notice"}, active' \in BOOLEAN, showIdle' \in BOOLEAN,
         session' = "busy" => active' /\ owner[Pill] # 0
  PROVE  ScreenInvariant'
<1>1. ScreenTypes /\ Attended /\ PillIsShown BY ScreenTypesAre DEF ScreenInvariant
<1>2. panes \in [1 .. made -> Screen!Window] BY <1>1 DEF ScreenTypes
<1>3. /\ panes' \in [1 .. made -> Screen!Window]
      /\ \A w \in 1 .. made : w # owner[Pill] => panes'[w] = panes[w]
      /\ \A w \in 1 .. made : /\ panes'[w].surface = panes[w].surface /\ panes'[w].of = panes[w].of
                              /\ panes'[w].ready = panes[w].ready /\ panes'[w].destroyed = panes[w].destroyed
                              /\ panes'[w].loaded = panes[w].loaded /\ panes'[w].asked = panes[w].asked
                              /\ panes'[w].painted = panes[w].painted
      /\ owner[Pill] # 0 => panes'[owner[Pill]].shown = b
  <2>1. Synced(panes, Screen!SyncPill(panes, owner[Pill], b), b) BY <1>1, <1>2, Syncs
  <2>2. Synced(panes, panes', b) BY <2>1
  <2> QED BY <2>2 DEF Synced
<1>4. owner[Pill] # 0 => owner[Pill] \in 1 .. made /\ ~panes[owner[Pill]].destroyed /\ panes[owner[Pill]].surface = Pill
  BY <1>1 DEF ScreenTypes
<1>5. \A w \in 1 .. made : Kept(w) /\ (panes[w].surface # Pill => panes'[w].shown = panes[w].shown)
  BY <1>3, <1>4 DEF Kept
<1>6. ScreenTypes'
  <2>1. /\ failures' \in 0 .. MaxFailures /\ reports' \subseteq (1 .. made) \X {"load", "gone"} /\ drained' \subseteq 1 .. made
        /\ preparing' \in BOOLEAN /\ ending' \in BOOLEAN
    BY <1>1 DEF ScreenTypes
  <2> QED BY <1>1, <1>3, <2>1, TypesStay
<1>7. Attended'
  <2>1. Editing' = Editing BY <1>3, EditingStays
  <2>2. focus \in 1 .. made \/ focus = 0 BY <1>1 DEF ScreenTypes
  <2> QED BY <1>1, <1>3, <2>1, <2>2 DEF Attended
<1>8. PillIsShown' BY <1>3, <1>4 DEF PillIsShown
<1> QED BY <1>5, <1>6, <1>7, <1>8, Redrawn

LEMMA SessionStep ==
  ASSUME Screen!WindowsAssumption, ScreenInvariant,
         Screen!Begin \/ Screen!ChooseIdle \/ \E next \in {"idle", "notice"} : Screen!End(next)
  PROVE  ScreenInvariant'
<1>1. ScreenTypes /\ Attended /\ PillIsShown BY ScreenTypesAre DEF ScreenInvariant
<1>2. CASE Screen!Begin /\ owner[Pill] = 0
  <2>1. /\ active' = TRUE
        /\ UNCHANGED <<made, panes, owner, focus, latch, failures, reports, queue, session, showIdle, preparing, drained, ending>>
    BY <1>2 DEF Screen!Begin, Screen!NoWindow, Screen!failureVars, Screen!updateVars
  <2>2. ScreenTypes' BY <1>1, <2>1 DEF ScreenTypes
  <2>3. Attended' BY <1>1, <2>1 DEF Attended, Editing
  <2>4. PillIsShown' BY <1>1, <2>1 DEF PillIsShown
  <2>5. \A w \in 1 .. made : Kept(w) /\ panes'[w].shown = panes[w].shown BY <2>1 DEF Kept
  <2> QED BY <2>1, <2>2, <2>3, <2>4, <2>5, Redrawn
<1>3. CASE Screen!Begin /\ owner[Pill] # 0
  <2>1. /\ active' = TRUE /\ session' = "busy" /\ panes' = Screen!SyncPill(panes, owner[Pill], TRUE)
        /\ UNCHANGED <<made, owner, focus, latch, failures, reports, queue, showIdle, preparing, drained, ending>>
    BY <1>3 DEF Screen!Begin, Screen!NoWindow, Screen!failureVars, Screen!updateVars
  <2>2. PICK b \in BOOLEAN : b = TRUE OBVIOUS
  <2>3. panes' = Screen!SyncPill(panes, owner[Pill], b) BY <2>1, <2>2
  <2>4. session' \in {"idle", "busy", "notice"} /\ active' \in BOOLEAN /\ showIdle' \in BOOLEAN BY <1>1, <2>1 DEF ScreenTypes
  <2>5. b <=> session' # "idle" \/ showIdle' BY <2>1, <2>2
  <2> QED BY <1>3, <2>1, <2>3, <2>4, <2>5, PillFollows
<1>4. CASE Screen!ChooseIdle
  <2>1. /\ showIdle' = ~showIdle /\ panes' = Screen!SyncPill(panes, owner[Pill], session # "idle" \/ showIdle')
        /\ UNCHANGED <<made, owner, focus, latch, failures, reports, queue, session, active, preparing, drained, ending>>
    BY <1>4 DEF Screen!ChooseIdle, Screen!failureVars, Screen!sessionVars, Screen!updateVars
  <2>2. PICK b \in BOOLEAN : b = (session # "idle" \/ showIdle') OBVIOUS
  <2>3. panes' = Screen!SyncPill(panes, owner[Pill], b) BY <2>1, <2>2
  <2>4. session' \in {"idle", "busy", "notice"} /\ active' \in BOOLEAN /\ showIdle' \in BOOLEAN BY <1>1, <2>1 DEF ScreenTypes
  <2>5. b <=> session' # "idle" \/ showIdle' BY <2>1, <2>2
  <2>6. session' = "busy" => active' /\ owner[Pill] # 0 BY <1>1, <2>1 DEF Attended
  <2> QED BY <2>1, <2>3, <2>4, <2>5, <2>6, PillFollows
<1>5. CASE \E next \in {"idle", "notice"} : Screen!End(next)
  <2>1. PICK next \in {"idle", "notice"} : Screen!End(next) BY <1>5
  <2>2. /\ session' = next /\ active' = FALSE /\ panes' = Screen!SyncPill(panes, owner[Pill], next # "idle" \/ showIdle)
        /\ UNCHANGED <<made, owner, focus, latch, failures, reports, queue, showIdle, preparing, drained, ending>>
    BY <2>1 DEF Screen!End, Screen!Shown, Screen!failureVars, Screen!updateVars
  <2>3. PICK b \in BOOLEAN : b = (next # "idle" \/ showIdle) OBVIOUS
  <2>4. panes' = Screen!SyncPill(panes, owner[Pill], b) BY <2>2, <2>3
  <2>5. session' \in {"idle", "busy", "notice"} /\ active' \in BOOLEAN /\ showIdle' \in BOOLEAN BY <1>1, <2>2 DEF ScreenTypes
  <2>6. b <=> session' # "idle" \/ showIdle' BY <2>2, <2>3
  <2> QED BY <2>2, <2>4, <2>5, <2>6, PillFollows
<1> QED BY <1>2, <1>3, <1>4, <1>5

\* An update is prepared, and the program ends.
LEMMA UpdateStep ==
  ASSUME Screen!WindowsAssumption, ScreenInvariant, Screen!Prepare \/ Screen!CancelPreparation \/ Screen!Quit
  PROVE  ScreenInvariant'
<1>1. ScreenTypes /\ Attended /\ PillIsShown BY ScreenTypesAre DEF ScreenInvariant
<1>2. /\ UNCHANGED <<made, panes, owner, focus, latch, failures, reports, queue, showIdle>>
      /\ Prompt => queue = {}
  BY DEF Screen!Prepare, Screen!CancelPreparation, Screen!Quit, Screen!windowVars, Screen!failureVars, Screen!Event
<1>3. /\ session' \in {session, "idle"} /\ (session' # session => ending')
      /\ active' \in {active, FALSE} /\ (session' = "busy" => active' = active)
      /\ ending' \in {ending, TRUE} /\ (~ending' => ~ending)
  BY DEF Screen!Prepare, Screen!CancelPreparation, Screen!Quit, Screen!sessionVars
<1>4. \/ UNCHANGED <<preparing, drained>> /\ ending'
      \/ preparing' = FALSE /\ drained' = {}
      \/ preparing' = TRUE /\ drained' = {owner[s] : s \in Editors} \ {0}
  BY DEF Screen!Prepare, Screen!CancelPreparation, Screen!Quit, Screen!updateVars, Screen!NoWindow
<1>5. {owner[s] : s \in Editors} \ {0} = Editing
  <2>1. ASSUME NEW s \in Editors, owner[s] # 0 PROVE owner[s] \in Editing
    BY <1>1, <2>1, ScreenFacts DEF Editing, ScreenTypes
  <2>2. ASSUME NEW w \in Editing PROVE w # 0 /\ \E s \in Editors : w = owner[s]
    <3>1. w \in 1 .. made /\ ~panes[w].destroyed /\ panes[w].surface # Pill BY DEF Editing
    <3>2. panes[w].surface \in Editors BY <1>1, <3>1, ScreenFacts DEF ScreenTypes
    <3>3. owner[panes[w].surface] = w BY <3>1 DEF ScreenInvariant, Owned
    <3> QED BY <3>1, <3>2, <3>3
  <2> QED BY <2>1, <2>2
<1>6. Editing \subseteq 1 .. made BY DEF Editing
<1>7. /\ session' \in {"idle", "busy", "notice"} /\ drained' \subseteq 1 .. made
      /\ active' \in BOOLEAN /\ preparing' \in BOOLEAN /\ ending' \in BOOLEAN
  BY <1>1, <1>3, <1>4, <1>5, <1>6 DEF ScreenTypes
<1>8. ScreenTypes' BY <1>1, <1>2, <1>7 DEF ScreenTypes
<1>9. Attended'
  <2>1. Editing' = Editing BY <1>2, EditingStays
  <2>2. preparing' => Editing' \subseteq drained' /\ (ending' \/ drained' \subseteq Editing')
    BY <1>1, <1>3, <1>4, <1>5, <2>1 DEF Attended
  <2>3. session' = "busy" => active' /\ owner'[Pill] # 0 BY <1>1, <1>2, <1>3 DEF Attended
  <2> QED BY <1>1, <1>2, <2>2, <2>3 DEF Attended
<1>10. PillIsShown' BY <1>1, <1>2, <1>3 DEF PillIsShown
<1>11. \A w \in 1 .. made : Kept(w) /\ panes'[w].shown = panes[w].shown BY <1>2 DEF Kept
<1> QED BY <1>2, <1>8, <1>9, <1>10, <1>11, Redrawn

-----------------------------------------------------------------------------
(* A page is painted or loaded *)

\* g is f but for how w looks.
Marked(f, g, w) ==
  /\ g \in [1 .. made -> Screen!Window]
  /\ \A v \in 1 .. made : v # w => g[v] = f[v]
  /\ g[w].surface = f[w].surface /\ g[w].of = f[w].of /\ g[w].ready = f[w].ready
  /\ g[w].destroyed = f[w].destroyed /\ g[w].loaded = f[w].loaded /\ g[w].asked = f[w].asked

LEMMA Paints ==
  ASSUME NEW f \in [1 .. made -> Screen!Window], NEW w \in 1 .. made, NEW b \in BOOLEAN
  PROVE  /\ Marked(f, [f EXCEPT ![w].painted = b], w) /\ [f EXCEPT ![w].painted = b][w].shown = f[w].shown
         /\ Marked(f, [f EXCEPT ![w].shown = b], w) /\ [f EXCEPT ![w].shown = b][w].painted = f[w].painted
<1>1. f[w] \in Screen!Window OBVIOUS
<1> DEFINE g == [f EXCEPT ![w].painted = b]
           h == [f EXCEPT ![w].shown = b]
<1>2. g[w] = [f[w] EXCEPT !.painted = b] /\ \A v \in 1 .. made : v # w => g[v] = f[v] OBVIOUS
<1>3. /\ g[w] \in Screen!Window
      /\ g[w].surface = f[w].surface /\ g[w].of = f[w].of /\ g[w].ready = f[w].ready /\ g[w].shown = f[w].shown
      /\ g[w].destroyed = f[w].destroyed /\ g[w].loaded = f[w].loaded /\ g[w].asked = f[w].asked
  BY <1>1, <1>2 DEF Screen!Window
<1>4. g \in [1 .. made -> Screen!Window] BY <1>3
<1>5. h[w] = [f[w] EXCEPT !.shown = b] /\ \A v \in 1 .. made : v # w => h[v] = f[v] OBVIOUS
<1>6. /\ h[w] \in Screen!Window
      /\ h[w].surface = f[w].surface /\ h[w].of = f[w].of /\ h[w].ready = f[w].ready /\ h[w].painted = f[w].painted
      /\ h[w].destroyed = f[w].destroyed /\ h[w].loaded = f[w].loaded /\ h[w].asked = f[w].asked
  BY <1>1, <1>5 DEF Screen!Window
<1>7. h \in [1 .. made -> Screen!Window] BY <1>6
<1> HIDE DEF g, h
<1>8. Marked(f, g, w) /\ Marked(f, h, w) BY <1>2, <1>3, <1>4, <1>5, <1>6, <1>7 DEF Marked
<1> QED BY <1>3, <1>6, <1>8 DEF g, h

LEMMA PaintStep ==
  ASSUME Screen!WindowsAssumption, ScreenInvariant, NEW w \in 1 .. made, Screen!Paint(w)
  PROVE  ScreenInvariant'
<1>1. ScreenTypes /\ Attended /\ PillIsShown BY ScreenTypesAre DEF ScreenInvariant
<1>2. panes \in [1 .. made -> Screen!Window] BY <1>1 DEF ScreenTypes
<1>3. PICK b \in BOOLEAN : b = TRUE OBVIOUS
<1>4. PICK f : f = [panes EXCEPT ![w].painted = b] OBVIOUS
<1> DEFINE appears == panes[w].surface # Pill /\ panes[w].ready # "hidden" /\ ~ending /\ ~preparing
<1>5. /\ panes' = IF panes[w].surface = Pill
                  THEN IF ending THEN f ELSE Screen!SyncPill(f, owner[Pill], session # "idle" \/ showIdle)
                  ELSE IF appears THEN [f EXCEPT ![w].shown = b] ELSE f
      /\ focus' = IF appears /\ panes[w].ready = "active" THEN w ELSE focus
      /\ ~panes[w].destroyed
      /\ UNCHANGED <<made, owner, latch, failures, reports, queue, session, active, showIdle, preparing, drained, ending>>
  BY <1>3, <1>4 DEF Screen!Paint, Screen!Live, Screen!ShouldShow, Screen!failureVars, Screen!sessionVars, Screen!updateVars
<1> HIDE DEF appears
<1>6. /\ f \in [1 .. made -> Screen!Window]
      /\ \A v \in 1 .. made : v # w => f[v] = panes[v]
      /\ f[w].surface = panes[w].surface /\ f[w].of = panes[w].of /\ f[w].ready = panes[w].ready
      /\ f[w].destroyed = panes[w].destroyed /\ f[w].loaded = panes[w].loaded /\ f[w].asked = panes[w].asked
      /\ f[w].shown = panes[w].shown
  <2>1. Marked(panes, [panes EXCEPT ![w].painted = b], w) /\ [panes EXCEPT ![w].painted = b][w].shown = panes[w].shown
    BY <1>2, Paints
  <2>2. Marked(panes, f, w) /\ f[w].shown = panes[w].shown BY <1>4, <2>1
  <2> QED BY <2>2 DEF Marked
<1>7. owner[Pill] # 0 => owner[Pill] \in 1 .. made /\ ~panes[owner[Pill]].destroyed /\ panes[owner[Pill]].surface = Pill
  BY <1>1 DEF ScreenTypes
<1>8. w = owner[Pill] <=> panes[w].surface = Pill
  <2>1. Owned(w) BY DEF ScreenInvariant
  <2>2. panes[w].surface = Pill => w = owner[Pill] BY <1>5, <2>1 DEF Owned
  <2> QED BY <1>7, <2>2
<1>9. /\ panes' \in [1 .. made -> Screen!Window]
      /\ \A v \in 1 .. made : v # w => panes'[v] = panes[v]
      /\ panes'[w].surface = panes[w].surface /\ panes'[w].of = panes[w].of /\ panes'[w].ready = panes[w].ready
      /\ panes'[w].destroyed = panes[w].destroyed /\ panes'[w].loaded = panes[w].loaded
      /\ panes'[w].asked = panes[w].asked
      /\ panes[w].surface # Pill /\ panes'[w].shown => panes[w].shown \/ panes[w].ready # "hidden"
      /\ panes[w].surface = Pill /\ ~ending => (panes'[w].shown <=> session # "idle" \/ showIdle)
  <2>1. CASE panes[w].surface = Pill /\ ~ending
    <3>1. PICK c \in BOOLEAN : c = (session # "idle" \/ showIdle) OBVIOUS
    <3>2. panes' = Screen!SyncPill(f, owner[Pill], c) BY <1>5, <2>1, <3>1
    <3>3. Synced(f, Screen!SyncPill(f, owner[Pill], c), c) BY <1>1, <1>6, Syncs
    <3>4. Synced(f, panes', c) BY <3>2, <3>3
    <3>5. w = owner[Pill] /\ owner[Pill] # 0 BY <1>8, <2>1
    <3> QED BY <1>6, <2>1, <3>1, <3>4, <3>5 DEF Synced
  <2>2. CASE panes' = f /\ (panes[w].surface # Pill \/ ending) BY <1>6, <2>2
  <2>3. CASE panes[w].surface # Pill /\ appears
    <3>1. panes' = [f EXCEPT ![w].shown = b] BY <1>5, <2>3
    <3>2. Marked(f, [f EXCEPT ![w].shown = b], w) BY <1>6, Paints
    <3>3. Marked(f, panes', w) BY <3>1, <3>2
    <3>4. panes[w].ready # "hidden" BY <2>3 DEF appears
    <3> QED BY <1>6, <2>3, <3>3, <3>4 DEF Marked
  <2> QED BY <1>5, <2>1, <2>2, <2>3
<1>10. \A v \in 1 .. made : Kept(v) BY <1>5, <1>9 DEF Kept
<1>11. ASSUME NEW v \in 1 .. made, panes[v].surface # Pill, panes[v].of # 0, panes'[v].shown
       PROVE  panes[v].shown \/ panes[v].ready = "inactive"
  <2>1. Replaces(v) BY DEF ScreenInvariant
  <2>2. panes[v].ready \in {"inactive", "hidden"} BY <1>2, <1>11, <2>1, ScreenFacts DEF Replaces
  <2> QED BY <1>9, <1>11, <2>2
<1>12. focus' \in {focus, 0} \/ (focus' \in 1 .. made /\ ~panes[focus'].destroyed /\ panes[focus'].surface # Pill)
  BY <1>5 DEF appears
<1>13. ScreenTypes'
  <2>1. /\ failures' \in 0 .. MaxFailures /\ reports' \subseteq (1 .. made) \X {"load", "gone"} /\ drained' \subseteq 1 .. made
        /\ session' \in {"idle", "busy", "notice"} /\ active' \in BOOLEAN /\ showIdle' \in BOOLEAN
        /\ preparing' \in BOOLEAN /\ ending' \in BOOLEAN
    BY <1>1, <1>5 DEF ScreenTypes
  <2>2. UNCHANGED <<made, owner, latch, queue>> BY <1>5
  <2> QED BY <1>1, <1>9, <1>10, <1>12, <2>1, <2>2, TypesStay DEF Kept
<1>14. Attended'
  <2>1. Editing' = Editing BY <1>5, <1>10, EditingStays DEF Kept
  <2>2. focus' # 0 => panes'[focus'].of = 0 \/ panes'[focus'].asked
    <3>1. CASE focus' = focus
      <4>1. focus \in 1 .. made \/ focus = 0 BY <1>1 DEF ScreenTypes
      <4> QED BY <1>1, <1>10, <3>1, <4>1 DEF Attended, Kept
    <3>2. CASE focus' = w /\ panes[w].ready = "active"
      <4>1. Replaces(w) BY DEF ScreenInvariant
      <4> QED BY <1>9, <3>2, <4>1 DEF Replaces
    <3> QED BY <1>5, <3>1, <3>2
  <2> QED BY <1>1, <1>5, <2>1, <2>2 DEF Attended
<1>15. PillIsShown'
  <2>1. CASE w = owner[Pill] BY <1>5, <1>8, <1>9, <2>1 DEF PillIsShown
  <2>2. CASE w # owner[Pill] BY <1>1, <1>5, <1>7, <1>9, <2>2 DEF PillIsShown
  <2> QED BY <2>1, <2>2
<1> QED BY <1>5, <1>10, <1>11, <1>13, <1>14, <1>15, Redrawn

\* A window that has loaded is replaced by itself again.
LEMMA FinishStep ==
  ASSUME Screen!WindowsAssumption, ScreenInvariant, NEW w \in 1 .. made, Screen!FinishLoad(w)
  PROVE  ScreenInvariant'
<1>1. ScreenTypes /\ Attended /\ PillIsShown BY ScreenTypesAre DEF ScreenInvariant
<1>2. PICK s \in Editors \union {Pill} : s = panes[w].surface BY <1>1, ScreenFacts DEF ScreenTypes
<1>3. /\ panes' = [panes EXCEPT ![w].page = "loaded", ![w].loaded = TRUE]
      /\ latch' = IF owner[s] = w THEN latch \ {s} ELSE latch
      /\ ~panes[w].destroyed
      /\ UNCHANGED <<made, owner, focus, failures, reports, queue, session, active, showIdle, preparing, drained, ending>>
  BY <1>2 DEF Screen!FinishLoad, Screen!Live, Screen!sessionVars, Screen!updateVars
<1>4. owner[s] = w BY <1>2, <1>3 DEF ScreenInvariant, Owned
<1>5. /\ panes'[w].surface = panes[w].surface /\ panes'[w].of = panes[w].of /\ panes'[w].ready = panes[w].ready
      /\ panes'[w].destroyed = panes[w].destroyed /\ panes'[w].loaded
      /\ panes'[w].asked = panes[w].asked /\ panes'[w].painted = panes[w].painted /\ panes'[w].shown = panes[w].shown
      /\ panes'[w] \in Screen!Window /\ \A v \in 1 .. made : v # w => panes'[v] = panes[v]
  <2>1. PICK b \in BOOLEAN : b = TRUE OBVIOUS
  <2>2. panes' = [panes EXCEPT ![w] = [panes[w] EXCEPT !.page = "loaded", !.loaded = b]]
    BY <1>1, <1>3, <2>1 DEF ScreenTypes
  <2>3. panes'[w] = [panes[w] EXCEPT !.page = "loaded", !.loaded = b] /\ \A v \in 1 .. made : v # w => panes'[v] = panes[v]
    BY <1>1, <2>2 DEF ScreenTypes
  <2>4. panes[w] \in Screen!Window BY <1>1 DEF ScreenTypes
  <2>5. /\ panes'[w].surface = panes[w].surface /\ panes'[w].of = panes[w].of /\ panes'[w].ready = panes[w].ready
        /\ panes'[w].destroyed = panes[w].destroyed /\ panes'[w].loaded = b
        /\ panes'[w].asked = panes[w].asked /\ panes'[w].painted = panes[w].painted /\ panes'[w].shown = panes[w].shown
        /\ panes'[w] \in Screen!Window
    BY <2>3, <2>4 DEF Screen!Window
  <2> QED BY <2>1, <2>3, <2>5
<1>6. \A v \in 1 .. made :
        /\ panes'[v].surface = panes[v].surface /\ panes'[v].of = panes[v].of /\ panes'[v].ready = panes[v].ready
        /\ panes'[v].destroyed = panes[v].destroyed /\ panes'[v].shown = panes[v].shown
        /\ panes'[v].asked = panes[v].asked /\ panes'[v].painted = panes[v].painted
        /\ v # w => panes'[v].loaded = panes[v].loaded
  BY <1>5
<1>7. ScreenTypes'
  <2>1. panes' \in [1 .. made -> Screen!Window] BY <1>1, <1>3, <1>5 DEF ScreenTypes
  <2>2. latch' \subseteq Editors \union {Pill} BY <1>1, <1>3 DEF ScreenTypes
  <2>3. \A r \in Editors \union {Pill} : owner'[r] # 0 => ~panes'[owner'[r]].destroyed /\ panes'[owner'[r]].surface = r
    BY <1>1, <1>3, <1>6 DEF ScreenTypes
  <2>4. focus' # 0 => ~panes'[focus'].destroyed /\ panes'[focus'].surface # Pill BY <1>1, <1>3, <1>6 DEF ScreenTypes
  <2> QED BY <1>1, <1>3, <2>1, <2>2, <2>3, <2>4 DEF ScreenTypes
<1>8. ASSUME NEW v \in 1 .. made PROVE Owned(v)' /\ Replaces(v)'
  <2>1. Owned(v) /\ Replaces(v) BY DEF ScreenInvariant
  <2>2. Owned(v)' BY <1>3, <1>6, <2>1 DEF Owned
  <2>3. CASE panes[v].of = 0
    <3>1. panes'[v].of = 0 BY <1>6, <2>3
    <3> QED BY <2>2, <3>1 DEF Replaces
  <2>4. CASE panes[v].of # 0
    <3>1. PICK u \in 1 .. made : u = panes[v].of BY <2>1, <2>4 DEF Replaces
    <3>2. u # w BY <1>3, <2>1, <2>4, <3>1 DEF Replaces
    <3>3. /\ panes'[v].of = u /\ panes'[v].surface = panes[v].surface /\ panes'[v].ready = panes[v].ready
          /\ panes'[v].shown = panes[v].shown /\ panes'[v].asked = panes[v].asked
          /\ panes'[u] = panes[u]
      BY <1>5, <1>6, <3>1, <3>2
    <3>4. /\ panes[u].destroyed /\ panes[u].surface = panes[v].surface /\ (panes[u].loaded \/ panes[u].of = 0)
          /\ panes[v].ready # "active"
          /\ panes[v].surface # Pill /\ panes[v].ready = "inactive" => panes[u].shown
          /\ panes[v].surface # Pill /\ panes[v].shown => panes[v].asked \/ panes[u].shown
      BY <2>1, <2>4, <3>1 DEF Replaces
    <3>5. u \in 1 .. made' BY <1>3
    <3>6. Replaces(v)' BY <3>3, <3>4, <3>5 DEF Replaces
    <3> QED BY <2>2, <3>6
  <2> QED BY <2>2, <2>3, <2>4
<1>9. ASSUME NEW r \in Editors \union {Pill} PROVE Newest(r)'
  <2>1. Newest(r) BY DEF ScreenInvariant
  <2>2. owner[r] # 0 => owner[r] \in 1 .. made /\ panes[owner[r]].surface = r BY <1>1 DEF ScreenTypes
  <2>3. CASE r = s
    <3>1. r \notin latch' BY <1>3, <1>4, <2>3
    <3>2. \A v \in 1 .. made : panes'[v].surface = r => v <= w BY <1>4, <1>6, <2>1, <2>3 DEF Newest
    <3>3. owner'[r] = w /\ made' = made /\ panes'[w].loaded BY <1>3, <1>4, <1>5, <2>3
    <3> QED BY <3>1, <3>2, <3>3 DEF Newest
  <2>4. CASE r # s
    <3>1. owner[r] # 0 => owner[r] # w BY <1>2, <2>2, <2>4
    <3>2. r \in latch' <=> r \in latch BY <1>3, <2>4
    <3>3. CASE owner[r] = 0 BY <1>3, <3>3 DEF Newest
    <3>4. CASE owner[r] # 0
      <4>1. panes'[owner[r]] = panes[owner[r]] BY <1>5, <2>2, <3>1, <3>4
      <4>2. \A v \in 1 .. made : panes'[v].surface = r => v <= owner[r] BY <1>6, <2>1, <3>4 DEF Newest
      <4>3. owner'[r] = owner[r] /\ made' = made BY <1>3
      <4>4. r \in latch <=> panes[owner[r]].of # 0 /\ ~panes[owner[r]].loaded BY <2>1, <3>4 DEF Newest
      <4> QED BY <3>2, <4>1, <4>2, <4>3, <4>4 DEF Newest
    <3> QED BY <3>3, <3>4
  <2> QED BY <2>3, <2>4
<1>10. ASSUME NEW t \in queue PROVE Waits(t)'
  <2>1. Waits(t) /\ t.of \in 1 .. made BY <1>1 DEF ScreenInvariant, ScreenTypes
  <2>2. t.of # w BY <1>3, <2>1 DEF Waits
  <2>3. owner[t.surface] = 0 => t.surface # s BY <1>4
  <2>4. owner'[t.surface] = 0 => t.surface \in latch' BY <1>3, <2>1, <2>3 DEF Waits
  <2> QED BY <1>3, <1>6, <2>1, <2>2, <2>4 DEF Waits
<1>11. ASSUME Prompt, NEW r \in Editors PROVE Missed(r)'
  <2>1. Missed(r) BY <1>11 DEF ScreenInvariant
  <2> SUFFICES ASSUME owner[r] = 0 PROVE Gone(r)' BY <1>3 DEF Missed
  <2>2. panes[w].surface # r
    <3>1. owner[s] # 0 BY <1>4
    <3> QED BY <1>2, <3>1
  <2>3. UNCHANGED <<made, queue>> BY <1>3
  <2>4. Gone(r) BY <2>1 DEF Missed
  <2>5. CASE \E v \in 1 .. made : /\ panes[v].surface = r /\ \A u \in 1 .. made : panes[u].surface = r => u <= v
                                  /\ ~panes[v].loaded /\ panes[v].of # 0
    <3>1. PICK v \in 1 .. made : /\ panes[v].surface = r /\ \A u \in 1 .. made : panes[u].surface = r => u <= v
                                 /\ ~panes[v].loaded /\ panes[v].of # 0
      BY <2>5
    <3>2. panes'[v] = panes[v] BY <1>5, <2>2, <3>1
    <3>3. \A u \in 1 .. made : panes'[u].surface = r => u <= v BY <1>6, <3>1
    <3> QED BY <2>3, <3>1, <3>2, <3>3 DEF Gone
  <2>6. CASE \E t \in queue : t.surface = r BY <2>3, <2>6 DEF Gone
  <2>7. CASE \A v \in 1 .. made : panes[v].surface # r BY <1>6, <2>3, <2>7 DEF Gone
  <2> QED BY <2>4, <2>5, <2>6, <2>7 DEF Gone
<1>12. Attended'
  <2>1. Editing' = Editing BY <1>3, <1>6, EditingStays
  <2>2. focus \in 1 .. made \/ focus = 0 BY <1>1 DEF ScreenTypes
  <2> QED BY <1>1, <1>3, <1>6, <2>1, <2>2 DEF Attended
<1>13. PillIsShown'
  <2>1. owner[Pill] \in 1 .. made \/ owner[Pill] = 0 BY <1>1 DEF ScreenTypes
  <2> QED BY <1>1, <1>3, <1>6, <2>1 DEF PillIsShown
<1>14. Prompt => \A t, u \in queue' : t = u BY <1>3 DEF ScreenInvariant
<1> QED BY <1>3, <1>7, <1>8, <1>9, <1>10, <1>11, <1>12, <1>13, <1>14, ScreenTypesNext DEF ScreenInvariant

-----------------------------------------------------------------------------
(* The failure of a window *)

LEMMA RecoverStep ==
  ASSUME Screen!WindowsAssumption, ScreenInvariant, NEW w \in 1 .. made, Screen!Recover(w),
         ~ending, ~Screen!Handled(w), Prompt => queue = {},
         reports' \subseteq reports, UNCHANGED <<made, failures, showIdle, ending>>
  PROVE  ScreenInvariant'
<1>1. ScreenTypes /\ Attended /\ PillIsShown BY ScreenTypesAre DEF ScreenInvariant
<1>2. PICK s \in Editors \union {Pill} : s = panes[w].surface BY <1>1, ScreenFacts DEF ScreenTypes
<1>3. ~panes[w].destroyed BY DEF Screen!Handled
<1>4. owner[s] = w BY <1>2, <1>3 DEF ScreenInvariant, Owned
<1>5. /\ panes' = [panes EXCEPT ![w].destroyed = TRUE, ![w].page = "crashed", ![w].painted = TRUE]
      /\ owner' = [owner EXCEPT ![s] = IF @ = w THEN 0 ELSE @]
      /\ focus' = IF focus = w THEN 0 ELSE focus
      /\ IF w \in drained THEN preparing' = FALSE /\ drained' = {} ELSE UNCHANGED <<preparing, drained>>
      /\ IF s = Pill /\ active THEN session' = "notice" /\ active' = FALSE ELSE UNCHANGED <<session, active>>
      /\ IF s \notin latch
         THEN /\ latch' = latch \union {s}
              /\ queue' = queue \union {[surface |-> s, of |-> w,
                                         ready |-> IF panes[w].shown THEN "inactive" ELSE "hidden"]}
         ELSE UNCHANGED <<latch, queue>>
  BY <1>2 DEF Screen!Recover, Screen!Without, Screen!EndsPreparation, Screen!FailsDictation, Screen!Recreates,
              Screen!NoWindow, Screen!updateVars, Screen!sessionVars
<1>6. owner'[s] = 0 /\ \A r \in Editors \union {Pill} : r # s => owner'[r] = owner[r]
  BY <1>1, <1>4, <1>5 DEF ScreenTypes
<1>7. /\ panes'[w].surface = panes[w].surface /\ panes'[w].of = panes[w].of /\ panes'[w].ready = panes[w].ready
      /\ panes'[w].destroyed /\ panes'[w].loaded = panes[w].loaded
      /\ panes'[w].asked = panes[w].asked /\ panes'[w].shown = panes[w].shown
      /\ panes'[w] \in Screen!Window /\ \A v \in 1 .. made : v # w => panes'[v] = panes[v]
  <2>1. PICK b \in BOOLEAN : b = TRUE OBVIOUS
  <2>2. panes' = [panes EXCEPT ![w] = [panes[w] EXCEPT !.destroyed = b, !.page = "crashed", !.painted = b]]
    BY <1>1, <1>5, <2>1 DEF ScreenTypes
  <2>3. /\ panes'[w] = [panes[w] EXCEPT !.destroyed = b, !.page = "crashed", !.painted = b]
        /\ \A v \in 1 .. made : v # w => panes'[v] = panes[v]
    BY <1>1, <2>2 DEF ScreenTypes
  <2>4. panes[w] \in Screen!Window BY <1>1 DEF ScreenTypes
  <2>5. /\ panes'[w].surface = panes[w].surface /\ panes'[w].of = panes[w].of /\ panes'[w].ready = panes[w].ready
        /\ panes'[w].destroyed = b /\ panes'[w].loaded = panes[w].loaded
        /\ panes'[w].asked = panes[w].asked /\ panes'[w].shown = panes[w].shown
        /\ panes'[w] \in Screen!Window
    BY <2>3, <2>4 DEF Screen!Window
  <2> QED BY <2>1, <2>3, <2>5
<1>8. \A v \in 1 .. made :
        /\ panes'[v].surface = panes[v].surface /\ panes'[v].of = panes[v].of /\ panes'[v].ready = panes[v].ready
        /\ panes'[v].loaded = panes[v].loaded /\ panes'[v].shown = panes[v].shown /\ panes'[v].asked = panes[v].asked
        /\ v # w => panes'[v].destroyed = panes[v].destroyed
  BY <1>7
<1>9. \A r \in Editors \union {Pill} : owner[r] # 0 => owner[r] \in 1 .. made /\ ~panes[owner[r]].destroyed /\ panes[owner[r]].surface = r
  BY <1>1 DEF ScreenTypes
<1>10. \A r \in Editors \union {Pill} : r # s => owner[r] # w BY <1>2, <1>9
<1>11. PICK m \in {"inactive", "hidden"} : m = IF panes[w].shown THEN "inactive" ELSE "hidden" OBVIOUS
<1>12. PICK t : t = [surface |-> s, of |-> w, ready |-> m] OBVIOUS
<1>13. /\ t \in [surface : Editors \union {Pill}, of : 1 .. made, ready : {"inactive", "hidden"}]
       /\ t.surface = s /\ t.of = w /\ t.ready = m
       /\ s \notin latch => latch' = latch \union {s} /\ queue' = queue \union {t}
       /\ s \in latch => latch' = latch /\ queue' = queue
  BY <1>5, <1>11, <1>12
<1>14. Editing' = Editing \ {w}
  <2>1. ASSUME NEW v \in 1 .. made PROVE v \in Editing' <=> v \in Editing /\ v # w BY <1>7, <1>8 DEF Editing
  <2>2. Editing' \subseteq 1 .. made /\ Editing \subseteq 1 .. made BY DEF Editing
  <2> QED BY <2>1, <2>2
<1>15. panes[w].surface # Pill => w \in Editing BY <1>3 DEF Editing
<1>16. preparing' => preparing /\ drained' = drained /\ w \notin drained /\ s = Pill /\ Editing' = Editing
  <2>1. preparing' => preparing /\ drained' = drained /\ w \notin drained BY <1>5
  <2>2. preparing' => w \notin Editing BY <1>1, <2>1 DEF Attended
  <2> QED BY <1>2, <1>14, <1>15, <2>1, <2>2
<1>17. ScreenTypes'
  <2>1. panes' \in [1 .. made -> Screen!Window] BY <1>1, <1>5, <1>7 DEF ScreenTypes
  <2>2. owner' \in [Editors \union {Pill} -> (1 .. made) \union {0}] BY <1>1, <1>5, <1>6 DEF ScreenTypes
  <2>3. ASSUME NEW r \in Editors \union {Pill}, owner'[r] # 0
        PROVE  ~panes'[owner'[r]].destroyed /\ panes'[owner'[r]].surface = r
    <3>1. r # s /\ owner'[r] = owner[r] /\ owner[r] # w BY <1>6, <1>10, <2>3
    <3> QED BY <1>8, <1>9, <2>3, <3>1
  <2>4. focus' \in (1 .. made) \union {0} /\ (focus' # 0 => ~panes'[focus'].destroyed /\ panes'[focus'].surface # Pill)
    BY <1>1, <1>5, <1>8 DEF ScreenTypes
  <2>5. latch' \subseteq Editors \union {Pill}
        /\ queue' \subseteq [surface : Editors \union {Pill}, of : 1 .. made, ready : {"inactive", "hidden"}]
    BY <1>1, <1>13 DEF ScreenTypes
  <2>6. /\ failures' \in 0 .. MaxFailures /\ showIdle' \in BOOLEAN /\ ending' \in BOOLEAN /\ made' \in 0 .. MaxWindows
        /\ reports' \subseteq (1 .. made) \X {"load", "gone"}
    BY <1>1 DEF ScreenTypes
  <2>7. session' \in {"idle", "busy", "notice"} /\ active' \in BOOLEAN BY <1>1, <1>5 DEF ScreenTypes
  <2>8. preparing' \in BOOLEAN /\ drained' \subseteq 1 .. made BY <1>1, <1>5 DEF ScreenTypes
  <2> QED BY <2>1, <2>2, <2>3, <2>4, <2>5, <2>6, <2>7, <2>8 DEF ScreenTypes
<1>18. ASSUME NEW v \in 1 .. made PROVE Owned(v)' /\ Replaces(v)'
  <2>1. Owned(v) /\ Replaces(v) BY DEF ScreenInvariant
  <2>2. Owned(v)'
    <3>1. CASE v = w BY <1>7, <3>1 DEF Owned
    <3>2. CASE v # w
      <4>1. panes[v].surface \in Editors \union {Pill} BY <1>1, ScreenFacts DEF ScreenTypes
      <4>2. ~panes[v].destroyed => panes[v].surface # s BY <1>4, <2>1, <3>2 DEF Owned
      <4> QED BY <1>6, <1>8, <2>1, <3>2, <4>1, <4>2 DEF Owned
    <3> QED BY <3>1, <3>2
  <2>3. CASE panes[v].of = 0
    <3>1. panes'[v].of = 0 BY <1>8, <2>3
    <3> QED BY <2>2, <3>1 DEF Replaces
  <2>4. CASE panes[v].of # 0
    <3>1. PICK u \in 1 .. made : u = panes[v].of BY <2>1, <2>4 DEF Replaces
    <3>2. u # w BY <1>3, <2>1, <2>4, <3>1 DEF Replaces
    <3>3. /\ panes'[v].of = u /\ panes'[v].surface = panes[v].surface /\ panes'[v].ready = panes[v].ready
          /\ panes'[v].shown = panes[v].shown /\ panes'[v].asked = panes[v].asked
          /\ panes'[u] = panes[u]
      BY <1>7, <1>8, <3>1, <3>2
    <3>4. /\ panes[u].destroyed /\ panes[u].surface = panes[v].surface /\ (panes[u].loaded \/ panes[u].of = 0)
          /\ panes[v].ready # "active"
          /\ panes[v].surface # Pill /\ panes[v].ready = "inactive" => panes[u].shown
          /\ panes[v].surface # Pill /\ panes[v].shown => panes[v].asked \/ panes[u].shown
      BY <2>1, <2>4, <3>1 DEF Replaces
    <3>5. u \in 1 .. made' OBVIOUS
    <3>6. Replaces(v)' BY <3>3, <3>4, <3>5 DEF Replaces
    <3> QED BY <2>2, <3>6
  <2> QED BY <2>2, <2>3, <2>4
<1>19. ASSUME NEW r \in Editors \union {Pill} PROVE Newest(r)'
  <2>1. Newest(r) BY DEF ScreenInvariant
  <2>2. CASE r = s BY <1>6, <2>2 DEF Newest
  <2>3. CASE r # s
    <3>1. owner'[r] = owner[r] /\ (r \in latch' <=> r \in latch) BY <1>6, <1>13, <2>3
    <3>2. CASE owner[r] = 0 BY <3>1, <3>2 DEF Newest
    <3>3. CASE owner[r] # 0
      <4>1. panes'[owner[r]] = panes[owner[r]] BY <1>7, <1>9, <1>10, <2>3, <3>3
      <4>2. \A v \in 1 .. made : panes'[v].surface = r => v <= owner[r] BY <1>8, <2>1, <3>3 DEF Newest
      <4>3. r \in latch <=> panes[owner[r]].of # 0 /\ ~panes[owner[r]].loaded BY <2>1, <3>3 DEF Newest
      <4> QED BY <3>1, <4>1, <4>2, <4>3 DEF Newest
    <3> QED BY <3>2, <3>3
  <2> QED BY <2>2, <2>3
<1>20. s \in latch <=> panes[w].of # 0 /\ ~panes[w].loaded
  <2>1. Newest(s) BY DEF ScreenInvariant
  <2> QED BY <1>4, <2>1 DEF Newest
<1>21. ASSUME NEW q \in queue' PROVE Waits(q)'
  <2>1. CASE q \in queue
    <3>1. Waits(q) /\ q.of \in 1 .. made /\ q.surface \in Editors \union {Pill} BY <1>1, <2>1 DEF ScreenInvariant, ScreenTypes
    <3>2. q.of # w BY <1>3, <3>1 DEF Waits
    <3>3. owner'[q.surface] = 0 => q.surface \in latch' BY <1>6, <1>13, <3>1 DEF Waits
    <3>4. ~Prompt BY <2>1
    <3> QED BY <1>7, <3>1, <3>2, <3>3, <3>4 DEF Waits
  <2>2. CASE s \notin latch /\ q = t
    <3>1. panes'[w].destroyed /\ panes'[w].surface = s /\ (panes'[w].loaded \/ panes'[w].of = 0)
      <4>1. panes[w].of \in 0 .. MaxWindows /\ panes[w].loaded \in BOOLEAN BY <1>1, ScreenFacts DEF ScreenTypes
      <4> QED BY <1>2, <1>7, <1>20, <2>2, <4>1
    <3>2. m = "inactive" => panes'[w].shown BY <1>7, <1>11
    <3>3. s \in latch' /\ owner'[s] = 0 BY <1>6, <1>13, <2>2
    <3>4. s \in Editors => ~preparing' BY <1>16, ScreenFacts
    <3>5. ~ending' OBVIOUS
    <3>6. q.surface = s /\ q.of = w /\ q.ready = m BY <1>13, <2>2
    <3> QED BY <3>1, <3>2, <3>3, <3>4, <3>5, <3>6 DEF Waits
  <2> QED BY <1>13, <2>1, <2>2
<1>22. ASSUME Prompt PROVE \A q, u \in queue' : q = u
  <2>1. queue = {} BY <1>22
  <2>2. queue' \subseteq {t} BY <1>13, <2>1
  <2> QED BY <2>2
<1>23. ASSUME Prompt, NEW r \in Editors PROVE Missed(r)'
  <2> SUFFICES ASSUME owner'[r] = 0 PROVE Gone(r)' BY DEF Missed
  <2>1. CASE r = s /\ s \notin latch
    <3>1. t \in queue' /\ t.surface = r BY <1>13, <2>1
    <3> QED BY <3>1 DEF Gone
  <2>2. CASE r = s /\ s \in latch
    <3>1. Newest(s) BY DEF ScreenInvariant
    <3>2. \A v \in 1 .. made : panes'[v].surface = r => v <= w BY <1>4, <1>8, <2>2, <3>1 DEF Newest
    <3>3. panes'[w].surface = r /\ ~panes'[w].loaded /\ panes'[w].of # 0 BY <1>2, <1>7, <1>20, <2>2
    <3>4. w \in 1 .. made' OBVIOUS
    <3>5. \A v \in 1 .. made' : panes'[v].surface = r => v <= w BY <3>2
    <3> QED BY <3>3, <3>4, <3>5 DEF Gone
  <2>3. CASE r # s
    <3>1. Missed(r) BY <1>23 DEF ScreenInvariant
    <3>2. Gone(r) BY <1>6, <2>3, <3>1 DEF Missed
    <3>3. CASE \E q \in queue : q.surface = r
      <4>1. queue \subseteq queue' BY <1>13
      <4> QED BY <3>3, <4>1 DEF Gone
    <3>4. CASE \A v \in 1 .. made : panes[v].surface # r BY <1>8, <3>4 DEF Gone
    <3>5. CASE \E v \in 1 .. made : /\ panes[v].surface = r /\ \A u \in 1 .. made : panes[u].surface = r => u <= v
                                    /\ ~panes[v].loaded /\ panes[v].of # 0
      <4>1. PICK v \in 1 .. made : /\ panes[v].surface = r /\ \A u \in 1 .. made : panes[u].surface = r => u <= v
                                   /\ ~panes[v].loaded /\ panes[v].of # 0
        BY <3>5
      <4>2. /\ panes'[v].surface = r /\ ~panes'[v].loaded /\ panes'[v].of # 0
            /\ \A u \in 1 .. made' : panes'[u].surface = r => u <= v
        BY <1>8, <4>1
      <4>3. v \in 1 .. made' OBVIOUS
      <4> QED BY <4>2, <4>3 DEF Gone
    <3> QED BY <3>2, <3>3, <3>4, <3>5 DEF Gone
  <2> QED BY <2>1, <2>2, <2>3
<1>24. Attended'
  <2>1. preparing' => Editing' \subseteq drained' /\ (ending' \/ drained' \subseteq Editing') BY <1>1, <1>16 DEF Attended
  <2>2. session' = "busy" => active' /\ owner'[Pill] # 0
    <3>1. CASE s = Pill BY <1>1, <1>5, <3>1 DEF Attended
    <3>2. CASE s # Pill BY <1>1, <1>5, <1>6, <3>2 DEF Attended
    <3> QED BY <3>1, <3>2
  <2>3. focus' # 0 => focus' = focus /\ focus \in 1 .. made BY <1>1, <1>5 DEF ScreenTypes
  <2>4. focus' # 0 => panes'[focus'].of = 0 \/ panes'[focus'].asked BY <1>1, <1>8, <2>3 DEF Attended
  <2> QED BY <2>1, <2>2, <2>4 DEF Attended
<1>25. PillIsShown'
  <2>1. CASE s = Pill BY <1>6, <2>1 DEF PillIsShown
  <2>2. CASE s # Pill
    <3>1. owner'[Pill] = owner[Pill] /\ session' = session BY <1>5, <1>6, <2>2
    <3>2. owner[Pill] # 0 => panes'[owner[Pill]] = panes[owner[Pill]] BY <1>7, <1>9, <1>10, <2>2
    <3> QED BY <1>1, <3>1, <3>2 DEF PillIsShown
  <2> QED BY <2>1, <2>2
<1>26. \A v \in 1 .. made' : Owned(v)' /\ Replaces(v)' BY <1>18
<1> QED BY <1>17, <1>19, <1>21, <1>22, <1>23, <1>24, <1>25, <1>26, ScreenTypesNext DEF ScreenInvariant

LEMMA ReportStep ==
  ASSUME Screen!WindowsAssumption, ScreenInvariant, NEW r \in reports, Screen!Report(r)
  PROVE  ScreenInvariant'
<1>1. ScreenTypes /\ Attended /\ PillIsShown BY ScreenTypesAre DEF ScreenInvariant
<1>2. r[1] \in 1 .. made BY <1>1 DEF ScreenTypes
<1>3. reports' \subseteq reports /\ UNCHANGED <<made, failures, showIdle, ending>> /\ (Prompt => queue = {})
  BY DEF Screen!Report, Screen!Event
<1>4. CASE ending \/ Screen!Handled(r[1])
  <2>1. UNCHANGED <<made, panes, owner, focus, latch, failures, queue, session, active, showIdle, preparing, drained, ending>>
    BY <1>4 DEF Screen!Report, Screen!updateVars, Screen!sessionVars
  <2>2. ScreenTypes' BY <1>1, <1>3, <2>1 DEF ScreenTypes
  <2>3. Attended' BY <1>1, <2>1 DEF Attended, Editing
  <2>4. PillIsShown' BY <1>1, <2>1 DEF PillIsShown
  <2>5. \A w \in 1 .. made : Kept(w) /\ panes'[w].shown = panes[w].shown BY <2>1 DEF Kept
  <2> QED BY <2>1, <2>2, <2>3, <2>4, <2>5, Redrawn
<1>5. CASE ~ending /\ ~Screen!Handled(r[1])
  <2>1. Screen!Recover(r[1]) BY <1>5 DEF Screen!Report
  <2> QED BY <1>2, <1>3, <1>5, <2>1, RecoverStep
<1> QED BY <1>4, <1>5

-----------------------------------------------------------------------------
(* A window is made *)

\* What may become the window of a surface that has none.
Fits(s, r) ==
  /\ r \in Screen!Window /\ r.surface = s /\ ~r.destroyed /\ ~r.loaded /\ ~r.painted
  /\ r.of # 0 =>
       /\ r.of \in 1 .. made /\ panes[r.of].destroyed /\ panes[r.of].surface = s
       /\ panes[r.of].loaded \/ panes[r.of].of = 0
       /\ r.ready # "active"
       /\ s # Pill /\ r.ready = "inactive" => panes[r.of].shown
       /\ s # Pill /\ r.shown => r.asked \/ panes[r.of].shown

LEMMA MadeStep ==
  ASSUME Screen!WindowsAssumption, ScreenInvariant, NEW s \in Editors \union {Pill}, owner[s] = 0, NEW r, Fits(s, r),
         ~preparing, made < MaxWindows, made' = made + 1,
         panes' = [v \in 1 .. made + 1 |-> IF v = made + 1 THEN r ELSE panes[v]],
         owner' = [owner EXCEPT ![s] = made + 1],
         latch' = IF r.of = 0 THEN latch \ {s} ELSE latch, r.of # 0 => s \in latch,
         queue' \subseteq queue, Prompt => queue' = {} /\ \A t \in queue : t.surface = s,
         focus' = focus \/ (focus' = made + 1 /\ s # Pill /\ (r.of = 0 \/ r.asked)),
         UNCHANGED <<failures, reports, session, active, showIdle, preparing, drained, ending>>
  PROVE  ScreenInvariant'
<1>1. ScreenTypes /\ Attended /\ PillIsShown BY ScreenTypesAre DEF ScreenInvariant
<1>2. made \in Nat /\ made + 1 \in 1 .. made + 1 /\ made + 1 \notin 1 .. made /\ made + 1 \in 0 .. MaxWindows
  BY <1>1, ScreenFacts DEF ScreenTypes
<1>3. 1 .. made' = (1 .. made) \union {made + 1} BY <1>2
<1>4. PICK n : n = made + 1 OBVIOUS
<1>5. /\ made' = n /\ n # 0 /\ 1 .. made' = (1 .. made) \union {n} /\ n \notin 1 .. made /\ n \in 1 .. made'
      /\ \A v \in 1 .. made : v < n
  BY <1>2, <1>3, <1>4
<1>6. panes'[n] = r /\ \A v \in 1 .. made : panes'[v] = panes[v] BY <1>2, <1>4, <1>5
<1>7. owner'[s] = n /\ \A u \in Editors \union {Pill} : u # s => owner'[u] = owner[u] BY <1>1, <1>4 DEF ScreenTypes
<1>8. \A u \in Editors \union {Pill} : owner[u] # 0 => owner[u] \in 1 .. made /\ ~panes[owner[u]].destroyed /\ panes[owner[u]].surface = u
  BY <1>1 DEF ScreenTypes
<1>9. \A u \in Editors \union {Pill} : u # s => (u \in latch' <=> u \in latch) BY <1>1
<1>10. s \in latch' <=> r.of # 0 BY <1>1
<1>11. r \in Screen!Window /\ r.surface = s /\ ~r.destroyed /\ ~r.loaded /\ ~r.painted BY DEF Fits
<1>12. focus \in 1 .. made \/ focus = 0 BY <1>1 DEF ScreenTypes
<1>13. focus' # 0 => \/ focus' = focus /\ focus \in 1 .. made
                     \/ focus' = n /\ s # Pill /\ (r.of = 0 \/ r.asked)
  BY <1>4, <1>12
<1>14. ScreenTypes'
  <2>1. panes' \in [1 .. made' -> Screen!Window]
    <3>1. \A v \in 1 .. made' : (IF v = made + 1 THEN r ELSE panes[v]) \in Screen!Window BY <1>1, <1>4, <1>5, <1>11 DEF ScreenTypes
    <3> QED BY <3>1
  <2>2. owner' \in [Editors \union {Pill} -> (1 .. made') \union {0}] BY <1>1, <1>4, <1>5 DEF ScreenTypes
  <2>3. ASSUME NEW u \in Editors \union {Pill}, owner'[u] # 0
        PROVE  ~panes'[owner'[u]].destroyed /\ panes'[owner'[u]].surface = u
    <3>1. CASE u = s BY <1>6, <1>7, <1>11, <3>1
    <3>2. CASE u # s BY <1>6, <1>7, <1>8, <2>3, <3>2
    <3> QED BY <3>1, <3>2
  <2>4. focus' \in (1 .. made') \union {0} /\ (focus' # 0 => ~panes'[focus'].destroyed /\ panes'[focus'].surface # Pill)
    <3>1. CASE focus' = 0 BY <3>1
    <3>2. CASE focus' = focus /\ focus \in 1 .. made BY <1>1, <1>5, <1>6, <3>2 DEF ScreenTypes
    <3>3. CASE focus' = n /\ s # Pill BY <1>5, <1>6, <1>11, <3>3
    <3> QED BY <1>13, <3>1, <3>2, <3>3
  <2>5. latch' \subseteq Editors \union {Pill} BY <1>1 DEF ScreenTypes
  <2>6. queue' \subseteq [surface : Editors \union {Pill}, of : 1 .. made', ready : {"inactive", "hidden"}]
    BY <1>1, <1>5 DEF ScreenTypes
  <2>7. reports' \subseteq (1 .. made') \X {"load", "gone"} /\ drained' \subseteq 1 .. made' BY <1>1, <1>5 DEF ScreenTypes
  <2>8. made' \in 0 .. MaxWindows BY <1>2
  <2>9. /\ failures' \in 0 .. MaxFailures /\ session' \in {"idle", "busy", "notice"} /\ active' \in BOOLEAN
        /\ showIdle' \in BOOLEAN /\ preparing' \in BOOLEAN /\ ending' \in BOOLEAN
    BY <1>1 DEF ScreenTypes
  <2> QED BY <2>1, <2>2, <2>3, <2>4, <2>5, <2>6, <2>7, <2>8, <2>9 DEF ScreenTypes
<1>15. ASSUME NEW v \in 1 .. made' PROVE Owned(v)' /\ Replaces(v)'
  <2>1. CASE v = n
    <3>1. Owned(n)' BY <1>6, <1>7, <1>11 DEF Owned
    <3>2. CASE r.of = 0
      <4>1. panes'[n].of = 0 BY <1>6, <3>2
      <4> QED BY <2>1, <3>1, <4>1 DEF Replaces
    <3>3. CASE r.of # 0
      <4>1. PICK u \in 1 .. made : u = r.of BY <3>3 DEF Fits
      <4>2. /\ panes[u].destroyed /\ panes[u].surface = s /\ (panes[u].loaded \/ panes[u].of = 0) /\ r.ready # "active"
            /\ s # Pill /\ r.ready = "inactive" => panes[u].shown
            /\ s # Pill /\ r.shown => r.asked \/ panes[u].shown
        BY <3>3, <4>1 DEF Fits
      <4>3. panes'[u] = panes[u] /\ u \in 1 .. made' BY <1>5, <1>6
      <4>4. Replaces(n)' BY <1>6, <1>11, <4>1, <4>2, <4>3 DEF Replaces
      <4> QED BY <2>1, <3>1, <4>4
    <3> QED BY <3>2, <3>3
  <2>2. CASE v \in 1 .. made
    <3>1. Owned(v) /\ Replaces(v) BY <2>2 DEF ScreenInvariant
    <3>2. panes'[v] = panes[v] BY <1>6, <2>2
    <3>3. Owned(v)'
      <4>1. panes[v].surface \in Editors \union {Pill} BY <1>1, <2>2, ScreenFacts DEF ScreenTypes
      <4>2. ~panes[v].destroyed => panes[v].surface # s
        <5>1. v # 0 BY <1>2, <2>2
        <5> QED BY <3>1, <5>1 DEF Owned
      <4> QED BY <1>7, <3>1, <3>2, <4>1, <4>2 DEF Owned
    <3>4. CASE panes[v].of = 0
      <4>1. panes'[v].of = 0 BY <3>2, <3>4
      <4> QED BY <3>3, <4>1 DEF Replaces
    <3>5. CASE panes[v].of # 0
      <4>1. PICK u \in 1 .. made : u = panes[v].of BY <3>1, <3>5 DEF Replaces
      <4>2. panes'[u] = panes[u] /\ u \in 1 .. made' BY <1>5, <1>6
      <4>3. /\ panes[u].destroyed /\ panes[u].surface = panes[v].surface /\ (panes[u].loaded \/ panes[u].of = 0)
            /\ panes[v].ready # "active"
            /\ panes[v].surface # Pill /\ panes[v].ready = "inactive" => panes[u].shown
            /\ panes[v].surface # Pill /\ panes[v].shown => panes[v].asked \/ panes[u].shown
        BY <3>1, <3>5, <4>1 DEF Replaces
      <4>4. Replaces(v)' BY <3>2, <4>1, <4>2, <4>3 DEF Replaces
      <4> QED BY <3>3, <4>4
    <3> QED BY <3>4, <3>5
  <2> QED BY <1>5, <2>1, <2>2
<1>16. ASSUME NEW u \in Editors \union {Pill} PROVE Newest(u)'
  <2>1. Newest(u) BY DEF ScreenInvariant
  <2>2. CASE u = s
    <3>1. \A v \in 1 .. made' : v <= n BY <1>2, <1>4
    <3> QED BY <1>6, <1>7, <1>10, <1>11, <2>2, <3>1 DEF Newest
  <2>3. CASE u # s
    <3>1. owner'[u] = owner[u] /\ (u \in latch' <=> u \in latch) BY <1>7, <1>9, <2>3
    <3>2. CASE owner[u] = 0 BY <3>1, <3>2 DEF Newest
    <3>3. CASE owner[u] # 0
      <4>1. panes'[owner[u]] = panes[owner[u]] BY <1>6, <1>8, <3>3
      <4>2. \A v \in 1 .. made' : panes'[v].surface = u => v <= owner[u] BY <1>5, <1>6, <1>11, <2>1, <2>3, <3>3 DEF Newest
      <4>3. u \in latch <=> panes[owner[u]].of # 0 /\ ~panes[owner[u]].loaded BY <2>1, <3>3 DEF Newest
      <4> QED BY <3>1, <4>1, <4>2, <4>3 DEF Newest
    <3> QED BY <3>2, <3>3
  <2> QED BY <2>2, <2>3
<1>17. ASSUME NEW t \in queue' PROVE Waits(t)'
  <2>1. Waits(t) /\ t.of \in 1 .. made /\ t.surface \in Editors \union {Pill} BY <1>1 DEF ScreenInvariant, ScreenTypes
  <2>2. panes'[t.of] = panes[t.of] BY <1>6, <2>1
  <2>3. owner'[t.surface] = 0 => t.surface \in latch'
    <3>1. CASE t.surface = s BY <1>5, <1>7, <3>1
    <3>2. CASE t.surface # s BY <1>7, <1>9, <2>1, <3>2 DEF Waits
    <3> QED BY <3>1, <3>2
  <2>4. ~Prompt OBVIOUS
  <2> QED BY <2>1, <2>2, <2>3, <2>4 DEF Waits
<1>18. ASSUME Prompt, NEW u \in Editors PROVE Missed(u)'
  <2>1. CASE u = s BY <1>5, <1>7, <2>1 DEF Missed
  <2>2. CASE u # s
    <3> SUFFICES ASSUME owner[u] = 0 PROVE Gone(u)' BY <1>7, <2>2 DEF Missed
    <3>1. Missed(u) BY <1>18 DEF ScreenInvariant
    <3>2. Gone(u) BY <3>1 DEF Missed
    <3>3. \A t \in queue : t.surface # u BY <1>18, <2>2
    <3>4. CASE \A v \in 1 .. made : panes[v].surface # u
      <4>1. \A v \in 1 .. made' : panes'[v].surface # u BY <1>5, <1>6, <1>11, <2>2, <3>4
      <4> QED BY <4>1 DEF Gone
    <3>5. CASE \E v \in 1 .. made : /\ panes[v].surface = u /\ \A w \in 1 .. made : panes[w].surface = u => w <= v
                                    /\ ~panes[v].loaded /\ panes[v].of # 0
      <4>1. PICK v \in 1 .. made : /\ panes[v].surface = u /\ \A w \in 1 .. made : panes[w].surface = u => w <= v
                                   /\ ~panes[v].loaded /\ panes[v].of # 0
        BY <3>5
      <4>2. /\ v \in 1 .. made' /\ panes'[v].surface = u /\ ~panes'[v].loaded /\ panes'[v].of # 0
        BY <1>5, <1>6, <4>1
      <4>3. \A w \in 1 .. made' : panes'[w].surface = u => w <= v BY <1>5, <1>6, <1>11, <2>2, <4>1
      <4> QED BY <4>2, <4>3 DEF Gone
    <3> QED BY <3>2, <3>3, <3>4, <3>5 DEF Gone
  <2> QED BY <2>1, <2>2
<1>19. Attended'
  <2>1. session' = "busy" => active' /\ owner'[Pill] # 0
    <3>1. CASE s = Pill BY <1>1, <1>5, <1>7, <3>1 DEF Attended
    <3>2. CASE s # Pill BY <1>1, <1>7, <3>2 DEF Attended
    <3> QED BY <3>1, <3>2
  <2>2. focus' # 0 => panes'[focus'].of = 0 \/ panes'[focus'].asked BY <1>1, <1>6, <1>13 DEF Attended
  <2>3. ~preparing' OBVIOUS
  <2> QED BY <2>1, <2>2, <2>3 DEF Attended
<1>20. PillIsShown'
  <2>1. CASE s = Pill BY <1>6, <1>7, <1>11, <2>1 DEF PillIsShown
  <2>2. CASE s # Pill
    <3>1. owner'[Pill] = owner[Pill] BY <1>7, <2>2
    <3>2. owner[Pill] # 0 => panes'[owner[Pill]] = panes[owner[Pill]] BY <1>6, <1>8
    <3> QED BY <1>1, <3>1, <3>2 DEF PillIsShown
  <2> QED BY <2>1, <2>2
<1> QED BY <1>14, <1>15, <1>16, <1>17, <1>18, <1>19, <1>20, ScreenTypesNext DEF ScreenInvariant

\* The microtask that replaces a window, or finds it replaced.
LEMMA ReplaceStep ==
  ASSUME Screen!WindowsAssumption, ScreenInvariant, NEW t \in queue, Screen!Replace(t)
  PROVE  ScreenInvariant'
<1>1. ScreenTypes /\ Attended /\ PillIsShown BY ScreenTypesAre DEF ScreenInvariant
<1>2. /\ Waits(t) /\ t.of \in 1 .. made /\ t.surface \in Editors \union {Pill} /\ t.ready \in {"inactive", "hidden"}
      /\ Prompt => \A q \in queue : q = t
  BY <1>1 DEF ScreenInvariant, ScreenTypes
<1>3. /\ queue' = queue \ {t}
      /\ UNCHANGED <<focus, latch, failures, reports, session, active, showIdle, preparing, drained, ending>>
  BY DEF Screen!Replace, Screen!sessionVars, Screen!updateVars
<1>4. Prompt => queue' = {} /\ \A q \in queue : q.surface = t.surface BY <1>2, <1>3
<1>5. CASE Screen!MayReplace(t)
  <2>1. ~ending /\ ~preparing /\ owner[t.surface] = 0 BY <1>5 DEF Screen!MayReplace, Screen!NoWindow
  <2>2. PICK m \in {"inactive", "hidden"} : m = IF t.surface = Pill THEN "hidden" ELSE t.ready BY <1>2
  <2>3. PICK r : r = Screen!New(t.surface, t.of, m) OBVIOUS
  <2>4. /\ made < MaxWindows /\ made' = made + 1 /\ owner' = [owner EXCEPT ![t.surface] = made + 1]
        /\ panes' = [w \in 1 .. made + 1 |-> IF w = made + 1 THEN r ELSE panes[w]]
    BY <1>5, <2>2, <2>3 DEF Screen!Replace, Screen!Readiness
  <2>5. /\ r.surface = t.surface /\ r.of = t.of /\ r.ready = m /\ r.loaded = FALSE /\ r.painted = FALSE /\ r.shown = FALSE
        /\ r.destroyed = FALSE
    BY <2>3 DEF Screen!New
  <2>6. t.of # 0 /\ t.of \in 0 .. MaxWindows BY <1>1, <1>2, ScreenFacts DEF ScreenTypes
  <2>7. r \in Screen!Window
    <3>1. t.surface \in Screen!Surfaces BY <1>2, ScreenFacts
    <3> QED BY <2>2, <2>3, <2>6, <3>1 DEF Screen!New, Screen!Window
  <2>8. Fits(t.surface, r) BY <1>2, <2>2, <2>5, <2>7 DEF Fits, Waits
  <2>9. t.surface \in latch BY <1>2, <2>1 DEF Waits
  <2>10. r.of # 0 BY <2>5, <2>6
  <2>11. queue' \subseteq queue BY <1>3
  <2>12. latch' = IF r.of = 0 THEN latch \ {t.surface} ELSE latch BY <1>3, <2>10
  <2> QED BY <1>2, <1>3, <1>4, <2>1, <2>4, <2>8, <2>9, <2>11, <2>12, MadeStep
<1>6. CASE ~Screen!MayReplace(t)
  <2>1. UNCHANGED <<made, panes, owner>> BY <1>6 DEF Screen!Replace
  <2>2. ~ending /\ ~preparing => owner[t.surface] # 0 BY <1>6 DEF Screen!MayReplace, Screen!NoWindow
  <2>3. ScreenTypes' BY <1>1, <1>3, <2>1 DEF ScreenTypes
  <2>4. Attended' BY <1>1, <1>3, <2>1 DEF Attended, Editing
  <2>5. PillIsShown' BY <1>1, <1>3, <2>1 DEF PillIsShown
  <2>6. \A w \in 1 .. made' : Owned(w)' /\ Replaces(w)'
    <3>1. ASSUME NEW w \in 1 .. made PROVE Owned(w)' /\ Replaces(w)'
      <4>1. Owned(w) /\ Replaces(w) BY DEF ScreenInvariant
      <4> QED BY <2>1, <4>1 DEF Owned, Replaces
    <3> QED BY <2>1, <3>1
  <2>7. ASSUME NEW s \in Editors \union {Pill} PROVE Newest(s)'
    <3>1. Newest(s) BY DEF ScreenInvariant
    <3> QED BY <1>3, <2>1, <3>1 DEF Newest
  <2>8. ASSUME NEW q \in queue' PROVE Waits(q)'
    <3>1. Waits(q) BY <1>3 DEF ScreenInvariant
    <3> QED BY <1>3, <2>1, <3>1 DEF Waits
  <2>9. ASSUME Prompt, NEW s \in Editors PROVE Missed(s)'
    <3>1. Missed(s) BY <2>9 DEF ScreenInvariant
    <3> SUFFICES ASSUME owner[s] = 0 PROVE Gone(s)' BY <2>1 DEF Missed
    <3>2. Gone(s) BY <3>1 DEF Missed
    <3>3. t.surface # s BY <1>2, <2>2, <2>9 DEF Waits
    <3>4. \A q \in queue : q.surface # s BY <1>4, <2>9, <3>3
    <3> QED BY <2>1, <3>2, <3>4 DEF Gone
  <2>10. Prompt => \A q, u \in queue' : q = u BY <1>4
  <2> QED BY <2>3, <2>4, <2>5, <2>6, <2>7, <2>8, <2>9, <2>10, ScreenTypesNext DEF ScreenInvariant
<1> QED BY <1>5, <1>6

\* The user opens Settings or Notes.
LEMMA OpenStep ==
  ASSUME Screen!WindowsAssumption, ScreenInvariant, NEW s \in Editors, Screen!Open(s)
  PROVE  ScreenInvariant'
<1>1. ScreenTypes /\ Attended /\ PillIsShown BY ScreenTypesAre DEF ScreenInvariant
<1>2. /\ ~ending /\ ~preparing /\ (Prompt => queue = {}) /\ s # Pill /\ s \in Editors \union {Pill}
      /\ UNCHANGED <<failures, reports, queue, session, active, showIdle, preparing, drained, ending>>
  BY ScreenFacts DEF Screen!Open, Screen!Opens, Screen!Event, Screen!sessionVars, Screen!updateVars
<1>3. made \in Nat BY <1>1 DEF ScreenTypes
<1>4. PICK b \in BOOLEAN : b = TRUE OBVIOUS
<1>5. CASE owner[s] = 0
  <2>1. PICK r : r = [Screen!New(s, 0, "active") EXCEPT !.shown = b, !.asked = b] OBVIOUS
  <2>2. made + 1 \notin 1 .. made BY <1>3
  <2>3. /\ made + 1 <= MaxWindows /\ made' = made + 1 /\ latch' = latch \ {s}
        /\ panes' = [v \in 1 .. made + 1 |-> IF v = made + 1 THEN r ELSE panes[v]]
        /\ owner' = [owner EXCEPT ![s] = made + 1] /\ focus' = made + 1
    BY <1>4, <1>5, <2>1, <2>2 DEF Screen!Open, Screen!NoWindow, Screen!Windows
  <2>4. /\ r.surface = s /\ r.of = 0 /\ r.loaded = FALSE /\ r.painted = FALSE /\ r.destroyed = FALSE
    BY <2>1 DEF Screen!New
  <2>5. r \in Screen!Window
    <3>1. s \in Screen!Surfaces /\ 0 \in 0 .. MaxWindows BY <1>2, ScreenFacts
    <3>2. Screen!New(s, 0, "active") \in Screen!Window BY <3>1 DEF Screen!New, Screen!Window
    <3> QED BY <2>1, <3>2 DEF Screen!Window
  <2>6. Fits(s, r) BY <2>4, <2>5 DEF Fits
  <2>7. made < MaxWindows BY <1>3, <2>3, ScreenFacts
  <2>8. Prompt => queue' = {} /\ \A t \in queue : t.surface = s BY <1>2
  <2> QED BY <1>2, <1>5, <2>3, <2>4, <2>6, <2>7, <2>8, MadeStep
<1>6. CASE owner[s] # 0
  <2>1. PICK w \in 1 .. made : w = owner[s] BY <1>1, <1>2, <1>6 DEF ScreenTypes
  <2>2. ~panes[w].destroyed /\ panes[w].surface = s BY <1>1, <1>2, <1>6, <2>1 DEF ScreenTypes
  <2>3. /\ made' = made /\ latch' = latch /\ focus' = w
        /\ panes' = [v \in 1 .. made |-> IF v = w THEN [panes[w] EXCEPT !.shown = b, !.asked = b] ELSE panes[v]]
        /\ owner' = [owner EXCEPT ![s] = w]
    BY <1>4, <1>6, <2>1 DEF Screen!Open, Screen!NoWindow, Screen!Windows
  <2>4. owner' = owner BY <1>1, <1>2, <2>1, <2>3 DEF ScreenTypes
  <2>5. panes'[w] = [panes[w] EXCEPT !.shown = b, !.asked = b] /\ \A v \in 1 .. made : v # w => panes'[v] = panes[v]
    BY <2>3
  <2>6. /\ panes'[w] \in Screen!Window /\ panes'[w].asked = b
        /\ panes'[w].surface = panes[w].surface /\ panes'[w].of = panes[w].of /\ panes'[w].ready = panes[w].ready
        /\ panes'[w].destroyed = panes[w].destroyed /\ panes'[w].loaded = panes[w].loaded
        /\ panes'[w].painted = panes[w].painted
    <3>1. panes[w] \in Screen!Window BY <1>1 DEF ScreenTypes
    <3> QED BY <2>5, <3>1 DEF Screen!Window
  <2>7. \A v \in 1 .. made : Kept(v) /\ (panes'[v].shown => panes[v].shown \/ panes'[v].asked)
    BY <1>4, <2>2, <2>5, <2>6 DEF Kept
  <2>8. panes' \in [1 .. made -> Screen!Window] BY <1>1, <2>3, <2>5, <2>6 DEF ScreenTypes
  <2>9. ScreenTypes'
    <3>1. /\ failures' \in 0 .. MaxFailures /\ reports' \subseteq (1 .. made) \X {"load", "gone"} /\ drained' \subseteq 1 .. made
          /\ session' \in {"idle", "busy", "notice"} /\ active' \in BOOLEAN /\ showIdle' \in BOOLEAN
          /\ preparing' \in BOOLEAN /\ ending' \in BOOLEAN
      BY <1>1, <1>2 DEF ScreenTypes
    <3>2. UNCHANGED <<made, owner, latch, queue>> BY <1>2, <2>3, <2>4
    <3>3. focus' \in 1 .. made /\ ~panes[focus'].destroyed /\ panes[focus'].surface # Pill BY <1>2, <2>2, <2>3
    <3> QED BY <1>1, <2>7, <2>8, <3>1, <3>2, <3>3, TypesStay DEF Kept
  <2>10. Attended'
    <3>1. panes'[focus'].asked BY <1>4, <2>3, <2>6
    <3> QED BY <1>1, <1>2, <2>4, <3>1 DEF Attended
  <2>11. PillIsShown'
    <3>1. owner[Pill] # 0 => owner[Pill] # w /\ owner[Pill] \in 1 .. made BY <1>1, <1>2, <2>2 DEF ScreenTypes
    <3> QED BY <1>1, <1>2, <2>4, <2>5, <3>1 DEF PillIsShown
  <2> QED BY <1>2, <2>3, <2>4, <2>7, <2>9, <2>10, <2>11, Redrawn
<1> QED BY <1>5, <1>6

LEMMA ScreenStep ==
  ASSUME Screen!WindowsAssumption, ScreenInvariant, [Screen!Next]_(Screen!vars)
  PROVE  ScreenInvariant'
<1>1. CASE UNCHANGED Screen!vars
  <2>1. UNCHANGED <<made, panes, owner, focus, latch, failures, reports, queue, session, active, showIdle, preparing, drained, ending>>
    BY <1>1 DEF Screen!vars, Screen!windowVars, Screen!failureVars, Screen!sessionVars, Screen!updateVars
  <2>2. ScreenTypes /\ Attended /\ PillIsShown BY ScreenTypesAre DEF ScreenInvariant
  <2>3. ScreenTypes' BY <2>1, <2>2 DEF ScreenTypes
  <2>4. Attended' BY <2>1, <2>2 DEF Attended, Editing
  <2>5. PillIsShown' BY <2>1, <2>2 DEF PillIsShown
  <2>6. \A w \in 1 .. made : Kept(w) /\ panes'[w].shown = panes[w].shown BY <2>1 DEF Kept
  <2> QED BY <2>1, <2>3, <2>4, <2>5, <2>6, Redrawn
<1>2. CASE Screen!Next
  <2>1. CASE \E w \in 1 .. made : Screen!FinishLoad(w) \/ Screen!FailLoad(w) \/ Screen!Crash(w) \/ Screen!Paint(w)
    BY <2>1, FinishStep, PageStep, PaintStep
  <2>2. CASE \E r \in reports : Screen!Report(r) BY <2>2, ReportStep
  <2>3. CASE \E t \in queue : Screen!Replace(t) BY <2>3, ReplaceStep
  <2>4. CASE \E s \in Editors : Screen!Open(s) \/ Screen!Close(s) BY <2>4, OpenStep, HideStep
  <2>5. CASE Screen!Begin \/ Screen!ChooseIdle \/ \E next \in {"idle", "notice"} : Screen!End(next) BY <2>5, SessionStep
  <2>6. CASE Screen!Prepare \/ Screen!CancelPreparation \/ Screen!Quit BY <2>6, UpdateStep
  <2>7. \/ \E w \in 1 .. made : Screen!FinishLoad(w) \/ Screen!FailLoad(w) \/ Screen!Crash(w) \/ Screen!Paint(w)
        \/ \E r \in reports : Screen!Report(r)
        \/ \E t \in queue : Screen!Replace(t)
        \/ \E s \in Editors : Screen!Open(s) \/ Screen!Close(s)
        \/ Screen!Begin \/ Screen!ChooseIdle \/ \E next \in {"idle", "notice"} : Screen!End(next)
        \/ Screen!Prepare \/ Screen!CancelPreparation \/ Screen!Quit
    BY <1>2, ScreenFacts DEF Screen!Next
  <2> QED BY <2>1, <2>2, <2>3, <2>4, <2>5, <2>6, <2>7
<1> QED BY <1>1, <1>2

\* The inductive invariant of the windows (installRendererFailureHandlers, showHub,
\* syncPillVisibility, prepareEditorsForUpdate in src/main.ts).
THEOREM ScreenInvariantHolds ==
  ASSUME Screen!WindowsAssumption PROVE Screen!Spec => []ScreenInvariant
<1>1. Screen!Init => ScreenInvariant BY ScreenStarts
<1>2. ScreenInvariant /\ [Screen!Next]_(Screen!vars) => ScreenInvariant' BY ScreenStep
<1> QED BY <1>1, <1>2, PTL DEF Screen!Spec

\* A surface never has two windows, whatever fails and whatever the user opens in between;
\* a page that always fails does not make one window after another; a window that comes back
\* takes no focus and stays hidden if it was, unless the user asked for it; an update asked
\* every window that holds drafts, and none of them is lost unnoticed while it is prepared;
\* and the pill shows what the dictation is.
THEOREM WindowsAreTrue ==
  ASSUME Screen!WindowsAssumption
  PROVE  Screen!Spec => [](/\ Screen!OneWindowEach /\ Screen!RecoveryIsBounded /\ Screen!RecoveryKeepsFocus
                           /\ Screen!HiddenStaysHidden /\ Screen!EveryEditorIsDrained /\ Screen!PillShowsState)
<1>1. ASSUME ScreenInvariant
      PROVE  /\ Screen!OneWindowEach /\ Screen!RecoveryIsBounded /\ Screen!RecoveryKeepsFocus
             /\ Screen!HiddenStaysHidden /\ Screen!EveryEditorIsDrained /\ Screen!PillShowsState
  <2>1. ScreenTypes /\ Attended /\ PillIsShown BY <1>1, ScreenTypesAre DEF ScreenInvariant
  <2>2. \A w \in 1 .. made : Owned(w) /\ Replaces(w) BY <1>1 DEF ScreenInvariant
  <2>3. Screen!OneWindowEach BY <2>2, ScreenFacts DEF Screen!OneWindowEach, Screen!Live, Owned
  <2>4. Screen!RecoveryIsBounded BY <2>2, ScreenFacts DEF Screen!RecoveryIsBounded, Replaces
  <2>5. Screen!RecoveryKeepsFocus BY <2>1, ScreenFacts DEF Screen!RecoveryKeepsFocus, Attended
  <2>6. Screen!HiddenStaysHidden BY <2>2, ScreenFacts DEF Screen!HiddenStaysHidden, Replaces
  <2>7. Screen!EveryEditorIsDrained BY <2>1, ScreenFacts DEF Screen!EveryEditorIsDrained, Screen!Live, Attended, Editing
  <2>8. Screen!PillShowsState
    <3>1. owner[Pill] # 0 => panes[owner[Pill]].shown \in BOOLEAN BY <2>1, ScreenFacts DEF ScreenTypes
    <3> QED BY <2>1, <3>1, ScreenFacts DEF Screen!PillShowsState, Screen!ShouldShow, PillIsShown, ScreenTypes
  <2> QED BY <2>3, <2>4, <2>5, <2>6, <2>7, <2>8
<1> QED BY <1>1, ScreenInvariantHolds, PTL

\* Where a microtask comes before every other event, Settings and Notes come back by themselves
\* after a failure, also after one while an update is prepared.
THEOREM EditorsComeBack ==
  ASSUME Screen!WindowsAssumption, Prompt PROVE Screen!Spec => []Screen!EditorsReturn
<1>1. ASSUME ScreenInvariant PROVE Screen!EditorsReturn
  <2> SUFFICES ASSUME NEW s \in Editors, Screen!Abandoned(s),
                      NEW ofs, ofs = {w \in 1 .. made : panes[w].surface = s}, ofs # {},
                      NEW last, last = CHOOSE w \in ofs : \A v \in ofs : v <= w
               PROVE  ~panes[last].loaded /\ panes[last].of # 0
    BY ScreenFacts DEF Screen!EditorsReturn, Screen!Returns
  <2>1. owner[s] = 0 /\ \A t \in queue : t.surface # s BY ScreenFacts DEF Screen!Abandoned
  <2>2. Gone(s) BY <1>1, <2>1 DEF ScreenInvariant, Missed
  <2>3. PICK w \in ofs : (\A v \in ofs : v <= w) /\ ~panes[w].loaded /\ panes[w].of # 0 BY <2>1, <2>2 DEF Gone
  <2>4. last \in ofs /\ \A v \in ofs : v <= last BY <2>3
  <2>5. w = last
    <3>1. w \in Int /\ last \in Int BY <2>3, <2>4
    <3>2. w <= last /\ last <= w BY <2>3, <2>4
    <3> QED BY <3>1, <3>2
  <2> QED BY <2>3, <2>5
<1> QED BY <1>1, ScreenInvariantHolds, PTL

\* A dictation never outlives the pill that records it, and never goes on with another.
THEOREM PillIsKept ==
  ASSUME Screen!WindowsAssumption
  PROVE  Screen!Spec => [][Screen!DictationKeepsItsPill]_(Screen!vars)
<1>1. ASSUME ScreenInvariant, [Screen!Next]_(Screen!vars) PROVE [Screen!DictationKeepsItsPill]_(Screen!vars)
  <2>1. ScreenTypes /\ Attended BY <1>1, ScreenTypesAre DEF ScreenInvariant
  <2>2. session = "busy" => active /\ owner[Pill] # 0 BY <2>1 DEF Attended
  <2> SUFFICES ASSUME session = "busy", session' = "busy", Screen!Next PROVE owner'[Pill] = owner[Pill]
    BY <1>1, <2>2, ScreenFacts DEF Screen!DictationKeepsItsPill
  <2>3. CASE owner' = owner BY <2>3
  <2>4. ASSUME NEW r \in reports, Screen!Report(r) PROVE owner'[Pill] = owner[Pill]
    <3>1. CASE owner' = owner BY <3>1
    <3>2. CASE Screen!Recover(r[1])
      <4>1. ~(panes[r[1]].surface = Pill /\ active) BY <3>2 DEF Screen!Recover, Screen!FailsDictation
      <4>2. panes[r[1]].surface # Pill BY <2>2, <4>1
      <4>3. \E x : owner' = [owner EXCEPT ![panes[r[1]].surface] = x] BY <3>2 DEF Screen!Recover, Screen!Without
      <4> QED BY <2>1, <4>2, <4>3 DEF ScreenTypes
    <3> QED BY <2>4, <3>1, <3>2 DEF Screen!Report
  <2>5. ASSUME NEW t \in queue, Screen!Replace(t) PROVE owner'[Pill] = owner[Pill]
    <3>1. CASE owner' = owner BY <3>1
    <3>2. CASE Screen!MayReplace(t)
      <4>1. t.surface # Pill BY <2>2, <3>2, ScreenFacts DEF Screen!MayReplace
      <4>2. owner' = [owner EXCEPT ![t.surface] = made + 1] BY <2>5, <3>2 DEF Screen!Replace
      <4> QED BY <2>1, <4>1, <4>2 DEF ScreenTypes
    <3> QED BY <2>5, <3>1, <3>2 DEF Screen!Replace
  <2>6. ASSUME NEW s \in Editors, Screen!Open(s) PROVE owner'[Pill] = owner[Pill]
    <3>1. \E x : owner' = [owner EXCEPT ![s] = x] BY <2>6 DEF Screen!Open
    <3>2. s # Pill BY ScreenFacts
    <3> QED BY <2>1, <3>1, <3>2 DEF ScreenTypes
  <2>7. \/ owner' = owner
        \/ \E r \in reports : Screen!Report(r)
        \/ \E t \in queue : Screen!Replace(t)
        \/ \E s \in Editors : Screen!Open(s)
    BY DEF Screen!Next, Screen!FinishLoad, Screen!FailLoad, Screen!Crash, Screen!Paint, Screen!Close, Screen!End, Screen!Begin,
           Screen!ChooseIdle, Screen!Prepare, Screen!CancelPreparation, Screen!Quit, Screen!windowVars
  <2> QED BY <2>3, <2>4, <2>5, <2>6, <2>7
<1> QED BY <1>1, ScreenInvariantHolds, PTL DEF Screen!Spec

=============================================================================
