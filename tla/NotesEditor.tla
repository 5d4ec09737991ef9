------------------------------ MODULE NotesEditor ------------------------------
(***************************************************************************)
(* The Notes window (src/renderer/scratchpad/ScratchpadWindow.tsx): it     *)
(* saves each note a moment after it was edited, one write per note at a   *)
(* time, and drains what is pending before it closes or an update restarts *)
(* the application.                                                        *)
(*                                                                         *)
(* Calls to the main process are answered in the order they were made; a   *)
(* call's effect and the continuation of its promise are one step.  What   *)
(* is selected and shown beside the notes is left out.                     *)
(*                                                                         *)
(* A definition whose comment starts with "Mistake" is a plausible wrong   *)
(* version of the one after it; no specification uses it.                  *)
(***************************************************************************)
EXTENDS Integers, Sequences, SequencesExt

CONSTANTS
  Notes,        \* notes that exist or may be created
  Bodies,       \* texts a note may have
  Empty,        \* the text of a new note
  Absent,       \* no such note, or no such text
  Requests,     \* update preparations, each asked for once
  NoRequest,
  MaxEdits,     \* bound on the edits of each note
  DeleteFails   \* whether the main process may refuse to delete

NotesAssumption ==
  /\ Empty \in Bodies /\ Absent \notin Bodies /\ NoRequest \notin Requests /\ MaxEdits \in Nat
  /\ IsFiniteSet(Notes) /\ "close" \notin Requests

VARIABLES
  loading,      \* the list of notes has not arrived
  shown,        \* the text the window shows of each note it lists
  disk,         \* the text the database holds
  used,         \* notes that were ever created: ids are not used again
  persisted,    \* the text the window knows to be in the database
  pending,      \* the text that is not yet known to be saved
  timer,        \* the text a save timer that runs will write
  sequence,     \* edits of each note
  writing,      \* the edit that a write in flight carries, 0 for none
  saveState,    \* what the window says of each note
  deleted,      \* notes the user has deleted, refused deletions excepted
  deleting,     \* deletions in flight
  unsaved,      \* the text a deletion in flight would give up
  creating,     \* a creation is in flight
  calls,        \* calls to the main process that are not answered
  drains,       \* the drains that run, and the notes whose write each awaits
  request,      \* the preparation the window is frozen for
  answered      \* what each preparation was told

noteVars  == <<persisted, pending, timer, sequence, writing, saveState>>
opVars    == <<deleted, deleting, unsaved, creating>>
drainVars == <<drains, request, answered>>
vars == <<loading, shown, disk, used, noteVars, opVars, calls, drainVars>>

-----------------------------------------------------------------------------
Texts == Bodies \union {Absent}
Close == "close"
Drains == {Close} \union Requests
Resting == [stage |-> "none", waits |-> {}]

Calls == [kind : {"update"}, note : Notes, body : Bodies]
  \union [kind : {"delete"}, note : Notes, body : {Absent}]
  \union [kind : {"create", "close"}, note : {Absent}, body : {Absent}]

TypeOK ==
  /\ loading \in BOOLEAN /\ creating \in BOOLEAN
  /\ {used, deleted, deleting} \subseteq SUBSET Notes
  /\ {shown, disk, persisted, pending, timer, unsaved} \subseteq [Notes -> Texts]
  /\ {sequence, writing} \subseteq [Notes -> 0 .. (MaxEdits + 1)]
  /\ saveState \in [Notes -> {"saved", "saving", "save-error"}]
  /\ calls \in Seq(Calls)
  /\ drains \in [Drains -> [stage : {"none", "first", "second", "asked"}, waits : SUBSET Notes]]
  /\ request \in Requests \union {NoRequest}
  /\ answered \in [Requests -> {"none", "yes", "no"}]

Init ==
  /\ loading = TRUE /\ creating = FALSE
  /\ disk \in [Notes -> {Empty, Absent}]
  /\ used = {n \in Notes : disk[n] # Absent}
  /\ shown = [n \in Notes |-> Absent]
  /\ persisted = [n \in Notes |-> Absent] /\ pending = [n \in Notes |-> Absent]
  /\ timer = [n \in Notes |-> Absent] /\ unsaved = [n \in Notes |-> Absent]
  /\ deleted = {} /\ deleting = {}
  /\ sequence = [n \in Notes |-> 0] /\ writing = [n \in Notes |-> 0]
  /\ saveState = [n \in Notes |-> "saved"]
  /\ calls = <<>>
  /\ drains = [d \in Drains |-> Resting]
  /\ request = NoRequest /\ answered = [r \in Requests |-> "none"]

-----------------------------------------------------------------------------
Listed  == {n \in Notes : shown[n] # Absent}
Writes  == {n \in Notes : writing[n] # 0}
Pending == {n \in Notes : pending[n] # Absent}
Timed   == {n \in Notes : timer[n] # Absent}

Frozen == request # NoRequest

\* closingRef, from the start of a drain to the answer of the main process.
Closing == drains[Close].stage # "none"

Busy == creating \/ deleting # {}

Ask(kind, n, body) == [kind |-> kind, note |-> n, body |-> body]

\* Mistake: a newer text is written beside the one in flight.
WritesAtOnce(n) == n \notin deleted
MayWrite(n) == n \notin deleted /\ writing[n] = 0

\* persistNote() for each of S, of the text it has in texts.
Persist(S, texts) ==
  LET start == {n \in S : MayWrite(n)} IN
  /\ writing' = [n \in Notes |-> IF n \in start THEN sequence[n] ELSE writing[n]]
  /\ saveState' = [n \in Notes |-> IF n \in start THEN "saving" ELSE saveState[n]]
  /\ calls' = calls \o SetToSeq({Ask("update", n, texts[n]) : n \in start})

\* scheduleSave()
Type(n, body) ==
  /\ n \in Listed \ deleted /\ ~Frozen
  /\ body # shown[n] /\ sequence[n] < MaxEdits
  /\ shown' = [shown EXCEPT ![n] = body]
  /\ pending' = [pending EXCEPT ![n] = body]
  /\ sequence' = [sequence EXCEPT ![n] = @ + 1]
  /\ saveState' = [saveState EXCEPT ![n] = "saving"]
  /\ timer' = [timer EXCEPT ![n] = body]
  /\ UNCHANGED <<loading, disk, used, persisted, writing, opVars, calls, drainVars>>

\* The timer of 350 ms.
SaveTimerFires(n) ==
  /\ n \in Timed
  /\ timer' = [timer EXCEPT ![n] = Absent]
  /\ Persist({n}, timer)
  /\ UNCHANGED <<loading, shown, disk, used, persisted, pending, sequence, opVars, drainVars>>

\* Mistake: what the timer was for is written whether or not it still waits.
FlushedAnyway(n) == {n}
Flushed(n) == {n} \intersect Pending

\* flushScheduledSave(): the text loses the focus.
FlushScheduledSave(n) ==
  /\ n \in Timed
  /\ timer' = [timer EXCEPT ![n] = Absent]
  /\ Persist(Flushed(n), pending)
  /\ UNCHANGED <<loading, shown, disk, used, persisted, pending, sequence, opVars, drainVars>>

\* Mistake: a text that equals the saved one needs no write.
CleanAgain == {n \in Pending : persisted[n] = pending[n]}
Clean == {n \in Pending : persisted[n] = pending[n] /\ writing[n] = 0}

\* flushPendingSaves(): the window is hidden or left, the user retries, or a
\* drain begins.
FlushPending ==
  LET live  == Pending \ deleted
      clean == Clean \ deleted
      start == {n \in live \ clean : writing[n] # sequence[n] /\ MayWrite(n)} IN
  /\ timer' = [n \in Notes |-> IF n \in Pending THEN Absent ELSE timer[n]]
  /\ pending' = [n \in Notes |-> IF n \in clean THEN Absent ELSE pending[n]]
  /\ writing' = [n \in Notes |-> IF n \in start THEN sequence[n] ELSE writing[n]]
  /\ saveState' = [n \in Notes |-> IF n \in clean THEN "saved"
                                   ELSE IF n \in start THEN "saving" ELSE saveState[n]]
  /\ calls' = calls \o SetToSeq({Ask("update", n, pending[n]) : n \in start})

Flush ==
  /\ Pending # {}
  /\ FlushPending
  /\ UNCHANGED <<loading, shown, disk, used, persisted, sequence, opVars, drainVars>>

-----------------------------------------------------------------------------
(* Notes come and go *)

\* addNewNote()
Create ==
  IF creating \/ Frozen
  THEN UNCHANGED <<creating, calls>>
  ELSE creating' = TRUE /\ calls' = Append(calls, Ask("create", Absent, Absent))

\* The list arrives.  An empty one gets a first note; one that cannot be read
\* is left alone.
Load ==
  /\ loading
  /\ loading' = FALSE
  /\ \/ UNCHANGED <<shown, persisted, creating, calls>>
     \/ /\ shown' = disk /\ persisted' = disk
        /\ IF used = {} THEN Create ELSE UNCHANGED <<creating, calls>>
  /\ UNCHANGED <<disk, used, pending, timer, sequence, writing, saveState, deleted, deleting,
                 unsaved, drainVars>>

AddNewNote ==
  /\ ~loading /\ ~creating /\ ~Frozen /\ \E n \in Notes : n \notin used
  /\ Create
  /\ UNCHANGED <<loading, shown, disk, used, noteVars, deleted, deleting, unsaved, drainVars>>

\* deleteNote(), after the user has confirmed.
DeleteNote(n) ==
  /\ n \in Listed \ deleted /\ ~Frozen /\ sequence[n] <= MaxEdits
  /\ unsaved' = [unsaved EXCEPT ![n] =
       IF pending[n] # Absent THEN pending[n]
       ELSE IF persisted[n] # shown[n] THEN shown[n] ELSE Absent]
  /\ timer' = [timer EXCEPT ![n] = Absent]
  /\ pending' = [pending EXCEPT ![n] = Absent]
  /\ deleted' = deleted \union {n} /\ deleting' = deleting \union {n}
  /\ calls' = Append(calls, Ask("delete", n, Absent))
  /\ UNCHANGED <<loading, shown, disk, used, persisted, sequence, writing, saveState, creating,
                 drainVars>>

-----------------------------------------------------------------------------
(* The main process answers the call made first *)

Answered(kind) == calls # <<>> /\ Head(calls).kind = kind

\* Mistake: a drain waits for the notes it found, not for their writes.
SettlesNone(n) == UNCHANGED drains
\* The drains no longer wait for the write of n.
Settles(n) == drains' = [d \in Drains |-> [drains[d] EXCEPT !.waits = @ \ {n}]]

\* Mistake: the answer to any write settles the newest edit.
SettlesAnyEdit(n) == TRUE
SettlesEdit(n) == sequence[n] = writing[n]

\* Mistake: what was typed during a write is left to its timer.
NewerLeft(n) == FALSE
Newer(n) == ~SettlesEdit(n) /\ n \notin deleted /\ pending[n] # Absent

\* A write is answered; a newer edit that waited for it is written now.
UpdateAnswered ==
  /\ Answered("update")
  /\ LET n == Head(calls).note
         body == Head(calls).body IN
     \E ok \in BOOLEAN :
       /\ ok => disk[n] # Absent
       /\ disk' = IF ok THEN [disk EXCEPT ![n] = body] ELSE disk
       /\ persisted' = IF ok /\ n \notin deleted THEN [persisted EXCEPT ![n] = body] ELSE persisted
       /\ LET done == ok /\ n \notin deleted /\ SettlesEdit(n)
              next == Newer(n) IN
          /\ pending' = IF done THEN [pending EXCEPT ![n] = Absent] ELSE pending
          /\ shown' = IF done THEN [shown EXCEPT ![n] = body] ELSE shown
          /\ writing' = [writing EXCEPT ![n] = IF next THEN sequence[n] ELSE 0]
          /\ saveState' = [saveState EXCEPT ![n] =
               CASE done -> "saved" [] next -> "saving"
                 [] ~ok /\ SettlesEdit(n) -> "save-error" [] OTHER -> @]
          /\ calls' = IF next THEN Append(Tail(calls), Ask("update", n, pending[n])) ELSE Tail(calls)
       /\ Settles(n)
  /\ UNCHANGED <<loading, used, timer, sequence, opVars, request, answered>>

CreateAnswered ==
  /\ Answered("create")
  /\ calls' = Tail(calls) /\ creating' = FALSE
  /\ \/ UNCHANGED <<shown, disk, used, persisted, saveState>>
     \/ \E n \in Notes \ used :
          /\ used' = used \union {n}
          /\ disk' = [disk EXCEPT ![n] = Empty]
          /\ shown' = [shown EXCEPT ![n] = Empty]
          /\ persisted' = [persisted EXCEPT ![n] = Empty]
          /\ saveState' = [saveState EXCEPT ![n] = "saved"]
  /\ UNCHANGED <<loading, pending, timer, sequence, writing, deleted, deleting, unsaved, drainVars>>

NoteDeleted ==
  /\ Answered("delete")
  /\ LET n == Head(calls).note IN
     /\ disk' = [disk EXCEPT ![n] = Absent]
     /\ shown' = [shown EXCEPT ![n] = Absent]
     /\ persisted' = [persisted EXCEPT ![n] = Absent]
     /\ sequence' = [sequence EXCEPT ![n] = 0]
     /\ writing' = [writing EXCEPT ![n] = 0]
     /\ saveState' = [saveState EXCEPT ![n] = "saved"]
     /\ deleting' = deleting \ {n}
     /\ unsaved' = [unsaved EXCEPT ![n] = Absent]
     /\ IF Listed = {n} /\ ~creating /\ ~Frozen
        THEN creating' = TRUE /\ calls' = Append(Tail(calls), Ask("create", Absent, Absent))
        ELSE calls' = Tail(calls) /\ UNCHANGED creating
  /\ UNCHANGED <<loading, used, pending, timer, deleted, drainVars>>

\* The deletion was refused: what it gave up is saved again, if it differs
\* from what is known to be saved.
DeleteRefused ==
  /\ DeleteFails /\ Answered("delete")
  /\ LET n == Head(calls).note
         again == unsaved[n] # Absent /\ persisted[n] # unsaved[n] IN
     /\ deleted' = deleted \ {n} /\ deleting' = deleting \ {n}
     /\ unsaved' = [unsaved EXCEPT ![n] = Absent]
     /\ IF again
        THEN /\ pending' = [pending EXCEPT ![n] = unsaved[n]]
             /\ sequence' = [sequence EXCEPT ![n] = @ + 1]
             /\ saveState' = [saveState EXCEPT ![n] = "saving"]
             /\ IF writing[n] = 0
                THEN /\ writing' = [writing EXCEPT ![n] = sequence[n] + 1]
                     /\ calls' = Append(Tail(calls), Ask("update", n, unsaved[n]))
                ELSE calls' = Tail(calls) /\ UNCHANGED writing
        ELSE calls' = Tail(calls) /\ UNCHANGED <<pending, sequence, saveState, writing>>
  /\ UNCHANGED <<loading, shown, disk, used, persisted, timer, creating, drainVars>>

-----------------------------------------------------------------------------
(* Draining *)

\* drainPendingSaves() begins.
Begins(d, before) ==
  drains' = [before EXCEPT ![d] = [stage |-> "first", waits |-> {n \in Notes : writing'[n] # 0}]]

\* What waited for a write in flight is written; a failed text is not retried.
DrainAgain(d) ==
  /\ drains[d].stage = "first" /\ drains[d].waits = {}
  /\ Persist({n \in Pending : saveState[n] # "save-error"}, pending)
  /\ drains' = [drains EXCEPT ![d] = [stage |-> "second", waits |-> {n \in Notes : writing'[n] # 0}]]
  /\ UNCHANGED <<loading, shown, disk, used, persisted, pending, timer, sequence, opVars, request,
                 answered>>

Drained == Pending = {} /\ Writes = {}

\* closeScratchpad()
CloseScratchpad ==
  /\ ~Closing /\ ~Frozen
  /\ FlushPending
  /\ Begins(Close, drains)
  /\ UNCHANGED <<loading, shown, disk, used, persisted, sequence, opVars, request, answered>>

CloseDrained ==
  /\ drains[Close].stage = "second" /\ drains[Close].waits = {}
  /\ IF Drained
     THEN /\ calls' = Append(calls, Ask("close", Absent, Absent))
          /\ drains' = [drains EXCEPT ![Close].stage = "asked"]
     ELSE drains' = [drains EXCEPT ![Close] = Resting] /\ UNCHANGED calls
  /\ UNCHANGED <<loading, shown, disk, used, noteVars, opVars, request, answered>>

\* The window is hidden, which flushes what was typed meanwhile.
CloseAnswered ==
  /\ Answered("close")
  /\ calls' = Tail(calls)
  /\ drains' = [drains EXCEPT ![Close] = Resting]
  /\ UNCHANGED <<loading, shown, disk, used, noteVars, opVars, request, answered>>

\* Mistake: only the writes are asked about, not what adds or removes notes.
CanPrepareBusy == ~loading
CanPrepare == ~loading /\ ~Busy /\ ~Closing

\* An update is prepared: the window freezes and drains, or refuses.
PrepareInstall(r) ==
  /\ answered[r] = "none" /\ drains[r] = Resting
  /\ IF Frozen \/ ~CanPrepare
     THEN /\ answered' = [answered EXCEPT ![r] = "no"]
          /\ UNCHANGED <<noteVars, calls, drains, request>>
     ELSE /\ request' = r
          /\ FlushPending /\ Begins(r, drains)
          /\ UNCHANGED <<persisted, sequence, answered>>
  /\ UNCHANGED <<loading, shown, disk, used, opVars>>

PrepareDrained(r) ==
  /\ drains[r].stage = "second" /\ drains[r].waits = {}
  /\ drains' = [drains EXCEPT ![r] = Resting]
  /\ answered' = [answered EXCEPT ![r] = IF Drained /\ request = r THEN "yes" ELSE "no"]
  /\ request' = IF request = r /\ ~Drained THEN NoRequest ELSE request
  /\ UNCHANGED <<loading, shown, disk, used, noteVars, opVars, calls>>

InstallCancelled(r) ==
  /\ request = r
  /\ request' = NoRequest
  /\ UNCHANGED <<loading, shown, disk, used, noteVars, opVars, calls, drains, answered>>

-----------------------------------------------------------------------------
MainAnswers == UpdateAnswered \/ CreateAnswered \/ NoteDeleted \/ DeleteRefused \/ CloseAnswered

Next ==
  \/ Load \/ AddNewNote \/ Flush \/ MainAnswers \/ CloseScratchpad \/ CloseDrained
  \/ \E n \in Notes : SaveTimerFires(n) \/ FlushScheduledSave(n) \/ DeleteNote(n)
                      \/ \E b \in Bodies : Type(n, b)
  \/ \E d \in Drains : DrainAgain(d)
  \/ \E r \in Requests : PrepareInstall(r) \/ PrepareDrained(r) \/ InstallCancelled(r)

Spec == Init /\ [][Next]_vars

\* Timers fire, calls are answered, and a drain continues.
Fairness ==
  /\ WF_vars(MainAnswers) /\ WF_vars(CloseDrained)
  /\ \A n \in Notes : WF_vars(SaveTimerFires(n))
  /\ \A d \in Drains : WF_vars(DrainAgain(d))
  /\ \A r \in Requests : WF_vars(PrepareDrained(r))

FairSpec == Spec /\ Fairness

-----------------------------------------------------------------------------
(* Properties *)

Kept == Listed \ deleted

\* A text that is not in the database is pending: its timer runs, a write is
\* in flight, or the window says that saving it failed (persistNote, Flush).
NothingForgotten ==
  \A n \in Kept : shown[n] # disk[n] =>
    /\ pending[n] = shown[n]
    /\ n \in Timed \union Writes \/ saveState[n] = "save-error"

\* "Saved" is only ever said of a text that is in the database.
SavedIsTrue == \A n \in Kept : saveState[n] = "saved" => shown[n] = disk[n]

\* What the window shows of a note changes only by an edit: no answer to an
\* older write replaces what was typed since (persistNote).
TypingIsKept ==
  \A n \in Listed : shown'[n] \in {shown[n], Absent} \/ sequence'[n] > sequence[n]

\* A window that told an update it is prepared, and was not released since,
\* shows only saved texts, and a write that a stale timer still started
\* changes none of them.
PreparedIsSaved ==
  \A r \in Requests : request = r /\ answered[r] = "yes" =>
    /\ \A n \in Listed : shown[n] = disk[n]
    /\ \A i \in DOMAIN calls : calls[i].kind = "update" /\ calls[i].body = disk[calls[i].note]

\* A revert to the saved text is written too, although a deletion failed in
\* between: "A newer body stays pending and is started when this write
\* settles, including a revert to the saved body."
RevertIsKept == NothingForgotten

\* Every edit is saved in the end, or the window says that it failed.
EditsSettle == \A n \in Notes : pending[n] # Absent ~> (pending[n] = Absent \/ saveState[n] = "save-error")

\* A window that froze for an update answers.
PreparationsAnswered == \A r \in Requests : request = r ~> (answered[r] # "none" \/ request # r)
=============================================================================
