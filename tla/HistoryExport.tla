----------------------------- MODULE HistoryExport -----------------------------
(***************************************************************************)
(* The export of the history to a file of the user's choice: the handler   *)
(* of IPC.historyExport (src/main.ts), the reading of the records          *)
(* (database.ts, exportTranscriptionsWithIntegrity()) and the writing      *)
(* (src/main/persistence/privateFile.ts, writePrivateFile()).              *)
(*                                                                         *)
(* Two exports may run to the same file.  The reading is synchronous; the  *)
(* dialog before it and every step of the writing after it are awaited,    *)
(* and records come, go and become unreadable meanwhile.  A step may fail, *)
(* the program may end, and when the power goes a file keeps only what was *)
(* flushed.  A name always means the same file at two looks one after the  *)
(* other: the check that it does is not modelled.                          *)
(*                                                                         *)
(* A definition whose comment starts with "Mistake" is a plausible wrong   *)
(* version of the one after it; no specification uses it.                  *)
(***************************************************************************)
EXTENDS Naturals, FiniteSets

CONSTANTS
  Records,   \* records of the history
  Exports,   \* exports
  MaxFaults  \* bound: failing steps, ends of the program

ExportAssumption ==
  /\ MaxFaults \in Nat
  /\ {"none", "old"} \intersect Exports = {}

VARIABLES
  history,   \* the stored records
  readable,  \* those that can be decrypted
  at,        \* where each export is
  payload,   \* what it read
  temp,      \* its temporary file
  target,    \* the chosen file
  outcome,   \* how it ended
  due,       \* the records stored when its file was chosen, and those of them that could be read
  faults, down

vars == <<history, readable, at, payload, temp, target, outcome, due, faults, down>>

\* A file: its kind, whose contents it holds, how much of them, on the disk too?
NoFile  == [kind |-> "none", of |-> "none", part |-> "none", flushed |-> TRUE]
OldFile == [kind |-> "file", of |-> "old", part |-> "all", flushed |-> TRUE]
Odd     == [kind |-> "odd", of |-> "old", part |-> "all", flushed |-> TRUE]  \* a link, a directory
NoRead  == [records |-> {}, complete |-> FALSE]
Flow == [chosen |-> "check", check |-> "open", open |-> "write", write |-> "rest", rest |-> "sync",
         sync |-> "recheck", recheck |-> "rename", rename |-> "directory", directory |-> "idle"]

TypeOK ==
  /\ history \subseteq Records /\ readable \subseteq Records
  /\ at \in [Exports -> {"idle", "dialog"} \union DOMAIN Flow]
  /\ payload \in [Exports -> [records : SUBSET Records, complete : BOOLEAN]]
  /\ \A e \in Exports :
       /\ temp[e].of \in {"none", e} /\ temp[e].kind \in {"none", "file"}
       /\ temp[e] # NoFile /\ ~ down => at[e] \in DOMAIN Flow \ {"chosen", "check", "open"}
  /\ outcome \in [Exports -> {"none", "done", "refused"}]

Init ==
  /\ history = Records /\ readable = Records
  /\ at = [e \in Exports |-> "idle"] /\ payload = [e \in Exports |-> NoRead]
  /\ temp = [e \in Exports |-> NoFile] /\ target \in {NoFile, OldFile}
  /\ outcome = [e \in Exports |-> "none"] /\ due = [e \in Exports |-> <<{}, {}>>]
  /\ faults = 0 /\ down = FALSE

-----------------------------------------------------------------------------
(* The history, and the chosen file in other hands.                        *)

RecordChanges ==
  /\ ~ down
  /\ \E r \in Records :
       \/ history' = history \ {r} /\ readable' = readable
       \/ readable' = readable \ {r} /\ history' = history
  /\ UNCHANGED <<at, payload, temp, target, outcome, due, faults, down>>

TargetChanges ==
  /\ target' \in {OldFile, Odd} /\ faults < MaxFaults /\ faults' = faults + 1
  /\ UNCHANGED <<history, readable, at, payload, temp, outcome, due, down>>

-----------------------------------------------------------------------------
(* The handler.                                                            *)

Read == [records |-> history \intersect readable, complete |-> history \subseteq readable]

\* Mistake: the history is read while the dialog is shown.
ReadAtOnce(e) == payload' = [payload EXCEPT ![e] = Read]
Nothing(e)    == payload' = [payload EXCEPT ![e] = NoRead]

Ask(e) ==
  /\ ~ down /\ at[e] = "idle" /\ outcome[e] = "none"
  /\ at' = [at EXCEPT ![e] = "dialog"] /\ Nothing(e)
  /\ UNCHANGED <<history, readable, temp, target, outcome, due, faults, down>>

Cancel(e) ==
  /\ at[e] = "dialog" /\ at' = [at EXCEPT ![e] = "idle"] /\ outcome' = [outcome EXCEPT ![e] = "done"]
  /\ UNCHANGED <<history, readable, payload, temp, target, due, faults, down>>

\* Mistake: the file says nothing of the records it leaves out.
ReadSilently(e) == payload' = [payload EXCEPT ![e] = [Read EXCEPT !.complete = TRUE]]
ReadHistory(e) == payload' = [payload EXCEPT ![e] = IF @ = NoRead THEN Read ELSE @]

Choose(e) ==
  /\ at[e] = "dialog" /\ at' = [at EXCEPT ![e] = "check"] /\ ReadHistory(e)
  /\ due' = [due EXCEPT ![e] = <<history, history \intersect readable>>]
  /\ UNCHANGED <<history, readable, temp, target, outcome, faults, down>>

-----------------------------------------------------------------------------
(* The writing.                                                            *)

\* Mistake: the file is flushed after it took the target's place.
RenameFirst == [Flow EXCEPT !.rest = "recheck", !.rename = "sync", !.sync = "directory"]
After == Flow

Goes(e, step) == at[e] = step /\ at' = [at EXCEPT ![e] = After[step]]
Temp(e, file) == temp' = [temp EXCEPT ![e] = file]

\* Mistake: the contents go straight to the target.
InPlace(e, part) == target' = [kind |-> "file", of |-> e, part |-> part, flushed |-> FALSE]
                    /\ temp' = temp
Aside(e, part) == Temp(e, [kind |-> "file", of |-> e, part |-> part, flushed |-> FALSE]) /\ target' = target

Safe == target.kind # "odd"

Prepare(e) ==
  /\ \/ Safe /\ (Goes(e, "check") \/ Goes(e, "recheck")) /\ UNCHANGED <<temp, target>>
     \/ Goes(e, "open") /\ Aside(e, "none")
     \/ Goes(e, "write") /\ Aside(e, "some")
     \/ Goes(e, "rest") /\ Aside(e, "all")
     \/ Goes(e, "sync") /\ Temp(e, [temp[e] EXCEPT !.flushed = TRUE]) /\ target' = target
  /\ UNCHANGED <<history, readable, payload, outcome, due, faults, down>>

Replace(e) ==
  /\ Goes(e, "rename") /\ target' = temp[e] /\ Temp(e, NoFile)
  /\ UNCHANGED <<history, readable, payload, outcome, due, faults, down>>

FlushDirectory(e) ==
  /\ Goes(e, "directory") /\ outcome' = [outcome EXCEPT ![e] = "done"]
  /\ UNCHANGED <<history, readable, payload, temp, target, due, faults, down>>

\* Mistake: a failed export leaves its temporary file.
Leave(e)  == temp' = temp
TidyUp(e) == Temp(e, NoFile)

Refuse(e) ==
  /\ at[e] \in DOMAIN Flow
  /\ \/ at[e] \in {"check", "recheck"} /\ ~ Safe /\ faults' = faults
     \/ faults < MaxFaults /\ faults' = faults + 1
  /\ at' = [at EXCEPT ![e] = "idle"] /\ outcome' = [outcome EXCEPT ![e] = "refused"] /\ TidyUp(e)
  /\ UNCHANGED <<history, readable, payload, target, due, down>>

\* The program ends; when the power goes too, what was not flushed is lost.
End ==
  /\ ~ down /\ faults < MaxFaults /\ faults' = faults + 1 /\ down' = TRUE
  /\ at' = [e \in Exports |-> "idle"]
  /\ target' \in {target, [target EXCEPT !.part = IF target.flushed THEN @ ELSE "some"]}
  /\ UNCHANGED <<history, readable, payload, temp, outcome, due>>

-----------------------------------------------------------------------------

Writing(e) == Prepare(e) \/ Replace(e) \/ FlushDirectory(e) \/ Refuse(e)

Next ==
  \/ RecordChanges \/ TargetChanges \/ End
  \/ \E e \in Exports : ~ down /\ (Ask(e) \/ Cancel(e) \/ Choose(e) \/ Writing(e))

Spec == Init /\ [][Next]_vars

-----------------------------------------------------------------------------

\* The chosen file is at every moment, over failing steps, two exports to it and
\* the loss of power, a whole file: the one before, or all of one export.
TargetIsWhole == target.kind = "file" => target.part = "all"

\* A file says whether it is complete, and it holds what was stored and readable
\* when its place was chosen: nothing deleted while the dialog was open.
FileTellsTheTruth == target.of \in Exports =>
  LET e == target.of IN
    payload[e] = [records |-> due[e][2], complete |-> due[e][1] = due[e][2]]

\* An export that has ended leaves no copy of the history beside its file.
NothingIsLeft == \A e \in Exports : outcome[e] # "none" => temp[e] = NoFile

\* The exports of the history are whole: all that is said of their files above.
ExportIsWhole == TypeOK /\ TargetIsWhole /\ FileTellsTheTruth /\ NothingIsLeft

=============================================================================
