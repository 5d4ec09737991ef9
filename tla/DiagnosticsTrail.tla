--------------------------- MODULE DiagnosticsTrail ---------------------------
(***************************************************************************)
(* The trail of diagnostics: two files, the current and the previous one   *)
(* (src/main/diagnostics/diagnosticsRecorder.ts).                          *)
(*                                                                         *)
(* Records and clearings go through one queue and write step by step; a    *)
(* step may fail and the program may end between any two.  A reading waits *)
(* only for what was queued before it and then reads file after file.      *)
(* Every line counts one byte, a header is the line Header, and a record's *)
(* line is its number.  The checks of the directory and of the file kinds  *)
(* are among the reasons of a failing step.                                *)
(*                                                                         *)
(* A definition whose comment starts with "Mistake" is a plausible wrong   *)
(* version of the one after it; no specification uses it.                  *)
(***************************************************************************)
EXTENDS Naturals, Sequences, FiniteSets, SequencesExt

CONSTANTS
  MaxBytes,    \* MAX_FILE_BYTES, in lines
  MaxRecords,  \* bound: records made
  MaxClears,   \* bound: clearings asked for
  MaxFailures, \* bound: steps that fail
  MaxRestarts  \* bound: ends of the program

TrailAssumption == MaxBytes > 1 /\ {MaxBytes, MaxRecords, MaxClears, MaxFailures, MaxRestarts} \subseteq Nat

VARIABLES
  current, previous, \* the lines of the two files
  bytes, started,    \* what the recorder takes to be in the current one
  queue,             \* records and clearings not done, the first under way
  pc,                \* where that one is
  made,              \* records made so far
  reading,           \* a reading: none, waiting or between the files
  awaits,            \* how many entries of the queue it waits for
  asked,             \* the records made before it
  clears, failures, restarts,
  answer             \* the answer to the last clearing

files == <<current, previous>>
view  == <<reading, awaits, asked>>
bounds == <<clears, failures, restarts>>
vars  == <<files, bytes, started, queue, pc, made, view, bounds, answer>>

Header == 0
Clear == [kind |-> "clear", line |-> Header]
Record(n) == [kind |-> "record", line |-> n]
Records(file) == ToSet(file) \ {Header}

TypeOK ==
  /\ current \in Seq(0 .. MaxRecords) /\ previous \in Seq(0 .. MaxRecords)
  /\ bytes \in Nat /\ started \in BOOLEAN
  /\ \A i \in DOMAIN queue : queue[i] = Clear \/ \E n \in 1 .. made : queue[i] = Record(n)
  /\ pc \in {"start", "room", "empty", "copy", "cut", "head", "append", "count", "second"}
  /\ reading \in {"none", "waiting", "between"} /\ awaits \in 0 .. Len(queue)
  /\ answer \in {"none", "cleared", "failed"}

Init ==
  /\ current = <<>> /\ previous = <<>> /\ bytes = 0 /\ started = FALSE
  /\ queue = <<>> /\ pc = "start" /\ made = 0
  /\ reading = "none" /\ awaits = 0 /\ asked = 0
  /\ clears = 0 /\ failures = 0 /\ restarts = 0 /\ answer = "none"

-----------------------------------------------------------------------------
(* record(), clear() and read() *)

Make ==
  /\ made < MaxRecords
  /\ made' = made + 1 /\ queue' = Append(queue, Record(made'))
  /\ UNCHANGED <<files, bytes, started, pc, view, bounds, answer>>

AskClear ==
  /\ clears < MaxClears
  /\ clears' = clears + 1 /\ queue' = Append(queue, Clear) /\ answer' = "none"
  /\ UNCHANGED <<files, bytes, started, pc, made, view, failures, restarts>>

\* Mistake: it reads what is there.
WaitsForNothing == 0
\* Mistake: one more than is queued.
WaitsForNext == Len(queue) + 1
WaitsFor == Len(queue)

AskRead ==
  /\ reading = "none"
  /\ reading' = "waiting" /\ awaits' = WaitsFor /\ asked' = made
  /\ UNCHANGED <<files, bytes, started, queue, pc, made, bounds, answer>>

ReadPrevious ==
  /\ reading = "waiting" /\ awaits = 0
  /\ reading' = "between"
  /\ UNCHANGED <<files, bytes, started, queue, pc, made, awaits, asked, bounds, answer>>

ReadCurrent ==
  /\ reading = "between"
  /\ reading' = "none"
  /\ UNCHANGED <<files, bytes, started, queue, pc, made, awaits, asked, bounds, answer>>

-----------------------------------------------------------------------------
(* The entry of the queue that is under way *)

Busy(kind) == queue # <<>> /\ Head(queue).kind = kind

Finish ==
  /\ queue' = Tail(queue) /\ pc' = "start" /\ awaits' = IF awaits > 0 THEN awaits - 1 ELSE 0

\* ensureStarted() appends a header behind what an earlier run left.
\* Mistake: the file is taken to be empty.
BytesFromHere == 1
BytesFound == Len(current) + 1

Start ==
  /\ Busy("record") /\ pc = "start"
  /\ IF started THEN UNCHANGED <<current, bytes, started>>
     ELSE current' = Append(current, Header) /\ bytes' = BytesFound /\ started' = TRUE
  /\ pc' = "room"
  /\ UNCHANGED <<previous, queue, made, view, bounds, answer>>

Room ==
  /\ pc = "room"
  /\ pc' = IF bytes + 1 <= MaxBytes THEN "append" ELSE "empty"
  /\ UNCHANGED <<files, bytes, started, queue, made, view, bounds, answer>>

\* rotateIfNeeded() writes through the two open files, step by step.
\* Mistake: the current file is emptied before its lines are copied.
CutFirst == [empty |-> "cut", cut |-> "copy", copy |-> "head", head |-> "append"]
Order == [empty |-> "copy", copy |-> "cut", cut |-> "head", head |-> "append"]

EmptyPrevious ==
  /\ pc = "empty"
  /\ previous' = <<>> /\ pc' = Order[pc]
  /\ UNCHANGED <<current, bytes, started, queue, made, view, bounds, answer>>

CopyTrail ==
  /\ pc = "copy"
  /\ previous' = current /\ pc' = Order[pc]
  /\ UNCHANGED <<current, bytes, started, queue, made, view, bounds, answer>>

CutCurrent ==
  /\ pc = "cut"
  /\ current' = <<>> /\ pc' = Order[pc]
  /\ UNCHANGED <<previous, bytes, started, queue, made, view, bounds, answer>>

WriteHeader ==
  /\ pc = "head"
  /\ current' = Append(current, Header) /\ bytes' = 1 /\ pc' = Order[pc]
  /\ UNCHANGED <<previous, started, queue, made, view, bounds, answer>>

AppendLine ==
  /\ pc = "append"
  /\ current' = Append(current, Head(queue).line) /\ pc' = "count"
  /\ UNCHANGED <<previous, bytes, started, queue, made, view, bounds, answer>>

Count ==
  /\ pc = "count"
  /\ bytes' = bytes + 1
  /\ Finish
  /\ UNCHANGED <<files, started, made, reading, asked, bounds, answer>>

\* Mistake: only the file that is written to is cleared.
PreviousKept == previous
PreviousCleared == <<>>

ClearCurrent ==
  /\ Busy("clear") /\ pc = "start"
  /\ current' = <<>> /\ pc' = "second"
  /\ UNCHANGED <<previous, bytes, started, queue, made, view, bounds, answer>>

ClearPrevious ==
  /\ pc = "second"
  /\ previous' = PreviousCleared /\ bytes' = 0 /\ started' = FALSE
  /\ answer' = "cleared"
  /\ Finish
  /\ UNCHANGED <<current, made, reading, asked, bounds>>

\* Mistake: the rejection stays in the chain of promises.
DropRejected == queue' = queue /\ pc' = "rejected" /\ awaits' = awaits
DropFailed == Finish

\* A step fails; the queue goes on, and only a clearing tells its caller.
Fail ==
  /\ queue # <<>> /\ failures < MaxFailures
  /\ failures' = failures + 1
  /\ answer' = IF Head(queue).kind = "clear" THEN "failed" ELSE answer
  /\ DropFailed
  /\ UNCHANGED <<files, bytes, started, made, reading, asked, clears, restarts>>

Restart ==
  /\ restarts < MaxRestarts
  /\ restarts' = restarts + 1
  /\ queue' = <<>> /\ pc' = "start" /\ bytes' = 0 /\ started' = FALSE
  /\ reading' = "none" /\ awaits' = 0 /\ asked' = 0 /\ answer' = "none"
  /\ UNCHANGED <<files, made, clears, failures>>

Rotate == EmptyPrevious \/ CopyTrail \/ CutCurrent \/ WriteHeader
Work == Start \/ Room \/ Rotate \/ AppendLine \/ Count \/ ClearCurrent \/ ClearPrevious
Next == Make \/ AskClear \/ AskRead \/ ReadPrevious \/ ReadCurrent \/ Work \/ Fail \/ Restart
Spec == Init /\ [][Next]_vars /\ WF_vars(Work)

-----------------------------------------------------------------------------
(* Properties *)

\* A file stays near its limit over restarts, whose headers are not foreseen,
\* and over failures after a line was written but before it was counted.
TrailIsBounded == {Len(current), Len(previous)} \subseteq 0 .. (MaxBytes + failures + restarts)

\* Until the user clears the trail a line of the current file is never lost,
\* however a rotation is interrupted; only the previous file's lines go.
RecentLinesStay ==
  ~Busy("clear") => Records(current) \subseteq Records(current') \union Records(previous')

\* After a successful clearing no record made before it is on disk.
ClearedIsGone ==
  answer' = "cleared" /\ answer # "cleared" => Records(current') \union Records(previous') = {}

\* A reading comes to the files only when everything recorded before it has
\* been written or given up.
ReadIsUpToDate ==
     reading = "waiting" /\ reading' = "between" =>
       \A i \in DOMAIN queue : queue[i].kind = "record" => queue[i].line > asked

\* Nothing that goes wrong with one entry holds up the ones behind it.
QueueDrains == \A n \in 1 .. MaxRecords :
  (\E i \in DOMAIN queue : queue[i] = Record(n)) ~> (\A i \in DOMAIN queue : queue[i] # Record(n))
===============================================================================
