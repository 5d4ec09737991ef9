------------------------------ MODULE MCUpdates ------------------------------
(****************************************************************************)
(* The installation of updates, the Notes window that an update asks to     *)
(* save, and the windows of the application with their replacement after a  *)
(* failure. They share no state, so a behaviour of all of them is one of    *)
(* each: `part' picks the component that moves, once and for all, and the   *)
(* variables of the others are Off (those of UpdateInstall are at their     *)
(* start).                                                                  *)
(****************************************************************************)
EXTENDS UpdateInstall

CONSTANTS
  Parts,  \* the components to check, each by itself
  Off,    \* the value of the variables of the others
  Absent,  \* no such note, or no such text
  NoPreparation

VARIABLES
  part,  \* the component that moves
  \* NotesEditor
  loading, shown, disk, used, persisted, pending, timer, sequence, writing, saveState, deleted,
  deleting, notesUnsaved, creating, calls, drains, notesRequest, answered,
  \* AppWindows
  made, windowsWindow, owner, latch, failures, reports, queue, focus, session, active, showIdle,
  preparing, drained, windowsQuitting

AtStart == Init /\ \A e \in Editors : window[e]

NotesWindow == INSTANCE NotesEditor WITH Notes <- {"n1", "n2"}, Bodies <- {"a", "b"},
  Empty <- "a", Requests <- {"r1"}, NoRequest <- NoPreparation, MaxEdits <- 2,
  DeleteFails <- FALSE, unsaved <- notesUnsaved, request <- notesRequest
Windows == INSTANCE AppWindows WITH Editors <- {"settings"}, Settings <- "settings",
  Pill <- "pill", MaxWindows <- 4, MaxFailures <- 2, Prompt <- FALSE, window <- windowsWindow,
  quitting <- windowsQuitting
Prompt == INSTANCE AppWindows WITH Editors <- {"settings"}, Settings <- "settings",
  Pill <- "pill", MaxWindows <- 4, MaxFailures <- 2, Prompt <- TRUE, window <- windowsWindow,
  quitting <- windowsQuitting

notesWindowVars == <<loading, shown, disk, used, persisted, pending, timer, sequence, writing,
  saveState, deleted, deleting, notesUnsaved, creating, calls, drains, notesRequest, answered>>
windowsVars == <<made, windowsWindow, owner, latch, failures, reports, queue, focus, session,
  active, showIdle, preparing, drained, windowsQuitting>>

NotesWindowOff ==
  /\ loading = Off /\ shown = Off /\ disk = Off /\ used = Off /\ persisted = Off
  /\ pending = Off /\ timer = Off /\ sequence = Off /\ writing = Off /\ saveState = Off
  /\ deleted = Off /\ deleting = Off /\ notesUnsaved = Off /\ creating = Off /\ calls = Off
  /\ drains = Off /\ notesRequest = Off /\ answered = Off
WindowsOff ==
  /\ made = Off /\ windowsWindow = Off /\ owner = Off /\ latch = Off /\ failures = Off
  /\ reports = Off /\ queue = Off /\ focus = Off /\ session = Off /\ active = Off
  /\ showIdle = Off /\ preparing = Off /\ drained = Off /\ windowsQuitting = Off

MCInit ==
  /\ part \in Parts
  /\ \/ part = "update" /\ Init /\ NotesWindowOff /\ WindowsOff
     \/ part = "notes" /\ NotesWindow!Init /\ AtStart /\ WindowsOff
     \/ part = "windows" /\ Windows!Init /\ AtStart /\ NotesWindowOff
     \/ part = "prompt" /\ Prompt!Init /\ AtStart /\ NotesWindowOff

MCNext ==
  /\ UNCHANGED part
  /\ \/ part = "update" /\ Next /\ UNCHANGED <<notesWindowVars, windowsVars>>
     \/ part = "notes" /\ NotesWindow!Next /\ UNCHANGED <<vars, windowsVars>>
     \/ part = "windows" /\ Windows!Next /\ UNCHANGED <<vars, notesWindowVars>>
     \/ part = "prompt" /\ Prompt!Next /\ UNCHANGED <<vars, notesWindowVars>>

MCVars == <<part, vars, notesWindowVars, windowsVars>>
MCSpec == MCInit /\ [][MCNext]_MCVars

-----------------------------------------------------------------------------
ASSUME NotesWindow!NotesAssumption /\ Windows!WindowsAssumption /\ Prompt!WindowsAssumption

\* What an editor holds survives it: no edit of a note is forgotten, "Saved" is said
\* only of a text that is in the database, and a window that told an update it is
\* prepared stays so (ScratchpadApp persistNote, prepareInstall).  Each surface has one
\* window, replaced after a failure once, without taking the focus or reopening what
\* was closed, and never unasked while an update is prepared; Settings and Notes come
\* back (main.ts recoverRendererWindow).
EditorsAreKept ==
  /\ part = "notes" =>
       /\ NotesWindow!TypeOK /\ NotesWindow!NothingForgotten
       /\ NotesWindow!SavedIsTrue /\ NotesWindow!PreparedIsSaved
  /\ part = "windows" =>
       /\ Windows!TypeOK /\ Windows!OneWindowEach /\ Windows!RecoveryIsBounded
       /\ Windows!RecoveryKeepsFocus /\ Windows!HiddenStaysHidden
       /\ Windows!EveryEditorIsDrained /\ Windows!PillShowsState
  /\ part = "prompt" => Prompt!EditorsReturn

\* What the window shows of a note changes only by an edit: no answer to an
\* older write replaces what was typed since (persistNote).
TypingIsKept == [][part = "notes" => NotesWindow!TypingIsKept]_notesWindowVars

=============================================================================
