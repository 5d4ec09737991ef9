------------------------------ MODULE PillHover ------------------------------
(***************************************************************************)
(* The size of the idle pill, which two processes decide: the main process *)
(* looks at the pointer every 75 ms and resizes the window                 *)
(* (src/main.ts, src/shared/pillLayout.ts), and the page sees the pointer  *)
(* enter and leave what it draws, asks for a size and draws it when it is  *)
(* there (src/renderer/pill/Pill.tsx).                                     *)
(*                                                                         *)
(* The screen is cut into the zones the sizes tell apart.  A window that   *)
(* changes under a resting pointer gives the page no event.  Messages keep *)
(* their order in each direction.  The idle page is taken away during a    *)
(* dictation and begins anew after it.  Left out: an update that refuses a *)
(* dictation, a page that fails, and a hidden pill.                        *)
(*                                                                         *)
(* A definition whose comment starts with "Mistake" is a plausible wrong   *)
(* version of the one after it; no specification uses it.                  *)
(***************************************************************************)
EXTENDS Naturals, Sequences

CONSTANTS
  Slow,      \* what other events may overtake: messages, those of the pointer among them,
             \* and saves of a microphone
  MaxUnread  \* bound: unread messages in each direction

PillAssumption == Slow \subseteq {"messages", "saves"} /\ MaxUnread \in Nat

VARIABLES
  pointer,    \* the zone of the pointer
  moved,      \* whether the page has yet to notice where it is
  session,    \* whether the pill is idle or busy with a dictation or a notice
  mode,       \* main: pillMode
  mounted,    \* whether the page draws the idle pill
  visual,     \* the size it draws
  over,       \* whether it saw the pointer enter
  inside,     \* pointerInside
  waiting,    \* its requests without an answer
  forgotten,  \* those of a page taken away
  choosing,   \* whether a microphone is being saved
  left,       \* the size a page taken away will ask for when it is saved, or "none"
  up,         \* messages to main: sizes, and the wish to dictate
  down        \* messages to the page: answers, sizes and sessions

pageVars == <<mounted, visual, over, inside, waiting, forgotten, choosing, left>>
vars == <<pointer, moved, session, mode, pageVars, up, down>>

-----------------------------------------------------------------------------
Modes == {"collapsed", "hover", "picker"}

\* All sizes stand on the same line, the lower edge.  `near' is the pad around the collapsed
\* pill as far as the hovered one covers it, `below' the part under the edge.
Zones == {"rail", "near", "body", "menu", "below", "away"}

Covers(m) ==
  CASE m = "collapsed" -> {"rail"}
    [] m = "hover"     -> {"rail", "near", "body"}
    [] m = "picker"    -> {"rail", "near", "body", "menu"}
Padded == {"rail", "near", "below"}

Answer(opens) == [kind |-> "answer", mode |-> opens]
Sized(m)      == [kind |-> "mode", mode |-> m]
Session(s)    == [kind |-> "session", mode |-> s]

TypeOK ==
  /\ pointer \in Zones /\ session \in {"idle", "busy"} /\ mode \in Modes /\ visual \in Modes
  /\ {moved, mounted, over, inside, choosing} \subseteq BOOLEAN
  /\ {waiting, forgotten} \subseteq Nat /\ left \in {"none", "hover", "collapsed"}
  /\ waiting + forgotten = Len(SelectSeq(up, LAMBDA u : u.mode \in Modes))
                            + Len(SelectSeq(down, LAMBDA d : d.kind = "answer"))

Init ==
  /\ pointer = "away" /\ moved = FALSE /\ session = "idle" /\ mode = "collapsed"
  /\ mounted = TRUE /\ visual = "collapsed" /\ over = FALSE /\ inside = FALSE
  /\ waiting = 0 /\ forgotten = 0 /\ choosing = FALSE /\ left = "none"
  /\ up = <<>> /\ down = <<>>

\* What comes from outside waits for whatever is not slow.
Quiet == "messages" \in Slow \/ (up = <<>> /\ down = <<>>)
Event ==
  /\ Quiet
  /\ "saves" \in Slow \/ (~choosing /\ left = "none")
Room == Len(up) < MaxUnread /\ Len(down) < MaxUnread

-----------------------------------------------------------------------------
(* Main.                                                                   *)

\* pillHoverModeForPointer: it expands only over what it will cover, and contracts without
\* any padding.  The picker is the page's.
MistakeHoverMode(m, z) ==
  CASE m = "collapsed" -> IF z \in Padded THEN "hover" ELSE "collapsed"
    [] m = "hover"     -> IF z \in Covers("hover") \union Padded THEN "hover" ELSE "collapsed"
    [] m = "picker"    -> "picker"
HoverMode(m, z) ==
  CASE m = "collapsed" -> IF z \in Padded /\ z \in Covers("hover") THEN "hover" ELSE "collapsed"
    [] m = "hover"     -> IF z \in Covers("hover") THEN "hover" ELSE "collapsed"
    [] m = "picker"    -> "picker"

MistakeTold(m) == <<>>
Told(m) == <<Sized(m)>>

\* followPillHover, which resizes the window and tells the page.
Poll ==
  /\ Event /\ Room /\ session = "idle" /\ HoverMode(mode, pointer) # mode
  /\ mode' = HoverMode(mode, pointer)
  /\ down' = down \o Told(mode')
  /\ UNCHANGED <<pointer, moved, session, pageVars, up>>

\* The page asks for a size.
SetMode ==
  /\ up # <<>> /\ Head(up).mode \in Modes
  /\ mode' = Head(up).mode
  /\ up' = Tail(up)
  /\ down' = Append(down, Answer(Head(up).opens))
  /\ UNCHANGED <<pointer, moved, session, pageVars>>

\* setSession: every state but idle starts from the collapsed pill.
Busy ==
  /\ session' = "busy" /\ mode' = "collapsed"
  /\ down' = Append(down, Session("busy"))
  /\ UNCHANGED <<pointer, moved, pageVars>>

\* A shortcut begins a dictation or goes on with it, or the page does.
Begins == Event /\ Room /\ Busy /\ UNCHANGED up

Toggled ==
  /\ up # <<>> /\ Head(up).mode = "toggle"
  /\ up' = Tail(up)
  /\ Busy

Ends ==
  /\ Event /\ Room /\ session = "busy"
  /\ session' = "idle"
  /\ down' = Append(down, Session("idle"))
  /\ UNCHANGED <<pointer, moved, mode, pageVars, up>>

-----------------------------------------------------------------------------
(* The page.                                                               *)

Move(z) ==
  /\ Event /\ z # pointer /\ ("messages" \in Slow \/ ~moved)
  /\ pointer' = z /\ moved' = TRUE
  /\ UNCHANGED <<session, mode, pageVars, up, down>>

\* requestPillMode; `opens' is what the page draws when the request is answered in time.
Ask(m, opens) ==
  /\ up' = Append(up, [mode |-> m, opens |-> opens])
  /\ waiting' = waiting + 1

\* The page draws its size, in the window there is.
Drawn == IF session = "idle" THEN Covers(visual) \intersect Covers(mode) ELSE {}

Enter ==
  /\ over' = TRUE /\ inside' = TRUE
  /\ IF visual = "picker" THEN UNCHANGED <<up, waiting>> ELSE Ask("hover", "hover")
  /\ UNCHANGED visual

\* hideControls: the page shrinks first.
MistakeShrunk == IF visual = "picker" THEN visual ELSE "collapsed"
Shrunk == "collapsed"

Leave ==
  /\ over' = FALSE /\ inside' = FALSE /\ visual' = Shrunk
  /\ Ask("collapsed", "none")

Notice ==
  /\ Quiet /\ moved /\ Room
  /\ moved' = FALSE
  /\ CASE mounted /\ ~over /\ pointer \in Drawn -> Enter
       [] mounted /\ over /\ pointer \notin Drawn -> Leave
       [] OTHER -> UNCHANGED <<visual, over, inside, waiting, up>>
  /\ UNCHANGED <<pointer, session, mode, mounted, forgotten, choosing, left, down>>

\* togglePicker, with a click on what is drawn.
TogglePicker ==
  /\ Event /\ Room /\ mounted /\ over /\ visual # "collapsed" /\ pointer \in Drawn
  /\ IF visual = "picker"
     THEN visual' = "hover" /\ Ask("hover", "none")
     ELSE Ask("picker", "picker") /\ UNCHANGED visual
  /\ UNCHANGED <<pointer, moved, session, mode, mounted, over, inside, forgotten, choosing, left, down>>

\* The click that begins a dictation shrinks the page first.
Toggle ==
  /\ Event /\ Room /\ mounted /\ over /\ visual # "collapsed" /\ pointer \in Drawn
  /\ visual' = "collapsed" /\ up' = Append(up, [mode |-> "toggle", opens |-> "none"])
  /\ UNCHANGED <<pointer, moved, session, mode, mounted, over, inside, waiting, forgotten, choosing,
                 left, down>>

\* chooseMicrophone, until the microphone is saved.
Choose ==
  /\ Event /\ mounted /\ visual = "picker" /\ pointer \in Drawn /\ ~choosing
  /\ choosing' = TRUE
  /\ UNCHANGED <<pointer, moved, session, mode, mounted, visual, over, inside, waiting, forgotten,
                 left, up, down>>

\* After it: a refused save changes nothing.
Chosen(saved) ==
  /\ choosing /\ Room
  /\ choosing' = FALSE
  /\ IF saved
     THEN LET m == IF inside THEN "hover" ELSE "collapsed"
          IN  visual' = m /\ Ask(m, "none")
     ELSE UNCHANGED <<visual, up, waiting>>
  /\ UNCHANGED <<pointer, moved, session, mode, mounted, over, inside, forgotten, left, down>>

\* The same of a page that was taken away in the meantime.
ChosenLate ==
  /\ left # "none" /\ Room
  /\ up' = Append(up, [mode |-> left, opens |-> "none"]) /\ forgotten' = forgotten + 1
  /\ left' = "none"
  /\ UNCHANGED <<pointer, moved, session, mode, mounted, visual, over, inside, waiting, choosing, down>>

-----------------------------------------------------------------------------
(* What the page hears.                                                    *)

\* An answer counts if no later request was made, and the pointer is still there.
Applied(opens) ==
  /\ IF forgotten > 0
     THEN forgotten' = forgotten - 1 /\ UNCHANGED <<waiting, visual>>
     ELSE /\ waiting' = waiting - 1 /\ UNCHANGED forgotten
          /\ visual' = IF waiting = 1 /\ opens # "none" /\ inside THEN opens ELSE visual
  /\ UNCHANGED <<mounted, over, inside, choosing, left>>

Followed(m) == IF visual = "picker" THEN visual ELSE m

\* The size main gave the window.
Follow(m) ==
  /\ IF mounted /\ Followed(m) # visual
     THEN visual' = Followed(m) /\ inside' = (Followed(m) # "collapsed")
     ELSE UNCHANGED <<visual, inside>>
  /\ UNCHANGED <<mounted, over, waiting, forgotten, choosing, left>>

\* Answers to a page taken away say nothing to the next one.
MistakeOrphans == forgotten
Orphans == forgotten + waiting

\* The idle pill is taken away, or drawn anew.
Mount(s) ==
  /\ IF mounted = (s = "idle")
     THEN UNCHANGED pageVars
     ELSE /\ mounted' = (s = "idle") /\ visual' = "collapsed" /\ over' = FALSE /\ inside' = FALSE
          /\ waiting' = 0 /\ forgotten' = Orphans /\ choosing' = FALSE
          /\ left' = IF choosing THEN IF inside THEN "hover" ELSE "collapsed" ELSE left

Hear ==
  /\ down # <<>>
  /\ down' = Tail(down)
  /\ LET d == Head(down)
     IN  CASE d.kind = "answer"  -> Applied(d.mode)
           [] d.kind = "mode"    -> Follow(d.mode)
           [] d.kind = "session" -> Mount(d.mode)
  /\ UNCHANGED <<pointer, moved, session, mode, up>>

-----------------------------------------------------------------------------
Next ==
  \/ Poll \/ SetMode \/ Toggled \/ Begins \/ Ends
  \/ Notice \/ Toggle \/ TogglePicker \/ Choose \/ ChosenLate \/ Hear
  \/ \E z \in Zones : Move(z)
  \/ \E saved \in BOOLEAN : Chosen(saved)

Spec == Init /\ [][Next]_vars

\* The timer runs and messages arrive.
FairSpec == Spec /\ WF_vars(Poll) /\ WF_vars(SetMode) /\ WF_vars(Toggled) /\ WF_vars(Hear)

-----------------------------------------------------------------------------
(* Properties.                                                             *)

\* Nothing is under way and nobody moves.
AtRest ==
  /\ session = "idle" /\ mounted /\ ~moved /\ ~choosing /\ left = "none"
  /\ up = <<>> /\ down = <<>> /\ HoverMode(mode, pointer) = mode

\* Then the page draws what the window is large enough for and no less
\* (tests/pillLayout.test.ts:298).
AgreeAtRest == AtRest => visual = mode

\* An open picker is never cut off by a smaller window.
PickerIsDrawn == AtRest /\ visual = "picker" => mode = "picker"

\* A hovered window is not left standing over what is behind it once the pointer is gone.
HoverIsNotParked ==
  session = "idle" /\ mode = "hover" /\ pointer \notin Covers("hover")
    ~> session # "idle" \/ mode # "hover" \/ pointer \in Covers("hover")
=============================================================================
