------------------------- MODULE InsertionSafetyProofs -------------------------
(***************************************************************************)
(* SafeInsertion keeps its types and InsertionInvariant, and with it every *)
(* safety property its runs check, for every set of insertions, contents   *)
(* and places, whatever the helper may fail to see, and every bound. Then  *)
(* the shortcuts: a hold ends with its keys (HoldGesture), the shortcuts   *)
(* in use are the saved ones (HotkeyService), and what a recorder began    *)
(* it ends (ShortcutCapture), each component with its own variables.       *)
(***************************************************************************)
EXTENDS SafeInsertion, FiniteSetTheorems, TLAPS

-----------------------------------------------------------------------------
(* Types *)

\* What the helper reports of a place is a sighting.
LEMMA SeesType ==
  ASSUME NEW place \in Places, NEW t \in Sees(place)
  PROVE  t \in Sightings \union {NoTarget}
<1>1. /\ place.app \in Apps /\ place.window \in Windows /\ place.control \in Controls
  BY DEF Places
<1>2. CASE t # NoTarget
  <2>1. PICK l \in Lapses :
          t = [app      |-> place.app,
               window   |-> IF "window" \in l THEN Hidden ELSE place.window,
               control  |-> IF "control" \in l THEN Hidden ELSE place.control,
               editable |-> "editable" \notin l,
               cold     |-> "cold" \in l]
    BY <1>2 DEF Sees
  <2>2. ("editable" \notin l) \in BOOLEAN /\ ("cold" \in l) \in BOOLEAN OBVIOUS
  <2> QED BY <1>1, <2>1, <2>2 DEF Sightings
<1> QED BY <1>2

LEMMA FreshType == Fresh \in Locals
BY DEF Fresh, Locals, NoSequence, PasteSteps

LEMMA AppendType ==
  ASSUME WorldTypeOK, NEW c \in Contents \union {Mixed}
  PROVE  /\ Append(clipboard, c) \in Seq(Contents \union {Mixed})
         /\ Append(clipboard, c) # <<>>
         /\ Len(Append(clipboard, c)) = Len(clipboard) + 1
         /\ \A n \in 1 .. Len(clipboard) : Append(clipboard, c)[n] = clipboard[n]
         /\ Append(clipboard, c)[Len(clipboard) + 1] = c
BY DEF WorldTypeOK

LEMMA ContentType ==
  ASSUME WorldTypeOK
  PROVE  /\ Len(clipboard) \in Nat \ {0}
         /\ Content \in Contents \union {Mixed}
BY DEF WorldTypeOK, Content

LEMMA AwaitType ==
  ASSUME TaskTypeOK, NEW i \in Insertions, NEW s \in Stages, NEW l \in Locals,
         Await(i, s, l), queue' \in Seq(Insertions)
  PROVE  TaskTypeOK'
BY DEF TaskTypeOK, Await, Locals

LEMMA FinishType ==
  ASSUME TaskTypeOK, NEW i \in Insertions, NEW o \in Outcomes,
         Finish(i, o), queue' \in Seq(Insertions)
  PROVE  TaskTypeOK'
BY FreshType DEF TaskTypeOK, Finish, Stages

LEMMA CopyOnlyType ==
  ASSUME TaskTypeOK, WorldTypeOK, NEW i \in Insertions, CopyOnly(i),
         queue' \in Seq(Insertions), UNCHANGED <<keystroke, focus>>
  PROVE  TaskTypeOK' /\ WorldTypeOK'
<1>1. TaskTypeOK' BY FinishType DEF CopyOnly, Outcomes
<1>2. i \in Contents \union {Mixed} BY DEF Contents
<1> QED BY <1>1, <1>2, AppendType DEF CopyOnly, Writes, WorldTypeOK

\* A second look is taken only after a first one that came out of activation.
SecondLookIsCold ==
  \A g \in Generations : capture[g].stage \in {"second", "secondSeen"} =>
    capture[g].first # NoTarget /\ capture[g].first.cold

\* The target promises and the session.
LEMMA CapturingType ==
  ASSUME TypeOK, SecondLookIsCold, NEW g \in Generations, Capturing(g)
  PROVE  TypeOK' /\ SecondLookIsCold'
<1> USE DEF TypeOK
<1>1. TaskTypeOK' /\ WorldTypeOK'
  BY DEF Capturing, HelperSees, FirstCapture, SecondCapture, NameTarget, notCapture,
         taskVars, worldVars, TaskTypeOK, WorldTypeOK
<1>2. /\ capture[g].first \in Sightings \union {NoTarget}
      /\ capture[g].target \in Sightings \union {NoTarget}
  BY DEF SessionTypeOK, Captures
<1>3. ASSUME NEW t \in Sightings \union {NoTarget}, Resolve(g, t)
      PROVE  capture' \in [Generations -> Captures]
  BY ZenonT(40), <1>3 DEF Resolve, SessionTypeOK, Captures
<1>4. CASE HelperSees(g)
  <2>1. PICK t \in Sees(focus) :
           \/ capture' = [capture EXCEPT ![g].stage = "firstSeen", ![g].first = t]
           \/ capture' = [capture EXCEPT ![g].stage = "secondSeen", ![g].target = t]
    BY <1>4 DEF HelperSees
  <2>2. t \in Sightings \union {NoTarget} BY SeesType DEF WorldTypeOK
  <2>3. capture' \in [Generations -> Captures]
    BY <2>1, <2>2 DEF SessionTypeOK, Captures
  <2>4. SecondLookIsCold'
    BY <1>4 DEF HelperSees, SecondLookIsCold, SessionTypeOK, Captures
  <2> QED BY <1>1, <1>4, <2>3, <2>4 DEF HelperSees, notCapture, SessionTypeOK
<1>5. CASE FirstCapture(g)
  <2>1. capture' \in [Generations -> Captures]
    <3>1. CASE capture' = [capture EXCEPT ![g].stage = "second"]
      BY <3>1 DEF SessionTypeOK, Captures
    <3>2. CASE Resolve(g, NoTarget) \/ Resolve(g, capture[g].first)
      BY <3>2, <1>2, <1>3
    <3> QED BY <1>5, <3>1, <3>2 DEF FirstCapture
  <2>2. SecondLookIsCold'
    BY <1>5 DEF FirstCapture, Resolve, ShouldRetryCold, SecondLookIsCold, SessionTypeOK,
                Captures
  <2> QED BY <1>1, <1>5, <2>1, <2>2 DEF FirstCapture, notCapture, SessionTypeOK
<1>6. CASE SecondCapture(g)
  <2>1. ASSUME NEW t \in Sightings
        PROVE  WithoutAuthority(t) \in Sightings
    BY DEF WithoutAuthority, Sightings
  <2>2. capture[g].first \in Sightings
    BY <1>2, <1>6 DEF SecondCapture, SecondLookIsCold
  <2>3. sameCaptureAnchor(capture[g].first, capture[g].target)
          => capture[g].target \in Sightings
    BY <1>2 DEF sameCaptureAnchor
  <2>4. \E t \in Sightings \union {NoTarget} : Resolve(g, t)
    BY <1>6, <1>2, <2>1, <2>2, <2>3 DEF SecondCapture
  <2>5. capture' \in [Generations -> Captures] BY <1>3, <2>4
  <2>6. SecondLookIsCold'
    BY <2>4 DEF Resolve, SecondLookIsCold, SessionTypeOK, Captures
  <2> QED BY <1>1, <1>6, <2>5, <2>6 DEF SecondCapture, notCapture, SessionTypeOK
<1>7. CASE NameTarget(g)
  <2>1. AppOf(capture[g].target) \in Apps \union {NoTarget}
    BY <1>2 DEF AppOf, Sightings
  <2>2. SecondLookIsCold'
    BY <1>7 DEF NameTarget, SecondLookIsCold, SessionTypeOK, Captures
  <2> QED BY <1>1, <1>7, <2>1, <2>2 DEF NameTarget, notCapture, SessionTypeOK, Captures
<1> QED BY <1>4, <1>5, <1>6, <1>7 DEF Capturing

\* The awaits of insert().
LEMMA InsertingType ==
  ASSUME TypeOK, NEW i \in Insertions, Inserting(i)
  PROVE  TypeOK'
<1> USE DEF TypeOK
<1>1. local[i] \in Locals BY DEF TaskTypeOK
<1>2. /\ queue' \in Seq(Insertions)
      /\ SessionTypeOK'
      /\ UNCHANGED <<keystroke, focus>>
  <2>1. UNCHANGED <<sessionVars, keystroke, focus>>
    BY DEF Inserting, Start, SessionInvalidated, TargetCaptured, SnapshotStarts,
           SnapshotEnds, SequenceAfterSnapshot, SequenceAfterWrite, TargetRechecked,
           SequenceBeforePaste, PasteAnswered, Acknowledged, NotAcknowledged,
           SequenceBeforeRestore, worldVars
  <2>2. CASE Start(i) BY <2>1, <2>2 DEF Start, sessionVars, SessionTypeOK, TaskTypeOK
  <2>3. CASE UNCHANGED queue BY <2>1, <2>3 DEF sessionVars, SessionTypeOK, TaskTypeOK
  <2> QED BY <2>1, <2>2, <2>3
    DEF Inserting, SessionInvalidated, TargetCaptured, SnapshotStarts,
        SnapshotEnds, SequenceAfterSnapshot, SequenceAfterWrite, TargetRechecked,
        SequenceBeforePaste, PasteAnswered, Acknowledged, NotAcknowledged,
        SequenceBeforeRestore
<1>3. ASSUME NEW s \in Stages, NEW l \in Locals, Await(i, s, l), UNCHANGED clipboard
      PROVE  TaskTypeOK' /\ WorldTypeOK'
  BY <1>2, <1>3, AwaitType DEF WorldTypeOK
<1>4. ASSUME NEW o \in Outcomes, Finish(i, o), UNCHANGED clipboard
      PROVE  TaskTypeOK' /\ WorldTypeOK'
  BY <1>2, <1>4, FinishType DEF WorldTypeOK
<1>5. ASSUME CopyOnly(i) PROVE TaskTypeOK' /\ WorldTypeOK'
  BY <1>2, <1>5, CopyOnlyType
<1>6. CASE Start(i)
  BY <1>6, <1>2, <1>3, <1>4, <1>5, FreshType DEF Start, Stages, Running, Outcomes
<1>7. CASE SessionInvalidated(i)
  BY <1>7, <1>2, <1>4 DEF SessionInvalidated, worldVars, Outcomes
<1>8. CASE TargetCaptured(i)
  BY <1>8, <1>1, <1>2, <1>3, <1>5 DEF TargetCaptured, Stages, Running
<1>9. CASE SnapshotStarts(i)
  <2>1. [local[i] EXCEPT !.before = local[i].read, !.snapshot = Content] \in Locals
    BY <1>1, ContentType DEF Locals
  <2> QED BY <1>9, <1>2, <1>3, <2>1 DEF SnapshotStarts, worldVars, Stages, Running
<1>10. CASE SnapshotEnds(i)
  <2>1. [local[i] EXCEPT
           !.snapshot = IF Content = local[i].snapshot THEN Content ELSE Mixed] \in Locals
    BY <1>1, ContentType DEF Locals
  <2> QED BY <1>10, <1>2, <1>3, <1>5, <2>1 DEF SnapshotEnds, Stages, Running
<1>11. CASE SequenceAfterSnapshot(i)
  <2>1. CASE CopyOnly(i) BY <1>11, <1>2, <1>5, <2>1 DEF SequenceAfterSnapshot
  <2>2. CASE Writes(i) /\ Await(i, "written", [local[i] EXCEPT !.before = local[i].read])
    <3>1. [local[i] EXCEPT !.before = local[i].read] \in Locals BY <1>1 DEF Locals
    <3>2. TaskTypeOK' BY <1>2, <2>2, <3>1, AwaitType DEF Stages, Running
    <3>3. WorldTypeOK' BY <1>2, <2>2, AppendType DEF Writes, WorldTypeOK, Contents
    <3> QED BY <1>2, <3>2, <3>3
  <2> QED BY <1>11, <2>1, <2>2 DEF SequenceAfterSnapshot
<1>12. CASE SequenceAfterWrite(i)
  <2>1. [local[i] EXCEPT !.written = local[i].read] \in Locals BY <1>1 DEF Locals
  <2> QED BY <1>12, <1>2, <1>3, <1>4, <2>1
      DEF SequenceAfterWrite, worldVars, Stages, Running, Outcomes
<1>13. CASE TargetRechecked(i)
  BY <1>13, <1>1, <1>2, <1>3 DEF TargetRechecked, worldVars, Stages, Running
<1>14. CASE SequenceBeforePaste(i)
  BY <1>14, <1>1, <1>2, <1>3, <1>4
  DEF SequenceBeforePaste, worldVars, Stages, Running, Outcomes
<1>15. CASE PasteAnswered(i)
  BY <1>15, <1>1, <1>2, <1>3, <1>4
  DEF PasteAnswered, unacknowledgedOutcome, worldVars, Stages, Running, Outcomes
<1>16. CASE Acknowledged(i)
  BY <1>16, <1>1, <1>2, <1>3, <1>4 DEF Acknowledged, worldVars, Stages, Running, Outcomes
<1>17. CASE NotAcknowledged(i)
  BY <1>17, <1>2, <1>4 DEF NotAcknowledged, worldVars, Outcomes
<1>18. CASE SequenceBeforeRestore(i)
  <2>1. TaskTypeOK' BY <1>18, <1>2, FinishType DEF SequenceBeforeRestore, Outcomes
  <2>2. local[i].snapshot \in Contents \union {Mixed} BY <1>1 DEF Locals
  <2>3. WorldTypeOK' BY <1>18, <1>2, <2>2, AppendType DEF SequenceBeforeRestore, WorldTypeOK
  <2> QED BY <1>2, <2>1, <2>3
<1> QED BY <1>6, <1>7, <1>8, <1>9, <1>10, <1>11, <1>12, <1>13, <1>14, <1>15, <1>16,
           <1>17, <1>18 DEF Inserting

\* The helper.
LEMMA HelpingType ==
  ASSUME TypeOK, NEW i \in Insertions, Helping(i)
  PROVE  TypeOK'
<1> USE DEF TypeOK
<1>1. CASE HelperAnswers(i)
  <2>1. \A n \in {NoSequence, changeCount} : n \in Nat
    BY ContentType DEF changeCount, NoSequence
  <2>2. \A t \in Sees(focus) : t \in Sightings \union {NoTarget}
    BY SeesType DEF WorldTypeOK
  <2>3. local' \in [Insertions -> Locals]
    <3>1. CASE \E n \in {NoSequence, changeCount} :
                 local' = [local EXCEPT ![i].read = n, ![i].answered = TRUE]
      <4>1. PICK n \in Nat :
              local' = [local EXCEPT ![i].read = n, ![i].answered = TRUE]
        BY <2>1, <3>1
      <4> QED BY ZenonT(40), <4>1 DEF TaskTypeOK, Locals
    <3>2. CASE \E t \in Sees(focus) :
                 local' = [local EXCEPT ![i].current = t, ![i].answered = TRUE]
      <4>1. PICK t \in Sightings \union {NoTarget} :
              local' = [local EXCEPT ![i].current = t, ![i].answered = TRUE]
        BY <2>2, <3>2
      <4> QED BY ZenonT(40), <4>1 DEF TaskTypeOK, Locals
    <3> QED BY <1>1, <3>1, <3>2 DEF HelperAnswers
  <2> QED BY <1>1, <2>3
      DEF HelperAnswers, sessionVars, worldVars, SessionTypeOK, TaskTypeOK, WorldTypeOK
<1>2. ASSUME NEW step \in PasteSteps, HelperPastes(i, step),
             keystroke' \in [Insertions -> {"none", "posted", "consumed"}]
      PROVE  TypeOK'
  <2> DEFINE final == step \notin {"matched", "cleared"}
  <2>0. final \in BOOLEAN OBVIOUS
  <2>1. local' \in [Insertions -> Locals]
    <3>1. local' = [local EXCEPT ![i].paste = step, ![i].answered = final]
      BY <1>2 DEF HelperPastes
    <3> HIDE DEF final
    <3> QED BY ZenonT(40), <1>2, <2>0, <3>1 DEF TaskTypeOK, Locals
  <2> QED BY <1>2, <2>1
      DEF HelperPastes, sessionVars, worldVars, SessionTypeOK, TaskTypeOK, WorldTypeOK
<1>3. CASE HelperMatchesTarget(i)
  BY <1>2, <1>3 DEF HelperMatchesTarget, PasteSteps, WorldTypeOK
<1>4. CASE HelperClearsSequence(i)
  BY <1>2, <1>4 DEF HelperClearsSequence, PasteSteps, WorldTypeOK
<1>5. CASE HelperPosts(i)
  <2>1. keystroke' \in [Insertions -> {"none", "posted", "consumed"}]
    BY <1>5 DEF HelperPosts, WorldTypeOK
  <2>2. Injections \union {"failed"} \subseteq PasteSteps BY InsertionAssumption DEF PasteSteps
  <2> QED BY <1>2, <1>5, <2>1, <2>2 DEF HelperPosts
<1>6. CASE HelperPasteFails(i)
  BY <1>2, <1>6 DEF HelperPasteFails, PasteSteps, WorldTypeOK
<1> QED BY <1>1, <1>3, <1>4, <1>5, <1>6 DEF Helping

\* The calls of the session and the other programs.
LEMMA CallType ==
  ASSUME TypeOK, SecondLookIsCold,
         \/ beginSession \/ cancelSession \/ World
         \/ \E i \in Insertions, autoPaste \in BOOLEAN : insert(i, autoPaste)
  PROVE  TypeOK' /\ SecondLookIsCold'
<1> USE DEF TypeOK
<1> USE InsertionAssumption
<1>1. CASE beginSession
  <2>1. captureGeneration + 1 \in Generations
    BY <1>1 DEF beginSession, SessionTypeOK, Generations
  <2>2. capture' \in [Generations -> Captures] /\ SecondLookIsCold'
    BY <1>1, <2>1 DEF beginSession, SessionTypeOK, Captures, SecondLookIsCold
  <2>3. SessionTypeOK'
    BY <1>1, <2>1, <2>2 DEF beginSession, SessionTypeOK, Generations
  <2> QED BY <1>1, <2>2, <2>3
      DEF beginSession, taskVars, worldVars, TaskTypeOK, WorldTypeOK
<1>2. CASE cancelSession
  BY <1>2 DEF cancelSession, generationAfterCancel, taskVars, worldVars, SessionTypeOK,
              TaskTypeOK, WorldTypeOK, SecondLookIsCold
<1>3. CASE World
  <2>1. SessionTypeOK' /\ TaskTypeOK' /\ SecondLookIsCold'
    BY <1>3 DEF World, OthersCopy, FocusMoves, Consume, sessionVars, taskVars,
                SessionTypeOK, TaskTypeOK, SecondLookIsCold
  <2>2. WorldTypeOK'
    <3>1. CASE \E c \in UserCopies : OthersCopy(c)
      BY <3>1, AppendType DEF OthersCopy, WorldTypeOK, Contents
    <3>2. CASE \E place \in Places : FocusMoves(place)
      BY <3>2 DEF FocusMoves, WorldTypeOK
    <3>3. CASE \E i \in Insertions : Consume(i)
      BY <3>3 DEF Consume, WorldTypeOK, worldVars
    <3> QED BY <1>3, <3>1, <3>2, <3>3 DEF World
  <2> QED BY <2>1, <2>2
<1>4. CASE \E i \in Insertions, autoPaste \in BOOLEAN : insert(i, autoPaste)
  <2>1. PICK i \in Insertions, autoPaste \in BOOLEAN : insert(i, autoPaste) BY <1>4
  <2>2. TaskTypeOK'
    BY <2>1 DEF insert, TaskTypeOK, SessionTypeOK, Bindings, Stages
  <2>3. SessionTypeOK' /\ WorldTypeOK' /\ SecondLookIsCold'
    BY <2>1 DEF insert, SessionTypeOK, WorldTypeOK, worldVars, SecondLookIsCold
  <2> QED BY <2>2, <2>3
<1> QED BY <1>1, <1>2, <1>3, <1>4

LEMMA TypeStep ==
  ASSUME TypeOK, SecondLookIsCold, [Next]_vars PROVE TypeOK' /\ SecondLookIsCold'
<1>1. CASE Next
  <2>1. ASSUME NEW i \in Insertions, Inserting(i) \/ Helping(i)
        PROVE  UNCHANGED capture
    BY <2>1 DEF Inserting, Start, SessionInvalidated, TargetCaptured, SnapshotStarts,
       SnapshotEnds, SequenceAfterSnapshot, SequenceAfterWrite, TargetRechecked,
       SequenceBeforePaste, PasteAnswered, Acknowledged, NotAcknowledged,
       SequenceBeforeRestore, Helping, HelperAnswers, HelperPastes, HelperMatchesTarget,
       HelperClearsSequence, HelperPosts, HelperPasteFails, sessionVars
  <2>2. ASSUME NEW i \in Insertions, Inserting(i) \/ Helping(i)
        PROVE  TypeOK' /\ SecondLookIsCold'
    BY <2>1, <2>2, InsertingType, HelpingType DEF SecondLookIsCold
  <2> QED BY <1>1, <2>2, CapturingType, CallType DEF Next
<1>2. CASE UNCHANGED vars
  BY <1>2 DEF vars, sessionVars, taskVars, worldVars, TypeOK, SessionTypeOK, TaskTypeOK,
              WorldTypeOK, SecondLookIsCold
<1> QED BY <1>1, <1>2

LEMMA TypeInit == Init => TypeOK /\ SecondLookIsCold
<1> SUFFICES ASSUME Init PROVE TypeOK /\ SecondLookIsCold OBVIOUS
<1> USE InsertionAssumption
<1>1. SessionTypeOK /\ SecondLookIsCold
  BY DEF Init, SessionTypeOK, Captures, SecondLookIsCold, NoPromise
<1>2. TaskTypeOK
  BY FreshType DEF Init, TaskTypeOK, Bindings, Stages, Outcomes, NoPromise
<1>3. WorldTypeOK
  BY DEF Init, WorldTypeOK, Contents
<1> QED BY <1>1, <1>2, <1>3 DEF TypeOK

\* Every reachable state is well typed.
THEOREM TypeCorrect == Spec => []TypeOK
<1>1. Init => TypeOK /\ SecondLookIsCold BY TypeInit
<1>2. TypeOK /\ SecondLookIsCold /\ [Next]_vars => (TypeOK /\ SecondLookIsCold)'
  BY TypeStep
<1> QED BY <1>1, <1>2, PTL DEF Spec

\* What the properties say of one insertion.
WriteIsOurs(i) == stage[i] \in Verified =>
  /\ local[i].written \in 2 .. Len(clipboard) /\ clipboard[local[i].written] = i
  /\ local[i].snapshot = clipboard[local[i].written - 1]

OutcomeHappened(i) ==
  /\ stage[i] # "done" => outcome[i] = "none"
  /\ outcome[i] \in {"pasted", "pasted-with-copy"} => keystroke[i] # "none"
  /\ outcome[i] = "pasted" => keystroke[i] = "consumed"
  /\ outcome[i] \notin {"none", "invalidated"} =>
       \E n \in 1 .. Len(clipboard) : clipboard[n] = i

\* Everything the invariant says of one insertion, but for who its target is.
LocalInv(i) ==
  SnapshotIsBracketed(i) /\ KeystrokeIsPosted(i) /\ WriteIsOurs(i) /\ OutcomeHappened(i)

Inv == /\ TypeOK /\ SecondLookIsCold
       /\ InsertionInvariant
       /\ NamedAppIsCurrent
       /\ \A i \in Insertions : LocalInv(i)

-----------------------------------------------------------------------------
(* What a step leaves alone *)

LEMMA AwaitEffect ==
  ASSUME TypeOK, NEW i \in Insertions, NEW s, NEW l \in Locals, Await(i, s, l)
  PROVE  /\ stage'[i] = s /\ local'[i] = [l EXCEPT !.answered = FALSE]
         /\ \A j \in Insertions \ {i} : stage'[j] = stage[j] /\ local'[j] = local[j]
         /\ UNCHANGED <<bound, outcome>>
BY DEF TypeOK, TaskTypeOK, Await

LEMMA FinishEffect ==
  ASSUME TypeOK, NEW i \in Insertions, NEW o, Finish(i, o)
  PROVE  /\ stage'[i] = "done" /\ local'[i] = Fresh /\ outcome'[i] = o
         /\ \A j \in Insertions \ {i} :
              stage'[j] = stage[j] /\ local'[j] = local[j] /\ outcome'[j] = outcome[j]
         /\ UNCHANGED bound
BY DEF TypeOK, TaskTypeOK, Finish

\* The clipboard's history only grows.
Grows == \/ UNCHANGED clipboard
         \/ \E c \in Contents \union {Mixed} : clipboard' = Append(clipboard, c)

LEMMA GrowsEffect ==
  ASSUME TypeOK, Grows
  PROVE  /\ Len(clipboard) \in Nat \ {0} /\ Len(clipboard') \in Nat \ {0}
         /\ Len(clipboard) <= Len(clipboard')
         /\ \A n \in 1 .. Len(clipboard) : clipboard'[n] = clipboard[n]
         /\ Len(clipboard') = Len(clipboard) => Content' = Content
<1>1. WorldTypeOK BY DEF TypeOK
<1>2. CASE UNCHANGED clipboard BY <1>1, <1>2, ContentType DEF Content
<1>3. CASE \E c \in Contents \union {Mixed} : clipboard' = Append(clipboard, c)
  BY <1>1, <1>3, ContentType, AppendType
<1> QED BY <1>2, <1>3 DEF Grows

\* An insertion that takes no step keeps its part of the invariant, whatever
\* is copied and wherever its key event is read meanwhile.
LEMMA LocalFrame ==
  ASSUME TypeOK, Grows, NEW i \in Insertions, LocalInv(i),
         stage'[i] = stage[i], local'[i] = local[i], outcome'[i] = outcome[i],
         keystroke'[i] = keystroke[i] \/ (keystroke[i] = "posted" /\ keystroke'[i] = "consumed")
  PROVE  LocalInv(i)'
<1> USE GrowsEffect
<1>1. local[i] \in Locals BY DEF TypeOK, TaskTypeOK
<1>2. KeystrokeIsPosted(i)' BY DEF LocalInv, KeystrokeIsPosted
<1>3. SnapshotIsBracketed(i)'
  <2> DEFINE l == local[i]
  <2>1. SnapshotIsBracketed(i) /\ l.before \in Nat /\ l.read \in Nat
    BY <1>1 DEF LocalInv, Locals
  <2>2. l.before <= Len(clipboard') /\ l.read <= Len(clipboard')
    BY <2>1 DEF SnapshotIsBracketed
  <2>3. stage[i] = "snapshotting" => (l.before = Len(clipboard') => l.snapshot = Content')
    BY <2>1 DEF SnapshotIsBracketed
  <2>4. stage[i] = "after" /\ ~l.answered =>
          (l.before = Len(clipboard') => l.snapshot = Content')
    BY <2>1 DEF SnapshotIsBracketed
  <2>5. stage[i] = "after" /\ l.answered /\ stable(l) => l.snapshot = clipboard'[l.before]
    BY <2>1 DEF SnapshotIsBracketed, stable, NoSequence
  <2>6. stage[i] = "written" =>
          /\ l.before > 0 /\ l.snapshot = clipboard'[l.before]
          /\ \E n \in l.before + 1 .. Len(clipboard') : clipboard'[n] = i
          /\ l.answered /\ l.read = l.before + 1 => clipboard'[l.read] = i
    <3> SUFFICES ASSUME stage[i] = "written"
                 PROVE  /\ l.before > 0 /\ l.snapshot = clipboard'[l.before]
                        /\ \E n \in l.before + 1 .. Len(clipboard') : clipboard'[n] = i
                        /\ l.answered /\ l.read = l.before + 1 => clipboard'[l.read] = i
      OBVIOUS
    <3>1. PICK n \in l.before + 1 .. Len(clipboard) : clipboard[n] = i
      BY <2>1 DEF SnapshotIsBracketed
    <3>2. l.before > 0 /\ l.snapshot = clipboard[l.before]
      BY <2>1 DEF SnapshotIsBracketed
    <3>3. n \in 1 .. Len(clipboard) /\ l.before \in 1 .. Len(clipboard)
      BY <2>1, <3>1, <3>2 DEF SnapshotIsBracketed
    <3>4. n \in l.before + 1 .. Len(clipboard') /\ clipboard'[n] = i
      BY <2>1, <3>1, <3>3
    <3>5. l.snapshot = clipboard'[l.before] BY <3>2, <3>3
    <3>6. l.answered /\ l.read = l.before + 1 => clipboard'[l.read] = i
      <4> SUFFICES ASSUME l.answered, l.read = l.before + 1 PROVE clipboard'[l.read] = i
        OBVIOUS
      <4>1. clipboard[l.read] = i BY <2>1 DEF SnapshotIsBracketed
      <4>2. l.read \in 1 .. Len(clipboard) BY <2>1, <3>3 DEF SnapshotIsBracketed
      <4> QED BY <4>1, <4>2
    <3> QED BY <3>2, <3>4, <3>5, <3>6
  <2> QED BY <2>2, <2>3, <2>4, <2>5, <2>6 DEF SnapshotIsBracketed
<1>4. WriteIsOurs(i)' BY SMTT(30), <1>1 DEF LocalInv, WriteIsOurs, Locals
<1>5. OutcomeHappened(i)' BY DEF LocalInv, OutcomeHappened
<1> QED BY <1>2, <1>3, <1>4, <1>5 DEF LocalInv

-----------------------------------------------------------------------------
(* An insertion's own steps *)

LEMMA AnyStepGrows ==
  ASSUME TypeOK, [Next]_vars PROVE Grows
<1>1. \A i \in Insertions : i \in Contents /\ local[i].snapshot \in Contents \union {Mixed}
  BY DEF TypeOK, TaskTypeOK, Locals, Contents
<1>2. ASSUME NEW i \in Insertions, Inserting(i) PROVE Grows
  BY <1>1, <1>2 DEF Inserting, Start, SessionInvalidated, TargetCaptured, SnapshotStarts,
     SnapshotEnds, SequenceAfterSnapshot, SequenceAfterWrite, TargetRechecked,
     SequenceBeforePaste, PasteAnswered, Acknowledged, NotAcknowledged,
     SequenceBeforeRestore, CopyOnly, Writes, worldVars, Grows
<1>3. ASSUME NEW i \in Insertions, Helping(i) PROVE Grows
  BY <1>3 DEF Helping, HelperAnswers, HelperPastes, HelperMatchesTarget,
     HelperClearsSequence, HelperPosts, HelperPasteFails, worldVars, Grows
<1>4. ASSUME NEW g \in Generations, Capturing(g) PROVE Grows
  BY <1>4 DEF Capturing, HelperSees, FirstCapture, SecondCapture, NameTarget, notCapture,
     worldVars, Grows
<1>5. CASE \/ beginSession \/ cancelSession \/ World \/ UNCHANGED vars
           \/ \E i \in Insertions, autoPaste \in BOOLEAN : insert(i, autoPaste)
  BY <1>5 DEF beginSession, cancelSession, World, OthersCopy, FocusMoves, Consume, insert,
     vars, worldVars, Grows, Contents
<1> QED BY <1>2, <1>3, <1>4, <1>5 DEF Next

LEMMA FinishLocal ==
  ASSUME TypeOK, Grows, UNCHANGED keystroke,
         NEW i \in Insertions, LocalInv(i), NEW o, Finish(i, o),
         o \in {"pasted", "pasted-with-copy"} => keystroke[i] # "none",
         o = "pasted" => keystroke[i] = "consumed",
         o \notin {"none", "invalidated"} =>
           \E n \in 1 .. Len(clipboard') : clipboard'[n] = i
  PROVE  LocalInv(i)'
<1>1. stage'[i] = "done" /\ local'[i] = Fresh /\ outcome'[i] = o BY FinishEffect
<1>2. SnapshotIsBracketed(i)' /\ WriteIsOurs(i)' /\ KeystrokeIsPosted(i)'
  BY <1>1, GrowsEffect
  DEF SnapshotIsBracketed, WriteIsOurs, KeystrokeIsPosted, Fresh, NoSequence, Verified
<1>3. OutcomeHappened(i)' BY <1>1 DEF OutcomeHappened
<1> QED BY <1>2, <1>3 DEF LocalInv

LEMMA CopyLocal ==
  ASSUME TypeOK, UNCHANGED keystroke, NEW i \in Insertions, LocalInv(i), CopyOnly(i)
  PROVE  LocalInv(i)'
<1>1. i \in Contents \union {Mixed} BY DEF Contents
<1>2. Grows BY <1>1 DEF CopyOnly, Writes, Grows
<1>3. Len(clipboard') = Len(clipboard) + 1 /\ clipboard'[Len(clipboard) + 1] = i
  BY <1>1, AppendType DEF CopyOnly, Writes, TypeOK
<1>4. \E n \in 1 .. Len(clipboard') : clipboard'[n] = i
  BY <1>3, ContentType DEF TypeOK
<1> QED BY <1>2, <1>4, FinishLocal DEF CopyOnly

\* Text of an insertion that has written is on the clipboard.
LEMMA WrittenIsThere ==
  ASSUME TypeOK, Grows, NEW i \in Insertions, LocalInv(i),
         stage[i] \in Verified \union {"written"}
  PROVE  \E n \in 1 .. Len(clipboard') : clipboard'[n] = i
<1>1. local[i] \in Locals BY DEF TypeOK, TaskTypeOK
<1>2. \E n \in 1 .. Len(clipboard) : clipboard[n] = i
  <2>1. CASE stage[i] \in Verified
    BY <1>1, <2>1 DEF LocalInv, WriteIsOurs, Locals
  <2>2. CASE stage[i] = "written"
    BY <1>1, <2>2 DEF LocalInv, SnapshotIsBracketed, Locals
  <2> QED BY <2>1, <2>2
<1> QED BY <1>2, GrowsEffect

\* Steps that resume with the same local variables.
LEMMA AwaitLocal ==
  ASSUME TypeOK, UNCHANGED <<keystroke, clipboard>>,
         NEW i \in Insertions, LocalInv(i), NEW s \in Stages, Await(i, s, local[i]),
         \/ stage[i] = "target" /\ s = "before"
         \/ stage[i] = "recheck" /\ s = "beforePaste"
         \/ stage[i] = "beforePaste" /\ s = "pasting" /\ local[i].paste = "asked"
         \/ stage[i] = "pasting" /\ s = "acknowledging" /\ local[i].paste = "acknowledging"
         \/ stage[i] = "acknowledging" /\ s = "beforeRestore" /\ keystroke[i] = "consumed"
  PROVE  LocalInv(i)'
<1>1. local[i] \in Locals BY DEF TypeOK, TaskTypeOK
<1>2. stage'[i] = s /\ local'[i] = [local[i] EXCEPT !.answered = FALSE] /\ UNCHANGED outcome
  BY <1>1, AwaitEffect
<1>3. SnapshotIsBracketed(i)'
  BY <1>1, <1>2 DEF LocalInv, SnapshotIsBracketed, Locals
<1>4. KeystrokeIsPosted(i)' BY <1>1, <1>2 DEF LocalInv, KeystrokeIsPosted, Locals
<1>5. WriteIsOurs(i)' BY <1>1, <1>2 DEF LocalInv, WriteIsOurs, Locals, Verified
<1>6. OutcomeHappened(i)' BY <1>2 DEF LocalInv, OutcomeHappened
<1> QED BY <1>3, <1>4, <1>5, <1>6 DEF LocalInv

LEMMA SnapshotLocal ==
  ASSUME TypeOK, NEW i \in Insertions, LocalInv(i), SnapshotStarts(i)
  PROVE  LocalInv(i)'
<1> DEFINE l == [local[i] EXCEPT !.before = local[i].read, !.snapshot = Content]
<1>1. local[i] \in Locals /\ Len(clipboard) \in Nat \ {0} /\ Content \in Contents \union {Mixed}
  BY ContentType DEF TypeOK, TaskTypeOK
<1>2. l \in Locals BY <1>1 DEF Locals
<1>3. UNCHANGED <<clipboard, keystroke>> /\ stage[i] = "before"
  BY DEF SnapshotStarts, worldVars, Continues, Resumes
<1>4. /\ stage'[i] = "snapshotting" /\ local'[i] = [l EXCEPT !.answered = FALSE]
      /\ UNCHANGED outcome
  <2>1. Await(i, "snapshotting", l) BY DEF SnapshotStarts
  <2> HIDE DEF l
  <2> QED BY <1>2, <2>1, AwaitEffect
<1>5. /\ local'[i].before = local[i].read /\ local'[i].read = local[i].read
      /\ local'[i].snapshot = Content /\ local'[i].paste = local[i].paste
  BY <1>1, <1>4 DEF Locals
<1>6. Content' = Content BY <1>3 DEF Content
<1>7. SnapshotIsBracketed(i)'
  BY <1>3, <1>4, <1>5, <1>6 DEF LocalInv, SnapshotIsBracketed
<1>8. KeystrokeIsPosted(i)' BY <1>3, <1>4, <1>5 DEF LocalInv, KeystrokeIsPosted
<1>9. WriteIsOurs(i)' BY <1>4 DEF WriteIsOurs, Verified
<1>10. OutcomeHappened(i)' BY <1>3, <1>4 DEF LocalInv, OutcomeHappened
<1> QED BY <1>7, <1>8, <1>9, <1>10 DEF LocalInv

LEMMA SnapshotEndsLocal ==
  ASSUME TypeOK, NEW i \in Insertions, LocalInv(i), SnapshotEnds(i)
  PROVE  LocalInv(i)'
<1> DEFINE l == [local[i] EXCEPT
                   !.snapshot = IF Content = local[i].snapshot THEN Content ELSE Mixed]
<1>0. UNCHANGED keystroke /\ stage[i] = "snapshotting" BY DEF SnapshotEnds
<1>1. CASE CopyOnly(i) BY <1>0, <1>1, CopyLocal
<1>2. CASE Await(i, "after", l) /\ UNCHANGED clipboard
  <2>1. local[i] \in Locals /\ Len(clipboard) \in Nat \ {0}
        /\ Content \in Contents \union {Mixed}
    BY ContentType DEF TypeOK, TaskTypeOK
  <2>2. l \in Locals BY <2>1 DEF Locals
  <2>3. stage'[i] = "after" /\ local'[i] = [l EXCEPT !.answered = FALSE] /\ UNCHANGED outcome
    <3>1. Await(i, "after", l) BY <1>2
    <3> HIDE DEF l
    <3> QED BY <2>2, <3>1, AwaitEffect
  <2>4. /\ local'[i].before = local[i].before /\ local'[i].read = local[i].read
        /\ local'[i].snapshot = IF Content = local[i].snapshot THEN Content ELSE Mixed
        /\ local'[i].paste = local[i].paste /\ ~local'[i].answered
    BY <2>1, <2>3 DEF Locals
  <2>5. Content' = Content BY <1>2 DEF Content
  <2>6. SnapshotIsBracketed(i)'
    BY <1>0, <1>2, <2>3, <2>4, <2>5 DEF LocalInv, SnapshotIsBracketed
  <2>7. KeystrokeIsPosted(i)' BY <1>0, <2>3, <2>4 DEF LocalInv, KeystrokeIsPosted
  <2>8. WriteIsOurs(i)' BY <2>3 DEF WriteIsOurs, Verified
  <2>9. OutcomeHappened(i)' BY <1>0, <1>2, <2>3 DEF LocalInv, OutcomeHappened
  <2> QED BY <2>6, <2>7, <2>8, <2>9 DEF LocalInv
<1> QED BY <1>1, <1>2 DEF SnapshotEnds

LEMMA WriteLocal ==
  ASSUME TypeOK, NEW i \in Insertions, LocalInv(i), SequenceAfterSnapshot(i)
  PROVE  LocalInv(i)'
<1> DEFINE l == [local[i] EXCEPT !.before = local[i].read]
<1>0. UNCHANGED keystroke /\ stage[i] = "after" /\ local[i].answered
  BY DEF SequenceAfterSnapshot, Continues, Resumes
<1>1. CASE CopyOnly(i) BY <1>0, <1>1, CopyLocal
<1>2. CASE stable(local[i]) /\ Writes(i) /\ Await(i, "written", l)
  <2>1. local[i] \in Locals /\ i \in Contents \union {Mixed} /\ Len(clipboard) \in Nat
    BY ContentType DEF TypeOK, TaskTypeOK, Contents
  <2>2. l \in Locals BY <2>1 DEF Locals
  <2>3. stage'[i] = "written" /\ local'[i] = [l EXCEPT !.answered = FALSE]
        /\ UNCHANGED outcome
    <3>1. Await(i, "written", l) BY <1>2
    <3> HIDE DEF l
    <3> QED BY <2>2, <3>1, AwaitEffect
  <2>4. /\ local'[i].before = local[i].before /\ local'[i].read = local[i].read
        /\ local'[i].snapshot = local[i].snapshot
        /\ local'[i].paste = local[i].paste /\ ~local'[i].answered
    BY <1>2, <2>1, <2>3 DEF Locals, stable
  <2>5. /\ Len(clipboard') = Len(clipboard) + 1 /\ clipboard'[Len(clipboard) + 1] = i
        /\ \A n \in 1 .. Len(clipboard) : clipboard'[n] = clipboard[n]
    BY <1>2, <2>1, AppendType DEF Writes, TypeOK
  <2>6. /\ local[i].before \in 1 .. Len(clipboard)
        /\ local[i].snapshot = clipboard[local[i].before]
    BY <1>0, <1>2, <2>1 DEF LocalInv, SnapshotIsBracketed, stable, NoSequence, Locals
  <2>7. SnapshotIsBracketed(i)'
    <3>1. \E n \in local[i].before + 1 .. Len(clipboard') : clipboard'[n] = i
      BY <2>1, <2>5, <2>6
    <3>2. local'[i].before <= Len(clipboard') /\ local'[i].read <= Len(clipboard')
      BY <1>2, <2>1, <2>4, <2>5, <2>6 DEF stable
    <3> QED BY <2>1, <2>3, <2>4, <2>5, <2>6, <3>1, <3>2 DEF SnapshotIsBracketed
  <2>8. KeystrokeIsPosted(i)' BY <1>0, <2>3, <2>4 DEF LocalInv, KeystrokeIsPosted
  <2>9. WriteIsOurs(i)' BY <2>3 DEF WriteIsOurs, Verified
  <2>10. OutcomeHappened(i)'
    BY <1>0, <2>1, <2>3, <2>5 DEF LocalInv, OutcomeHappened
  <2> QED BY <2>7, <2>8, <2>9, <2>10 DEF LocalInv
<1> QED BY <1>1, <1>2 DEF SequenceAfterSnapshot

\* The heart of the protocol: a count that advanced by exactly one is ours.
LEMMA VerifyLocal ==
  ASSUME TypeOK, NEW i \in Insertions, LocalInv(i), SequenceAfterWrite(i)
  PROVE  LocalInv(i)'
<1> DEFINE l == [local[i] EXCEPT !.written = local[i].read]
<1>0. UNCHANGED <<keystroke, clipboard>> /\ stage[i] = "written" /\ local[i].answered
  BY DEF SequenceAfterWrite, Continues, Resumes, worldVars
<1>1. CASE Finish(i, "copied")
  BY <1>0, <1>1, FinishLocal, WrittenIsThere DEF Grows
<1>2. CASE /\ clipboardAdvancedExactlyOnce(local[i].before, local[i].read)
           /\ Await(i, "recheck", l)
  <2>1. local[i] \in Locals BY DEF TypeOK, TaskTypeOK
  <2>2. l \in Locals BY <2>1 DEF Locals
  <2>3. stage'[i] = "recheck" /\ local'[i] = [l EXCEPT !.answered = FALSE]
        /\ UNCHANGED outcome
    <3>1. Await(i, "recheck", l) BY <1>2
    <3> HIDE DEF l
    <3> QED BY <2>2, <3>1, AwaitEffect
  <2>4. /\ local'[i].before = local[i].before /\ local'[i].read = local[i].read
        /\ local'[i].written = local[i].read /\ local'[i].snapshot = local[i].snapshot
        /\ local'[i].paste = local[i].paste
    BY <2>1, <2>3 DEF Locals
  <2>5. /\ local[i].read = local[i].before + 1 /\ local[i].before \in Nat \ {0}
        /\ clipboard[local[i].read] = i /\ local[i].snapshot = clipboard[local[i].before]
        /\ local[i].read <= Len(clipboard)
    BY <1>0, <1>2, <2>1
    DEF LocalInv, SnapshotIsBracketed, clipboardAdvancedExactlyOnce, Locals
  <2>6. WriteIsOurs(i)' BY <1>0, <2>4, <2>5, ContentType DEF WriteIsOurs, TypeOK
  <2>7. SnapshotIsBracketed(i)'
    BY <1>0, <2>3, <2>4 DEF LocalInv, SnapshotIsBracketed
  <2>8. KeystrokeIsPosted(i)' BY <1>0, <2>3, <2>4 DEF LocalInv, KeystrokeIsPosted
  <2>9. OutcomeHappened(i)' BY <1>0, <2>3 DEF LocalInv, OutcomeHappened
  <2> QED BY <2>6, <2>7, <2>8, <2>9 DEF LocalInv
<1> QED BY <1>1, <1>2 DEF SequenceAfterWrite

LEMMA StartsQueued ==
  ASSUME TypeOK, QueueHoldsWaiting, NEW i \in Insertions, Start(i)
  PROVE  /\ stage[i] = "queued"
         /\ Len(queue) \in Nat \ {0} /\ queue' = Tail(queue)
BY DEF TypeOK, TaskTypeOK, QueueHoldsWaiting, Start

LEMMA StartLocal ==
  ASSUME TypeOK, NEW i \in Insertions, LocalInv(i), Start(i), stage[i] = "queued"
  PROVE  LocalInv(i)'
<1>0. UNCHANGED keystroke BY DEF Start
<1>1. CASE CopyOnly(i) BY <1>0, <1>1, CopyLocal
<1>2. CASE Finish(i, "invalidated") /\ UNCHANGED clipboard
  BY <1>0, <1>2, FinishLocal DEF Grows
<1>3. CASE Await(i, "target", Fresh) /\ UNCHANGED clipboard
  <2>1. stage'[i] = "target" /\ local'[i] = [Fresh EXCEPT !.answered = FALSE]
        /\ UNCHANGED outcome
    BY <1>3, FreshType, AwaitEffect
  <2>2. Len(clipboard) \in Nat BY ContentType DEF TypeOK
  <2> QED BY <1>0, <1>3, <2>1, <2>2
      DEF LocalInv, SnapshotIsBracketed, KeystrokeIsPosted, WriteIsOurs, OutcomeHappened,
          Fresh, NoSequence, Verified
<1> QED BY <1>1, <1>2, <1>3 DEF Start

LEMMA OwnStep ==
  ASSUME TypeOK, QueueHoldsWaiting, NEW i \in Insertions, LocalInv(i), Inserting(i)
  PROVE  LocalInv(i)'
<1>1. CASE Start(i) BY <1>1, StartsQueued, StartLocal
<1>2. CASE SessionInvalidated(i)
  <2>1. UNCHANGED <<keystroke, clipboard>> BY <1>2 DEF SessionInvalidated, worldVars
  <2>2. CASE Finish(i, "invalidated") BY <2>1, <2>2, FinishLocal DEF Grows
  <2>3. CASE stage[i] = "beforeRestore" /\ Finish(i, "pasted-with-copy")
    BY <2>1, <2>3, FinishLocal, WrittenIsThere
    DEF Grows, LocalInv, KeystrokeIsPosted, Verified
  <2> QED BY <1>2, <2>2, <2>3 DEF SessionInvalidated, Resumes
<1>3. CASE TargetCaptured(i)
  <2>1. UNCHANGED keystroke /\ stage[i] = "target"
    BY <1>3 DEF TargetCaptured, Continues, Resumes
  <2>2. CASE CopyOnly(i) BY <2>1, <2>2, CopyLocal
  <2>3. CASE Await(i, "before", local[i]) /\ UNCHANGED clipboard
    BY <2>1, <2>3, AwaitLocal DEF Stages, Running
  <2> QED BY <1>3, <2>2, <2>3 DEF TargetCaptured
<1>4. CASE SnapshotStarts(i) BY <1>4, SnapshotLocal
<1>5. CASE SnapshotEnds(i) BY <1>5, SnapshotEndsLocal
<1>6. CASE SequenceAfterSnapshot(i) BY <1>6, WriteLocal
<1>7. CASE SequenceAfterWrite(i) BY <1>7, VerifyLocal
<1>8. CASE TargetRechecked(i)
  BY <1>8, AwaitLocal DEF TargetRechecked, Continues, Resumes, worldVars, Stages, Running
<1>9. CASE SequenceBeforePaste(i)
  <2>1. UNCHANGED <<keystroke, clipboard>> /\ stage[i] = "beforePaste"
    BY <1>9 DEF SequenceBeforePaste, Continues, Resumes, worldVars
  <2>2. CASE Finish(i, "copied")
    BY <2>1, <2>2, FinishLocal, WrittenIsThere DEF Grows, Verified
  <2>3. CASE Await(i, "pasting", local[i])
    BY <2>1, <2>3, AwaitLocal DEF Stages, Running, LocalInv, KeystrokeIsPosted
  <2> QED BY <1>9, <2>2, <2>3 DEF SequenceBeforePaste
<1>10. CASE PasteAnswered(i)
  <2>1. UNCHANGED <<keystroke, clipboard>> /\ stage[i] = "pasting"
    BY <1>10 DEF PasteAnswered, Resumes, worldVars
  <2>2. CASE Finish(i, unacknowledgedOutcome(local[i].paste))
    <3>1. /\ unacknowledgedOutcome(local[i].paste) \in {"copied", "pasted-with-copy"}
          /\ unacknowledgedOutcome(local[i].paste) = "pasted-with-copy"
               => keystroke[i] # "none"
      BY <2>1 DEF unacknowledgedOutcome, LocalInv, KeystrokeIsPosted
    <3> QED BY <2>1, <2>2, <3>1, FinishLocal, WrittenIsThere DEF Grows, Verified
  <2>3. CASE local[i].paste = "acknowledging" /\ Await(i, "acknowledging", local[i])
    BY <2>1, <2>3, AwaitLocal DEF Stages, Running
  <2> QED BY <1>10, <2>2, <2>3 DEF PasteAnswered
<1>11. CASE Acknowledged(i)
  <2>1. UNCHANGED <<keystroke, clipboard>> /\ stage[i] = "acknowledging"
        /\ keystroke[i] = "consumed"
    BY <1>11 DEF Acknowledged, hasRead, worldVars
  <2>2. CASE Finish(i, "pasted-with-copy")
    BY <2>1, <2>2, FinishLocal, WrittenIsThere DEF Grows, Verified
  <2>3. CASE Await(i, "beforeRestore", local[i])
    BY <2>1, <2>3, AwaitLocal DEF Stages, Running
  <2> QED BY <1>11, <2>2, <2>3 DEF Acknowledged
<1>12. CASE NotAcknowledged(i)
  <2>1. UNCHANGED <<keystroke, clipboard>> /\ stage[i] = "acknowledging"
        /\ Finish(i, "pasted-with-copy")
    BY <1>12 DEF NotAcknowledged, waitEnds, worldVars
  <2> QED BY <2>1, FinishLocal, WrittenIsThere
      DEF Grows, Verified, LocalInv, KeystrokeIsPosted
<1>13. CASE SequenceBeforeRestore(i)
  <2>1. UNCHANGED keystroke /\ stage[i] = "beforeRestore" /\ Finish(i, "pasted")
    BY <1>13 DEF SequenceBeforeRestore, Continues, Resumes
  <2>2. Grows
    BY <1>13 DEF SequenceBeforeRestore, Grows, TypeOK, TaskTypeOK, Locals
  <2> QED BY <2>1, <2>2, FinishLocal, WrittenIsThere
      DEF Verified, LocalInv, KeystrokeIsPosted
<1> QED BY <1>1, <1>2, <1>3, <1>4, <1>5, <1>6, <1>7, <1>8, <1>9, <1>10, <1>11, <1>12,
           <1>13 DEF Inserting

-----------------------------------------------------------------------------
(* Steps of the helper, and the step as a whole *)

LEMMA HelperLocal ==
  ASSUME TypeOK, NEW i \in Insertions, LocalInv(i), Helping(i)
  PROVE  LocalInv(i)'
<1>1. local[i] \in Locals /\ Len(clipboard) \in Nat \ {0}
  BY ContentType DEF TypeOK, TaskTypeOK
<1>2. UNCHANGED <<stage, outcome, clipboard>> /\ Content' = Content
  BY DEF Helping, HelperAnswers, HelperPastes, HelperMatchesTarget,
         HelperClearsSequence, HelperPosts, HelperPasteFails, worldVars, Content
<1>3. CASE HelperAnswers(i)
  <2>1. CASE /\ stage[i] \in {"before", "after", "written", "beforePaste", "beforeRestore"}
             /\ \E n \in {NoSequence, changeCount} :
                  local' = [local EXCEPT ![i].read = n, ![i].answered = TRUE]
    <3>1. PICK n \in {0, Len(clipboard)} :
            local' = [local EXCEPT ![i].read = n, ![i].answered = TRUE]
      BY <2>1 DEF NoSequence, changeCount
    <3>2. local'[i] = [local[i] EXCEPT !.read = n, !.answered = TRUE]
      BY <3>1 DEF TypeOK, TaskTypeOK
    <3>3. /\ local'[i].read = n /\ local'[i].answered
          /\ local'[i].before = local[i].before /\ local'[i].written = local[i].written
          /\ local'[i].snapshot = local[i].snapshot /\ local'[i].paste = local[i].paste
      BY <1>1, <3>2 DEF Locals
    <3>4. UNCHANGED keystroke /\ ~local[i].answered BY <1>3 DEF HelperAnswers
    <3>5. local[i].before \in Nat BY <1>1 DEF Locals
    <3>6. SnapshotIsBracketed(i)'
      <4>1. stage[i] = "after" /\ stable(local'[i]) => local[i].snapshot = clipboard[local[i].before]
        BY <1>1, <3>3, <3>4 DEF LocalInv, SnapshotIsBracketed, stable, NoSequence, Content
      <4>2. stage[i] = "written" /\ n = local[i].before + 1 => clipboard[n] = i
        BY <1>1, <3>5 DEF LocalInv, SnapshotIsBracketed
      <4>3. stage[i] # "snapshotting" /\ n <= Len(clipboard) BY <1>1, <2>1
      <4>4. stage[i] = "written" =>
              /\ local[i].before > 0 /\ local[i].snapshot = clipboard[local[i].before]
              /\ \E m \in local[i].before + 1 .. Len(clipboard) : clipboard[m] = i
        BY DEF LocalInv, SnapshotIsBracketed
      <4>5. local[i].before <= Len(clipboard) BY DEF LocalInv, SnapshotIsBracketed
      <4> QED BY <1>2, <3>3, <4>1, <4>2, <4>3, <4>4, <4>5 DEF SnapshotIsBracketed
    <3>7. KeystrokeIsPosted(i)' BY <1>2, <3>3, <3>4 DEF LocalInv, KeystrokeIsPosted
    <3>8. WriteIsOurs(i)' /\ OutcomeHappened(i)'
      BY <1>2, <3>3, <3>4 DEF LocalInv, WriteIsOurs, OutcomeHappened
    <3> QED BY <3>6, <3>7, <3>8 DEF LocalInv
  <2>2. CASE /\ stage[i] = "recheck"
             /\ \E t \in Sees(focus) :
                  local' = [local EXCEPT ![i].current = t, ![i].answered = TRUE]
    <3>1. /\ local'[i].read = local[i].read
          /\ local'[i].before = local[i].before /\ local'[i].written = local[i].written
          /\ local'[i].snapshot = local[i].snapshot /\ local'[i].paste = local[i].paste
      BY <1>1, <2>2 DEF TypeOK, TaskTypeOK, Locals
    <3>2. UNCHANGED keystroke BY <1>3 DEF HelperAnswers
    <3> QED BY <1>2, <2>2, <3>1, <3>2
        DEF LocalInv, SnapshotIsBracketed, KeystrokeIsPosted, WriteIsOurs, OutcomeHappened
  <2> QED BY <1>3, <2>1, <2>2 DEF HelperAnswers
<1>4. ASSUME NEW step \in PasteSteps, HelperPastes(i, step),
             \/ UNCHANGED keystroke /\ step \notin {"injected", "acknowledging"}
             \/ keystroke'[i] = "posted"
      PROVE  LocalInv(i)'
  <2>1. /\ local'[i].read = local[i].read
        /\ local'[i].before = local[i].before /\ local'[i].written = local[i].written
        /\ local'[i].snapshot = local[i].snapshot /\ local'[i].paste = step
        /\ stage[i] = "pasting"
    BY <1>1, <1>4 DEF HelperPastes, TypeOK, TaskTypeOK, Locals
  <2>2. KeystrokeIsPosted(i)'
    BY <1>2, <1>4, <2>1 DEF LocalInv, KeystrokeIsPosted
  <2>3. OutcomeHappened(i)' BY <1>2, <2>1 DEF LocalInv, OutcomeHappened
  <2> QED BY <1>2, <1>4, <2>1, <2>2, <2>3
      DEF LocalInv, SnapshotIsBracketed, WriteIsOurs
<1>5. CASE HelperMatchesTarget(i) BY <1>4, <1>5 DEF HelperMatchesTarget, PasteSteps
<1>6. CASE HelperClearsSequence(i) BY <1>4, <1>6 DEF HelperClearsSequence, PasteSteps
<1>7. CASE HelperPosts(i)
  <2>1. keystroke'[i] = "posted" BY <1>7 DEF HelperPosts, TypeOK, WorldTypeOK
  <2>2. Injections \union {"failed"} \subseteq PasteSteps BY InsertionAssumption DEF PasteSteps
  <2> QED BY <1>4, <1>7, <2>1, <2>2 DEF HelperPosts
<1>8. CASE HelperPasteFails(i) BY <1>4, <1>8 DEF HelperPasteFails, PasteSteps
<1> QED BY <1>3, <1>5, <1>6, <1>7, <1>8 DEF Helping

\* The steps of one insertion leave the others alone.
LEMMA OthersKeep ==
  ASSUME TypeOK, NEW i \in Insertions, Inserting(i) \/ Helping(i), NEW j \in Insertions \ {i}
  PROVE  /\ stage'[j] = stage[j] /\ local'[j] = local[j] /\ outcome'[j] = outcome[j]
         /\ keystroke'[j] = keystroke[j]
<1>1. CASE Inserting(i)
  <2>1. UNCHANGED keystroke
    BY <1>1 DEF Inserting, Start, SessionInvalidated, TargetCaptured, SnapshotStarts,
       SnapshotEnds, SequenceAfterSnapshot, SequenceAfterWrite, TargetRechecked,
       SequenceBeforePaste, PasteAnswered, Acknowledged, NotAcknowledged,
       SequenceBeforeRestore
  <2>2. (\E s, l : Await(i, s, l)) \/ (\E o : Finish(i, o))
    BY <1>1 DEF Inserting, Start, SessionInvalidated, TargetCaptured, SnapshotStarts,
       SnapshotEnds, SequenceAfterSnapshot, SequenceAfterWrite, TargetRechecked,
       SequenceBeforePaste, PasteAnswered, Acknowledged, NotAcknowledged,
       SequenceBeforeRestore, CopyOnly
  <2> QED BY <2>1, <2>2 DEF Await, Finish, TypeOK, TaskTypeOK
<1>2. CASE Helping(i)
  BY <1>2 DEF Helping, HelperAnswers, HelperPastes, HelperMatchesTarget,
     HelperClearsSequence, HelperPosts, HelperPasteFails, TypeOK, TaskTypeOK, WorldTypeOK
<1> QED BY <1>1, <1>2

\* Every step keeps what the invariant says of each insertion.
LEMMA LocalStep ==
  ASSUME TypeOK, QueueHoldsWaiting, [Next]_vars, \A i \in Insertions : LocalInv(i)
  PROVE  \A i \in Insertions : LocalInv(i)'
<1> SUFFICES ASSUME NEW i \in Insertions PROVE LocalInv(i)' OBVIOUS
<1>1. LocalInv(i) /\ Grows BY AnyStepGrows
<1>2. CASE Inserting(i) \/ Helping(i) BY <1>1, <1>2, OwnStep, HelperLocal
<1>3. ASSUME NEW j \in Insertions \ {i}, Inserting(j) \/ Helping(j) PROVE LocalInv(i)'
  BY <1>1, <1>3, OthersKeep, LocalFrame
<1>4. CASE \/ beginSession \/ cancelSession \/ UNCHANGED vars
           \/ \E g \in Generations : Capturing(g)
  <2>1. UNCHANGED <<taskVars, keystroke>>
    BY <1>4 DEF beginSession, cancelSession, vars, Capturing, HelperSees, FirstCapture,
       SecondCapture, NameTarget, notCapture
  <2> QED BY <1>1, <2>1, LocalFrame DEF taskVars
<1>5. CASE World
  <2>1. UNCHANGED taskVars BY <1>5 DEF World, OthersCopy, FocusMoves, Consume
  <2>2. keystroke'[i] = keystroke[i] \/ (keystroke[i] = "posted" /\ keystroke'[i] = "consumed")
    BY <1>5 DEF World, OthersCopy, FocusMoves, Consume, TypeOK, WorldTypeOK
  <2> QED BY <1>1, <2>1, <2>2, LocalFrame DEF taskVars
<1>6. ASSUME NEW j \in Insertions, NEW autoPaste \in BOOLEAN, insert(j, autoPaste)
      PROVE  LocalInv(i)'
  <2>1. UNCHANGED <<local, outcome, keystroke>> BY <1>6 DEF insert
  <2>2. CASE i # j
    BY <1>1, <1>6, <2>1, <2>2, LocalFrame DEF insert, TypeOK, TaskTypeOK
  <2>3. CASE i = j
    <3>1. stage[i] = "new" /\ stage'[i] = "queued" /\ UNCHANGED clipboard
      BY <1>6, <2>3 DEF insert, TypeOK, TaskTypeOK, worldVars
    <3> QED BY <1>1, <2>1, <3>1
        DEF LocalInv, SnapshotIsBracketed, KeystrokeIsPosted, WriteIsOurs, OutcomeHappened,
            Verified
  <2> QED BY <2>2, <2>3
<1> QED BY <1>2, <1>3, <1>4, <1>5, <1>6 DEF Next

-----------------------------------------------------------------------------
(* Sessions and targets *)

\* Insertions and the world leave the sessions alone.
LEMMA SessionsKept ==
  ASSUME World \/ UNCHANGED vars \/ \E i \in Insertions : Inserting(i) \/ Helping(i)
  PROVE  UNCHANGED <<sessionVars, bound>>
BY ZenonT(40) DEF World, OthersCopy, FocusMoves, Consume, vars, taskVars,
       Inserting, Start, SessionInvalidated, TargetCaptured, SnapshotStarts,
       SnapshotEnds, SequenceAfterSnapshot, SequenceAfterWrite, TargetRechecked,
       SequenceBeforePaste, PasteAnswered, Acknowledged, NotAcknowledged,
       SequenceBeforeRestore, CopyOnly, Await, Finish, Helping, HelperAnswers,
       HelperPastes, HelperMatchesTarget, HelperClearsSequence, HelperPosts,
       HelperPasteFails

\* A target promise takes its steps alone, and none once it has settled.
LEMMA CapturingEffect ==
  ASSUME TypeOK, NEW g \in Generations, Capturing(g)
  PROVE  /\ capture[g].stage \notin {"none", "settled"}
         /\ capture'[g].stage # "none"
         /\ \A h \in Generations \ {g} : capture'[h] = capture[h]
         /\ UNCHANGED notCapture
BY DEF Capturing, HelperSees, FirstCapture, SecondCapture, NameTarget, Resolve,
       TypeOK, SessionTypeOK, Captures

LEMMA GenerationsStep ==
  ASSUME TypeOK, GenerationsAgree, [Next]_vars
  PROVE  GenerationsAgree'
<1> USE DEF GenerationsAgree
<1>1. CASE World \/ UNCHANGED vars \/ \E i \in Insertions : Inserting(i) \/ Helping(i)
  BY <1>1, SessionsKept DEF sessionVars
<1>2. ASSUME NEW g \in Generations, Capturing(g) PROVE GenerationsAgree'
  BY <1>2, CapturingEffect DEF notCapture, taskVars
<1>3. CASE beginSession
  <2>1. captureGeneration \in Nat /\ captureGeneration + 1 \in Generations
    BY <1>3, InsertionAssumption DEF beginSession, TypeOK, SessionTypeOK, Generations
  <2>2. \A g \in Generations : g # captureGeneration + 1 => capture'[g] = capture[g]
    BY <1>3 DEF beginSession, TypeOK, SessionTypeOK
  <2>3. UNCHANGED bound /\ \A i \in Insertions : bound[i] \in Bindings
    BY <1>3 DEF beginSession, taskVars, TypeOK, TaskTypeOK
  <2> QED BY <1>3, <2>1, <2>2, <2>3, InsertionAssumption
      DEF beginSession, Bindings, Generations, NoPromise, NoGeneration
<1>4. CASE cancelSession
  <2>1. UNCHANGED bound /\ \A i \in Insertions : bound[i] \in Bindings
    BY <1>4 DEF cancelSession, taskVars, TypeOK, TaskTypeOK
  <2> QED BY <1>4, <2>1, InsertionAssumption
      DEF cancelSession, generationAfterCancel, TypeOK, SessionTypeOK, Bindings,
          Generations, NoPromise, NoGeneration
<1>5. ASSUME NEW i \in Insertions, NEW autoPaste \in BOOLEAN, insert(i, autoPaste)
      PROVE  GenerationsAgree'
  <2>1. /\ bound'[i].generation = activeSessionGeneration
        /\ bound'[i].target = pendingTarget
        /\ \A j \in Insertions \ {i} : bound'[j] = bound[j]
    BY <1>5 DEF insert, TypeOK, TaskTypeOK
  <2> QED BY <1>5, <2>1, InsertionAssumption
      DEF insert, TypeOK, SessionTypeOK, NoGeneration, NoPromise
<1> QED BY <1>1, <1>2, <1>3, <1>4, <1>5 DEF Next

\* A settled promise stays as it is.
LEMMA SettledStays ==
  ASSUME TypeOK, GenerationsAgree, [Next]_vars, NEW g \in Generations,
         capture[g].stage = "settled"
  PROVE  capture'[g] = capture[g]
<1>1. CASE World \/ UNCHANGED vars \/ \E i \in Insertions : Inserting(i) \/ Helping(i)
  BY <1>1, SessionsKept DEF sessionVars
<1>2. ASSUME NEW h \in Generations, Capturing(h) PROVE capture'[g] = capture[g]
  BY <1>2, CapturingEffect
<1>3. CASE beginSession
  <2>1. g # captureGeneration + 1
    BY DEF GenerationsAgree, TypeOK, SessionTypeOK, Generations
  <2> QED BY <1>3, <2>1 DEF beginSession, TypeOK, SessionTypeOK
<1>4. CASE cancelSession \/ \E i \in Insertions, autoPaste \in BOOLEAN : insert(i, autoPaste)
  BY <1>4 DEF cancelSession, insert
<1> QED BY <1>1, <1>2, <1>3, <1>4 DEF Next

LEMMA UsableStep ==
  ASSUME TypeOK, SecondLookIsCold, UsableTargetsAreWarm, [Next]_vars
  PROVE  UsableTargetsAreWarm'
<1> DEFINE Warm(c) == c.stage \in {"resolved", "settled"} /\ initialTargetUsable(c.target) =>
                        /\ c.first # NoTarget /\ ~c.target.cold
                        /\ c.target.app = c.first.app
                        /\ c.target.window = c.first.window
<1>1. \A g \in Generations : Warm(capture[g]) BY DEF UsableTargetsAreWarm
<1>2. SUFFICES ASSUME NEW g \in Generations PROVE Warm(capture'[g])
  BY DEF UsableTargetsAreWarm, initialTargetUsable
<1>3. CASE capture'[g] = capture[g] BY <1>1, <1>3
<1>4. CASE Capturing(g)
  <2>1. capture \in [Generations -> Captures] /\ capture[g] \in Captures
    BY DEF TypeOK, SessionTypeOK
  <2>2. CASE HelperSees(g)
    BY <2>1, <2>2 DEF HelperSees, Captures
  <2>3. CASE FirstCapture(g)
    BY <2>1, <2>3
    DEF FirstCapture, Resolve, Captures, ShouldRetryCold, initialTargetUsable
  <2>4. CASE SecondCapture(g)
    <3>1. capture[g].first \in Sightings
      BY <2>1, <2>4 DEF SecondCapture, SecondLookIsCold, Captures
    <3>5. \A t \in Sightings : ~initialTargetUsable(WithoutAuthority(t))
      BY DEF WithoutAuthority, Sightings, initialTargetUsable
    <3>6. \A t : Resolve(g, t) => capture'[g].target = t
      BY <2>1 DEF Resolve, Captures
    <3>2. CASE \/ Resolve(g, NoTarget) \/ Resolve(g, WithoutAuthority(capture[g].first))
      BY <3>1, <3>2, <3>5, <3>6 DEF initialTargetUsable
    <3>3. CASE /\ sameCaptureAnchor(capture[g].first, capture[g].target)
               /\ Resolve(g, WithoutAuthority(capture[g].target))
      <4>1. capture[g].target \in Sightings BY <2>1, <3>3 DEF sameCaptureAnchor, Captures
      <4> QED BY <3>3, <4>1, <3>5, <3>6
    <3>4. CASE /\ sameCaptureAnchor(capture[g].first, capture[g].target)
               /\ ~ShouldRetryCold(capture[g].target)
               /\ Resolve(g, capture[g].target)
      <4>1. capture'[g].target = capture[g].target /\ capture'[g].first = capture[g].first
        BY <2>1, <3>4 DEF Resolve, Captures
      <4>2. capture[g].first # NoTarget
        BY <2>4 DEF SecondCapture, SecondLookIsCold
      <4> QED BY <3>4, <4>1, <4>2 DEF sameCaptureAnchor, ShouldRetryCold
    <3> QED BY <2>4, <3>2, <3>3, <3>4 DEF SecondCapture
  <2>5. CASE NameTarget(g)
    <3>1. /\ capture'[g].target = capture[g].target
          /\ capture'[g].first = capture[g].first /\ capture[g].stage = "resolved"
      BY <2>1, <2>5 DEF NameTarget, Captures
    <3> QED BY <1>1, <3>1
  <2> QED BY <1>4, <2>2, <2>3, <2>4, <2>5 DEF Capturing
<1>5. CASE capture'[g].stage = "first" BY <1>5
<1>6. capture'[g] = capture[g] \/ Capturing(g) \/ capture'[g].stage = "first"
  <2>1. CASE World \/ UNCHANGED vars \/ \E i \in Insertions : Inserting(i) \/ Helping(i)
    BY <2>1, SessionsKept DEF sessionVars
  <2>2. ASSUME NEW h \in Generations, Capturing(h)
        PROVE  capture'[g] = capture[g] \/ Capturing(g)
    BY <2>2, CapturingEffect
  <2>3. CASE beginSession
    BY <2>3 DEF beginSession, TypeOK, SessionTypeOK, Captures
  <2>4. CASE cancelSession \/ \E i \in Insertions, autoPaste \in BOOLEAN : insert(i, autoPaste)
    BY <2>4 DEF cancelSession, insert
  <2> QED BY <2>1, <2>2, <2>3, <2>4 DEF Next
<1> QED BY <1>3, <1>4, <1>5, <1>6

LEMMA NamedStep ==
  ASSUME TypeOK, GenerationsAgree, NamedAppIsCurrent, [Next]_vars
  PROVE  NamedAppIsCurrent'
<1>1. CASE World \/ UNCHANGED vars \/ \E i \in Insertions : Inserting(i) \/ Helping(i)
  BY <1>1, SessionsKept DEF sessionVars, NamedAppIsCurrent, isCurrentSession
<1>2. CASE beginSession \/ cancelSession
  BY <1>2 DEF beginSession, cancelSession, NamedAppIsCurrent
<1>3. CASE \E i \in Insertions, autoPaste \in BOOLEAN : insert(i, autoPaste)
  BY <1>3 DEF insert, NamedAppIsCurrent, isCurrentSession
<1>4. ASSUME NEW g \in Generations, Capturing(g) PROVE NamedAppIsCurrent'
  <2>1. UNCHANGED <<captureGeneration, activeSessionGeneration>>
    BY <1>4, CapturingEffect DEF notCapture
  <2>2. CASE UNCHANGED capturedTargetAppId
    <3>1. capturedTargetAppId # NoTarget =>
            capture'[captureGeneration] = capture[captureGeneration]
      BY <1>4, CapturingEffect DEF NamedAppIsCurrent
    <3> QED BY <2>1, <2>2, <3>1 DEF NamedAppIsCurrent, isCurrentSession
  <2>3. CASE NameTarget(g) /\ isCurrentSession(g)
    <3>1. /\ capture'[g].stage = "settled" /\ capture'[g].target = capture[g].target
          /\ capturedTargetAppId' = AppOf(capture[g].target)
      BY <2>3 DEF NameTarget, TypeOK, SessionTypeOK, Captures
    <3>2. g = captureGeneration BY <2>3 DEF isCurrentSession
    <3> QED BY <2>1, <2>3, <3>1, <3>2 DEF NamedAppIsCurrent, isCurrentSession, AppOf
  <2> QED BY <1>4, <2>2, <2>3
      DEF Capturing, HelperSees, FirstCapture, SecondCapture, NameTarget
<1> QED BY <1>1, <1>2, <1>3, <1>4 DEF Next

-----------------------------------------------------------------------------
(* Stages *)

\* The stages of an insertion that has left the queue, and of one that has
\* written its text or is done.
Started == Running \union {"done"}
Written == Verified \union {"written", "done"}

\* Who moves in a step: this insertion, another one, a new one, or none.
LEMMA StageStep ==
  ASSUME TypeOK, QueueHoldsWaiting, [Next]_vars, NEW i \in Insertions
  PROVE  \/ UNCHANGED <<stage, bound>>
         \/ /\ Inserting(i)
            /\ \A j \in Insertions \ {i} : stage'[j] = stage[j]
            /\ UNCHANGED bound
         \/ /\ stage'[i] = stage[i] /\ UNCHANGED bound
            /\ \E j \in Insertions \ {i} : Inserting(j)
         \/ /\ MainFree
            /\ \E j \in Insertions :
                 /\ stage[j] = "new" /\ stage'[j] = "queued"
                 /\ \A k \in Insertions \ {j} : stage'[k] = stage[k] /\ bound'[k] = bound[k]
<1>1. CASE World \/ UNCHANGED vars
  BY <1>1 DEF World, OthersCopy, FocusMoves, Consume, vars, taskVars
<1>2. CASE beginSession \/ cancelSession \/ \E g \in Generations : Capturing(g)
  BY <1>2 DEF beginSession, cancelSession, Capturing, HelperSees, FirstCapture,
     SecondCapture, NameTarget, notCapture, taskVars
<1>3. ASSUME NEW j \in Insertions, NEW autoPaste \in BOOLEAN, insert(j, autoPaste)
      PROVE  /\ MainFree
             /\ stage[j] = "new" /\ stage'[j] = "queued"
             /\ \A k \in Insertions \ {j} : stage'[k] = stage[k] /\ bound'[k] = bound[k]
  BY <1>3 DEF insert, TypeOK, TaskTypeOK
<1>4. ASSUME NEW j \in Insertions, Helping(j) PROVE UNCHANGED <<stage, bound>>
  BY <1>4 DEF Helping, HelperAnswers, HelperPastes, HelperMatchesTarget,
     HelperClearsSequence, HelperPosts, HelperPasteFails
<1>5. CASE Inserting(i) BY <1>5, OthersKeep, SessionsKept
<1>6. ASSUME NEW j \in Insertions \ {i}, Inserting(j)
      PROVE  stage'[i] = stage[i] /\ UNCHANGED bound
  BY <1>6, OthersKeep, SessionsKept
<1> QED BY <1>1, <1>2, <1>3, <1>4, <1>5, <1>6 DEF Next

\* How far one step of an insertion takes it.
LEMMA InsertingStages ==
  ASSUME TypeOK, QueueHoldsWaiting, NEW i \in Insertions, Inserting(i)
  PROVE  /\ stage[i] \in Running \union {"queued"}
         /\ stage'[i] \in Started
         /\ stage[i] \in Written => stage'[i] \in Written
         /\ stage'[i] = "target" => /\ stage[i] = "queued" /\ QueueIdle
                                    /\ bound[i].target # NoPromise
         /\ stage'[i] = "before" => /\ stage[i] = "target"
                                    /\ capture[bound[i].target].stage = "settled"
                                    /\ initialTargetUsable(Expected(i))
         /\ stage'[i] = "snapshotting" => stage[i] = "before" /\ Current(i)
         /\ stage'[i] \in Running \ {"target", "before"} => stage[i] \in Running \ {"target"}
         /\ stage[i] = "queued" => Start(i)
         /\ stage[i] # "queued" => UNCHANGED queue
<1>1. \A s, l : Await(i, s, l) => stage'[i] = s
  BY DEF Await, TypeOK, TaskTypeOK
<1>2. \A o : Finish(i, o) => stage'[i] = "done"
  BY DEF Finish, TypeOK, TaskTypeOK
<1> USE <1>1, <1>2 DEF Running, Started, Written, Verified
<1>3. CASE Start(i)
  BY <1>3, StartsQueued DEF Start, CopyOnly
<1>4. CASE SessionInvalidated(i) \/ NotAcknowledged(i)
  BY <1>4 DEF SessionInvalidated, NotAcknowledged, waitEnds, Resumes
<1>5. CASE TargetCaptured(i)
  BY <1>5 DEF TargetCaptured, Continues, Resumes, CopyOnly
<1>6. CASE SnapshotStarts(i) \/ SnapshotEnds(i)
  BY <1>6 DEF SnapshotStarts, SnapshotEnds, Continues, Resumes, CopyOnly
<1>7. CASE SequenceAfterSnapshot(i) \/ SequenceAfterWrite(i)
  BY <1>7 DEF SequenceAfterSnapshot, SequenceAfterWrite, Continues, Resumes, CopyOnly
<1>8. CASE TargetRechecked(i) \/ SequenceBeforePaste(i)
  BY <1>8 DEF TargetRechecked, SequenceBeforePaste, Continues, Resumes
<1>9. CASE PasteAnswered(i) \/ Acknowledged(i)
  BY <1>9 DEF PasteAnswered, Acknowledged, Resumes
<1>10. CASE SequenceBeforeRestore(i)
  BY <1>10 DEF SequenceBeforeRestore, Continues, Resumes
<1> QED BY <1>3, <1>4, <1>5, <1>6, <1>7, <1>8, <1>9, <1>10 DEF Inserting

LEMMA QueueStep ==
  ASSUME TypeOK, QueueHoldsWaiting, [Next]_vars
  PROVE  QueueHoldsWaiting'
<1>1. queue \in Seq(Insertions) BY DEF TypeOK, TaskTypeOK
<1>2. ASSUME NEW i \in Insertions, Inserting(i) PROVE QueueHoldsWaiting'
  <2>1. \A j \in Insertions \ {i} : stage'[j] = stage[j] BY <1>2, OthersKeep
  <2>2. CASE stage[i] = "queued"
    <3>1. /\ Start(i) /\ i = queue[1] /\ queue' = Tail(queue)
          /\ Len(queue) \in Nat \ {0}
      BY <1>1, <1>2, <2>2, InsertingStages, StartsQueued DEF Start
    <3>2. /\ Len(queue') = Len(queue) - 1
          /\ \A n \in 1 .. Len(queue') : n + 1 \in 1 .. Len(queue) /\ queue'[n] = queue[n + 1]
      BY <1>1, <3>1
    <3>3. \A n \in 1 .. Len(queue') : queue'[n] \in Insertions \ {i}
      BY <1>1, <3>1, <3>2 DEF QueueHoldsWaiting
    <3> QED BY <2>1, <3>1, <3>2, <3>3 DEF QueueHoldsWaiting
  <2>3. CASE stage[i] # "queued"
    <3>1. UNCHANGED queue BY <1>2, <2>3, InsertingStages
    <3>2. \A n \in 1 .. Len(queue) : queue[n] \in Insertions \ {i}
      BY <1>1, <2>3 DEF QueueHoldsWaiting
    <3> QED BY <2>1, <3>1, <3>2 DEF QueueHoldsWaiting
  <2> QED BY <2>2, <2>3
<1>3. ASSUME NEW i \in Insertions, Helping(i) PROVE QueueHoldsWaiting'
  BY <1>3 DEF Helping, HelperAnswers, HelperPastes, HelperMatchesTarget,
     HelperClearsSequence, HelperPosts, HelperPasteFails, QueueHoldsWaiting
<1>4. CASE \/ beginSession \/ cancelSession \/ World \/ UNCHANGED vars
           \/ \E g \in Generations : Capturing(g)
  BY <1>4 DEF beginSession, cancelSession, World, OthersCopy, FocusMoves, Consume, vars,
     Capturing, HelperSees, FirstCapture, SecondCapture, NameTarget, notCapture, taskVars,
     QueueHoldsWaiting
<1>5. ASSUME NEW i \in Insertions, NEW autoPaste \in BOOLEAN, insert(i, autoPaste)
      PROVE  QueueHoldsWaiting'
  <2>1. /\ stage[i] = "new" /\ stage'[i] = "queued" /\ queue' = Append(queue, i)
        /\ \A j \in Insertions \ {i} : stage'[j] = stage[j]
    BY <1>5 DEF insert, TypeOK, TaskTypeOK
  <2>2. /\ Len(queue') = Len(queue) + 1 /\ queue'[Len(queue) + 1] = i /\ Len(queue) \in Nat
        /\ \A n \in 1 .. Len(queue) : queue'[n] = queue[n] /\ queue[n] \in Insertions \ {i}
    BY <1>1, <2>1 DEF QueueHoldsWaiting
  <2> QED BY <1>1, <2>1, <2>2 DEF QueueHoldsWaiting
<1> QED BY <1>2, <1>3, <1>4, <1>5 DEF Next

\* The serial queue lets one insertion run.
LEMMA OneRunsStep ==
  ASSUME TypeOK, QueueHoldsWaiting, OneRuns, [Next]_vars
  PROVE  OneRuns'
<1>1. SUFFICES ASSUME NEW i \in Insertions, NEW j \in Insertions, i # j,
                      stage'[i] \in Running, stage'[j] \in Running
               PROVE  FALSE
  BY DEF OneRuns
<1>2. ASSUME NEW k \in Insertions, stage'[k] \in Running
      PROVE  stage[k] \in Running \/ QueueIdle
  BY <1>2, StageStep, InsertingStages DEF Running
<1>3. ASSUME NEW k \in Insertions, NEW m \in Insertions \ {k}, Inserting(k),
             stage'[k] \in Running, stage'[m] \in Running
      PROVE  FALSE
  <2>1. stage[m] \in Running BY <1>3, OthersKeep
  <2>2. stage[k] \in Running
    BY <1>3, <2>1, InsertingStages DEF QueueIdle, Running
  <2> QED BY <2>1, <2>2 DEF OneRuns
<1>4. CASE Inserting(i) \/ Inserting(j) BY <1>1, <1>3, <1>4
<1>5. CASE ~Inserting(i) /\ ~Inserting(j)
  <2>1. stage[i] \in Running /\ stage[j] \in Running
    BY <1>1, <1>5, StageStep DEF Running
  <2> QED BY <1>1, <2>1 DEF OneRuns
<1> QED BY <1>4, <1>5

LEMMA TargetStep ==
  ASSUME TypeOK, GenerationsAgree, QueueHoldsWaiting, [Next]_vars,
         NEW i \in Insertions, TargetIsSettled(i)
  PROVE  TargetIsSettled(i)'
<1>1. bound[i] \in Bindings BY DEF TypeOK, TaskTypeOK
<1>2. SUFFICES ASSUME stage'[i] \in Running
               PROVE  /\ bound'[i].target # NoPromise
                      /\ stage'[i] # "target" =>
                           /\ capture'[bound'[i].target].stage = "settled"
                           /\ initialTargetUsable(capture'[bound'[i].target].target)
  BY DEF TargetIsSettled, Expected, initialTargetUsable
<1>3. bound'[i] = bound[i] BY <1>2, StageStep DEF Running
<1>4. bound[i].target # NoPromise
  BY <1>2, StageStep, InsertingStages DEF TargetIsSettled, Running
<1>5. bound[i].target \in Generations BY <1>1, <1>4 DEF Bindings
<1>6. stage'[i] # "target" => /\ capture[bound[i].target].stage = "settled"
                              /\ initialTargetUsable(Expected(i))
  BY <1>2, StageStep, InsertingStages DEF TargetIsSettled, Running
<1>7. stage'[i] # "target" => capture'[bound[i].target] = capture[bound[i].target]
  BY <1>5, <1>6, SettledStays
<1> QED BY <1>3, <1>4, <1>6, <1>7 DEF Expected

LEMMA SnapshotCurrentStep ==
  ASSUME TypeOK, QueueHoldsWaiting, [Next]_vars, NEW i \in Insertions, SnapshotIsCurrent(i)
  PROVE  SnapshotIsCurrent(i)'
<1>1. SUFFICES ASSUME stage'[i] = "snapshotting" PROVE Current(i)'
  BY DEF SnapshotIsCurrent
<1>2. CASE Inserting(i)
  <2>1. Current(i) BY <1>1, <1>2, InsertingStages
  <2> QED BY <1>2, <2>1, SessionsKept DEF sessionVars, Current, isCurrentSession
<1>3. CASE ~Inserting(i)
  <2>1. stage[i] = "snapshotting" BY <1>1, <1>3, StageStep
  <2>2. Current(i) /\ ~MainFree BY <2>1 DEF SnapshotIsCurrent, MainFree
  <2>3. UNCHANGED <<captureGeneration, activeSessionGeneration, bound>>
    <3>1. CASE World \/ UNCHANGED vars \/ \E j \in Insertions : Inserting(j) \/ Helping(j)
      BY <3>1, SessionsKept DEF sessionVars
    <3>2. CASE \E g \in Generations : Capturing(g)
      BY <3>2, CapturingEffect DEF notCapture, taskVars
    <3> QED BY <2>2, <3>1, <3>2 DEF Next, beginSession, cancelSession, insert
  <2> QED BY <2>2, <2>3 DEF Current, isCurrentSession
<1> QED BY <1>2, <1>3

\* An insertion that has written, or is done, remains so.
LEMMA WrittenStays ==
  ASSUME TypeOK, QueueHoldsWaiting, [Next]_vars, NEW i \in Insertions
  PROVE  /\ stage[i] \in Written => stage'[i] \in Written
         /\ stage[i] = "done" => stage'[i] = "done"
<1>1. CASE Inserting(i)
  BY <1>1, InsertingStages DEF Running, Verified, Written
<1>2. CASE ~Inserting(i)
  BY <1>2, StageStep DEF Running, Verified, Written
<1> QED BY <1>1, <1>2

LEMMA NewText ==
  ASSUME TypeOK, TextsComeFromWriters, QueueHoldsWaiting, [Next]_vars,
         clipboard' # clipboard
  PROVE  \E c \in Contents \union {Mixed} :
           /\ clipboard' = Append(clipboard, c)
           /\ c \in Insertions => stage'[c] \in Written
<1>1. CASE World
  BY <1>1, InsertionAssumption DEF World, OthersCopy, FocusMoves, Consume, worldVars, Contents
<1>2. ASSUME NEW i \in Insertions, Helping(i) PROVE FALSE
  BY <1>2 DEF Helping, HelperAnswers, HelperPastes, HelperMatchesTarget,
     HelperClearsSequence, HelperPosts, HelperPasteFails, worldVars
<1>3. CASE \/ beginSession \/ cancelSession \/ UNCHANGED vars
           \/ \E g \in Generations : Capturing(g)
           \/ \E i \in Insertions, autoPaste \in BOOLEAN : insert(i, autoPaste)
  BY <1>3 DEF beginSession, cancelSession, insert, vars, Capturing, HelperSees,
     FirstCapture, SecondCapture, NameTarget, notCapture, worldVars
<1>4. ASSUME NEW i \in Insertions, Inserting(i)
      PROVE  \E c \in Contents \union {Mixed} :
               /\ clipboard' = Append(clipboard, c)
               /\ c \in Insertions => stage'[c] \in Written
  <2>1. CASE Writes(i) /\ stage'[i] \in Written
    BY <2>1 DEF Writes, Contents
  <2>2. CASE SequenceBeforeRestore(i)
    <3>1. /\ clipboard' = Append(clipboard, local[i].snapshot)
          /\ stage[i] = "beforeRestore"
      BY <2>2 DEF SequenceBeforeRestore, Continues, Resumes
    <3>2. local[i].snapshot \in Contents \union {Mixed} BY DEF TypeOK, TaskTypeOK, Locals
    <3>3. local[i].snapshot \in Insertions => stage[local[i].snapshot] = "done"
      BY <3>1 DEF TextsComeFromWriters, Running
    <3> QED BY <3>1, <3>2, <3>3, WrittenStays DEF Written
  <2>3. CASE ~SequenceBeforeRestore(i)
    <3>1. CASE CopyOnly(i)
      BY <2>1, <3>1 DEF CopyOnly, Finish, Written, TypeOK, TaskTypeOK
    <3>2. CASE SequenceAfterSnapshot(i) /\ ~CopyOnly(i)
      BY <2>1, <3>2 DEF SequenceAfterSnapshot, Await, Written, TypeOK, TaskTypeOK
    <3>3. CASE ~SequenceAfterSnapshot(i) /\ ~CopyOnly(i)
      BY <1>4, <2>3, <3>3
      DEF Inserting, Start, SessionInvalidated, TargetCaptured, SnapshotStarts,
          SnapshotEnds, SequenceAfterWrite, TargetRechecked, SequenceBeforePaste,
          PasteAnswered, Acknowledged, NotAcknowledged, worldVars
    <3> QED BY <3>1, <3>2, <3>3
  <2> QED BY <2>2, <2>3
<1> QED BY <1>1, <1>2, <1>3, <1>4 DEF Next

\* Where the content of a snapshot comes from.
LEMMA SnapshotSource ==
  ASSUME TypeOK, QueueHoldsWaiting, [Next]_vars, NEW i \in Insertions, stage'[i] \in Running
  PROVE  \/ local'[i].snapshot = Mixed
         \/ local'[i].snapshot = local[i].snapshot /\ stage[i] \in Running
         \/ local'[i].snapshot = Content /\ stage[i] \in {"before", "snapshotting"}
<1>1. local[i] \in Locals BY DEF TypeOK, TaskTypeOK
<1>2. CASE Inserting(i)
  <2>1. \A s, l : Await(i, s, l) => local'[i] = [l EXCEPT !.answered = FALSE]
    BY DEF Await, TypeOK, TaskTypeOK
  <2>2. \A o : ~Finish(i, o)
    BY DEF Finish, Running, TypeOK, TaskTypeOK
  <2>3. \A s : Await(i, s, local[i]) => local'[i].snapshot = local[i].snapshot
    BY ZenonT(40), <1>1, <2>1 DEF Locals
  <2>4. CASE Start(i)
    <3>1. Await(i, "target", Fresh) BY <2>2, <2>4 DEF Start, CopyOnly
    <3> QED BY <2>1, <3>1 DEF Fresh
  <2>5. CASE SnapshotStarts(i)
    <3>1. local'[i].snapshot = Content /\ stage[i] = "before"
      BY <1>1, <2>5 DEF SnapshotStarts, Continues, Resumes, Await, Locals, TypeOK, TaskTypeOK
    <3> QED BY <3>1
  <2>6. CASE SnapshotEnds(i)
    <3>1. /\ local'[i].snapshot = IF Content = local[i].snapshot THEN Content ELSE Mixed
          /\ stage[i] = "snapshotting"
      BY ZenonT(40), <1>1, <2>2, <2>6
      DEF SnapshotEnds, CopyOnly, Await, Locals, TypeOK, TaskTypeOK
    <3> QED BY <3>1
  <2>7. CASE SequenceAfterSnapshot(i)
    <3>1. stage[i] = "after" BY <2>7 DEF SequenceAfterSnapshot, Continues, Resumes
    <3>2. Await(i, "written", [local[i] EXCEPT !.before = local[i].read])
      BY <2>2, <2>7 DEF SequenceAfterSnapshot, CopyOnly
    <3>3. local'[i].snapshot = local[i].snapshot
      BY <1>1, <3>2 DEF Await, Locals, TypeOK, TaskTypeOK
    <3> QED BY <3>1, <3>3 DEF Running
  <2>8. CASE SequenceAfterWrite(i)
    <3>1. stage[i] = "written" BY <2>8 DEF SequenceAfterWrite, Continues, Resumes
    <3>2. Await(i, "recheck", [local[i] EXCEPT !.written = local[i].read])
      BY <2>2, <2>8 DEF SequenceAfterWrite
    <3>3. local'[i].snapshot = local[i].snapshot
      BY <1>1, <3>2 DEF Await, Locals, TypeOK, TaskTypeOK
    <3> QED BY <3>1, <3>3 DEF Running
  <2>9. CASE stage[i] \in Running /\ \E s : Await(i, s, local[i])
    BY <2>3, <2>9
  <2>10. CASE \/ TargetCaptured(i) \/ TargetRechecked(i) \/ SequenceBeforePaste(i)
    BY <2>2, <2>9, <2>10 DEF TargetCaptured, TargetRechecked, SequenceBeforePaste,
       Continues, Resumes, CopyOnly, Running
  <2>11. CASE \/ PasteAnswered(i) \/ Acknowledged(i)
    BY <2>2, <2>9, <2>11 DEF PasteAnswered, Acknowledged, Resumes, Running
  <2>12. ~SessionInvalidated(i) /\ ~NotAcknowledged(i) /\ ~SequenceBeforeRestore(i)
    BY <2>2 DEF SessionInvalidated, NotAcknowledged, SequenceBeforeRestore
  <2> QED BY <1>2, <2>4, <2>5, <2>6, <2>7, <2>8, <2>10, <2>11, <2>12 DEF Inserting
<1>3. ASSUME ~Inserting(i)
      PROVE  stage[i] \in Running /\ local'[i].snapshot = local[i].snapshot
  <2>1. stage[i] \in Running
    <3>1. stage'[i] # "queued" BY DEF Running
    <3> QED BY <1>3, <3>1, StageStep
  <2>2. ASSUME Helping(i) PROVE local'[i].snapshot = local[i].snapshot
    <3>1. CASE HelperAnswers(i)
      <4>1. (\E n : local' = [local EXCEPT ![i].read = n, ![i].answered = TRUE])
              \/ (\E t : local' = [local EXCEPT ![i].current = t, ![i].answered = TRUE])
        BY <3>1 DEF HelperAnswers
      <4> QED BY ZenonT(40), <1>1, <4>1 DEF TypeOK, TaskTypeOK, Locals
    <3>2. CASE \E step : HelperPastes(i, step)
      <4>1. PICK step : HelperPastes(i, step) BY <3>2
      <4> DEFINE final == step \notin {"matched", "cleared"}
      <4>2. local' = [local EXCEPT ![i].paste = step, ![i].answered = final]
        BY <4>1 DEF HelperPastes
      <4> HIDE DEF final
      <4> QED BY <1>1, <4>2 DEF TypeOK, TaskTypeOK, Locals
    <3> QED BY <2>2, <3>1, <3>2
        DEF Helping, HelperMatchesTarget, HelperClearsSequence, HelperPosts, HelperPasteFails
  <2>3. ASSUME NEW j \in Insertions \ {i}, Inserting(j) \/ Helping(j)
        PROVE  local'[i].snapshot = local[i].snapshot
    BY <2>3, OthersKeep
  <2>4. ASSUME \/ beginSession \/ cancelSession \/ World \/ UNCHANGED vars
               \/ \E g \in Generations : Capturing(g)
               \/ \E j \in Insertions, autoPaste \in BOOLEAN : insert(j, autoPaste)
        PROVE  local'[i].snapshot = local[i].snapshot
    BY <2>4 DEF beginSession, cancelSession, World, OthersCopy, FocusMoves, Consume, vars,
       Capturing, HelperSees, FirstCapture, SecondCapture, NameTarget, notCapture,
       taskVars, insert
  <2> QED BY <1>3, <2>1, <2>2, <2>3, <2>4 DEF Next
<1> QED BY <1>2, <1>3

LEMMA TextsStep ==
  ASSUME TypeOK, TextsComeFromWriters, OneRuns, QueueHoldsWaiting, [Next]_vars
  PROVE  TextsComeFromWriters'
<1>1. \A n \in 1 .. Len(clipboard') : clipboard'[n] \in Insertions =>
        stage'[clipboard'[n]] \in Written
  <2>1. CASE clipboard' = clipboard
    BY <2>1, WrittenStays DEF TextsComeFromWriters, Written
  <2>2. CASE clipboard' # clipboard
    <3>1. PICK c \in Contents \union {Mixed} :
            /\ clipboard' = Append(clipboard, c)
            /\ c \in Insertions => stage'[c] \in Written
      BY <2>2, NewText
    <3>2. /\ Len(clipboard') = Len(clipboard) + 1 /\ Len(clipboard) \in Nat
          /\ \A n \in 1 .. Len(clipboard) : clipboard'[n] = clipboard[n]
          /\ clipboard'[Len(clipboard) + 1] = c
      BY <3>1, AppendType, ContentType DEF TypeOK
    <3>3. \A n \in 1 .. Len(clipboard) : clipboard[n] \in Insertions =>
            stage'[clipboard[n]] \in Written
      BY WrittenStays DEF TextsComeFromWriters, Written
    <3> QED BY <3>1, <3>2, <3>3
  <2> QED BY <2>1, <2>2
<1>2. ASSUME NEW i \in Insertions, stage'[i] \in Running,
             NEW j \in Insertions, local'[i].snapshot = j
      PROVE  stage'[j] = "done"
  <2>1. CASE local'[i].snapshot = local[i].snapshot /\ stage[i] \in Running
    BY <1>2, <2>1, WrittenStays DEF TextsComeFromWriters
  <2>2. CASE local'[i].snapshot = Content /\ stage[i] \in {"before", "snapshotting"}
    <3>1. stage[j] \in Written
      BY <1>2, <2>2, ContentType DEF TextsComeFromWriters, Written, Content, TypeOK
    <3>2. stage[j] = "done"
      BY <1>2, <2>2, <3>1 DEF OneRuns, Running, Written, Verified
    <3> QED BY <3>2, WrittenStays
  <2>3. local'[i].snapshot # Mixed BY <1>2, InsertionAssumption
  <2> QED BY <1>2, <2>1, <2>2, <2>3, SnapshotSource
<1> QED BY <1>1, <1>2 DEF TextsComeFromWriters, Written

-----------------------------------------------------------------------------
(* The invariant and what follows from it *)

LEMMA InvInit == Init => Inv
<1> SUFFICES ASSUME Init PROVE Inv OBVIOUS
<1>1. TypeOK /\ SecondLookIsCold BY TypeInit
<1>2. PICK c \in UserCopies : clipboard = <<c>> BY DEF Init
<1>3. Len(clipboard) = 1 /\ clipboard[1] = c BY <1>2
<1>4. GenerationsAgree
  BY InsertionAssumption DEF Init, GenerationsAgree, Generations, NoPromise, NoGeneration
<1>5. UsableTargetsAreWarm /\ NamedAppIsCurrent
  BY DEF Init, UsableTargetsAreWarm, NamedAppIsCurrent
<1>6. \A i \in Insertions : stage[i] = "new" BY DEF Init
<1>7. OneRuns /\ QueueHoldsWaiting /\ TextsComeFromWriters
  <2>1. Len(queue) = 0 BY DEF Init
  <2> QED BY <1>3, <1>6, <2>1, InsertionAssumption
      DEF OneRuns, QueueHoldsWaiting, TextsComeFromWriters, Running
<1>8. ASSUME NEW i \in Insertions
      PROVE  TargetIsSettled(i) /\ SnapshotIsCurrent(i) /\ LocalInv(i)
  BY <1>3, <1>6
  DEF Init, TargetIsSettled, SnapshotIsCurrent, LocalInv, SnapshotIsBracketed,
      KeystrokeIsPosted, WriteIsOurs, OutcomeHappened, Fresh, NoSequence, Running, Verified
<1> QED BY <1>1, <1>4, <1>5, <1>7, <1>8 DEF Inv, InsertionInvariant, LocalInv

LEMMA InvStep == Inv /\ [Next]_vars => Inv'
<1> SUFFICES ASSUME Inv, [Next]_vars PROVE Inv' OBVIOUS
<1>1. TypeOK' /\ SecondLookIsCold' BY TypeStep DEF Inv
<1>2. GenerationsAgree' BY GenerationsStep DEF Inv, InsertionInvariant
<1>3. UsableTargetsAreWarm' BY UsableStep DEF Inv, InsertionInvariant
<1>4. NamedAppIsCurrent' BY NamedStep DEF Inv, InsertionInvariant
<1>5. QueueHoldsWaiting' /\ OneRuns' BY QueueStep, OneRunsStep DEF Inv, InsertionInvariant
<1>6. TextsComeFromWriters' BY TextsStep DEF Inv, InsertionInvariant
<1>7. \A i \in Insertions : TargetIsSettled(i)' BY TargetStep DEF Inv, InsertionInvariant
<1>8. \A i \in Insertions : SnapshotIsCurrent(i)'
  BY SnapshotCurrentStep DEF Inv, InsertionInvariant
<1>9. \A i \in Insertions : LocalInv(i)' BY LocalStep DEF Inv, InsertionInvariant
<1> QED BY <1>1, <1>2, <1>3, <1>4, <1>5, <1>6, <1>7, <1>8, <1>9
        DEF Inv, InsertionInvariant, LocalInv

LEMMA InvAlways == Spec => []Inv
BY InvInit, InvStep, PTL DEF Spec

\* Every reachable state satisfies the inductive invariant that a run checks.
THEOREM InsertionSafe == Spec => []InsertionInvariant
<1>1. Inv => InsertionInvariant BY DEF Inv
<1> QED BY <1>1, InvAlways, PTL

\* However other programs' copies interleave with it, a change count accepted
\* after the write stands for the dictation's own text.
THEOREM WriteIsVerified == Spec => []VerifiedWriteIsOurs
<1>1. Inv => VerifiedWriteIsOurs BY ContentType
  DEF Inv, TypeOK, LocalInv, WriteIsOurs, VerifiedWriteIsOurs
<1> QED BY <1>1, InvAlways, PTL

\* What may be restored is exactly what the dictation replaced.
THEOREM SnapshotIsExact == Spec => []SnapshotIsWhatWasReplaced
<1>1. Inv => SnapshotIsWhatWasReplaced BY ContentType
  DEF Inv, TypeOK, LocalInv, WriteIsOurs, SnapshotIsWhatWasReplaced
<1> QED BY <1>1, InvAlways, PTL

\* No result claims a paste, a read or a copy that did not happen.
THEOREM ResultsAreTrue == Spec => []OutcomeIsTrue
<1>1. Inv => OutcomeIsTrue BY DEF Inv, LocalInv, OutcomeHappened, OutcomeIsTrue
<1> QED BY <1>1, InvAlways, PTL

\* The serial queue keeps an unfinished dictation out of every snapshot.
THEOREM SnapshotsAreSettled == Spec => []SnapshotsNoPendingDictation
<1>1. Inv => SnapshotsNoPendingDictation
  BY DEF Inv, InsertionInvariant, TextsComeFromWriters, SnapshotsNoPendingDictation
<1> QED BY <1>1, InvAlways, PTL

\* The four promises together (what the run insertion_clipboard checks).
THEOREM InsertionIsSafe == Spec => []InsertionSafety
BY WriteIsVerified, SnapshotIsExact, SnapshotsAreSettled, ResultsAreTrue, PTL DEF InsertionSafety

\* The profile's application is one the current session captured.
THEOREM NameIsCurrent == Spec => []NamedAppIsCurrent
<1>1. Inv => NamedAppIsCurrent BY DEF Inv
<1> QED BY <1>1, InvAlways, PTL

\* Only a report that was seen without activation entitles to a paste.
THEOREM ColdHasNoAuthority == Spec => []ColdCaptureHasNoAuthority
<1>1. ASSUME Inv PROVE ColdCaptureHasNoAuthority
  <2>1. SUFFICES ASSUME NEW i \in Insertions, stage[i] \in Running \ {"target"}
                 PROVE  LET c == capture[bound[i].target] IN
                          /\ c.target # NoTarget /\ ~c.target.cold
                          /\ c.target.app = c.first.app
                          /\ c.target.window = c.first.window
    BY DEF ColdCaptureHasNoAuthority
  <2>5. TargetIsSettled(i) /\ bound[i] \in Bindings
    BY <1>1 DEF Inv, InsertionInvariant, TypeOK, TaskTypeOK
  <2>2. bound[i].target \in Generations BY <2>1, <2>5 DEF TargetIsSettled, Bindings
  <2>3. /\ capture[bound[i].target].stage = "settled"
        /\ initialTargetUsable(capture[bound[i].target].target)
    BY <2>1, <2>5 DEF TargetIsSettled, Expected
  <2>4. capture[bound[i].target].target # NoTarget BY <2>3 DEF initialTargetUsable
  <2> QED BY <1>1, <2>2, <2>3, <2>4 DEF Inv, InsertionInvariant, UsableTargetsAreWarm
<1> QED BY <1>1, InvAlways, PTL

-----------------------------------------------------------------------------
(* What a step may never do *)

\* An insertion that changes its stage takes a step of insert(), or is new.
LEMMA StageMoves ==
  ASSUME Inv, [Next]_vars, NEW i \in Insertions, stage'[i] # stage[i]
  PROVE  Inserting(i) \/ (stage[i] = "new" /\ stage'[i] = "queued" /\ UNCHANGED clipboard)
<1>1. TypeOK /\ QueueHoldsWaiting BY DEF Inv, InsertionInvariant
<1>2. CASE \/ beginSession \/ cancelSession \/ World \/ UNCHANGED vars
           \/ \E g \in Generations : Capturing(g)
  BY <1>2 DEF beginSession, cancelSession, World, OthersCopy, FocusMoves, Consume, vars,
     Capturing, HelperSees, FirstCapture, SecondCapture, NameTarget, notCapture, taskVars
<1>3. ASSUME NEW j \in Insertions, Helping(j) PROVE FALSE
  BY <1>3 DEF Helping, HelperAnswers, HelperPastes, HelperMatchesTarget,
     HelperClearsSequence, HelperPosts, HelperPasteFails
<1>4. ASSUME NEW j \in Insertions \ {i}, Inserting(j) PROVE FALSE
  BY <1>1, <1>4, OthersKeep
<1>5. ASSUME NEW j \in Insertions, NEW autoPaste \in BOOLEAN, insert(j, autoPaste)
      PROVE  stage[i] = "new" /\ stage'[i] = "queued" /\ UNCHANGED clipboard
  BY <1>1, <1>5 DEF insert, worldVars, TypeOK, TaskTypeOK
<1> QED BY <1>2, <1>3, <1>4, <1>5 DEF Next

\* Only the helper advances a paste.
LEMMA PasteMoves ==
  ASSUME Inv, [Next]_vars, NEW i \in Insertions,
         local'[i].paste # local[i].paste, local'[i].paste # "asked"
  PROVE  \/ HelperMatchesTarget(i) /\ local'[i].paste = "matched"
         \/ HelperClearsSequence(i) /\ local'[i].paste = "cleared"
         \/ local'[i].paste \notin {"matched", "cleared"}
<1>1. TypeOK /\ local[i] \in Locals BY DEF Inv, TypeOK, TaskTypeOK
<1>2. \A step : HelperPastes(i, step) => local'[i].paste = step
  <2> SUFFICES ASSUME NEW step, HelperPastes(i, step) PROVE local'[i].paste = step
    OBVIOUS
  <2> DEFINE final == step \notin {"matched", "cleared"}
  <2>1. local' = [local EXCEPT ![i].paste = step, ![i].answered = final]
    BY DEF HelperPastes
  <2> HIDE DEF final
  <2> QED BY <1>1, <2>1 DEF TypeOK, TaskTypeOK, Locals
<1>3. ~Inserting(i)
  <2>1. ASSUME NEW s, NEW l, Await(i, s, l),
               \/ l = Fresh
               \/ l = [local[i] EXCEPT !.before = local[i].read, !.snapshot = Content]
               \/ l = [local[i] EXCEPT !.before = local[i].read]
               \/ l = [local[i] EXCEPT !.written = local[i].read]
               \/ l = [local[i] EXCEPT !.snapshot = IF Content = local[i].snapshot
                                                    THEN Content ELSE Mixed]
               \/ l = local[i]
        PROVE  FALSE
    <3>1. local'[i] = [l EXCEPT !.answered = FALSE]
      BY <1>1, <2>1 DEF Await, TypeOK, TaskTypeOK
    <3>2. CASE l = Fresh BY <3>1, <3>2 DEF Fresh
    <3>3. CASE l = local[i] BY <1>1, <3>1, <3>3 DEF Locals
    <3>4. CASE l = [local[i] EXCEPT !.before = local[i].read, !.snapshot = Content]
      BY <1>1, <3>1, <3>4 DEF Locals
    <3>5. CASE l = [local[i] EXCEPT !.before = local[i].read]
      BY <1>1, <3>1, <3>5 DEF Locals
    <3>6. CASE l = [local[i] EXCEPT !.written = local[i].read]
      BY <1>1, <3>1, <3>6 DEF Locals
    <3>7. CASE l = [local[i] EXCEPT !.snapshot = IF Content = local[i].snapshot
                                                 THEN Content ELSE Mixed]
      BY <1>1, <3>1, <3>7 DEF Locals
    <3> QED BY <2>1, <3>2, <3>3, <3>4, <3>5, <3>6, <3>7
  <2>2. ~\E o : Finish(i, o) BY <1>1 DEF Finish, Fresh, TypeOK, TaskTypeOK
  <2> QED BY <2>1, <2>2
      DEF Inserting, Start, SessionInvalidated, TargetCaptured, SnapshotStarts,
          SnapshotEnds, SequenceAfterSnapshot, SequenceAfterWrite, TargetRechecked,
          SequenceBeforePaste, PasteAnswered, Acknowledged, NotAcknowledged,
          SequenceBeforeRestore, CopyOnly
<1>4. ~HelperAnswers(i)
  <2> SUFFICES ASSUME HelperAnswers(i) PROVE FALSE OBVIOUS
  <2>1. (\E n : local' = [local EXCEPT ![i].read = n, ![i].answered = TRUE])
          \/ (\E t : local' = [local EXCEPT ![i].current = t, ![i].answered = TRUE])
    BY DEF HelperAnswers
  <2>2. local \in [Insertions -> Locals] /\ local[i] \in Locals
    BY <1>1 DEF TypeOK, TaskTypeOK
  <2>3. CASE \E n : local' = [local EXCEPT ![i].read = n, ![i].answered = TRUE]
    <3>1. PICK n : local' = [local EXCEPT ![i].read = n, ![i].answered = TRUE] BY <2>3
    <3>2. local'[i] = [local[i] EXCEPT !.read = n, !.answered = TRUE] BY <2>2, <3>1
    <3>3. local'[i].paste = local[i].paste BY <2>2, <3>2 DEF Locals
    <3> QED BY <1>1, <3>3
  <2>4. CASE \E t : local' = [local EXCEPT ![i].current = t, ![i].answered = TRUE]
    <3>1. PICK t : local' = [local EXCEPT ![i].current = t, ![i].answered = TRUE] BY <2>4
    <3>2. local'[i] = [local[i] EXCEPT !.current = t, !.answered = TRUE] BY <2>2, <3>1
    <3>3. local'[i].paste = local[i].paste BY <2>2, <3>2 DEF Locals
    <3> QED BY <1>1, <3>3
  <2> QED BY <2>1, <2>3, <2>4
<1>5. CASE Helping(i)
  BY <1>2, <1>4, <1>5, InsertionAssumption
  DEF Helping, HelperMatchesTarget, HelperClearsSequence, HelperPosts, HelperPasteFails
<1>6. ASSUME NEW j \in Insertions \ {i}, Inserting(j) \/ Helping(j) PROVE FALSE
  BY <1>1, <1>6, OthersKeep
<1>7. ASSUME \/ beginSession \/ cancelSession \/ World \/ UNCHANGED vars
             \/ \E g \in Generations : Capturing(g)
             \/ \E j \in Insertions, autoPaste \in BOOLEAN : insert(j, autoPaste)
      PROVE  FALSE
  BY <1>7 DEF beginSession, cancelSession, World, OthersCopy, FocusMoves, Consume, vars,
     Capturing, HelperSees, FirstCapture, SecondCapture, NameTarget, notCapture,
     taskVars, insert
<1> QED BY <1>3, <1>5, <1>6, <1>7 DEF Next

\* An ended session stays ended for the insertions bound to it.
THEOREM EndedForGood == Spec => EndedSessionStaysEnded
<1>1. Inv /\ [Next]_vars =>
        [\A i \in Insertions : stage[i] # "new" /\ ~Current(i) => ~Current(i)']_vars
  <2> SUFFICES ASSUME Inv, [Next]_vars, NEW i \in Insertions,
                      stage[i] # "new", ~Current(i)
               PROVE  ~Current(i)'
    OBVIOUS
  <2>1. /\ TypeOK /\ QueueHoldsWaiting /\ GenerationsAgree
        /\ captureGeneration \in Nat /\ bound[i] \in Bindings
    BY InsertionAssumption
    DEF Inv, InsertionInvariant, TypeOK, SessionTypeOK, TaskTypeOK
  <2>2. bound'[i] = bound[i] BY <2>1, StageStep DEF QueueHoldsWaiting
  <2>3. bound[i].generation <= captureGeneration BY <2>1 DEF GenerationsAgree
  <2>4. bound[i].generation \in Int
    BY <2>1, InsertionAssumption DEF Bindings, NoGeneration
  <2>5. CASE captureGeneration' = captureGeneration + 1
    BY <2>1, <2>2, <2>3, <2>4, <2>5 DEF Current, isCurrentSession
  <2>6. CASE UNCHANGED <<captureGeneration, activeSessionGeneration>>
    BY <2>2, <2>6 DEF Current, isCurrentSession
  <2>7. ASSUME NEW g \in Generations, Capturing(g)
        PROVE  UNCHANGED <<captureGeneration, activeSessionGeneration>>
    BY <2>1, <2>7, CapturingEffect DEF notCapture
  <2> QED BY <2>5, <2>6, <2>7, SessionsKept
      DEF Next, beginSession, cancelSession, generationAfterCancel, insert, sessionVars
<1> QED BY <1>1, InvAlways, PTL DEF Spec, EndedSessionStaysEnded

\* A paste is let through only into the control captured when the dictation began.
THEOREM PasteIsTargeted == Spec => PasteGoesWhereDictationBegan
<1>1. Inv /\ [Next]_vars =>
        [\A i \in Insertions :
           (local'[i].paste = "matched" /\ local[i].paste # "matched") =>
             /\ bound[i].target = bound[i].generation
             /\ Expected(i).app = focus.app
             /\ Expected(i).window = focus.window
             /\ Expected(i).control = focus.control]_vars
  <2> SUFFICES ASSUME Inv, [Next]_vars, NEW i \in Insertions,
                      local'[i].paste = "matched", local[i].paste # "matched"
               PROVE  /\ bound[i].target = bound[i].generation
                      /\ Expected(i).app = focus.app
                      /\ Expected(i).window = focus.window
                      /\ Expected(i).control = focus.control
    OBVIOUS
  <2>1. HelperMatchesTarget(i) BY PasteMoves
  <2>2. PICK t \in Sees(focus) : sameTarget(Expected(i), t)
    BY <2>1 DEF HelperMatchesTarget
  <2>3. stage[i] = "pasting" BY <2>1 DEF HelperMatchesTarget
  <2>4. bound[i].target # NoPromise /\ initialTargetUsable(Expected(i))
    BY <2>3 DEF Inv, InsertionInvariant, TargetIsSettled, Running
  <2>5. bound[i].target = bound[i].generation
    BY <2>4 DEF Inv, InsertionInvariant, GenerationsAgree
  <2>6. /\ t.app = focus.app
        /\ t.window \in {Hidden, focus.window} /\ t.control \in {Hidden, focus.control}
    BY <2>2 DEF sameTarget, Sees
  <2> QED BY <2>2, <2>4, <2>5, <2>6 DEF sameTarget, initialTargetUsable
<1> QED BY <1>1, InvAlways, PTL DEF Spec, PasteGoesWhereDictationBegan

\* When the helper clears a paste, the clipboard holds the dictation.
THEOREM PasteIsOwnText == Spec => PasteSeesOwnText
<1>1. Inv /\ [Next]_vars =>
        [\A i \in Insertions :
           (local'[i].paste = "cleared" /\ local[i].paste # "cleared") => Content = i]_vars
  <2> SUFFICES ASSUME Inv, [Next]_vars, NEW i \in Insertions,
                      local'[i].paste = "cleared", local[i].paste # "cleared"
               PROVE  Content = i
    OBVIOUS
  <2>1. HelperClearsSequence(i) BY PasteMoves
  <2>2. stage[i] = "pasting" /\ local[i].written = Len(clipboard)
    BY <2>1 DEF HelperClearsSequence, HelperPastes, sequenceHolds, changeCount
  <2> QED BY <2>2 DEF Inv, LocalInv, WriteIsOurs, Verified, Content
<1> QED BY <1>1, InvAlways, PTL DEF Spec, PasteSeesOwnText

\* The clipboard is restored only after the dictation was read, to what it replaced.
THEOREM RestoreFollowsRead == Spec => RestoresOnlyConsumed
<1>1. Inv /\ [Next]_vars =>
        [\A i \in Insertions :
           (stage[i] = "beforeRestore" /\ stage'[i] # stage[i] /\ clipboard' # clipboard) =>
             /\ keystroke[i] = "consumed"
             /\ Content' = clipboard[local[i].written - 1]]_vars
  <2> SUFFICES ASSUME Inv, [Next]_vars, NEW i \in Insertions, stage[i] = "beforeRestore",
                      stage'[i] # stage[i], clipboard' # clipboard
               PROVE  /\ keystroke[i] = "consumed"
                      /\ Content' = clipboard[local[i].written - 1]
    OBVIOUS
  <2>1. TypeOK /\ LocalInv(i) /\ QueueHoldsWaiting BY DEF Inv, InsertionInvariant
  <2>2. Inserting(i) BY StageMoves
  <2>3. SequenceBeforeRestore(i)
    BY <2>1, <2>2, StartsQueued
    DEF Inserting, SessionInvalidated, TargetCaptured, SnapshotStarts, SnapshotEnds,
        SequenceAfterSnapshot, SequenceAfterWrite, TargetRechecked, SequenceBeforePaste,
        PasteAnswered, Acknowledged, NotAcknowledged, waitEnds, Continues, Resumes, worldVars
  <2>4. clipboard' = Append(clipboard, local[i].snapshot)
    BY <2>3 DEF SequenceBeforeRestore
  <2>5. local[i].snapshot \in Contents \union {Mixed} BY <2>1 DEF TypeOK, TaskTypeOK, Locals
  <2>6. Content' = local[i].snapshot
    BY <2>1, <2>4, <2>5, AppendType, ContentType DEF Content, TypeOK
  <2> QED BY <2>1, <2>6 DEF LocalInv, KeystrokeIsPosted, WriteIsOurs, Verified
<1> QED BY <1>1, InvAlways, PTL DEF Spec, RestoresOnlyConsumed

\* A cancelled or replaced dictation neither writes nor pastes.
THEOREM OnlyCurrentActs == Spec => OnlyCurrentSessionActs
<1>1. Inv /\ [Next]_vars =>
        [\A i \in Insertions :
           (stage'[i] # stage[i] /\ (clipboard' # clipboard \/ stage'[i] = "pasting"))
             => Current(i)]_vars
  <2> SUFFICES ASSUME Inv, [Next]_vars, NEW i \in Insertions, stage'[i] # stage[i],
                      clipboard' # clipboard \/ stage'[i] = "pasting"
               PROVE  Current(i)
    OBVIOUS
  <2>1. TypeOK /\ QueueHoldsWaiting /\ SnapshotIsCurrent(i)
    BY DEF Inv, InsertionInvariant
  <2>2. Inserting(i) BY StageMoves
  <2>3. \A o : Finish(i, o) => stage'[i] # "pasting"
    BY <2>1 DEF Finish, TypeOK, TaskTypeOK
  <2>4. \A s, l : Await(i, s, l) => stage'[i] = s
    BY <2>1 DEF Await, TypeOK, TaskTypeOK
  <2>5. CASE Start(i) BY <2>3, <2>4, <2>5 DEF Start
  <2>6. CASE SnapshotEnds(i) BY <2>1, <2>6 DEF SnapshotEnds, SnapshotIsCurrent
  <2>7. CASE \/ TargetCaptured(i) \/ SnapshotStarts(i) \/ SequenceAfterSnapshot(i)
             \/ SequenceAfterWrite(i) \/ TargetRechecked(i) \/ SequenceBeforePaste(i)
             \/ SequenceBeforeRestore(i)
    BY <2>7 DEF TargetCaptured, SnapshotStarts, SequenceAfterSnapshot, SequenceAfterWrite,
       TargetRechecked, SequenceBeforePaste, SequenceBeforeRestore, Continues
  <2>8. ~SessionInvalidated(i) /\ ~NotAcknowledged(i)
    BY <2>3 DEF SessionInvalidated, NotAcknowledged, worldVars
  <2>9. ~PasteAnswered(i) /\ ~Acknowledged(i)
    BY <2>3, <2>4 DEF PasteAnswered, Acknowledged, worldVars
  <2> QED BY <2>2, <2>5, <2>6, <2>7, <2>8, <2>9 DEF Inserting
<1> QED BY <1>1, InvAlways, PTL DEF Spec, OnlyCurrentSessionActs

-----------------------------------------------------------------------------
(* HoldGesture *)

CONSTANTS Keys, requiredGroups, ToggleKeys, ToggleKey, ModifierOnly, Hooked, MaxEvents
VARIABLES down, button, wire, toggleSent, matcher, monitor, gesture, toggleLocked, captureActive, toggled, fresh, modified

Hold == INSTANCE HoldGesture

\* A report of this event, of a key, from a place of the wire on.
Says(event, from) == \E j \in 1 .. Len(wire) : j > from /\ wire[j].event = event
LetsGo(k, from) == \E j \in 1 .. Len(wire) : j > from /\ wire[j] = [event |-> "keyup", key |-> k]

\* The hook: a key the matcher takes for pressed, or is about to, is down, or its release is
\* behind it on the wire; and push-to-talk is of a chord the matcher has.
HookTells ==
  /\ \A k \in Keys \ down :
       /\ k \in matcher.pressed => LetsGo(k, 0)
       /\ \A i \in 1 .. Len(wire) : wire[i] = [event |-> "keydown", key |-> k] => LetsGo(k, i)
  /\ gesture.keyPressed => matcher.chordMatched
  /\ matcher.chordMatched => Hold!allRequired(matcher.pressed)
  /\ captureActive => matcher.pressed = {}
  /\ ~monitor.running

\* The helper: a chord it has reported, it still sees, or its end is behind it on the wire.
Watched == monitor.running /\ monitor.chordWasDown
HelperTells ==
  /\ captureActive => ~gesture.keyPressed
  /\ gesture.keyPressed => Watched \/ Says("hold-up", 0)
  /\ \A i \in 1 .. Len(wire) : wire[i].event = "hold-down" => Watched \/ Says("hold-up", i)

HoldInvariant ==
  /\ Hold!TypeOK
  /\ gesture.holdStarted => gesture.keyPressed
  /\ IF Hooked THEN HookTells ELSE HelperTells


-----------------------------------------------------------------------------
(* The parts of the state, and what the operations of the gesture do with it. *)

Gestures == [keyPressed : BOOLEAN, holdStarted : BOOLEAN, cancelled : BOOLEAN,
             suppressUntilRelease : BOOLEAN, holdTimer : BOOLEAN]
Matchers == [pressed : SUBSET Keys, chordMatched : BOOLEAN, suppressedUntilRelease : BOOLEAN]
Monitors == [running : BOOLEAN, chordWasDown : BOOLEAN, suppressedUntilRelease : BOOLEAN, seen : SUBSET Keys]
Wires == Seq(Hold!Reports)
Events == {"keydown", "keyup", "mousedown", "hold-down", "hold-up", "modified-input"}

HoldTypes ==
  /\ down \in SUBSET Keys /\ wire \in Wires
  /\ toggleSent \in {"no", "now", "late"} /\ fresh \in SUBSET Keys
  /\ button \in BOOLEAN /\ toggleLocked \in BOOLEAN /\ captureActive \in BOOLEAN /\ toggled \in BOOLEAN
  /\ modified \in BOOLEAN
  /\ matcher \in Matchers /\ monitor \in Monitors /\ gesture \in Gestures

LEMMA HoldTypesAre == Hold!TypeOK <=> HoldTypes
<1>1. ({button, toggleLocked, captureActive, toggled, modified} \subseteq BOOLEAN) <=>
        /\ button \in BOOLEAN /\ toggleLocked \in BOOLEAN /\ captureActive \in BOOLEAN /\ toggled \in BOOLEAN
        /\ modified \in BOOLEAN
  OBVIOUS
<1> QED BY <1>1 DEF Hold!TypeOK, HoldTypes, Gestures, Matchers, Monitors, Wires

LEMMA HoldTypesNext == Hold!TypeOK' <=> HoldTypes'
<1>1. ({button, toggleLocked, captureActive, toggled, modified}' \subseteq BOOLEAN) <=>
        /\ button' \in BOOLEAN /\ toggleLocked' \in BOOLEAN /\ captureActive' \in BOOLEAN /\ toggled' \in BOOLEAN
        /\ modified' \in BOOLEAN
  OBVIOUS
<1> QED BY <1>1 DEF Hold!TypeOK, HoldTypes, Gestures, Matchers, Monitors, Wires

LEMMA HoldFacts ==
  ASSUME Hold!HoldAssumption
  PROVE  /\ requiredGroups \subseteq SUBSET Keys /\ Hooked \in BOOLEAN /\ ModifierOnly \in BOOLEAN
         /\ Hold!Required \subseteq Keys
BY DEF Hold!HoldAssumption, Hold!Required

\* What the keyboard reports, and what the helper does.
LEMMA ReportsAre ==
  /\ \A k \in Keys : Hooked => [event |-> "keydown", key |-> k] \in Hold!Reports
                              /\ [event |-> "keyup", key |-> k] \in Hold!Reports
  /\ Hooked => [event |-> "mousedown"] \in Hold!Reports
  /\ ~Hooked => /\ [event |-> "hold-down"] \in Hold!Reports /\ [event |-> "hold-up"] \in Hold!Reports
                /\ [event |-> "modified-input"] \in Hold!Reports
BY DEF Hold!Reports

LEMMA ReportIs ==
  ASSUME NEW report \in Hold!Reports
  PROVE  /\ report.event \in Events
         /\ Hooked => \/ report.event = "mousedown"
                      \/ /\ report.event \in {"keydown", "keyup"} /\ report.key \in Keys
                         /\ report = [event |-> report.event, key |-> report.key]
         /\ ~Hooked => report.event \in {"hold-down", "hold-up", "modified-input"}
<1>1. CASE Hooked
  <2>1. report \in [event : {"keydown", "keyup"}, key : Keys] \/ report \in [event : {"mousedown"}]
    BY <1>1 DEF Hold!Reports
  <2>2. CASE report \in [event : {"keydown", "keyup"}, key : Keys] BY <1>1, <2>2 DEF Events
  <2>3. CASE report \in [event : {"mousedown"}]
    <3>1. report.event = "mousedown" BY <2>3
    <3> QED BY <1>1, <3>1 DEF Events
  <2> QED BY <2>1, <2>2, <2>3
<1>2. CASE ~Hooked
  <2>1. report \in [event : {"hold-down", "hold-up", "modified-input"}] BY <1>2 DEF Hold!Reports
  <2>2. report.event \in {"hold-down", "hold-up", "modified-input"} BY <2>1
  <2> QED BY <1>2, <2>2 DEF Events
<1> QED BY <1>1, <1>2

\* A gesture that is the same push-to-talk.
SameHold(g, h) == h \in Gestures /\ h.keyPressed = g.keyPressed /\ h.holdStarted = g.holdStarted
\* A gesture in which none has started.
NoHoldYet(h) == h \in Gestures /\ ~h.holdStarted

LEMMA NoGestureIs == NoHoldYet(Hold!NoGesture) /\ ~Hold!NoGesture.keyPressed
<1>1. PICK b \in BOOLEAN : b = FALSE OBVIOUS
<1>2. Hold!NoGesture = [keyPressed |-> b, holdStarted |-> b, cancelled |-> b, suppressUntilRelease |-> b, holdTimer |-> b]
  BY <1>1 DEF Hold!NoGesture
<1> QED BY <1>1, <1>2 DEF NoHoldYet, Gestures

LEMMA NoMatchIs == Hold!NoMatch \in Matchers /\ Hold!NoMatch.pressed = {} /\ ~Hold!NoMatch.chordMatched
<1>1. PICK b \in BOOLEAN : b = FALSE OBVIOUS
<1>2. Hold!NoMatch = [pressed |-> {}, chordMatched |-> b, suppressedUntilRelease |-> b] BY <1>1 DEF Hold!NoMatch
<1> QED BY <1>1, <1>2 DEF Matchers

LEMMA StoppedIs ==
  /\ Hold!Stopped \in Monitors /\ ~Hold!Stopped.running /\ ~Hold!Stopped.chordWasDown
  /\ \A c \in BOOLEAN : LET m == [Hold!Stopped EXCEPT !.running = c] IN m \in Monitors /\ m.running = c /\ ~m.chordWasDown
<1>1. PICK b \in BOOLEAN : b = FALSE OBVIOUS
<1>2. Hold!Stopped = [running |-> b, chordWasDown |-> b, suppressedUntilRelease |-> b, seen |-> {}] BY <1>1 DEF Hold!Stopped
<1> QED BY <1>1, <1>2 DEF Monitors

LEMMA ModifiedGesture ==
  ASSUME NEW g \in Gestures PROVE SameHold(g, Hold!modifiedInput(g))
<1>1. PICK b \in BOOLEAN, c \in BOOLEAN : b = TRUE /\ c = FALSE OBVIOUS
<1>2. Hold!modifiedInput(g) \in {g, [g EXCEPT !.cancelled = b, !.holdTimer = c]} BY <1>1 DEF Hold!modifiedInput
<1> QED BY <1>2 DEF SameHold, Gestures

LEMMA PressedGesture ==
  ASSUME NEW g \in Gestures
  PROVE  LET h == Hold!keyDown(g) IN h \in Gestures /\ h.keyPressed /\ (h.holdStarted => g.keyPressed /\ g.holdStarted)
<1>1. PICK b \in BOOLEAN, c \in BOOLEAN, d \in BOOLEAN, e \in BOOLEAN :
        b = TRUE /\ c = FALSE /\ d = Hold!StartsSuppressed(g) /\ e = ~d
  BY DEF Hold!StartsSuppressed, Gestures
<1>2. CASE g.keyPressed BY <1>2 DEF Hold!keyDown
<1>3. CASE ~g.keyPressed
  <2>1. Hold!keyDown(g) = [g EXCEPT !.keyPressed = b, !.holdStarted = c, !.cancelled = d, !.holdTimer = e]
    BY <1>1, <1>3 DEF Hold!keyDown
  <2> QED BY <1>1, <2>1 DEF Gestures
<1> QED BY <1>2, <1>3

LEMMA ToggledGesture ==
  ASSUME NEW g \in Gestures PROVE SameHold(g, Hold!prepareToggle(g))
<1>1. PICK b \in BOOLEAN, c \in BOOLEAN, d \in BOOLEAN : b = TRUE /\ c = FALSE /\ d = (g.suppressUntilRelease \/ Hold!toggleUsesHoldKey)
  OBVIOUS
<1>2. Hold!prepareToggle(g) \in {g, [g EXCEPT !.cancelled = b, !.holdTimer = c, !.suppressUntilRelease = d]}
  BY <1>1 DEF Hold!prepareToggle
<1> QED BY <1>2 DEF SameHold, Gestures

LEMMA ReleasedGesture ==
  ASSUME NEW g \in Gestures, g.holdStarted => g.keyPressed
  PROVE  NoHoldYet(Hold!keyUp(g)) /\ ~Hold!keyUp(g).keyPressed
BY NoGestureIs DEF Hold!keyUp, NoHoldYet

LEMMA StartedGesture ==
  ASSUME NEW g \in Gestures, g.holdStarted => g.keyPressed
  PROVE  LET h == [g EXCEPT !.holdTimer = FALSE, !.holdStarted = @ \/ (g.keyPressed /\ ~g.cancelled)]
         IN  h \in Gestures /\ h.keyPressed = g.keyPressed /\ (h.holdStarted => h.keyPressed)
<1>1. PICK b \in BOOLEAN, c \in BOOLEAN : b = FALSE /\ c = (g.holdStarted \/ (g.keyPressed /\ ~g.cancelled)) OBVIOUS
<1>2. [g EXCEPT !.holdTimer = FALSE, !.holdStarted = @ \/ (g.keyPressed /\ ~g.cancelled)]
        = [g EXCEPT !.holdTimer = b, !.holdStarted = c]
  BY <1>1
<1> QED BY <1>1, <1>2 DEF Gestures

LEMMA MoreKeys ==
  ASSUME Hold!HoldAssumption, NEW A, NEW B, A \subseteq B
  PROVE  (Hold!allRequired(A) => Hold!allRequired(B)) /\ (Hold!anyRequired(A) => Hold!anyRequired(B))
BY DEF Hold!allRequired, Hold!anyRequired

\* What is on the wire, one report later or one report earlier.
LEMMA WireGrows ==
  ASSUME wire \in Wires, NEW report \in Hold!Reports, wire' = Append(wire, report)
  PROVE  /\ wire' \in Wires /\ Len(wire) \in Nat /\ Len(wire') = Len(wire) + 1 /\ wire'[Len(wire) + 1] = report
         /\ \A i \in 1 .. Len(wire) : wire'[i] = wire[i]
         /\ \A i \in 0 .. Len(wire), event \in Events : Says(event, i) \/ event = report.event => Says(event, i)'
         /\ \A i \in 0 .. Len(wire), k \in Keys : LetsGo(k, i) \/ report = [event |-> "keyup", key |-> k] => LetsGo(k, i)'
<1>1. /\ wire' \in Wires /\ Len(wire) \in Nat /\ Len(wire') = Len(wire) + 1 /\ wire'[Len(wire) + 1] = report
      /\ \A i \in 1 .. Len(wire) : wire'[i] = wire[i]
  BY DEF Wires
<1>2. ASSUME NEW i \in 0 .. Len(wire), NEW event \in Events, Says(event, i) \/ event = report.event PROVE Says(event, i)'
  <2>1. Len(wire) + 1 > i /\ Len(wire) + 1 \in 1 .. Len(wire') BY <1>1
  <2>2. CASE event = report.event BY <1>1, <2>1, <2>2 DEF Says
  <2>3. CASE Says(event, i)
    <3>1. PICK j \in 1 .. Len(wire) : j > i /\ wire[j].event = event BY <2>3 DEF Says
    <3>2. j \in 1 .. Len(wire') /\ wire'[j].event = event BY <1>1, <3>1
    <3> QED BY <3>1, <3>2 DEF Says
  <2> QED BY <1>2, <2>2, <2>3
<1>3. ASSUME NEW i \in 0 .. Len(wire), NEW k \in Keys, LetsGo(k, i) \/ report = [event |-> "keyup", key |-> k] PROVE LetsGo(k, i)'
  <2>1. Len(wire) + 1 > i /\ Len(wire) + 1 \in 1 .. Len(wire') BY <1>1
  <2>2. CASE report = [event |-> "keyup", key |-> k] BY <1>1, <2>1, <2>2 DEF LetsGo
  <2>3. CASE LetsGo(k, i)
    <3>1. PICK j \in 1 .. Len(wire) : j > i /\ wire[j] = [event |-> "keyup", key |-> k] BY <2>3 DEF LetsGo
    <3>2. j \in 1 .. Len(wire') /\ wire'[j] = [event |-> "keyup", key |-> k] BY <1>1, <3>1
    <3> QED BY <3>1, <3>2 DEF LetsGo
  <2> QED BY <1>3, <2>2, <2>3
<1> QED BY <1>1, <1>2, <1>3

LEMMA WireShrinks ==
  ASSUME wire \in Wires, wire # <<>>, wire' = Tail(wire)
  PROVE  /\ wire' \in Wires /\ Len(wire) \in Nat \ {0} /\ Len(wire') = Len(wire) - 1 /\ Head(wire) = wire[1]
         /\ wire[1] \in Hold!Reports
         /\ \A i \in 1 .. Len(wire') : wire'[i] = wire[i + 1]
         /\ \A i \in 0 .. Len(wire'), event \in Events : Says(event, i + 1) => Says(event, i)'
         /\ \A i \in 0 .. Len(wire'), k \in Keys : LetsGo(k, i + 1) => LetsGo(k, i)'
<1>1. /\ wire' \in Wires /\ Len(wire) \in Nat \ {0} /\ Len(wire') = Len(wire) - 1 /\ Head(wire) = wire[1]
      /\ wire[1] \in Hold!Reports /\ \A i \in 1 .. Len(wire') : wire'[i] = wire[i + 1]
  BY DEF Wires
<1>2. ASSUME NEW i \in 0 .. Len(wire'), NEW event \in Events, Says(event, i + 1) PROVE Says(event, i)'
  <2>1. PICK j \in 1 .. Len(wire) : j > i + 1 /\ wire[j].event = event BY <1>2 DEF Says
  <2>2. j - 1 \in 1 .. Len(wire') /\ j - 1 > i /\ wire'[j - 1] = wire[j] BY <1>1, <2>1
  <2> QED BY <2>1, <2>2 DEF Says
<1>3. ASSUME NEW i \in 0 .. Len(wire'), NEW k \in Keys, LetsGo(k, i + 1) PROVE LetsGo(k, i)'
  <2>1. PICK j \in 1 .. Len(wire) : j > i + 1 /\ wire[j] = [event |-> "keyup", key |-> k] BY <1>3 DEF LetsGo
  <2>2. j - 1 \in 1 .. Len(wire') /\ j - 1 > i /\ wire'[j - 1] = wire[j] BY <1>1, <2>1
  <2> QED BY <2>1, <2>2 DEF LetsGo
<1> QED BY <1>1, <1>2, <1>3

LEMMA WireStays ==
  ASSUME wire' = wire
  PROVE  /\ \A i \in Nat, event \in Events : Says(event, i) => Says(event, i)'
         /\ \A i \in Nat, k \in Keys : LetsGo(k, i) => LetsGo(k, i)'
BY DEF Says, LetsGo


-----------------------------------------------------------------------------
(* The steps.  What they do with the types first. *)

LEMMA HoldIs ==
  ASSUME HoldInvariant
  PROVE  /\ HoldTypes /\ (gesture.holdStarted => gesture.keyPressed) /\ (Hooked => HookTells) /\ (~Hooked => HelperTells)
BY HoldTypesAre DEF HoldInvariant

LEMMA HoldNext ==
  ASSUME HoldTypes', gesture'.holdStarted => gesture'.keyPressed, Hooked => HookTells', ~Hooked => HelperTells'
  PROVE  HoldInvariant'
BY HoldTypesNext DEF HoldInvariant

\* While the wire is what it was and no gesture begins, the hook's reports and the matcher fit.
LEMMA HookStays ==
  ASSUME HoldTypes, HookTells, wire' = wire, down' = down, matcher' = matcher, ~monitor'.running,
         gesture'.keyPressed => gesture.keyPressed, captureActive' => captureActive
  PROVE  HookTells'
BY WireStays DEF HookTells, LetsGo, HoldTypes, Hold!allRequired

LEMMA HelperStays ==
  ASSUME HoldTypes, HelperTells, wire' = wire, Watched => Watched',
         gesture'.keyPressed => gesture.keyPressed, captureActive' => captureActive \/ ~gesture'.keyPressed
  PROVE  HelperTells'
BY DEF HelperTells, Says

\* The hook reports one more change.
LEMMA HookReports ==
  ASSUME HoldTypes, HookTells, NEW report \in Hold!Reports, wire' = Append(wire, report), UNCHANGED <<matcher, monitor, gesture, captureActive>>,
         \A l \in Keys \ down' : (l \in Keys \ down \/ report = [event |-> "keyup", key |-> l]) /\ report # [event |-> "keydown", key |-> l]
  PROVE  HookTells'
<1>1. wire \in Wires BY DEF HoldTypes
<1>w. /\ wire' \in Wires /\ Len(wire) \in Nat /\ Len(wire') = Len(wire) + 1 /\ wire'[Len(wire) + 1] = report
      /\ \A i \in 1 .. Len(wire) : wire'[i] = wire[i]
      /\ \A i \in 0 .. Len(wire), k \in Keys : LetsGo(k, i) \/ report = [event |-> "keyup", key |-> k] => LetsGo(k, i)'
  BY <1>1, WireGrows
<1>2. ASSUME NEW l \in Keys \ down', l \in matcher'.pressed PROVE LetsGo(l, 0)'
  <2>1. LetsGo(l, 0) \/ report = [event |-> "keyup", key |-> l] BY <1>2 DEF HookTells
  <2>2. 0 \in 0 .. Len(wire) BY <1>w
  <2> QED BY <1>w, <2>1, <2>2
<1>3. ASSUME NEW l \in Keys \ down', NEW i \in 1 .. Len(wire'), wire'[i] = [event |-> "keydown", key |-> l] PROVE LetsGo(l, i)'
  <2>1. i # Len(wire) + 1 BY <1>3, <1>w
  <2>2. i \in 1 .. Len(wire) /\ i \in 0 .. Len(wire) BY <1>w, <2>1
  <2>3. wire[i] = [event |-> "keydown", key |-> l] BY <1>3, <1>w, <2>2
  <2>4. LetsGo(l, i) \/ report = [event |-> "keyup", key |-> l] BY <2>2, <2>3 DEF HookTells
  <2> QED BY <1>w, <2>2, <2>4
<1>4. /\ gesture'.keyPressed => matcher'.chordMatched
      /\ matcher'.chordMatched => Hold!allRequired(matcher'.pressed)
      /\ captureActive' => matcher'.pressed = {}
      /\ ~monitor'.running
  BY DEF HookTells
<1> QED BY <1>2, <1>3, <1>4 DEF HookTells, Hold!allRequired

\* Press, LetGo and Click: the keyboard changes, and the hook says so.
LEMMA KeyboardStep ==
  ASSUME Hold!HoldAssumption, HoldInvariant, NEW k \in Keys, Hold!Press(k) \/ Hold!LetGo(k) \/ Hold!Click
  PROVE  HoldInvariant'
<1>1. /\ HoldTypes /\ (gesture.holdStarted => gesture.keyPressed) /\ (Hooked => HookTells) /\ (~Hooked => HelperTells)
  BY HoldIs
<1>2. UNCHANGED <<matcher, monitor, gesture, toggleLocked, captureActive>> BY DEF Hold!Press, Hold!LetGo, Hold!Click
<1>3. /\ down' \in SUBSET Keys /\ fresh' \in SUBSET Keys /\ button' \in BOOLEAN /\ toggled' \in BOOLEAN
      /\ modified' \in BOOLEAN /\ toggleSent' \in {"no", "now", "late"}
  BY <1>1, Zenon DEF Hold!Press, Hold!LetGo, Hold!Click, HoldTypes, Hold!Late
<1>4. CASE ~Hooked
  <2>1. wire' = wire BY <1>4 DEF Hold!Press, Hold!LetGo, Hold!Click, Hold!Report
  <2>2. HoldTypes' BY <1>1, <1>2, <1>3, <2>1 DEF HoldTypes
  <2>3. HelperTells' BY <1>1, <1>2, <1>4, <2>1, HelperStays DEF Watched
  <2> QED BY <1>1, <1>2, <1>4, <2>2, <2>3, HoldNext
<1>5. CASE Hooked
  <2>1. CASE Hold!Press(k)
    <3>1. PICK report \in Hold!Reports : report = [event |-> "keydown", key |-> k] BY <1>5, ReportsAre
    <3>2. wire' = Append(wire, report) /\ down' = down \union {k} BY <1>5, <2>1, <3>1 DEF Hold!Press, Hold!Report
    <3>3. \A l \in Keys \ down' : l \in Keys \ down /\ report # [event |-> "keydown", key |-> l] BY <3>1, <3>2
    <3>4. HookTells' BY <1>1, <1>2, <1>5, <3>2, <3>3, HookReports
    <3>5. wire' \in Wires BY <1>1, <3>2, WireGrows DEF HoldTypes
    <3>6. HoldTypes' BY <1>1, <1>2, <1>3, <3>5 DEF HoldTypes
    <3> QED BY <1>1, <1>2, <1>5, <3>4, <3>6, HoldNext
  <2>2. CASE Hold!LetGo(k)
    <3>1. PICK report \in Hold!Reports : report = [event |-> "keyup", key |-> k] BY <1>5, ReportsAre
    <3>2. wire' = Append(wire, report) /\ down' = down \ {k} BY <1>5, <2>2, <3>1 DEF Hold!LetGo, Hold!Report
    <3>3. \A l \in Keys \ down' : (l \in Keys \ down \/ report = [event |-> "keyup", key |-> l]) /\ report # [event |-> "keydown", key |-> l]
      BY <3>1, <3>2
    <3>4. HookTells' BY <1>1, <1>2, <1>5, <3>2, <3>3, HookReports
    <3>5. wire' \in Wires BY <1>1, <3>2, WireGrows DEF HoldTypes
    <3>6. HoldTypes' BY <1>1, <1>2, <1>3, <3>5 DEF HoldTypes
    <3> QED BY <1>1, <1>2, <1>5, <3>4, <3>6, HoldNext
  <2>3. CASE Hold!Click
    <3>1. PICK report \in Hold!Reports : report = [event |-> "mousedown"] BY <1>5, ReportsAre
    <3>2. wire' = Append(wire, report) /\ down' = down BY <1>5, <2>3, <3>1 DEF Hold!Click, Hold!Report
    <3>3. \A l \in Keys \ down' : l \in Keys \ down /\ report # [event |-> "keydown", key |-> l]
      <4>1. report.event # "keydown" BY <3>1
      <4> QED BY <3>2, <4>1
    <3>4. HookTells' BY <1>1, <1>2, <1>5, <3>2, <3>3, HookReports
    <3>5. wire' \in Wires BY <1>1, <3>2, WireGrows DEF HoldTypes
    <3>6. HoldTypes' BY <1>1, <1>2, <1>3, <3>5 DEF HoldTypes
    <3> QED BY <1>1, <1>2, <1>5, <3>4, <3>6, HoldNext
  <2> QED BY <2>1, <2>2, <2>3
<1> QED BY <1>1, <1>4, <1>5, HoldFacts

\* The helper looks at the keyboard.
LEMMA LookStep ==
  ASSUME Hold!HoldAssumption, HoldInvariant, Hold!Look
  PROVE  HoldInvariant'
<1>1. /\ HoldTypes /\ (gesture.holdStarted => gesture.keyPressed) /\ (Hooked => HookTells) /\ (~Hooked => HelperTells)
  BY HoldIs
<1>2. /\ UNCHANGED <<down, button, toggleSent, matcher, gesture, toggleLocked, captureActive, toggled, fresh>>
      /\ monitor.running
  BY DEF Hold!Look, Hold!inputVars
<1>3. ~Hooked BY <1>1, <1>2 DEF HookTells
<1>b. PICK t \in BOOLEAN, f \in BOOLEAN, held \in BOOLEAN, any \in BOOLEAN :
        /\ t = TRUE /\ f = FALSE /\ held = (monitor.chordWasDown /\ ~Hold!ReleasedNow(monitor)) /\ any = Hold!anyRequired(down)
  <2>1. (monitor.chordWasDown /\ ~Hold!ReleasedNow(monitor)) \in BOOLEAN /\ Hold!anyRequired(down) \in BOOLEAN
    BY DEF Hold!anyRequired
  <2> QED BY <2>1
<1>4. monitor' \in
        {[monitor EXCEPT !.seen = down, !.chordWasDown = held, !.suppressedUntilRelease = any],
         [monitor EXCEPT !.seen = down, !.suppressedUntilRelease = t],
         [monitor EXCEPT !.seen = down, !.chordWasDown = t],
         [monitor EXCEPT !.seen = down, !.chordWasDown = f, !.suppressedUntilRelease = t],
         [monitor EXCEPT !.seen = down]}
  BY <1>b DEF Hold!Look
<1>5. monitor' \in Monitors /\ monitor'.running BY <1>1, <1>2, <1>4 DEF HoldTypes, Monitors
<1>6. modified' \in BOOLEAN BY <1>1 DEF Hold!Look, HoldTypes
<1>7. \/ wire' = wire /\ (monitor.chordWasDown => monitor'.chordWasDown)
      \/ \E event \in {"hold-down", "modified-input", "hold-up"} :
           /\ wire' = Append(wire, [event |-> event])
           /\ event # "hold-up" => (monitor.chordWasDown => monitor'.chordWasDown)
           /\ event = "hold-down" => monitor'.chordWasDown
  <2>1. CASE monitor.suppressedUntilRelease
    <3>1. monitor' = [monitor EXCEPT !.seen = down, !.chordWasDown = held, !.suppressedUntilRelease = any]
      BY <1>b, <2>1 DEF Hold!Look
    <3>2. monitor'.chordWasDown = held BY <1>1, <3>1 DEF HoldTypes, Monitors
    <3>3. wire' = IF Hold!ReleasedNow(monitor) THEN Append(wire, [event |-> "hold-up"]) ELSE wire BY <2>1 DEF Hold!Look
    <3> QED BY <1>b, <3>2, <3>3
  <2>2. CASE ~monitor.suppressedUntilRelease /\ Hold!Tampered
    <3>1. monitor' = [monitor EXCEPT !.seen = down, !.suppressedUntilRelease = t] /\ wire' = Append(wire, [event |-> "modified-input"])
      BY <1>b, <2>2 DEF Hold!Look
    <3>2. monitor'.chordWasDown = monitor.chordWasDown BY <1>1, <3>1 DEF HoldTypes, Monitors
    <3> QED BY <3>1, <3>2
  <2>3. CASE ~monitor.suppressedUntilRelease /\ ~Hold!Tampered /\ Hold!allRequired(down) /\ ~monitor.chordWasDown
    <3>1. monitor' = [monitor EXCEPT !.seen = down, !.chordWasDown = t] /\ wire' = Append(wire, [event |-> "hold-down"])
      BY <1>b, <2>3 DEF Hold!Look
    <3>2. monitor'.chordWasDown BY <1>1, <1>b, <3>1 DEF HoldTypes, Monitors
    <3> QED BY <3>1, <3>2
  <2>4. CASE ~monitor.suppressedUntilRelease /\ ~Hold!Tampered /\ ~(Hold!allRequired(down) /\ ~monitor.chordWasDown)
    <3>1. \/ wire' = Append(wire, [event |-> "hold-up"])
          \/ monitor' = [monitor EXCEPT !.seen = down] /\ wire' = wire
      BY <2>4 DEF Hold!Look
    <3>2. CASE monitor' = [monitor EXCEPT !.seen = down] /\ wire' = wire
      <4>1. monitor'.chordWasDown = monitor.chordWasDown BY <1>1, <3>2 DEF HoldTypes, Monitors
      <4> QED BY <3>2, <4>1
    <3> QED BY <3>1, <3>2
  <2> QED BY <2>1, <2>2, <2>3, <2>4
<1>8. CASE wire' = wire /\ (monitor.chordWasDown => monitor'.chordWasDown)
  <2>1. HoldTypes' BY <1>1, <1>2, <1>5, <1>6, <1>8 DEF HoldTypes
  <2>2. HelperTells' BY <1>1, <1>2, <1>3, <1>5, <1>8, HelperStays DEF Watched
  <2> QED BY <1>1, <1>2, <1>3, <2>1, <2>2, HoldNext
<1>9. ASSUME NEW event \in {"hold-down", "modified-input", "hold-up"}, wire' = Append(wire, [event |-> event]),
             event # "hold-up" => (monitor.chordWasDown => monitor'.chordWasDown), event = "hold-down" => monitor'.chordWasDown
      PROVE  HoldInvariant'
  <2>1. PICK report \in Hold!Reports : report = [event |-> event] BY <1>3, ReportsAre
  <2>2. report.event = event /\ wire' = Append(wire, report) BY <1>9, <2>1
  <2>w. /\ wire' \in Wires /\ Len(wire) \in Nat /\ Len(wire') = Len(wire) + 1 /\ wire'[Len(wire) + 1] = report
        /\ \A i \in 1 .. Len(wire) : wire'[i] = wire[i]
        /\ \A i \in 0 .. Len(wire), e \in Events : Says(e, i) \/ e = report.event => Says(e, i)'
    BY <1>1, <2>2, WireGrows DEF HoldTypes
  <2>3. HoldTypes' BY <1>1, <1>2, <1>5, <1>6, <2>w DEF HoldTypes
  <2>4. ASSUME NEW i \in 0 .. Len(wire), Watched \/ Says("hold-up", i) PROVE Watched' \/ Says("hold-up", i)'
    <3>1. "hold-up" \in Events BY DEF Events
    <3>2. CASE Says("hold-up", i) \/ event = "hold-up" BY <2>2, <2>w, <3>1, <3>2
    <3>3. CASE Watched /\ event # "hold-up" BY <1>5, <1>9, <3>3 DEF Watched
    <3> QED BY <2>4, <3>2, <3>3
  <2>5. gesture'.keyPressed => Watched' \/ Says("hold-up", 0)'
    <3>1. 0 \in 0 .. Len(wire) BY <2>w
    <3> QED BY <1>1, <1>2, <1>3, <2>4, <3>1 DEF HelperTells
  <2>6. ASSUME NEW i \in 1 .. Len(wire'), wire'[i].event = "hold-down" PROVE Watched' \/ Says("hold-up", i)'
    <3>1. CASE i = Len(wire) + 1 BY <1>5, <1>9, <2>2, <2>6, <2>w, <3>1 DEF Watched
    <3>2. CASE i # Len(wire) + 1
      <4>1. i \in 1 .. Len(wire) /\ i \in 0 .. Len(wire) BY <2>w, <3>2
      <4>2. wire[i].event = "hold-down" BY <2>6, <2>w, <4>1
      <4>3. Watched \/ Says("hold-up", i) BY <1>1, <1>3, <4>1, <4>2 DEF HelperTells
      <4> QED BY <2>4, <4>1, <4>3
    <3> QED BY <3>1, <3>2
  <2>7. HelperTells' BY <1>1, <1>2, <1>3, <2>5, <2>6 DEF HelperTells
  <2> QED BY <1>1, <1>2, <1>3, <2>3, <2>7, HoldNext
<1> QED BY <1>7, <1>8, <1>9


\* What the matcher and the gesture make of a key that goes down.
LEMMA HookDownMoves ==
  ASSUME Hold!HoldAssumption, HoldTypes, HookTells, gesture.holdStarted => gesture.keyPressed, NEW k \in Keys, Hold!HookDown(k)
  PROVE  /\ matcher' \in Matchers /\ matcher'.pressed = matcher.pressed \union {k}
         /\ gesture' \in Gestures /\ (gesture'.holdStarted => gesture'.keyPressed)
         /\ (gesture'.keyPressed => matcher'.chordMatched)
         /\ (matcher'.chordMatched => Hold!allRequired(matcher'.pressed))
<1> DEFINE m == [matcher EXCEPT !.pressed = @ \union {k}]
<1>t. matcher \in Matchers /\ gesture \in Gestures BY DEF HoldTypes
<1>b. PICK t \in BOOLEAN : t = TRUE OBVIOUS
<1>1. m \in Matchers /\ m.pressed = matcher.pressed \union {k} /\ m.chordMatched = matcher.chordMatched BY <1>t DEF Matchers
<1>2. m.chordMatched => Hold!allRequired(m.pressed)
  <2>1. m.chordMatched => Hold!allRequired(matcher.pressed) BY <1>1 DEF HookTells
  <2> QED BY <1>1, <2>1, MoreKeys
<1>3. gesture.keyPressed => m.chordMatched BY <1>1 DEF HookTells
<1>4. CASE matcher' = m /\ gesture' = gesture BY <1>t, <1>1, <1>2, <1>3, <1>4
<1>5. CASE Hold!Modify(m)
  <2>1. matcher' = [m EXCEPT !.suppressedUntilRelease = t] /\ gesture' = Hold!modifiedInput(gesture)
    BY <1>5, <1>b DEF Hold!Modify
  <2>2. matcher' \in Matchers /\ matcher'.pressed = m.pressed /\ matcher'.chordMatched = m.chordMatched
    BY <1>1, <2>1 DEF Matchers
  <2>3. SameHold(gesture, gesture') BY <1>t, <2>1, ModifiedGesture
  <2> QED BY <1>1, <1>2, <1>3, <2>2, <2>3 DEF SameHold
<1>6. CASE Hold!allRequired(m.pressed) /\ matcher' = [m EXCEPT !.chordMatched = TRUE] /\
           gesture' = IF m.chordMatched THEN gesture ELSE Hold!keyDown(gesture)
  <2>1. matcher' = [m EXCEPT !.chordMatched = t] BY <1>6, <1>b
  <2>2. matcher' \in Matchers /\ matcher'.pressed = m.pressed /\ matcher'.chordMatched BY <1>1, <1>b, <2>1 DEF Matchers
  <2>3. gesture' \in Gestures /\ (gesture'.holdStarted => gesture'.keyPressed) BY <1>t, <1>6, PressedGesture
  <2> QED BY <1>1, <1>6, <2>2, <2>3
<1>7. m.suppressedUntilRelease = matcher.suppressedUntilRelease BY <1>t DEF Matchers
<1> HIDE DEF m
<1> QED BY <1>4, <1>5, <1>6 DEF Hold!HookDown, m

LEMMA HookUpMoves ==
  ASSUME Hold!HoldAssumption, HoldTypes, HookTells, gesture.holdStarted => gesture.keyPressed, NEW k \in Keys, Hold!HookUp(k)
  PROVE  /\ matcher' \in Matchers /\ matcher'.pressed = matcher.pressed \ {k}
         /\ gesture' \in Gestures /\ (gesture'.holdStarted => gesture'.keyPressed)
         /\ (gesture'.keyPressed => matcher'.chordMatched)
         /\ (matcher'.chordMatched => Hold!allRequired(matcher'.pressed))
<1>t. matcher \in Matchers /\ gesture \in Gestures BY DEF HoldTypes
<1>1. PICK left \in SUBSET Keys : left = matcher.pressed \ {k} BY <1>t DEF Matchers
<1>2. PICK ends \in BOOLEAN : ends = (matcher.chordMatched /\ ~Hold!allRequired(left)) BY DEF Hold!allRequired
<1>3. PICK c \in BOOLEAN : c = (matcher.chordMatched /\ ~ends) OBVIOUS
<1>4. PICK d \in BOOLEAN : d = ((matcher.suppressedUntilRelease \/ ends) /\ Hold!anyRequired(left)) BY DEF Hold!anyRequired
<1>5. matcher' = [pressed |-> left, chordMatched |-> c, suppressedUntilRelease |-> d]
  BY <1>1, <1>2, <1>3, <1>4 DEF Hold!HookUp
<1>6. gesture' = IF ends THEN Hold!keyUp(gesture) ELSE gesture BY <1>1, <1>2 DEF Hold!HookUp
<1>7. matcher' \in Matchers /\ matcher'.pressed = left /\ matcher'.chordMatched = c BY <1>5 DEF Matchers
<1>8. gesture' \in Gestures /\ (gesture'.holdStarted => gesture'.keyPressed) /\ (gesture'.keyPressed => gesture.keyPressed /\ ~ends)
  BY <1>t, <1>6, ReleasedGesture DEF NoHoldYet
<1>9. gesture.keyPressed => matcher.chordMatched BY DEF HookTells
<1> QED BY <1>1, <1>2, <1>3, <1>7, <1>8, <1>9

\* The main process hears what the hook has reported.
LEMMA HearsHook ==
  ASSUME Hold!HoldAssumption, HoldInvariant, Hold!Hear, Hooked
  PROVE  HoldInvariant'
<1>1. /\ HoldTypes /\ (gesture.holdStarted => gesture.keyPressed) /\ HookTells BY HoldIs
<1>2. /\ wire # <<>> /\ wire' = Tail(wire)
      /\ UNCHANGED <<down, button, toggleSent, monitor, toggleLocked, captureActive, toggled, fresh, modified>>
  BY DEF Hold!Hear, Hold!inputVars, Hold!ghostVars
<1>w. /\ wire' \in Wires /\ Len(wire) \in Nat \ {0} /\ Len(wire') = Len(wire) - 1 /\ Head(wire) = wire[1]
      /\ wire[1] \in Hold!Reports
      /\ \A i \in 1 .. Len(wire') : wire'[i] = wire[i + 1]
      /\ \A i \in 0 .. Len(wire'), k \in Keys : LetsGo(k, i + 1) => LetsGo(k, i)'
  BY <1>1, <1>2, WireShrinks DEF HoldTypes
<1>3. PICK r \in Hold!Reports : r = wire[1] BY <1>w
<1>4. \/ r.event = "mousedown"
      \/ r.event \in {"keydown", "keyup"} /\ r.key \in Keys /\ r = [event |-> r.event, key |-> r.key]
  BY ReportIs
<1>g. /\ matcher' \in Matchers /\ gesture' \in Gestures /\ (gesture'.holdStarted => gesture'.keyPressed)
      /\ (gesture'.keyPressed => matcher'.chordMatched)
      /\ (matcher'.chordMatched => Hold!allRequired(matcher'.pressed))
      /\ (captureActive => matcher'.pressed = {})
      /\ \A l \in matcher'.pressed :
           \/ l \in matcher.pressed /\ r # [event |-> "keyup", key |-> l]
           \/ r = [event |-> "keydown", key |-> l]
  <2>t. matcher \in Matchers /\ gesture \in Gestures /\ matcher.pressed \subseteq Keys BY <1>1 DEF HoldTypes, Matchers
  <2>h. /\ gesture.keyPressed => matcher.chordMatched
        /\ matcher.chordMatched => Hold!allRequired(matcher.pressed)
        /\ captureActive => matcher.pressed = {}
    BY <1>1 DEF HookTells
  <2>1. CASE captureActive
    <3>1. UNCHANGED <<matcher, gesture>> BY <1>3, <1>w, <2>1 DEF Hold!Hear
    <3> QED BY <1>1, <2>1, <2>t, <2>h, <3>1
  <2>2. CASE ~captureActive /\ r.event = "keydown" /\ r.key \in matcher.pressed
    <3>1. UNCHANGED <<matcher, gesture>> BY <1>3, <1>w, <2>2 DEF Hold!Hear
    <3>2. \A l : r # [event |-> "keyup", key |-> l] BY <2>2
    <3> QED BY <1>1, <2>2, <2>t, <2>h, <3>1, <3>2
  <2>3. CASE ~captureActive /\ r.event = "keydown" /\ r.key \notin matcher.pressed
    <3>1. Hold!HookDown(r.key) BY <1>3, <1>w, <2>3 DEF Hold!Hear
    <3>2. r.key \in Keys /\ r = [event |-> "keydown", key |-> r.key] BY <1>4, <2>3
    <3>3. \A l : r # [event |-> "keyup", key |-> l] BY <2>3
    <3>4. matcher'.pressed = matcher.pressed \union {r.key} BY <1>1, <3>1, <3>2, HookDownMoves
    <3> QED BY <1>1, <2>3, <3>1, <3>2, <3>3, <3>4, HookDownMoves
  <2>4. CASE ~captureActive /\ r.event = "keyup"
    <3>1. Hold!HookUp(r.key) BY <1>3, <1>w, <2>4 DEF Hold!Hear
    <3>2. r.key \in Keys /\ r = [event |-> "keyup", key |-> r.key] BY <1>4, <2>4
    <3>3. matcher'.pressed = matcher.pressed \ {r.key} BY <1>1, <3>1, <3>2, HookUpMoves
    <3>4. \A l \in matcher'.pressed : l \in matcher.pressed /\ r # [event |-> "keyup", key |-> l]
      <4> SUFFICES ASSUME NEW l \in matcher'.pressed PROVE l \in matcher.pressed /\ r # [event |-> "keyup", key |-> l] OBVIOUS
      <4>1. l \in matcher.pressed /\ l # r.key BY <3>3
      <4>2. [event |-> "keyup", key |-> l].key = l OBVIOUS
      <4> QED BY <4>1, <4>2
    <3> QED BY <1>1, <2>4, <3>1, <3>2, <3>4, HookUpMoves
  <2>5. CASE ~captureActive /\ r.event = "mousedown"
    <3>1. \A l : r # [event |-> "keyup", key |-> l] /\ r # [event |-> "keydown", key |-> l] BY <2>5
    <3>2. IF Hold!anyRequired(matcher.pressed) THEN Hold!Modify(matcher) ELSE UNCHANGED <<matcher, gesture>>
      BY <1>3, <1>w, <2>5 DEF Hold!Hear
    <3>3. CASE UNCHANGED <<matcher, gesture>> BY <1>1, <2>5, <2>t, <2>h, <3>1, <3>3
    <3>4. CASE Hold!Modify(matcher)
      <4>1. PICK t \in BOOLEAN : t = TRUE OBVIOUS
      <4>2. matcher' = [matcher EXCEPT !.suppressedUntilRelease = t] /\ gesture' = Hold!modifiedInput(gesture)
        BY <3>4, <4>1 DEF Hold!Modify
      <4>3. matcher' \in Matchers /\ matcher'.pressed = matcher.pressed /\ matcher'.chordMatched = matcher.chordMatched
        BY <2>t, <4>2 DEF Matchers
      <4>4. SameHold(gesture, gesture') BY <2>t, <4>2, ModifiedGesture
      <4> QED BY <1>1, <2>5, <2>h, <3>1, <4>3, <4>4 DEF SameHold
    <3> QED BY <3>2, <3>3, <3>4
  <2> QED BY <1>4, <2>1, <2>2, <2>3, <2>4, <2>5
<1>t. HoldTypes' BY <1>1, <1>2, <1>w, <1>g DEF HoldTypes
<1>5. ASSUME NEW l \in Keys \ down', l \in matcher'.pressed PROVE LetsGo(l, 0)'
  <2>1. 0 \in 0 .. Len(wire') /\ 1 \in 1 .. Len(wire) BY <1>w
  <2>2. CASE l \in matcher.pressed /\ r # [event |-> "keyup", key |-> l]
    <3>1. LetsGo(l, 0) BY <1>1, <1>2, <1>5, <2>2 DEF HookTells
    <3>2. PICK j \in 1 .. Len(wire) : j > 0 /\ wire[j] = [event |-> "keyup", key |-> l] BY <3>1 DEF LetsGo
    <3>3. j # 1 BY <1>3, <2>2, <3>2
    <3>4. LetsGo(l, 0 + 1) BY <1>w, <3>2, <3>3 DEF LetsGo
    <3> QED BY <1>w, <2>1, <3>4
  <2>3. CASE r = [event |-> "keydown", key |-> l]
    <3>1. LetsGo(l, 1) BY <1>1, <1>2, <1>3, <2>1, <2>3 DEF HookTells
    <3>2. LetsGo(l, 0 + 1) BY <3>1
    <3> QED BY <1>w, <2>1, <3>2
  <2> QED BY <1>g, <1>5, <2>2, <2>3
<1>6. ASSUME NEW l \in Keys \ down', NEW i \in 1 .. Len(wire'), wire'[i] = [event |-> "keydown", key |-> l] PROVE LetsGo(l, i)'
  <2>1. i + 1 \in 1 .. Len(wire) /\ i \in 0 .. Len(wire') /\ wire[i + 1] = [event |-> "keydown", key |-> l] BY <1>6, <1>w
  <2>2. LetsGo(l, i + 1) BY <1>1, <1>2, <2>1 DEF HookTells
  <2> QED BY <1>w, <2>1, <2>2
<1>7. ~monitor'.running BY <1>1, <1>2 DEF HookTells
<1>8. HookTells' BY <1>2, <1>5, <1>6, <1>7, <1>g DEF HookTells, Hold!allRequired
<1> QED BY <1>t, <1>8, <1>g, HoldNext


\* The main process hears what the helper has made of the keyboard.
LEMMA HearsHelper ==
  ASSUME Hold!HoldAssumption, HoldInvariant, Hold!Hear, ~Hooked
  PROVE  HoldInvariant'
<1>1. /\ HoldTypes /\ (gesture.holdStarted => gesture.keyPressed) /\ HelperTells BY HoldIs
<1>2. /\ wire # <<>> /\ wire' = Tail(wire)
      /\ UNCHANGED <<down, button, toggleSent, monitor, toggleLocked, captureActive, toggled, fresh, modified>>
  BY DEF Hold!Hear, Hold!inputVars, Hold!ghostVars
<1>w. /\ wire' \in Wires /\ Len(wire) \in Nat \ {0} /\ Len(wire') = Len(wire) - 1 /\ Head(wire) = wire[1]
      /\ wire[1] \in Hold!Reports
      /\ \A i \in 1 .. Len(wire') : wire'[i] = wire[i + 1]
      /\ \A i \in 0 .. Len(wire'), event \in Events : Says(event, i + 1) => Says(event, i)'
  BY <1>1, <1>2, WireShrinks DEF HoldTypes
<1>3. PICK r \in Hold!Reports : r = wire[1] BY <1>w
<1>4. r.event \in {"hold-down", "hold-up", "modified-input"} BY ReportIs
<1>e. "hold-up" \in Events BY DEF Events
<1>t. matcher \in Matchers /\ gesture \in Gestures BY <1>1 DEF HoldTypes
<1>g. /\ matcher' = matcher /\ gesture' \in Gestures /\ (gesture'.holdStarted => gesture'.keyPressed)
      /\ (captureActive => gesture' = gesture)
      /\ (gesture'.keyPressed => (gesture.keyPressed /\ (captureActive \/ r.event # "hold-up")) \/ r.event = "hold-down")
  <2>1. CASE captureActive
    <3>1. UNCHANGED <<matcher, gesture>> BY <1>3, <1>w, <2>1 DEF Hold!Hear
    <3> QED BY <1>1, <1>t, <2>1, <3>1
  <2>2. CASE ~captureActive /\ r.event = "hold-down"
    <3>1. gesture' = Hold!keyDown(gesture) /\ matcher' = matcher BY <1>3, <1>w, <2>2 DEF Hold!Hear
    <3> QED BY <1>1, <1>t, <2>2, <3>1, PressedGesture
  <2>3. CASE ~captureActive /\ r.event = "hold-up"
    <3>1. gesture' = Hold!keyUp(gesture) /\ matcher' = matcher BY <1>3, <1>w, <2>3 DEF Hold!Hear
    <3> QED BY <1>1, <1>t, <2>3, <3>1, ReleasedGesture DEF NoHoldYet
  <2>4. CASE ~captureActive /\ r.event = "modified-input"
    <3>1. gesture' = Hold!modifiedInput(gesture) /\ matcher' = matcher BY <1>3, <1>w, <2>4 DEF Hold!Hear
    <3>2. SameHold(gesture, gesture') BY <1>t, <3>1, ModifiedGesture
    <3> QED BY <1>1, <1>t, <2>4, <3>1, <3>2 DEF SameHold
  <2> QED BY <1>4, <2>1, <2>2, <2>3, <2>4
<1>5. HoldTypes' BY <1>1, <1>2, <1>w, <1>g DEF HoldTypes
<1>6. Watched' = Watched BY <1>2 DEF Watched
<1>7. gesture'.keyPressed => Watched' \/ Says("hold-up", 0)'
  <2> SUFFICES ASSUME gesture'.keyPressed, ~Watched PROVE Says("hold-up", 0)' BY <1>6
  <2>1. 0 \in 0 .. Len(wire') /\ 1 \in 1 .. Len(wire) BY <1>w
  <2>2. CASE r.event = "hold-down"
    <3>1. Says("hold-up", 1) BY <1>1, <1>3, <2>1, <2>2 DEF HelperTells
    <3>2. Says("hold-up", 0 + 1) BY <3>1
    <3> QED BY <1>w, <1>e, <2>1, <3>2
  <2>3. CASE gesture.keyPressed /\ r.event # "hold-up"
    <3>1. PICK j \in 1 .. Len(wire) : j > 0 /\ wire[j].event = "hold-up" BY <1>1, <2>3 DEF HelperTells, Says
    <3>2. j # 1 BY <1>3, <2>3, <3>1
    <3>3. Says("hold-up", 0 + 1) BY <1>w, <3>1, <3>2 DEF Says
    <3> QED BY <1>w, <1>e, <2>1, <3>3
  <2>4. CASE gesture.keyPressed /\ captureActive
    <3>1. ~gesture.keyPressed BY <1>1, <2>4 DEF HelperTells
    <3> QED BY <2>4, <3>1
  <2> QED BY <1>g, <2>2, <2>3, <2>4
<1>8. ASSUME NEW i \in 1 .. Len(wire'), wire'[i].event = "hold-down" PROVE Watched' \/ Says("hold-up", i)'
  <2>1. i + 1 \in 1 .. Len(wire) /\ i \in 0 .. Len(wire') /\ wire[i + 1].event = "hold-down" BY <1>8, <1>w
  <2>2. Watched \/ Says("hold-up", i + 1) BY <1>1, <2>1 DEF HelperTells
  <2> QED BY <1>w, <1>e, <1>6, <2>1, <2>2
<1>9. captureActive' => ~gesture'.keyPressed BY <1>1, <1>2, <1>g DEF HelperTells
<1>10. HelperTells' BY <1>7, <1>8, <1>9 DEF HelperTells
<1> QED BY <1>5, <1>10, <1>g, HoldNext

\* EndClick, MonitorStops, MonitorRestarts, HoldTimerFires, Toggle and ToggleLockEnds.
LEMMA HoldServiceStep ==
  ASSUME Hold!HoldAssumption, HoldInvariant,
         Hold!EndClick \/ Hold!MonitorRestarts \/ Hold!HoldTimerFires \/ Hold!Toggle \/ Hold!ToggleLockEnds
  PROVE  HoldInvariant'
<1>1. /\ HoldTypes /\ (gesture.holdStarted => gesture.keyPressed) /\ (Hooked => HookTells) /\ (~Hooked => HelperTells)
  BY HoldIs
<1>2. UNCHANGED <<down, wire, matcher, captureActive, fresh, modified>>
  BY DEF Hold!EndClick, Hold!MonitorRestarts, Hold!HoldTimerFires, Hold!Toggle, Hold!ToggleLockEnds, Hold!inputVars, Hold!ghostVars
<1>3. /\ monitor' \in Monitors /\ (Watched => Watched') /\ (Hooked => monitor' = monitor)
  <2>1. CASE Hold!MonitorRestarts
    <3>1. PICK t \in BOOLEAN : t = TRUE OBVIOUS
    <3>2. monitor' = [Hold!Stopped EXCEPT !.running = t] /\ ~Hooked /\ ~monitor.running
      BY <2>1, <3>1 DEF Hold!MonitorRestarts, Hold!NeedsMonitor
    <3> QED BY <3>1, <3>2, StoppedIs DEF Watched
  <2>2. CASE ~Hold!MonitorRestarts
    <3>1. monitor' = monitor BY <2>2 DEF Hold!EndClick, Hold!HoldTimerFires, Hold!Toggle, Hold!ToggleLockEnds
    <3> QED BY <1>1, <3>1 DEF Watched, HoldTypes
  <2> QED BY <2>1, <2>2
<1>4. gesture' \in Gestures /\ gesture'.keyPressed = gesture.keyPressed /\ (gesture'.holdStarted => gesture'.keyPressed)
  <2>t. gesture \in Gestures BY <1>1 DEF HoldTypes
  <2>1. CASE Hold!HoldTimerFires
    <3>1. gesture' = [gesture EXCEPT !.holdTimer = FALSE, !.holdStarted = @ \/ (gesture.keyPressed /\ ~gesture.cancelled)]
      BY <2>1 DEF Hold!HoldTimerFires
    <3> QED BY <1>1, <2>t, <3>1, StartedGesture
  <2>2. CASE Hold!Toggle
    <3>1. gesture' = gesture \/ gesture' = Hold!prepareToggle(gesture) BY <2>2 DEF Hold!Toggle
    <3> QED BY <1>1, <2>t, <3>1, ToggledGesture DEF SameHold
  <2>3. CASE ~Hold!HoldTimerFires /\ ~Hold!Toggle
    <3>1. gesture' = gesture BY <2>3 DEF Hold!EndClick, Hold!MonitorRestarts, Hold!ToggleLockEnds
    <3> QED BY <1>1, <2>t, <3>1
  <2> QED BY <2>1, <2>2, <2>3
<1>5. button' \in BOOLEAN /\ toggleSent' \in {"no", "now", "late"} /\ toggleLocked' \in BOOLEAN /\ toggled' \in BOOLEAN
  <2>1. CASE Hold!Toggle
    <3>1. Hold!MayToggle(gesture) \in BOOLEAN BY DEF Hold!MayToggle
    <3>2. toggleLocked' \in BOOLEAN BY <1>1, <2>1, <3>1 DEF Hold!Toggle, HoldTypes
    <3>3. toggled' \in BOOLEAN BY <1>1, <2>1 DEF Hold!Toggle, HoldTypes
    <3> QED BY <1>1, <2>1, <3>2, <3>3 DEF Hold!Toggle, HoldTypes, Hold!inputVars
  <2>2. CASE ~Hold!Toggle
    BY <1>1, <2>2 DEF Hold!EndClick, Hold!MonitorRestarts, Hold!HoldTimerFires, Hold!ToggleLockEnds, Hold!inputVars, Hold!ghostVars, HoldTypes
  <2> QED BY <2>1, <2>2
<1>6. HoldTypes' BY <1>1, <1>2, <1>3, <1>4, <1>5 DEF HoldTypes
<1>7. Hooked => HookTells'
  <2> SUFFICES ASSUME Hooked PROVE HookTells' OBVIOUS
  <2>1. ~monitor'.running BY <1>1, <1>3 DEF HookTells
  <2> QED BY <1>1, <1>2, <1>4, <2>1, HookStays
<1>8. ~Hooked => HelperTells' BY <1>1, <1>2, <1>3, <1>4, HelperStays
<1> QED BY <1>4, <1>6, <1>7, <1>8, HoldNext

\* The gesture is reset: the helper has died, or a shortcut is being recorded.
LEMMA ResetStep ==
  ASSUME Hold!HoldAssumption, HoldInvariant, Hold!MonitorStops \/ Hold!BeginCapture \/ Hold!EndCapture
  PROVE  HoldInvariant'
<1>1. /\ HoldTypes /\ (gesture.holdStarted => gesture.keyPressed) /\ (Hooked => HookTells) /\ (~Hooked => HelperTells)
  BY HoldIs
<1>2. /\ UNCHANGED <<down, button, toggleLocked>> /\ Hold!Forgets
  BY DEF Hold!MonitorStops, Hold!BeginCapture, Hold!EndCapture, Hold!inputVars
<1>3. gesture' = Hold!NoGesture
  BY DEF Hold!MonitorStops, Hold!BeginCapture, Hold!EndCapture, Hold!AfterDeath, Hold!CaptureEnds
<1>4. gesture' \in Gestures /\ ~gesture'.holdStarted /\ ~gesture'.keyPressed BY <1>3, NoGestureIs DEF NoHoldYet
<1>5. toggleSent' \in {"no", "now", "late"} /\ fresh' \in SUBSET Keys /\ toggled' \in BOOLEAN /\ modified' \in BOOLEAN
  BY <1>1, <1>2 DEF Hold!Forgets, Hold!Late, HoldTypes
<1>6. CASE Hold!MonitorStops
  <2>1. monitor' = Hold!Stopped /\ wire' = <<>> /\ matcher' = matcher /\ captureActive' = captureActive /\ monitor.running
    BY <1>6 DEF Hold!MonitorStops
  <2>2. ~Hooked BY <1>1, <2>1 DEF HookTells
  <2>3. wire' \in Wires BY <2>1 DEF Wires
  <2>4. HoldTypes' BY <1>1, <1>2, <1>4, <1>5, <2>1, <2>3, StoppedIs DEF HoldTypes
  <2>5. HelperTells' BY <1>4, <2>1 DEF HelperTells
  <2> QED BY <1>4, <2>2, <2>4, <2>5, HoldNext
<1>7. CASE Hold!BeginCapture \/ Hold!EndCapture
  <2>1. matcher' = Hold!NoMatch /\ UNCHANGED <<wire, monitor>> /\ captureActive' \in BOOLEAN
    BY <1>7 DEF Hold!BeginCapture, Hold!EndCapture
  <2>2. matcher' \in Matchers /\ matcher'.pressed = {} /\ ~matcher'.chordMatched BY <2>1, NoMatchIs
  <2>3. HoldTypes' BY <1>1, <1>2, <1>4, <1>5, <2>1, <2>2 DEF HoldTypes
  <2>4. Hooked => HookTells'
    <3> SUFFICES ASSUME Hooked PROVE HookTells' OBVIOUS
    <3>1. ~monitor'.running BY <1>1, <2>1 DEF HookTells
    <3>2. \A k \in Keys \ down' : \A i \in 1 .. Len(wire') : wire'[i] = [event |-> "keydown", key |-> k] => LetsGo(k, i)'
      BY <1>1, <1>2, <2>1 DEF HookTells, LetsGo
    <3> QED BY <1>4, <2>2, <3>1, <3>2 DEF HookTells
  <2>5. ~Hooked => HelperTells'
    <3>1. Watched' = Watched BY <2>1 DEF Watched
    <3> QED BY <1>1, <1>4, <2>1, <3>1 DEF HelperTells, Says
  <2> QED BY <1>4, <2>3, <2>4, <2>5, HoldNext
<1> QED BY <1>6, <1>7

LEMMA HoldInit ==
  ASSUME Hold!HoldAssumption, Hold!Init PROVE HoldInvariant
<1>1. /\ down = {} /\ button = FALSE /\ wire = <<>> /\ toggleSent = "no" /\ matcher = Hold!NoMatch /\ gesture = Hold!NoGesture
      /\ toggleLocked = FALSE /\ captureActive = FALSE /\ toggled = FALSE /\ fresh = {} /\ modified = FALSE
  BY DEF Hold!Init
<1>2. PICK h \in BOOLEAN : h = ~Hooked OBVIOUS
<1>3. monitor = [Hold!Stopped EXCEPT !.running = h] BY <1>2 DEF Hold!Init
<1>4. monitor \in Monitors /\ monitor.running = ~Hooked BY <1>2, <1>3, StoppedIs
<1>5. wire \in Wires /\ Len(wire) = 0 BY <1>1 DEF Wires
<1>6. HoldTypes BY <1>1, <1>4, <1>5, NoGestureIs, NoMatchIs DEF HoldTypes, NoHoldYet
<1>7. ~gesture.holdStarted /\ ~gesture.keyPressed /\ matcher.pressed = {} /\ ~matcher.chordMatched
  BY <1>1, NoGestureIs, NoMatchIs DEF NoHoldYet
<1>8. Hooked => HookTells
  <2> SUFFICES ASSUME Hooked PROVE HookTells OBVIOUS
  <2>1. ~monitor.running BY <1>4
  <2>2. \A k \in Keys \ down : (k \in matcher.pressed => LetsGo(k, 0)) /\
          \A i \in 1 .. Len(wire) : wire[i] = [event |-> "keydown", key |-> k] => LetsGo(k, i)
    BY <1>5, <1>7
  <2> QED BY <1>7, <2>1, <2>2 DEF HookTells
<1>9. ~Hooked => HelperTells BY <1>5, <1>7 DEF HelperTells
<1> QED BY <1>6, <1>7, <1>8, <1>9, HoldTypesAre DEF HoldInvariant

LEMMA HoldStep ==
  ASSUME Hold!HoldAssumption, HoldInvariant, [Hold!Next]_(Hold!vars) PROVE HoldInvariant'
<1>1. CASE Hold!Next
  <2>1. CASE \E k \in Keys : Hold!Press(k) \/ Hold!LetGo(k) BY <2>1, KeyboardStep
  <2>2. CASE Hold!Click
    <3>1. PICK k \in Keys : TRUE
      <4>1. ToggleKey \in Keys BY DEF Hold!HoldAssumption
      <4> QED BY <4>1
    <3> QED BY <2>2, <3>1, KeyboardStep
  <2>3. CASE Hold!Hear BY <2>3, HearsHook, HearsHelper, HoldFacts
  <2>4. CASE Hold!EndClick \/ Hold!MonitorRestarts \/ Hold!HoldTimerFires \/ Hold!Toggle \/ Hold!ToggleLockEnds
    BY <2>4, HoldServiceStep
  <2>5. CASE Hold!MonitorStops \/ Hold!BeginCapture \/ Hold!EndCapture BY <2>5, ResetStep
  <2>6. CASE Hold!Look BY <2>6, LookStep
  <2> QED BY <1>1, <2>1, <2>2, <2>3, <2>4, <2>5, <2>6 DEF Hold!Next
<1>2. CASE UNCHANGED Hold!vars
  <2>1. UNCHANGED <<down, button, wire, toggleSent, matcher, monitor, gesture, toggleLocked, captureActive, toggled, fresh, modified>>
    BY <1>2 DEF Hold!vars, Hold!inputVars, Hold!ghostVars
  <2>2. HoldTypes' /\ HoldTypes BY <2>1, HoldIs DEF HoldTypes
  <2>3. Hooked => HookTells' BY <2>1, <2>2, HoldIs, HookStays DEF HookTells
  <2>4. ~Hooked => HelperTells' BY <2>1, <2>2, HoldIs, HelperStays DEF Watched
  <2> QED BY <2>1, <2>2, <2>3, <2>4, HoldIs, HoldNext
<1> QED BY <1>1, <1>2

\* Push-to-talk goes on only while its keys are down, or their release is on its way
\* (holdChordMatcher.ts, monitorHoldShortcut, handleFallbackMonitorStopped, beginCapture).
THEOREM HoldEndsWithItsKeys ==
  ASSUME Hold!HoldAssumption PROVE Hold!Spec => [](Hold!TypeOK /\ Hold!HoldHasKeys)
<1>1. Hold!Init => HoldInvariant BY HoldInit
<1>2. HoldInvariant /\ [Hold!Next]_(Hold!vars) => HoldInvariant' BY HoldStep
<1>3. HoldInvariant => Hold!TypeOK /\ Hold!HoldHasKeys
  <2> SUFFICES ASSUME HoldInvariant, gesture.holdStarted
               PROVE  \/ Hold!allRequired(down) \/ Hold!ReleaseOnWire \/ Watched
    BY DEF Hold!HoldHasKeys, HoldInvariant, Watched
  <2>1. /\ HoldTypes /\ gesture.keyPressed /\ (Hooked => HookTells) /\ (~Hooked => HelperTells) BY HoldIs
  <2>d. DOMAIN wire = 1 .. Len(wire) BY <2>1 DEF HoldTypes, Wires
  <2>2. CASE Hooked
    <3> SUFFICES ASSUME ~Hold!ReleaseOnWire PROVE Hold!allRequired(down) OBVIOUS
    <3>1. \A k \in Keys : ~LetsGo(k, 0) BY <2>d DEF LetsGo, Hold!ReleaseOnWire
    <3>2. matcher.pressed \subseteq down BY <2>1, <2>2, <3>1 DEF HookTells, HoldTypes, Matchers
    <3>3. Hold!allRequired(matcher.pressed) BY <2>1, <2>2 DEF HookTells
    <3> QED BY <3>2, <3>3, MoreKeys
  <2>3. CASE ~Hooked
    BY <2>1, <2>3, <2>d DEF HelperTells, Says, Hold!ReleaseOnWire
  <2> QED BY <2>2, <2>3, HoldFacts
<1> QED BY <1>1, <1>2, <1>3, PTL DEF Hold!Spec


-----------------------------------------------------------------------------
(* HotkeyService *)

CONSTANTS Holds, Toggles, Native, Clashes, MayFail, MaxFailures
VARIABLES service, row, login, granted, phase, answer

Service == INSTANCE HotkeyService WITH s <- service

\* What is stopped stops: only what is started, probed, suspended or saved may fail.
StopsWork == MayFail \intersect {"unregister", "off", "hookStop"} = {}
\* The row is always written, or what was in use before can always be put back.
RowIsSaved == "save" \notin MayFail \/ MayFail \intersect {"register", "probe", "hookStart"} = {}

HookAgrees(x) == x.listeners = (IF x.mode = "full" THEN 1 ELSE 0) /\ x.hooked = (x.mode = "full")
HelperAgrees(x) == x.watched = (IF x.monitorStarted THEN x.hold ELSE "none") /\ ~(x.mode = "full" /\ x.monitorStarted)
ToggleAgrees(x) == x.owned = (IF x.registered THEN {x.toggle} ELSE {})
\* A service that says the truth of what the process holds.
Agrees(x) == x \in Service!Services /\ HookAgrees(x) /\ HelperAgrees(x) /\ ToggleAgrees(x)

KeysInvariant ==
  /\ Service!TypeOK /\ Agrees(service)
  /\ RowIsSaved => service.hold = row.hold /\ service.toggle = row.toggle /\ <<row.hold, row.toggle>> \notin Clashes
  /\ "loginRestore" \notin MayFail => login = row.launch


-----------------------------------------------------------------------------
(* What the operations are made of.                                        *)

LEMMA InIsBoolean ==
  ASSUME NEW x, NEW S PROVE \E b \in BOOLEAN : b = (x \in S)
<1>1. (x \in S) \in BOOLEAN OBVIOUS
<1>2. \A v \in BOOLEAN : \E b \in BOOLEAN : b = v OBVIOUS
<1> QED BY <1>1, <1>2

LEMMA FailingCalls ==
  ASSUME NEW F \in Service!Failures, NEW call, NEW n, <<call, n>> \in F
  PROVE  call \in MayFail
<1>1. PICK m \in 0 .. MaxFailures : F \in {{f[i] : i \in 1 .. m} : f \in [1 .. m -> MayFail \X (1 .. 4)]}
  BY DEF Service!Failures
<1>2. PICK f \in [1 .. m -> MayFail \X (1 .. 4)] : F = {f[i] : i \in 1 .. m} BY <1>1
<1>3. PICK i \in 1 .. m : <<call, n>> = f[i] BY <1>2
<1>4. <<call, n>> \in MayFail \X (1 .. 4) BY <1>2, <1>3
<1> QED BY <1>4

\* The calls of F that stop something do not fail.
Stops(F) == \A n : <<"unregister", n>> \notin F /\ <<"off", n>> \notin F /\ <<"hookStop", n>> \notin F

LEMMA WhatStopsStops ==
  ASSUME StopsWork, NEW F \in Service!Failures PROVE Stops(F)
BY FailingCalls DEF StopsWork, Stops

\* The fields of a service that no capture touches are the same.
SameKeys(x, y) ==
  /\ y.mode = x.mode /\ y.hold = x.hold /\ y.toggle = x.toggle /\ y.registered = x.registered /\ y.failure = x.failure
  /\ y.degraded = x.degraded /\ y.monitorStarted = x.monitorStarted /\ y.watched = x.watched /\ y.threw = x.threw
  /\ y.hooked = x.hooked /\ y.listeners = x.listeners /\ y.owned = x.owned

LEMMA ResumeIs ==
  ASSUME NEW x \in Service!Services, NEW n, NEW F
  PROVE  LET y == Service!Resume(x, n, F) IN y \in Service!Services /\ SameKeys(x, y) /\ y.captureActive = x.captureActive
<1>0. PICK c \in BOOLEAN : c = (<<"suspend", n>> \in F) BY InIsBoolean
<1>1. PICK b \in BOOLEAN : b = FALSE OBVIOUS
<1>2. Service!Resume(x, n, F) \in {x, [x EXCEPT !.captureSuspended = b, !.suspended = c]} BY <1>0, <1>1 DEF Service!Resume
<1> QED BY <1>2 DEF Service!Services, SameKeys

LEMMA CaptureIsEnded ==
  ASSUME NEW x \in Service!Services, NEW n, NEW F
  PROVE  LET y == Service!endCapture(x, n, F) IN y \in Service!Services /\ SameKeys(x, y) /\ ~y.captureActive
<1>1. PICK b \in BOOLEAN : b = FALSE OBVIOUS
<1>2. PICK z : z = [x EXCEPT !.captureActive = b, !.captureTimer = b] OBVIOUS
<1>3. z \in Service!Services /\ SameKeys(x, z) /\ ~z.captureActive BY <1>1, <1>2 DEF Service!Services, SameKeys
<1>4. Service!endCapture(x, n, F) = Service!Resume(z, n, F) BY <1>1, <1>2 DEF Service!endCapture
<1>5. PICK y : y = Service!Resume(z, n, F) OBVIOUS
<1>6. y \in Service!Services /\ SameKeys(z, y) /\ y.captureActive = z.captureActive BY <1>3, <1>5, ResumeIs
<1>7. SameKeys(x, y) BY <1>3, <1>6 DEF SameKeys
<1> QED BY <1>3, <1>4, <1>5, <1>6, <1>7

\* Nothing listens: no hook, no helper.
Still(x) == x.mode = "stopped" /\ x.listeners = 0 /\ ~x.hooked /\ ~x.monitorStarted /\ x.watched = "none" /\ ~x.threw

\* What stopForReconfigure() leaves of x.
Stopped(x, preserve, y) ==
  /\ y \in Service!Services /\ Still(y) /\ ToggleAgrees(y)
  /\ y.hold = x.hold /\ y.toggle = x.toggle /\ y.degraded = x.degraded /\ ~y.captureActive
  /\ y.registered = (preserve /\ x.registered) /\ (y.failure => preserve /\ x.failure)

LEMMA NoHelper ==
  ASSUME NEW x \in Service!Services
  PROVE  LET y == Service!stopFallbackMonitor(x) IN
         /\ y \in Service!Services /\ ~y.monitorStarted /\ y.watched = "none"
         /\ y.mode = x.mode /\ y.hold = x.hold /\ y.toggle = x.toggle /\ y.registered = x.registered /\ y.failure = x.failure
         /\ y.degraded = x.degraded /\ y.threw = x.threw /\ y.hooked = x.hooked /\ y.listeners = x.listeners
         /\ y.owned = x.owned /\ y.captureActive = x.captureActive
<1>1. PICK b \in BOOLEAN : b = FALSE OBVIOUS
<1>2. Service!stopFallbackMonitor(x) = [x EXCEPT !.monitorStarted = b, !.watched = "none"]
  BY <1>1 DEF Service!stopFallbackMonitor, Service!NoHold
<1> QED BY <1>1, <1>2 DEF Service!Services, Service!NoHold

LEMMA NoHook ==
  ASSUME NEW x \in Service!Services, HookAgrees(x), ~x.threw, NEW n, NEW F, Stops(F)
  PROVE  LET y == Service!StopHook(x, n, F) IN
         /\ y \in Service!Services /\ ~y.hooked /\ y.listeners = 0 /\ ~y.threw
         /\ y.hold = x.hold /\ y.toggle = x.toggle /\ y.registered = x.registered /\ y.failure = x.failure
         /\ y.degraded = x.degraded /\ y.owned = x.owned /\ y.captureActive = x.captureActive
<1>1. PICK b \in BOOLEAN : b = FALSE OBVIOUS
<1>2. CASE x.mode # "full" BY <1>2 DEF Service!StopHook, HookAgrees
<1>3. CASE x.mode = "full"
  <2>1. x.listeners = 1 /\ x.listeners - 1 = 0 BY <1>3 DEF HookAgrees
  <2>2. Service!StopHook(x, n, F) = [x EXCEPT !.listeners = 0, !.hooked = b, !.threw = b]
    <3>1. <<"off", n>> \notin F /\ <<"hookStop", n>> \notin F BY DEF Stops
    <3>2. ({<<"off", n>>, <<"hookStop", n>>} \intersect F # {}) = b BY <1>1, <3>1, Zenon
    <3>3. (<<"hookStop", n>> \in F) = b BY <1>1, <3>1
    <3>4. (IF <<"off", n>> \in F THEN x.listeners ELSE x.listeners - 1) = 0 BY <2>1, <3>1
    <3>5. Service!StopHook(x, n, F) =
            [x EXCEPT !.listeners = IF <<"off", n>> \in F THEN x.listeners ELSE x.listeners - 1,
                      !.hooked = <<"hookStop", n>> \in F,
                      !.threw = {<<"off", n>>, <<"hookStop", n>>} \intersect F # {}]
      BY <1>3, Zenon DEF Service!StopHook
    <3> QED BY <3>2, <3>3, <3>4, <3>5, Zenon
  <2>3. PICK y : y = [x EXCEPT !.listeners = 0, !.hooked = b, !.threw = b] OBVIOUS
  <2>4. /\ y \in Service!Services /\ y.hooked = b /\ y.listeners = 0 /\ y.threw = b
        /\ y.hold = x.hold /\ y.toggle = x.toggle /\ y.registered = x.registered /\ y.failure = x.failure
        /\ y.degraded = x.degraded /\ y.owned = x.owned /\ y.captureActive = x.captureActive
    BY <2>3 DEF Service!Services
  <2> QED BY <1>1, <2>2, <2>3, <2>4
<1> QED BY <1>2, <1>3

LEMMA NoToggle ==
  ASSUME NEW x \in Service!Services, ToggleAgrees(x), ~x.threw, NEW n, NEW F, Stops(F)
  PROVE  LET y == Service!Unregister(x, n, F) IN
         /\ y \in Service!Services /\ ~y.registered /\ ~y.failure /\ y.owned = {} /\ ~y.threw
         /\ y.mode = x.mode /\ y.hold = x.hold /\ y.toggle = x.toggle /\ y.degraded = x.degraded
         /\ y.monitorStarted = x.monitorStarted /\ y.watched = x.watched /\ y.hooked = x.hooked /\ y.listeners = x.listeners
         /\ y.captureActive = x.captureActive
<1>1. PICK b \in BOOLEAN : b = FALSE OBVIOUS
<1>2. <<"unregister", n>> \notin F BY DEF Stops
<1>3. (IF ~x.registered \/ <<"unregister", n>> \in F THEN x.owned ELSE x.owned \ {x.toggle}) = {}
  BY <1>2 DEF ToggleAgrees
<1>4. x.threw = b BY <1>1 DEF Service!Services
<1>5. Service!Unregister(x, n, F) = [x EXCEPT !.owned = {}, !.threw = b, !.registered = b, !.failure = b]
  BY <1>1, <1>2, <1>3, <1>4 DEF Service!Unregister
<1> QED BY <1>1, <1>5 DEF Service!Services

LEMMA StopsForReconfigure ==
  ASSUME NEW x, Agrees(x), ~x.threw, NEW preserve \in BOOLEAN, NEW n, NEW F, Stops(F)
  PROVE  Stopped(x, preserve, Service!stopForReconfigure(x, preserve, n, F))
<1>1. PICK a : a = Service!endCapture(x, n, F) OBVIOUS
<1>2. a \in Service!Services /\ SameKeys(x, a) /\ ~a.captureActive BY <1>1, CaptureIsEnded DEF Agrees
<1>3. HookAgrees(a) /\ ToggleAgrees(a) /\ ~a.threw BY <1>2 DEF SameKeys, Agrees, HookAgrees, ToggleAgrees
<1>4. PICK b : b = Service!StopHook(a, n, F) OBVIOUS
<1>5. /\ b \in Service!Services /\ ~b.hooked /\ b.listeners = 0 /\ ~b.threw
      /\ b.hold = a.hold /\ b.toggle = a.toggle /\ b.registered = a.registered /\ b.failure = a.failure
      /\ b.degraded = a.degraded /\ b.owned = a.owned /\ b.captureActive = a.captureActive
  BY <1>2, <1>3, <1>4, NoHook
<1>6. PICK c : c = [b EXCEPT !.mode = "stopped"] OBVIOUS
<1>7. /\ c \in Service!Services /\ c.mode = "stopped" /\ ~c.hooked /\ c.listeners = 0 /\ ~c.threw
      /\ c.hold = x.hold /\ c.toggle = x.toggle /\ c.registered = x.registered /\ c.failure = x.failure
      /\ c.degraded = x.degraded /\ c.owned = x.owned /\ ~c.captureActive
  BY <1>2, <1>5, <1>6 DEF Service!Services, SameKeys
<1>8. PICK d : d = Service!stopFallbackMonitor(c) OBVIOUS
<1>9. /\ d \in Service!Services /\ Still(d) /\ ~d.captureActive
      /\ d.hold = x.hold /\ d.toggle = x.toggle /\ d.registered = x.registered /\ d.failure = x.failure
      /\ d.degraded = x.degraded /\ d.owned = x.owned
  BY <1>7, <1>8, NoHelper DEF Still
<1>10. ToggleAgrees(d) BY <1>9 DEF ToggleAgrees, Agrees
<1>11. Service!stopForReconfigure(x, preserve, n, F) = IF preserve THEN d ELSE Service!Unregister(d, n, F)
  BY <1>1, <1>4, <1>6, <1>8 DEF Service!stopForReconfigure
<1>r. x.registered \in BOOLEAN BY DEF Agrees, Service!Services
<1>12. CASE preserve
  <2>1. Service!stopForReconfigure(x, preserve, n, F) = d BY <1>11, <1>12
  <2> QED BY <1>9, <1>10, <1>12, <1>r, <2>1 DEF Stopped
<1>13. CASE ~preserve
  <2>1. PICK e : e = Service!Unregister(d, n, F) OBVIOUS
  <2>2. /\ e \in Service!Services /\ ~e.registered /\ ~e.failure /\ e.owned = {} /\ ~e.threw
        /\ e.mode = d.mode /\ e.hold = d.hold /\ e.toggle = d.toggle /\ e.degraded = d.degraded
        /\ e.monitorStarted = d.monitorStarted /\ e.watched = d.watched /\ e.hooked = d.hooked /\ e.listeners = d.listeners
        /\ e.captureActive = d.captureActive
    BY <1>9, <1>10, <2>1, NoToggle DEF Still
  <2>3. Still(e) /\ ToggleAgrees(e) BY <1>9, <2>2 DEF Still, ToggleAgrees
  <2>4. Service!stopForReconfigure(x, preserve, n, F) = e BY <1>11, <1>13, <2>1
  <2>5. e.registered = FALSE BY <2>2 DEF Service!Services
  <2> QED BY <1>9, <1>13, <2>2, <2>3, <2>4, <2>5 DEF Stopped
<1> QED BY <1>12, <1>13


\* The shortcuts are the same, and no capture has begun.
Kept(x, y) == y.hold = x.hold /\ y.toggle = x.toggle /\ (y.captureActive => x.captureActive)
\* The toggle of x is registered or can be.
Registers(x, n, F) == x.registered \/ (~x.failure /\ <<"register", n>> \notin F)

LEMMA StillAgrees ==
  ASSUME NEW x \in Service!Services, Still(x), ToggleAgrees(x) PROVE Agrees(x) /\ ~x.threw
<1>1. HookAgrees(x) BY DEF Still, HookAgrees, Service!Services
<1>2. HelperAgrees(x) BY DEF Still, HelperAgrees
<1> QED BY <1>1, <1>2 DEF Agrees, Still

\* A field that says how an operation went or is shown to the user does not matter.
LEMMA ThrewIsMarked ==
  ASSUME NEW x, Agrees(x), NEW b \in BOOLEAN, NEW y, y = [x EXCEPT !.threw = b]
  PROVE  Agrees(y) /\ Kept(x, y) /\ y.threw = b
<1>1. x \in Service!Services BY DEF Agrees
<1> QED BY <1>1 DEF Service!Services, Agrees, HookAgrees, HelperAgrees, ToggleAgrees, Kept

LEMMA DegradedIsMarked ==
  ASSUME NEW x, Agrees(x), NEW b \in BOOLEAN, NEW y, y = [x EXCEPT !.degraded = b]
  PROVE  Agrees(y) /\ Kept(x, y) /\ y.threw = x.threw
<1>1. x \in Service!Services BY DEF Agrees
<1> QED BY <1>1 DEF Service!Services, Agrees, HookAgrees, HelperAgrees, ToggleAgrees, Kept

LEMMA FailureIsMarked ==
  ASSUME NEW x, Agrees(x), NEW b \in BOOLEAN, NEW y, y = [x EXCEPT !.failure = b]
  PROVE  Agrees(y) /\ Kept(x, y) /\ y.threw = x.threw /\ y.failure = b /\ y.registered = x.registered
<1>1. x \in Service!Services BY DEF Agrees
<1> QED BY <1>1 DEF Service!Services, Agrees, HookAgrees, HelperAgrees, ToggleAgrees, Kept

LEMMA Throws ==
  ASSUME NEW x, Agrees(x) PROVE Agrees(Service!Throw(x)) /\ Kept(x, Service!Throw(x)) /\ Service!Throw(x).threw
<1>1. PICK b \in BOOLEAN : b = TRUE OBVIOUS
<1>2. PICK y : y = [x EXCEPT !.threw = b] OBVIOUS
<1>3. Service!Throw(x) = y BY <1>1, <1>2 DEF Service!Throw
<1>4. Agrees(y) /\ Kept(x, y) /\ y.threw = b BY <1>2, ThrewIsMarked
<1> QED BY <1>1, <1>3, <1>4

LEMMA RegistersToggle ==
  ASSUME NEW x, Agrees(x), ~x.threw, NEW require \in BOOLEAN, NEW n, NEW F
  PROVE  LET y == Service!registerToggle(x, require, n, F) IN
         /\ Agrees(y) /\ Kept(x, y) /\ y.mode = x.mode /\ y.monitorStarted = x.monitorStarted
         /\ (y.threw => require /\ ~Registers(x, n, F))
<1>0. x \in Service!Services BY DEF Agrees
<1>b. PICK t \in BOOLEAN : t = TRUE OBVIOUS
<1>1. CASE x.registered BY <1>1 DEF Service!registerToggle, Kept
<1>2. CASE ~x.registered /\ (x.failure \/ x.toggle \in x.owned \/ <<"register", n>> \in F)
  <2>1. PICK y : y = [x EXCEPT !.failure = t, !.threw = require] OBVIOUS
  <2>2. Service!registerToggle(x, require, n, F) = y BY <1>b, <1>2, <2>1 DEF Service!registerToggle
  <2>3. /\ y \in Service!Services /\ y.mode = x.mode /\ y.monitorStarted = x.monitorStarted /\ y.hold = x.hold /\ y.toggle = x.toggle
        /\ y.captureActive = x.captureActive /\ y.listeners = x.listeners /\ y.hooked = x.hooked /\ y.watched = x.watched
        /\ y.owned = x.owned /\ y.registered = x.registered /\ y.threw = require
    BY <1>0, <2>1 DEF Service!Services
  <2>4. Agrees(y) /\ Kept(x, y) BY <2>3 DEF Agrees, HookAgrees, HelperAgrees, ToggleAgrees, Kept
  <2>5. x.toggle \notin x.owned BY <1>2 DEF Agrees, ToggleAgrees
  <2>6. ~Registers(x, n, F) BY <1>2, <2>5 DEF Registers
  <2> QED BY <2>2, <2>3, <2>4, <2>6
<1>3. CASE ~x.registered /\ ~(x.failure \/ x.toggle \in x.owned \/ <<"register", n>> \in F)
  <2>1. PICK y : y = [x EXCEPT !.registered = t, !.owned = x.owned \union {x.toggle}] OBVIOUS
  <2>2. Service!registerToggle(x, require, n, F) = y BY <1>b, <1>3, <2>1 DEF Service!registerToggle
  <2>3. /\ y \in Service!Services /\ y.mode = x.mode /\ y.monitorStarted = x.monitorStarted /\ y.hold = x.hold /\ y.toggle = x.toggle
        /\ y.captureActive = x.captureActive /\ y.listeners = x.listeners /\ y.hooked = x.hooked /\ y.watched = x.watched
        /\ y.owned = x.owned \union {x.toggle} /\ y.registered /\ y.threw = x.threw
    BY <1>0, <1>b, <2>1 DEF Service!Services
  <2>4. y.owned = {y.toggle} BY <1>3, <2>3 DEF Agrees, ToggleAgrees
  <2>5. Agrees(y) /\ Kept(x, y) BY <2>3, <2>4 DEF Agrees, HookAgrees, HelperAgrees, ToggleAgrees, Kept
  <2> QED BY <2>2, <2>3, <2>5
<1> QED BY <1>1, <1>2, <1>3

LEMMA StartsFallback ==
  ASSUME NEW x, Agrees(x), ~x.threw, NEW require \in BOOLEAN, NEW n, NEW F
  PROVE  LET y == Service!startFallbackMode(x, require, n, F) IN
         Agrees(y) /\ Kept(x, y) /\ (y.threw => require /\ ~Registers(x, n, F))
<1>1. CASE x.mode = "full" BY <1>1 DEF Service!startFallbackMode, Kept
<1>2. CASE x.mode # "full"
  <2>1. PICK r : r = (IF x.mode = "fallback" THEN x ELSE Service!registerToggle(x, require, n, F)) OBVIOUS
  <2>2. /\ Agrees(r) /\ Kept(x, r) /\ r.mode = x.mode /\ r.monitorStarted = x.monitorStarted
        /\ (r.threw => require /\ ~Registers(x, n, F))
    BY <2>1, RegistersToggle DEF Kept
  <2>3. PICK watches \in BOOLEAN : watches = Service!Watches(x, n, F)
    <3>1. Service!Watches(x, n, F) \in BOOLEAN BY DEF Service!Watches
    <3> QED BY <3>1
  <2>4. CASE r.threw
    <3>1. Service!startFallbackMode(x, require, n, F) = r BY <1>2, <2>1, <2>4 DEF Service!startFallbackMode
    <3> QED BY <2>2, <3>1
  <2>5. CASE ~r.threw
    <3>s. r \in Service!Services /\ x \in Service!Services BY <2>2 DEF Agrees
    <3>1. PICK m \in BOOLEAN : m = (r.monitorStarted \/ watches) OBVIOUS
    <3>2. PICK w : w = IF watches THEN x.hold ELSE r.watched OBVIOUS
    <3>3. PICK y : y = [r EXCEPT !.mode = "fallback", !.monitorStarted = m, !.watched = w] OBVIOUS
    <3>4. Service!startFallbackMode(x, require, n, F) = y BY <1>2, <2>1, <2>3, <2>5, <3>1, <3>2, <3>3 DEF Service!startFallbackMode
    <3>5. w \in Holds \union {"none"} BY <3>s, <3>2 DEF Service!Services, Service!NoHold
    <3>6. /\ y \in Service!Services /\ y.mode = "fallback" /\ y.monitorStarted = m /\ y.watched = w /\ y.hold = r.hold
          /\ y.toggle = r.toggle /\ y.captureActive = r.captureActive /\ y.listeners = r.listeners /\ y.hooked = r.hooked
          /\ y.owned = r.owned /\ y.registered = r.registered /\ y.threw = r.threw
      BY <3>s, <3>3, <3>5 DEF Service!Services, Service!NoHold
    <3>7. r.listeners = 0 /\ ~r.hooked BY <1>2, <2>2 DEF Agrees, HookAgrees
    <3>8. HookAgrees(y) BY <3>6, <3>7, <3>s DEF HookAgrees, Service!Services
    <3>9. HelperAgrees(y)
      <4>1. w = IF m THEN r.hold ELSE "none" BY <2>2, <3>1, <3>2 DEF Agrees, HelperAgrees, Kept
      <4> QED BY <3>6, <4>1 DEF HelperAgrees
    <3>10. ToggleAgrees(y) BY <2>2, <3>6 DEF Agrees, ToggleAgrees
    <3>11. Kept(x, y) BY <2>2, <3>6 DEF Kept
    <3> QED BY <2>5, <3>4, <3>6, <3>8, <3>9, <3>10, <3>11 DEF Agrees
  <2> QED BY <2>4, <2>5
<1> QED BY <1>1, <1>2

LEMMA StartsFull ==
  ASSUME NEW x, Agrees(x), ~x.threw, NEW require \in BOOLEAN, NEW n, NEW F, Stops(F)
  PROVE  LET y == Service!startFull(x, require, n, F) IN
         Agrees(y) /\ Kept(x, y) /\ (y.threw => ~Registers(x, n, F) \/ <<"hookStart", n>> \in F)
<1>s. x \in Service!Services BY DEF Agrees
<1>1. CASE x.mode = "full" BY <1>1 DEF Service!startFull, Kept
<1>2. CASE x.mode # "full"
  <2>1. PICK c : c = IF x.mode = "fallback" THEN Service!stopForReconfigure(x, TRUE, n, F) ELSE Service!stopFallbackMonitor(x) OBVIOUS
  <2>2. /\ Agrees(c) /\ ~c.threw /\ Kept(x, c) /\ c.mode = "stopped" /\ ~c.monitorStarted
        /\ (Registers(x, n, F) => Registers(c, n, F))
    <3>1. CASE x.mode = "fallback"
      <4>1. TRUE \in BOOLEAN OBVIOUS
      <4>2. Stopped(x, TRUE, c) BY <2>1, <3>1, <4>1, StopsForReconfigure
      <4>3. Agrees(c) BY <4>2, StillAgrees DEF Stopped
      <4> QED BY <4>2, <4>3 DEF Stopped, Still, Kept, Registers
    <3>2. CASE x.mode # "fallback"
      <4>1. /\ c \in Service!Services /\ ~c.monitorStarted /\ c.watched = "none" /\ c.mode = x.mode /\ c.hold = x.hold
            /\ c.toggle = x.toggle /\ c.registered = x.registered /\ c.failure = x.failure /\ c.threw = x.threw
            /\ c.hooked = x.hooked /\ c.listeners = x.listeners /\ c.owned = x.owned /\ c.captureActive = x.captureActive
        BY <1>s, <2>1, <3>2, NoHelper
      <4>2. x.mode = "stopped" BY <1>s, <1>2, <3>2 DEF Service!Services
      <4>3. x.listeners = 0 /\ ~x.hooked BY <4>2 DEF Agrees, HookAgrees
      <4>4. Still(c) BY <4>1, <4>2, <4>3 DEF Still
      <4>5. ToggleAgrees(c) BY <4>1 DEF Agrees, ToggleAgrees
      <4>6. Agrees(c) BY <4>1, <4>4, <4>5, StillAgrees
      <4> QED BY <4>1, <4>2, <4>6 DEF Kept, Registers
    <3> QED BY <3>1, <3>2
  <2>3. PICK r : r = Service!registerToggle(c, require, n, F) OBVIOUS
  <2>4. /\ Agrees(r) /\ Kept(c, r) /\ r.mode = "stopped" /\ ~r.monitorStarted
        /\ (r.threw => require /\ ~Registers(c, n, F))
    BY <2>2, <2>3, RegistersToggle
  <2>5. Kept(x, r) BY <2>2, <2>4 DEF Kept
  <2>6. Service!startFull(x, require, n, F) =
          IF r.threw THEN r
          ELSE IF <<"hookStart", n>> \in F THEN Service!Throw(r)
          ELSE [r EXCEPT !.mode = "full", !.listeners = @ + 1, !.hooked = TRUE]
    BY <1>2, <2>1, <2>2, <2>3 DEF Service!startFull
  <2>7. CASE r.threw BY <2>2, <2>4, <2>5, <2>6, <2>7
  <2>8. CASE ~r.threw /\ <<"hookStart", n>> \in F
    <3>1. Service!startFull(x, require, n, F) = Service!Throw(r) BY <2>6, <2>8
    <3>2. Agrees(Service!Throw(r)) /\ Kept(r, Service!Throw(r)) BY <2>4, Throws
    <3>3. Kept(x, Service!Throw(r)) BY <2>5, <3>2 DEF Kept
    <3> QED BY <2>8, <3>1, <3>2, <3>3
  <2>9. CASE ~r.threw /\ <<"hookStart", n>> \notin F
    <3>s. r \in Service!Services BY <2>4 DEF Agrees
    <3>1. PICK t \in BOOLEAN : t = TRUE OBVIOUS
    <3>2. r.listeners = 0 /\ r.watched = "none" BY <2>4 DEF Agrees, HookAgrees, HelperAgrees
    <3>3. PICK y : y = [r EXCEPT !.mode = "full", !.listeners = 1, !.hooked = t] OBVIOUS
    <3>4. Service!startFull(x, require, n, F) = y BY <2>6, <2>9, <3>1, <3>2, <3>3
    <3>5. /\ y \in Service!Services /\ y.mode = "full" /\ y.monitorStarted = r.monitorStarted /\ y.watched = r.watched /\ y.hold = r.hold
          /\ y.toggle = r.toggle /\ y.captureActive = r.captureActive /\ y.listeners = 1 /\ y.hooked = t
          /\ y.owned = r.owned /\ y.registered = r.registered /\ y.threw = r.threw
      BY <3>s, <3>3 DEF Service!Services
    <3>6. HookAgrees(y) BY <3>1, <3>5 DEF HookAgrees
    <3>7. HelperAgrees(y) BY <2>4, <3>2, <3>5 DEF HelperAgrees
    <3>8. ToggleAgrees(y) BY <2>4, <3>5 DEF Agrees, ToggleAgrees
    <3>9. Kept(x, y) BY <2>5, <3>5 DEF Kept
    <3> QED BY <2>9, <3>4, <3>5, <3>6, <3>7, <3>8, <3>9 DEF Agrees
  <2> QED BY <2>7, <2>8, <2>9
<1> QED BY <1>1, <1>2

LEMMA StartsMode ==
  ASSUME NEW x, Agrees(x), ~x.threw, NEW mode, NEW n, NEW F, Stops(F)
  PROVE  LET y == Service!startMode(x, mode, n, F) IN
         Agrees(y) /\ Kept(x, y) /\ (y.threw => ~Registers(x, n, F) \/ <<"hookStart", n>> \in F)
<1>1. TRUE \in BOOLEAN OBVIOUS
<1>2. CASE x.hold \in Native \/ mode = "fallback"
  <2>1. Service!startMode(x, mode, n, F) = Service!startFallbackMode(x, TRUE, n, F) BY <1>2 DEF Service!startMode
  <2> QED BY <1>1, <2>1, StartsFallback
<1>3. CASE ~(x.hold \in Native \/ mode = "fallback") /\ mode = "full"
  <2>1. Service!startMode(x, mode, n, F) = Service!startFull(x, TRUE, n, F) BY <1>3 DEF Service!startMode
  <2> QED BY <1>1, <2>1, StartsFull
<1>4. CASE ~(x.hold \in Native \/ mode = "fallback") /\ mode # "full"
  <2>1. Service!startMode(x, mode, n, F) = x BY <1>4 DEF Service!startMode
  <2> QED BY <2>1 DEF Kept
<1> QED BY <1>2, <1>3, <1>4


-----------------------------------------------------------------------------
(* The operations of the service.                                          *)

LEMMA StopsAndAgrees ==
  ASSUME NEW x, Agrees(x), ~x.threw, NEW preserve \in BOOLEAN, NEW n, NEW F, Stops(F)
  PROVE  LET y == Service!stopForReconfigure(x, preserve, n, F) IN
         Agrees(y) /\ Kept(x, y) /\ ~y.threw
<1>1. PICK y : y = Service!stopForReconfigure(x, preserve, n, F) OBVIOUS
<1>2. Stopped(x, preserve, y) BY <1>1, StopsForReconfigure
<1>3. Agrees(y) /\ ~y.threw BY <1>2, StillAgrees DEF Stopped
<1>4. Kept(x, y) BY <1>2 DEF Stopped, Kept
<1> QED BY <1>1, <1>3, <1>4

LEMMA Sounds ==
  ASSUME NEW x, Agrees(x) PROVE LET y == Service!Sound(x) IN Agrees(y) /\ Kept(x, y) /\ y.threw = x.threw
<1>1. PICK b \in BOOLEAN : b = FALSE OBVIOUS
<1>2. PICK y : y = [x EXCEPT !.degraded = b] OBVIOUS
<1>3. Agrees(y) /\ Kept(x, y) /\ y.threw = x.threw BY <1>2, DegradedIsMarked
<1>4. Service!Sound(x) = IF x.threw THEN x ELSE y BY <1>1, <1>2 DEF Service!Sound
<1>5. Kept(x, x) BY DEF Kept
<1> QED BY <1>3, <1>4, <1>5

\* What is done does not say how it went.
LEMMA Dones ==
  ASSUME NEW x, Agrees(x) PROVE LET y == [x EXCEPT !.threw = FALSE] IN Agrees(y) /\ Kept(x, y) /\ ~y.threw
<1>1. PICK b \in BOOLEAN : b = FALSE OBVIOUS
<1>2. PICK y : y = [x EXCEPT !.threw = b] OBVIOUS
<1>3. Agrees(y) /\ Kept(x, y) /\ y.threw = b BY <1>2, ThrewIsMarked
<1>4. [x EXCEPT !.threw = FALSE] = y BY <1>1, <1>2
<1> QED BY <1>1, <1>3, <1>4

LEMMA FallbackStarts ==
  ASSUME NEW x, Agrees(x), ~x.threw, NEW n, NEW F, Stops(F)
  PROVE  LET y == Service!startFallback(x, n, F) IN Agrees(y) /\ Kept(x, y)
<1>b. TRUE \in BOOLEAN /\ FALSE \in BOOLEAN OBVIOUS
<1>1. PICK y : y = Service!GivesUpHook(x, n, F) OBVIOUS
<1>2. Agrees(y) /\ Kept(x, y) /\ ~y.threw
  <2>1. CASE x.mode = "full"
    <3>1. y = Service!stopForReconfigure(x, TRUE, n, F) BY <1>1, <2>1 DEF Service!GivesUpHook
    <3> QED BY <1>b, <3>1, StopsAndAgrees
  <2>2. CASE x.mode # "full"
    <3>1. y = x BY <1>1, <2>2 DEF Service!GivesUpHook
    <3> QED BY <3>1 DEF Kept
  <2> QED BY <2>1, <2>2
<1>3. PICK z : z = Service!startFallbackMode(y, FALSE, n, F) OBVIOUS
<1>4. Agrees(z) /\ Kept(y, z) BY <1>b, <1>2, <1>3, StartsFallback
<1>5. PICK w : w = Service!Sound(z) OBVIOUS
<1>6. Agrees(w) /\ Kept(z, w) BY <1>4, <1>5, Sounds
<1>7. Service!startFallback(x, n, F) = w BY <1>1, <1>2, <1>3, <1>5 DEF Service!startFallback
<1>8. Kept(x, w) BY <1>2, <1>4, <1>6 DEF Kept
<1> QED BY <1>6, <1>7, <1>8

LEMMA ServiceStarts ==
  ASSUME NEW x, Agrees(x), ~x.threw, NEW n, NEW F, Stops(F)
  PROVE  LET y == Service!start(x, n, F) IN Agrees(y) /\ Kept(x, y)
<1>1. CASE x.hold \in Native
  <2>1. Service!start(x, n, F) = Service!startFallback(x, n, F) BY <1>1 DEF Service!start
  <2> QED BY <2>1, FallbackStarts
<1>2. CASE x.hold \notin Native
  <2>b. FALSE \in BOOLEAN OBVIOUS
  <2>1. PICK z : z = Service!startFull(x, FALSE, n, F) OBVIOUS
  <2>2. Agrees(z) /\ Kept(x, z) BY <2>b, <2>1, StartsFull
  <2>3. PICK w : w = Service!Sound(z) OBVIOUS
  <2>4. Agrees(w) /\ Kept(z, w) BY <2>2, <2>3, Sounds
  <2>5. Service!start(x, n, F) = w BY <1>2, <2>1, <2>3 DEF Service!start
  <2>6. Kept(x, w) BY <2>2, <2>4 DEF Kept
  <2> QED BY <2>4, <2>5, <2>6
<1> QED BY <1>1, <1>2

LEMMA Reconciles ==
  ASSUME NEW x, Agrees(x), ~x.threw, NEW F, Stops(F)
  PROVE  LET y == Service!Reconciled(x, F) IN Agrees(y) /\ Kept(x, y)
<1>1. CASE ~granted
  <2>1. Service!Reconciled(x, F) = Service!startFallback(x, 1, F) BY <1>1 DEF Service!Reconciled
  <2> QED BY <2>1, FallbackStarts
<1>2. CASE granted
  <2>1. PICK y : y = Service!start(x, 1, F) OBVIOUS
  <2>2. Agrees(y) /\ Kept(x, y) BY <2>1, ServiceStarts
  <2>3. PICK z : z = [y EXCEPT !.threw = FALSE] OBVIOUS
  <2>4. Agrees(z) /\ Kept(y, z) /\ ~z.threw BY <2>2, <2>3, Dones
  <2>5. PICK w : w = Service!startFallback(z, 2, F) OBVIOUS
  <2>6. Agrees(w) /\ Kept(z, w) BY <2>4, <2>5, FallbackStarts
  <2>7. Service!Reconciled(x, F) = IF y.threw THEN w ELSE y BY <1>2, <2>1, <2>3, <2>5 DEF Service!Reconciled
  <2>8. Kept(x, w) BY <2>2, <2>4, <2>6 DEF Kept
  <2> QED BY <2>2, <2>6, <2>7, <2>8
<1> QED BY <1>1, <1>2

\* A service that was stopped is given other shortcuts, and keeps only an accelerator that is one of them.
Retarget(d, h, t) == [d EXCEPT !.hold = h, !.toggle = t]
Keeps(preserve, x, t) == preserve => x.toggle = t
Retargeted(d, h, t, y) ==
  /\ Agrees(y) /\ ~y.threw /\ y.hold = h /\ y.toggle = t /\ ~y.captureActive
  /\ y.registered = d.registered /\ y.failure = d.failure

LEMMA Retargets ==
  ASSUME NEW x, NEW preserve \in BOOLEAN, NEW d, Stopped(x, preserve, d), NEW h \in Holds, NEW t \in Toggles,
         Keeps(preserve, x, t)
  PROVE  Retargeted(d, h, t, Retarget(d, h, t))
<1>1. PICK y : y = Retarget(d, h, t) OBVIOUS
<1>2. d \in Service!Services BY DEF Stopped
<1>3. /\ y \in Service!Services /\ y.mode = d.mode /\ y.monitorStarted = d.monitorStarted /\ y.hold = h /\ y.toggle = t
      /\ y.captureActive = d.captureActive /\ y.listeners = d.listeners /\ y.hooked = d.hooked /\ y.watched = d.watched
      /\ y.owned = d.owned /\ y.registered = d.registered /\ y.failure = d.failure /\ y.threw = d.threw
  BY <1>1, <1>2 DEF Service!Services, Retarget
<1>4. Still(y) BY <1>3 DEF Still, Stopped
<1>5. ToggleAgrees(y)
  <2>1. d.registered = (preserve /\ x.registered) /\ d.toggle = x.toggle /\ ToggleAgrees(d) BY DEF Stopped
  <2>2. CASE d.registered BY <1>3, <2>1, <2>2 DEF ToggleAgrees, Keeps
  <2>3. CASE ~d.registered BY <1>3, <2>1, <2>3 DEF ToggleAgrees
  <2> QED BY <2>2, <2>3
<1>6. Agrees(y) /\ ~y.threw BY <1>3, <1>4, <1>5, StillAgrees
<1>7. ~y.captureActive BY <1>3 DEF Stopped
<1> QED BY <1>1, <1>3, <1>6, <1>7 DEF Retargeted

\* The shortcuts before are back, and the user is told.
Restored(before, y) == Agrees(y) /\ y.threw /\ y.hold = before.hold /\ y.toggle = before.toggle /\ ~y.captureActive

LEMMA Restores ==
  ASSUME NEW x, Agrees(x), NEW before, Agrees(before), NEW preserve \in BOOLEAN,
         Keeps(preserve, x, before.toggle), NEW n, NEW F, Stops(F)
  PROVE  Restored(before, Service!Restore(x, before, preserve, n, F))
<1>1. PICK a : a = [x EXCEPT !.threw = FALSE] OBVIOUS
<1>2. Agrees(a) /\ Kept(x, a) /\ ~a.threw BY <1>1, Dones
<1>3. PICK d : d = Service!stopForReconfigure(a, preserve, n, F) OBVIOUS
<1>4. Stopped(a, preserve, d) BY <1>2, <1>3, StopsForReconfigure
<1>5. PICK h \in Holds, t \in Toggles : h = before.hold /\ t = before.toggle BY DEF Agrees, Service!Services
<1>6. PICK lowered : lowered = Retarget(d, h, t) OBVIOUS
<1>7. Keeps(preserve, a, t) BY <1>2, <1>5 DEF Kept, Keeps
<1>8. Retargeted(d, h, t, lowered) BY <1>4, <1>6, <1>7, Retargets
<1>s. Agrees(lowered) /\ ~lowered.threw BY <1>8 DEF Retargeted
<1>9. PICK up : up = Service!startMode(lowered, before.mode, n, F) OBVIOUS
<1>10. Agrees(up) /\ Kept(lowered, up) BY <1>s, <1>9, StartsMode
<1>11. PICK b \in BOOLEAN : b = up.threw BY <1>10 DEF Agrees, Service!Services
<1>12. PICK u : u = [up EXCEPT !.degraded = b] OBVIOUS
<1>13. Agrees(u) /\ Kept(up, u) BY <1>10, <1>12, DegradedIsMarked
<1>14. PICK y : y = Service!Throw(u) OBVIOUS
<1>15. Agrees(y) /\ Kept(u, y) /\ y.threw BY <1>13, <1>14, Throws
<1>16. Service!Restore(x, before, preserve, n, F) = y
  BY <1>1, <1>3, <1>5, <1>6, <1>s, <1>9, <1>11, <1>12, <1>14 DEF Service!Restore, Retarget
<1>17. y.hold = before.hold /\ y.toggle = before.toggle /\ ~y.captureActive
  BY <1>5, <1>8, <1>10, <1>13, <1>15 DEF Retargeted, Kept
<1> QED BY <1>15, <1>16, <1>17 DEF Restored


-----------------------------------------------------------------------------
(* reconfigure(): the new shortcuts, or the ones before.                   *)

\* Nothing that starts fails.
Starts(F) == \A n : <<"register", n>> \notin F /\ <<"probe", n>> \notin F /\ <<"hookStart", n>> \notin F

LEMMA WhatStartsStarts ==
  ASSUME MayFail \intersect {"register", "probe", "hookStart"} = {}, NEW F \in Service!Failures PROVE Starts(F)
<1>1. SUFFICES ASSUME NEW n PROVE <<"register", n>> \notin F /\ <<"probe", n>> \notin F /\ <<"hookStart", n>> \notin F
  BY DEF Starts
<1> QED BY FailingCalls

\* What reconfigure() makes of x.
Changed(x, h, t, F, y) ==
  /\ Agrees(y) /\ (y.threw => Kept(x, y))
  /\ (~y.threw => y.hold = h /\ y.toggle = t /\ <<h, t>> \notin Clashes /\ ~x.captureActive /\ ~y.captureActive)
  /\ (Starts(F) /\ ~x.captureActive /\ <<h, t>> \notin Clashes => ~y.threw)

LEMMA RetriesRegistration ==
  ASSUME NEW x, Agrees(x), ~x.threw, NEW n, NEW F,
         NEW y, y = (IF x.registered \/ ~x.failure THEN x ELSE Service!registerToggle([x EXCEPT !.failure = FALSE], TRUE, n, F))
  PROVE  Agrees(y) /\ Kept(x, y) /\ (Starts(F) => ~y.threw)
<1>1. CASE x.registered \/ ~x.failure BY <1>1 DEF Kept
<1>2. CASE ~(x.registered \/ ~x.failure)
  <2>1. PICK b \in BOOLEAN : b = FALSE OBVIOUS
  <2>2. PICK z : z = [x EXCEPT !.failure = b] OBVIOUS
  <2>3. Agrees(z) /\ Kept(x, z) /\ z.threw = x.threw /\ z.failure = b /\ z.registered = x.registered
    BY <2>2, FailureIsMarked
  <2>4. y = Service!registerToggle(z, TRUE, n, F) BY <1>2, <2>1, <2>2
  <2>5. TRUE \in BOOLEAN OBVIOUS
  <2>n. ~z.threw BY <2>3
  <2>6. Agrees(y) /\ Kept(z, y) /\ (y.threw => ~Registers(z, n, F))
    <3>1. PICK w : w = Service!registerToggle(z, TRUE, n, F) OBVIOUS
    <3>2. Agrees(w) /\ Kept(z, w) /\ (w.threw => ~Registers(z, n, F)) BY <2>3, <2>n, <2>5, <3>1, RegistersToggle
    <3> QED BY <2>4, <3>1, <3>2
  <2>7. Starts(F) => Registers(z, n, F) BY <2>1, <2>3 DEF Starts, Registers
  <2> QED BY <2>3, <2>6, <2>7 DEF Kept
<1> QED BY <1>1, <1>2

LEMMA Probes ==
  ASSUME NEW x, Agrees(x), ~x.threw, NEW t, NEW n, NEW F, NEW y, y = Service!assertToggleCanRegister(x, t, n, F)
  PROVE  Agrees(y) /\ Kept(x, y) /\ (Starts(F) => ~y.threw)
<1>1. CASE Service!Owns(x, t) \/ (t \notin x.owned /\ <<"probe", n>> \notin F)
  <2>1. y = x BY <1>1 DEF Service!assertToggleCanRegister
  <2> QED BY <2>1 DEF Kept
<1>2. CASE ~(Service!Owns(x, t) \/ (t \notin x.owned /\ <<"probe", n>> \notin F))
  <2>1. y = Service!Throw(x) BY <1>2 DEF Service!assertToggleCanRegister
  <2>2. Agrees(y) /\ Kept(x, y) BY <2>1, Throws
  <2>3. t \notin x.owned BY <1>2 DEF Agrees, ToggleAgrees, Service!Owns
  <2>4. <<"probe", n>> \in F BY <1>2, <2>3
  <2> QED BY <2>2, <2>4 DEF Starts
<1> QED BY <1>1, <1>2

\* What starting the new shortcuts makes of x.
Tried(x, h, t, F, y) ==
  /\ Agrees(y) /\ (y.threw => Kept(x, y)) /\ (Starts(F) => ~y.threw)
  /\ (~y.threw => y.hold = h /\ y.toggle = t /\ ~y.captureActive)

LEMMA StopsAndStarts ==
  ASSUME NEW x, Agrees(x), ~x.threw, NEW h \in Holds, NEW t \in Toggles, NEW n, NEW m, NEW F, Stops(F),
         NEW preserve \in BOOLEAN, preserve = Service!Owns(x, t),
         NEW d, Stopped(x, preserve, d),
         NEW up, up = Service!startMode(Retarget(d, h, t), x.mode, n, F)
  PROVE  Tried(x, h, t, F, IF up.threw THEN Service!Restore(up, x, preserve, m, F) ELSE [up EXCEPT !.degraded = FALSE])
<1>3. Keeps(preserve, x, t) BY DEF Keeps, Service!Owns
<1>4. PICK lowered : lowered = Retarget(d, h, t) OBVIOUS
<1>5. Retargeted(d, h, t, lowered) BY <1>3, <1>4, Retargets
<1>s. Agrees(lowered) /\ ~lowered.threw BY <1>5 DEF Retargeted
<1>6. Starts(F) => Registers(lowered, n, F)
  <2>1. preserve => x.registered BY DEF Service!Owns
  <2>2. d.failure => d.registered BY <2>1 DEF Stopped
  <2> QED BY <1>5, <2>2 DEF Starts, Registers, Retargeted
<1>7. up = Service!startMode(lowered, x.mode, n, F) BY <1>4
<1>8. Agrees(up) /\ Kept(lowered, up) /\ (up.threw => ~Registers(lowered, n, F) \/ <<"hookStart", n>> \in F)
  BY <1>s, <1>7, StartsMode
<1>9. Starts(F) => ~up.threw BY <1>6, <1>8 DEF Starts
<1>10. CASE up.threw
  <2>1. PICK y : y = Service!Restore(up, x, preserve, m, F) OBVIOUS
  <2>3. Keeps(preserve, up, x.toggle) BY <1>3, <1>5, <1>8 DEF Keeps, Kept, Retargeted
  <2>4. Restored(x, y) BY <1>8, <2>1, <2>3, Restores
  <2>5. Tried(x, h, t, F, y) BY <1>9, <1>10, <2>4 DEF Kept, Restored, Tried
  <2> QED BY <1>10, <2>1, <2>5
<1>11. CASE ~up.threw
  <2>1. PICK b \in BOOLEAN : b = FALSE OBVIOUS
  <2>2. PICK y : y = [up EXCEPT !.degraded = b] OBVIOUS
  <2>3. Agrees(y) /\ Kept(up, y) /\ y.threw = up.threw BY <1>8, <2>2, DegradedIsMarked
  <2>4. Tried(x, h, t, F, y) BY <1>5, <1>8, <1>11, <2>3 DEF Kept, Tried, Retargeted
  <2> QED BY <1>11, <2>1, <2>2, <2>4
<1> QED BY <1>10, <1>11

LEMMA Reconfigures ==
  ASSUME NEW x, Agrees(x), ~x.threw, NEW h \in Holds, NEW t \in Toggles, NEW n, NEW F, Stops(F)
  PROVE  Changed(x, h, t, F, Service!reconfigure(x, h, t, n, F))
<1>1. PICK y : y = Service!reconfigure(x, h, t, n, F) OBVIOUS
<1>2. CASE x.captureActive \/ <<h, t>> \in Clashes
  <2>1. y = Service!Throw(x) BY <1>1, <1>2 DEF Service!reconfigure
  <2>2. Agrees(y) /\ Kept(x, y) /\ y.threw BY <2>1, Throws
  <2> QED BY <1>1, <1>2, <2>2 DEF Changed
<1>3. CASE ~(x.captureActive \/ <<h, t>> \in Clashes) /\ h = x.hold /\ t = x.toggle
  <2>1. y = (IF x.registered \/ ~x.failure THEN x ELSE Service!registerToggle([x EXCEPT !.failure = FALSE], TRUE, n, F))
    BY <1>1, <1>3 DEF Service!reconfigure
  <2>2. Agrees(y) /\ Kept(x, y) /\ (Starts(F) => ~y.threw) BY <2>1, RetriesRegistration
  <2> QED BY <1>1, <1>3, <2>2 DEF Changed, Kept
<1>4. CASE ~(x.captureActive \/ <<h, t>> \in Clashes) /\ ~(h = x.hold /\ t = x.toggle)
  <2>1. PICK p : p = Service!assertToggleCanRegister(x, t, n, F) OBVIOUS
  <2>2. Agrees(p) /\ Kept(x, p) /\ (Starts(F) => ~p.threw) BY <2>1, Probes
  <2>3. PICK preserve \in BOOLEAN : preserve = Service!Owns(x, t)
    <3>1. Service!Owns(x, t) \in BOOLEAN BY DEF Service!Owns, Agrees, Service!Services
    <3> QED BY <3>1
  <2>4. PICK d : d = Service!stopForReconfigure(x, preserve, n, F) OBVIOUS
  <2>s. Stopped(x, preserve, d) BY <2>4, StopsForReconfigure
  <2>n. ~d.threw BY <2>s DEF Stopped, Still
  <2>5. PICK up : up = Service!startMode(Retarget(d, h, t), x.mode, n, F) OBVIOUS
  <2>6. PICK z : z = IF up.threw THEN Service!Restore(up, x, preserve, n + 1, F) ELSE [up EXCEPT !.degraded = FALSE] OBVIOUS
  <2>7. Tried(x, h, t, F, z)
    <3>1. PICK m : m = n + 1 OBVIOUS
    <3>2. z = IF up.threw THEN Service!Restore(up, x, preserve, m, F) ELSE [up EXCEPT !.degraded = FALSE] BY <2>6, <3>1
    <3> QED BY <2>3, <2>s, <2>5, <3>2, StopsAndStarts
  <2>8. y = IF p.threw THEN p ELSE z
    BY <1>1, <1>4, <2>1, <2>3, <2>4, <2>5, <2>6, <2>n DEF Service!reconfigure, Retarget
  <2>9. CASE p.threw BY <1>1, <2>2, <2>8, <2>9 DEF Changed
  <2>10. CASE ~p.threw BY <1>1, <1>4, <2>7, <2>8, <2>10 DEF Changed, Tried
  <2> QED BY <2>9, <2>10
<1> QED BY <1>2, <1>3, <1>4


-----------------------------------------------------------------------------
(* persistSettingsTransaction() and the actions.                           *)

LEMMA SameKeysAgree ==
  ASSUME NEW x, Agrees(x), NEW y \in Service!Services, SameKeys(x, y)
  PROVE  Agrees(y) /\ y.threw = x.threw /\ y.hold = x.hold /\ y.toggle = x.toggle
BY DEF Agrees, SameKeys, HookAgrees, HelperAgrees, ToggleAgrees

\* What activating the shortcuts of r makes of the service.
Activates(r, F, a) ==
  /\ Agrees(a)
  /\ RowIsSaved => IF a.threw THEN a.hold = row.hold /\ a.toggle = row.toggle
                   ELSE a.hold = r.hold /\ a.toggle = r.toggle /\ <<r.hold, r.toggle>> \notin Clashes
  /\ ~a.threw => IF Service!Shortcuts(r) = Service!Shortcuts(row) THEN a = service ELSE ~a.captureActive

LEMMA ShortcutsAreActivated ==
  ASSUME StopsWork, KeysInvariant, NEW F \in Service!Failures, NEW r \in Service!Rows
  PROVE  Activates(r, F, Service!Activated(r, F))
<1>1. Stops(F) BY WhatStopsStops
<1>2. r.hold \in Holds /\ r.toggle \in Toggles BY DEF Service!Rows
<1>3. Agrees(service) /\ ~service.threw BY DEF KeysInvariant, Service!TypeOK
<1>4. PICK a : a = Service!Activated(r, F) OBVIOUS
<1>5. CASE Service!Shortcuts(r) # Service!Shortcuts(row)
  <2>1. a = Service!reconfigure(service, r.hold, r.toggle, 1, F) BY <1>4, <1>5 DEF Service!Activated
  <2>2. Changed(service, r.hold, r.toggle, F, a) BY <1>1, <1>2, <1>3, <2>1, Reconfigures
  <2>3. Activates(r, F, a) BY <1>5, <2>2 DEF Changed, Activates, Kept, KeysInvariant
  <2> QED BY <1>4, <2>3
<1>6. CASE Service!Shortcuts(r) = Service!Shortcuts(row)
  <2>1. a = service BY <1>4, <1>6 DEF Service!Activated
  <2>2. r.hold = row.hold /\ r.toggle = row.toggle BY <1>6 DEF Service!Shortcuts
  <2>3. Activates(r, F, a) BY <1>3, <1>6, <2>1, <2>2 DEF Activates, KeysInvariant
  <2> QED BY <1>4, <2>3
<1> QED BY <1>5, <1>6

\* What the transaction makes of the service: the shortcuts of r, or those of the row.
Commits(r, c) ==
  /\ Agrees(c)
  /\ RowIsSaved => IF c.threw THEN c.hold = row.hold /\ c.toggle = row.toggle
                   ELSE c.hold = r.hold /\ c.toggle = r.toggle /\ <<r.hold, r.toggle>> \notin Clashes

LEMMA TransactionCommits ==
  ASSUME StopsWork, KeysInvariant, NEW F \in Service!Failures, NEW r \in Service!Rows
  PROVE  Commits(r, Service!Committed(r, F))
<1>1. Stops(F) BY WhatStopsStops
<1>2. row.hold \in Holds /\ row.toggle \in Toggles BY DEF KeysInvariant, Service!TypeOK, Service!Rows
<1>3. PICK a : a = Service!Activated(r, F) OBVIOUS
<1>4. Activates(r, F, a) BY <1>3, ShortcutsAreActivated
<1>5. CASE a.threw \/ <<"save", 1>> \notin F
  <2>1. Service!Committed(r, F) = a BY <1>3, <1>5 DEF Service!Committed
  <2>2. Commits(r, a) BY <1>4 DEF Activates, Commits
  <2> QED BY <2>1, <2>2
<1>6. CASE ~a.threw /\ <<"save", 1>> \in F
  <2>1. "save" \in MayFail BY <1>6, FailingCalls
  <2>2. RowIsSaved => Starts(F) BY <2>1, WhatStartsStarts DEF RowIsSaved
  <2>3. CASE Service!Shortcuts(r) # Service!Shortcuts(row)
    <3>1. PICK z : z = Service!reconfigure(a, row.hold, row.toggle, 3, F) OBVIOUS
    <3>2. Service!Committed(r, F) = Service!Throw(z) BY <1>3, <1>6, <2>3, <3>1 DEF Service!Committed, Service!TakenBack
    <3>3. Agrees(a) /\ ~a.captureActive BY <1>4, <1>6, <2>3 DEF Activates
    <3>4. Changed(a, row.hold, row.toggle, F, z) BY <1>1, <1>2, <1>6, <3>1, <3>3, Reconfigures
    <3>5. RowIsSaved => z.hold = row.hold /\ z.toggle = row.toggle BY <2>2, <3>3, <3>4 DEF Changed, KeysInvariant
    <3>6. PICK c : c = Service!Throw(z) OBVIOUS
    <3>7. Agrees(c) /\ Kept(z, c) /\ c.threw BY <3>4, <3>6, Throws DEF Changed
    <3>8. Commits(r, c) BY <3>5, <3>7 DEF Commits, Kept
    <3> QED BY <3>2, <3>6, <3>8
  <2>4. CASE Service!Shortcuts(r) = Service!Shortcuts(row)
    <3>1. a = service /\ Agrees(service) BY <1>4, <1>6, <2>4 DEF Activates
    <3>2. Service!Committed(r, F) = Service!Throw(service) BY <1>3, <1>6, <2>4, <3>1 DEF Service!Committed, Service!TakenBack
    <3>3. PICK c : c = Service!Throw(service) OBVIOUS
    <3>4. Agrees(c) /\ Kept(service, c) /\ c.threw BY <3>1, <3>3, Throws
    <3>5. Commits(r, c) BY <3>4 DEF Commits, Kept, KeysInvariant
    <3> QED BY <3>2, <3>3, <3>5
  <2> QED BY <2>3, <2>4
<1> QED BY <1>5, <1>6

\* Every action but Save leaves the row, the login item and the shortcuts alone.
Serves(y) == Agrees(y) /\ ~y.threw /\ y.hold = service.hold /\ y.toggle = service.toggle
LeavesRow == Serves(service') /\ UNCHANGED <<row, login, answer>> /\ granted' \in BOOLEAN /\ phase' \in {"starting", "running", "quit"}

LEMMA RowIsLeft == ASSUME KeysInvariant, LeavesRow PROVE KeysInvariant'
<1>1. row' = row /\ login' = login /\ answer' = answer BY DEF LeavesRow
<1>2. Agrees(service') /\ ~service'.threw /\ service'.hold = service.hold /\ service'.toggle = service.toggle BY DEF LeavesRow, Serves
<1>3. service' \in Service!Services BY <1>2 DEF Agrees
<1>4. Service!TypeOK' BY <1>1, <1>2, <1>3 DEF KeysInvariant, Service!TypeOK, LeavesRow
<1> QED BY <1>1, <1>2, <1>4 DEF KeysInvariant

\* A service that did something, done.
LEMMA Doing ==
  ASSUME KeysInvariant, NEW y, Agrees(y), Kept(service, y), Service!Done(y) PROVE Serves(service')
<1>1. PICK z : z = [y EXCEPT !.threw = FALSE] OBVIOUS
<1>2. Agrees(z) /\ Kept(y, z) /\ ~z.threw BY <1>1, Dones
<1>3. service' = z BY <1>1 DEF Service!Done
<1> QED BY <1>2, <1>3 DEF Serves, Kept

LEMMA Reconciling ==
  ASSUME StopsWork, KeysInvariant, NEW F \in Service!Failures, Service!Startup(F) \/ Service!Tick(F) PROVE LeavesRow
<1>1. Agrees(service) /\ ~service.threw /\ granted \in BOOLEAN BY DEF KeysInvariant, Service!TypeOK
<1>2. PICK y : y = Service!Reconciled(service, F) OBVIOUS
<1>3. Agrees(y) /\ Kept(service, y) BY <1>1, <1>2, Reconciles, WhatStopsStops
<1>4. Service!Done(y) BY <1>2 DEF Service!Startup, Service!Tick
<1>5. Serves(service') BY <1>3, <1>4, Doing
<1> QED BY <1>1, <1>5 DEF LeavesRow, Service!Startup, Service!Tick

LEMMA HelperDies == ASSUME KeysInvariant, Service!MonitorStops PROVE LeavesRow
<1>1. service \in Service!Services /\ Agrees(service) /\ ~service.threw /\ granted \in BOOLEAN /\ phase \in {"starting", "running", "quit"}
  BY DEF KeysInvariant, Service!TypeOK
<1>2. PICK y : y = Service!stopFallbackMonitor(service) OBVIOUS
<1>3. /\ y \in Service!Services /\ ~y.monitorStarted /\ y.watched = "none"
      /\ y.mode = service.mode /\ y.hold = service.hold /\ y.toggle = service.toggle /\ y.registered = service.registered /\ y.failure = service.failure
      /\ y.degraded = service.degraded /\ y.threw = service.threw /\ y.hooked = service.hooked /\ y.listeners = service.listeners
      /\ y.owned = service.owned /\ y.captureActive = service.captureActive
  BY <1>1, <1>2, NoHelper
<1>4. Agrees(y) BY <1>1, <1>3 DEF Agrees, HookAgrees, HelperAgrees, ToggleAgrees
<1>5. service' = y BY <1>2 DEF Service!MonitorStops
<1>6. Serves(service') BY <1>1, <1>3, <1>4, <1>5 DEF Serves
<1> QED BY <1>1, <1>6 DEF LeavesRow, Service!MonitorStops

LEMMA CaptureBegins == ASSUME KeysInvariant, NEW F, Service!BeginCapture(F) PROVE LeavesRow
<1>1. service \in Service!Services /\ Agrees(service) /\ ~service.threw /\ granted \in BOOLEAN /\ phase \in {"starting", "running", "quit"}
  BY DEF KeysInvariant, Service!TypeOK
<1>2. PICK t \in BOOLEAN, f \in BOOLEAN : t = TRUE /\ f = FALSE OBVIOUS
<1>3. PICK x : x = [service EXCEPT !.captureActive = t, !.captureSuspended = t] OBVIOUS
<1>4. x \in Service!Services /\ SameKeys(service, x) BY <1>1, <1>3 DEF Service!Services, SameKeys
<1>5. PICK a : a = [x EXCEPT !.suspended = t, !.captureTimer = t] OBVIOUS
<1>6. a \in Service!Services /\ SameKeys(x, a) BY <1>4, <1>5 DEF Service!Services, SameKeys
<1>7. PICK b : b = Service!Resume(x, 2, F) OBVIOUS
<1>8. b \in Service!Services /\ SameKeys(x, b) BY <1>4, <1>7, ResumeIs
<1>9. PICK c : c = [b EXCEPT !.captureActive = f] OBVIOUS
<1>10. c \in Service!Services /\ SameKeys(b, c) BY <1>8, <1>9 DEF Service!Services, SameKeys
<1>11. Service!Done(IF <<"suspend", 1>> \in F THEN c ELSE a)
  BY <1>2, <1>3, <1>5, <1>7, <1>9 DEF Service!BeginCapture, Service!CaptureGivesUp
<1>12. PICK y : y = IF <<"suspend", 1>> \in F THEN c ELSE a OBVIOUS
<1>13. y \in Service!Services /\ SameKeys(service, y) BY <1>4, <1>6, <1>8, <1>10, <1>12 DEF SameKeys
<1>14. PICK z : z = [y EXCEPT !.threw = FALSE] OBVIOUS
<1>15. Agrees(y) /\ y.hold = service.hold /\ y.toggle = service.toggle BY <1>1, <1>13, SameKeysAgree
<1>16. Agrees(z) /\ Kept(y, z) /\ ~z.threw BY <1>14, <1>15, Dones
<1>17. service' = z BY <1>11, <1>12, <1>14 DEF Service!Done
<1>18. Serves(service') BY <1>15, <1>16, <1>17 DEF Serves, Kept
<1> QED BY <1>1, <1>18 DEF LeavesRow, Service!BeginCapture

LEMMA CaptureEnds == ASSUME KeysInvariant, NEW F, Service!EndCapture(F) PROVE LeavesRow
<1>1. service \in Service!Services /\ Agrees(service) /\ ~service.threw /\ granted \in BOOLEAN /\ phase \in {"starting", "running", "quit"}
  BY DEF KeysInvariant, Service!TypeOK
<1>2. PICK y : y = Service!endCapture(service, 1, F) OBVIOUS
<1>3. y \in Service!Services /\ SameKeys(service, y) /\ ~y.captureActive BY <1>1, <1>2, CaptureIsEnded
<1>4. Agrees(y) /\ y.hold = service.hold /\ y.toggle = service.toggle BY <1>1, <1>3, SameKeysAgree
<1>5. Kept(service, y) BY <1>3, <1>4 DEF Kept
<1>6. Service!Done(y) BY <1>2 DEF Service!EndCapture
<1>7. Serves(service') BY <1>4, <1>5, <1>6, Doing
<1> QED BY <1>1, <1>7 DEF LeavesRow, Service!EndCapture

LEMMA ServiceQuits == ASSUME StopsWork, KeysInvariant, NEW F \in Service!Failures, Service!Quit(F) PROVE LeavesRow
<1>1. Agrees(service) /\ ~service.threw /\ granted \in BOOLEAN BY DEF KeysInvariant, Service!TypeOK
<1>2. PICK y : y = Service!stopForReconfigure(service, FALSE, 1, F) OBVIOUS
<1>3. FALSE \in BOOLEAN OBVIOUS
<1>4. Agrees(y) /\ Kept(service, y) BY <1>1, <1>2, <1>3, StopsAndAgrees, WhatStopsStops
<1>5. Service!Done(y) BY <1>2 DEF Service!Quit
<1>6. Serves(service') BY <1>4, <1>5, Doing
<1> QED BY <1>1, <1>6 DEF LeavesRow, Service!Quit

\* What Save does: the row and the shortcuts are those of r, or neither is touched.
Saves(r) ==
  /\ Agrees(service') /\ ~service'.threw /\ UNCHANGED <<granted, phase>>
  /\ \/ /\ row' = r /\ answer' = [to |-> r, result |-> "saved"]
        /\ login' = (IF r.launch # row.launch THEN r.launch ELSE login)
        /\ RowIsSaved => service'.hold = r.hold /\ service'.toggle = r.toggle /\ <<r.hold, r.toggle>> \notin Clashes
     \/ /\ row' = row /\ answer' = [to |-> r, result |-> "refused"]
        /\ login' \in {login, r.launch, row.launch}
        /\ "loginRestore" \notin MayFail => login' \in {login, row.launch}
        /\ RowIsSaved => service'.hold = row.hold /\ service'.toggle = row.toggle

LEMMA SettingsAreSaved ==
  ASSUME StopsWork, KeysInvariant, NEW F \in Service!Failures, NEW r \in Service!Rows, Service!Save(r, F)
  PROVE  Saves(r)
<1>1. PICK x : x = Service!Committed(r, F) OBVIOUS
<1>2. Commits(r, x) BY <1>1, TransactionCommits
<1>3. PICK y : y = [x EXCEPT !.threw = FALSE] OBVIOUS
<1>4. Agrees(y) /\ Kept(x, y) /\ ~y.threw BY <1>2, <1>3, Dones DEF Commits
<1>5. Agrees(service) /\ ~service.threw BY DEF KeysInvariant, Service!TypeOK
<1>6. PICK refused \in BOOLEAN : refused = (r.launch # row.launch /\ <<"login", 1>> \in F) OBVIOUS
<1>7. /\ service' = IF refused THEN service ELSE y
      /\ row' = IF ~refused /\ ~x.threw THEN r ELSE row
      /\ login' = IF r.launch = row.launch \/ refused THEN login
                  ELSE IF ~refused /\ ~x.threw THEN r.launch ELSE Service!LoginRestored(r, F)
      /\ answer' = [to |-> r, result |-> IF ~refused /\ ~x.threw THEN "saved" ELSE "refused"]
      /\ UNCHANGED <<granted, phase>>
  BY <1>1, <1>3, <1>6 DEF Service!Save, Service!Done
<1>8. Agrees(service') /\ ~service'.threw BY <1>4, <1>5, <1>7
<1>9. "loginRestore" \notin MayFail => Service!LoginRestored(r, F) = row.launch BY FailingCalls DEF Service!LoginRestored
<1>10. Service!LoginRestored(r, F) \in {r.launch, row.launch} BY DEF Service!LoginRestored
<1>11. CASE refused
  <2>1. row' = row /\ service' = service /\ answer' = [to |-> r, result |-> "refused"] /\ login' = login BY <1>7, <1>11
  <2> QED BY <1>7, <1>8, <2>1 DEF Saves, KeysInvariant
<1>12. CASE ~refused /\ x.threw
  <2>1. row' = row /\ service' = y /\ answer' = [to |-> r, result |-> "refused"] BY <1>7, <1>12
  <2>2. login' \in {login, r.launch, row.launch} /\ ("loginRestore" \notin MayFail => login' \in {login, row.launch})
    BY <1>7, <1>9, <1>10, <1>12
  <2>3. RowIsSaved => service'.hold = row.hold /\ service'.toggle = row.toggle BY <1>2, <1>4, <1>12, <2>1 DEF Commits, Kept
  <2> QED BY <1>7, <1>8, <2>1, <2>2, <2>3 DEF Saves
<1>13. CASE ~refused /\ ~x.threw
  <2>1. row' = r /\ service' = y /\ answer' = [to |-> r, result |-> "saved"] BY <1>7, <1>13
  <2>2. login' = (IF r.launch # row.launch THEN r.launch ELSE login) BY <1>7, <1>13
  <2>3. RowIsSaved => service'.hold = r.hold /\ service'.toggle = r.toggle /\ <<r.hold, r.toggle>> \notin Clashes
    BY <1>2, <1>4, <1>13, <2>1 DEF Commits, Kept
  <2> QED BY <1>7, <1>8, <2>1, <2>2, <2>3 DEF Saves
<1> QED BY <1>11, <1>12, <1>13

LEMMA SavingKeeps == ASSUME KeysInvariant, NEW r \in Service!Rows, Saves(r) PROVE KeysInvariant'
<1>1. service' \in Service!Services /\ ~service'.threw /\ granted' = granted /\ phase' = phase BY DEF Saves, Agrees
<1>2. r.launch \in BOOLEAN /\ row.launch \in BOOLEAN /\ login \in BOOLEAN BY DEF KeysInvariant, Service!TypeOK, Service!Rows
<1>3. row' \in Service!Rows /\ login' \in BOOLEAN BY <1>2 DEF Saves, KeysInvariant, Service!TypeOK
<1>4. answer' \in [to : Service!Rows, result : {"none", "saved", "refused"}] BY DEF Saves
<1>5. Service!TypeOK' BY <1>1, <1>3, <1>4 DEF KeysInvariant, Service!TypeOK
<1>6. "loginRestore" \notin MayFail => login' = row'.launch BY <1>2 DEF KeysInvariant, Saves
<1>7. RowIsSaved => service'.hold = row'.hold /\ service'.toggle = row'.toggle /\ <<row'.hold, row'.toggle>> \notin Clashes
  BY DEF KeysInvariant, Saves
<1> QED BY <1>5, <1>6, <1>7 DEF KeysInvariant, Saves


LEMMA KeysStart == ASSUME Service!HotkeyAssumption, Service!Init PROVE KeysInvariant
<1>1. row \in Service!Rows /\ <<row.hold, row.toggle>> \notin Clashes /\ ~row.launch BY DEF Service!Init
<1>2. row.hold \in Holds /\ row.toggle \in Toggles /\ row.launch \in BOOLEAN BY <1>1 DEF Service!Rows
<1>3. service = [mode |-> "stopped", hold |-> row.hold, toggle |-> row.toggle,
          registered |-> FALSE, failure |-> FALSE, degraded |-> FALSE,
          monitorStarted |-> FALSE, watched |-> "none",
          captureActive |-> FALSE, captureSuspended |-> FALSE, captureTimer |-> FALSE,
          threw |-> FALSE,
          hooked |-> FALSE, listeners |-> 0, owned |-> {}, suspended |-> FALSE]
  BY DEF Service!Init, Service!NoHold
<1>4. service \in Service!Services BY <1>2, <1>3 DEF Service!Services, Service!NoHold
<1>5. /\ service.mode = "stopped" /\ service.listeners = 0 /\ ~service.hooked /\ ~service.monitorStarted /\ service.watched = "none" /\ ~service.threw
      /\ service.owned = {} /\ ~service.registered /\ service.hold = row.hold /\ service.toggle = row.toggle
  BY <1>3
<1>6. Still(service) /\ ToggleAgrees(service) BY <1>5 DEF Still, ToggleAgrees
<1>7. Agrees(service) BY <1>4, <1>6, StillAgrees
<1>8. login = row.launch /\ granted \in BOOLEAN /\ phase = "starting" /\ answer = [to |-> row, result |-> "none"]
  BY DEF Service!Init
<1>9. answer \in [to : Service!Rows, result : {"none", "saved", "refused"}] BY <1>1, <1>8
<1>10. Service!TypeOK BY <1>1, <1>2, <1>4, <1>5, <1>8, <1>9 DEF Service!TypeOK
<1> QED BY <1>1, <1>5, <1>7, <1>8, <1>10 DEF KeysInvariant

\* Every step that is not a save leaves the row, and a save keeps the answer it gives.
LEMMA KeysSteps ==
  ASSUME StopsWork, KeysInvariant, Service!Next
  PROVE  LeavesRow \/ \E r \in Service!Rows : Saves(r)
<1>1. CASE \E F \in Service!Failures : Service!Startup(F) \/ Service!Tick(F) \/ Service!BeginCapture(F) \/ Service!EndCapture(F) \/ Service!Quit(F)
  <2>1. PICK F \in Service!Failures : Service!Startup(F) \/ Service!Tick(F) \/ Service!BeginCapture(F) \/ Service!EndCapture(F) \/ Service!Quit(F)
    BY <1>1
  <2> QED BY <2>1, Reconciling, CaptureBegins, CaptureEnds, ServiceQuits
<1>2. CASE \E F \in Service!Failures, r \in Service!Rows : Service!Save(r, F) BY <1>2, SettingsAreSaved
<1>3. CASE Service!Grant
  <2>1. Agrees(service) /\ ~service.threw /\ granted \in BOOLEAN /\ phase \in {"starting", "running", "quit"} BY DEF KeysInvariant, Service!TypeOK
  <2>2. service' = service /\ granted' \in BOOLEAN BY <1>3, <2>1 DEF Service!Grant
  <2>3. Serves(service') BY <2>1, <2>2 DEF Serves
  <2> QED BY <1>3, <2>1, <2>2, <2>3 DEF LeavesRow, Service!Grant
<1>4. CASE Service!MonitorStops BY <1>4, HelperDies
<1>5. CASE Service!Terminated
  <2>1. Agrees(service) /\ ~service.threw /\ granted \in BOOLEAN /\ phase \in {"starting", "running", "quit"} BY DEF KeysInvariant, Service!TypeOK
  <2>2. service' = service BY <1>5 DEF Service!Terminated, Service!vars
  <2>3. Serves(service') BY <2>1, <2>2 DEF Serves
  <2> QED BY <1>5, <2>1, <2>3 DEF LeavesRow, Service!Terminated, Service!vars
<1> QED BY <1>1, <1>2, <1>3, <1>4, <1>5 DEF Service!Next

LEMMA KeysAreKept == ASSUME StopsWork, KeysInvariant, [Service!Next]_(Service!vars) PROVE KeysInvariant'
<1>1. CASE Service!Next BY <1>1, KeysSteps, RowIsLeft, SavingKeeps
<1>2. CASE UNCHANGED Service!vars BY <1>2 DEF Service!vars, KeysInvariant, Service!TypeOK
<1> QED BY <1>1, <1>2

\* While what is stopped stops, whatever else fails, one reporter at most watches the hold
\* shortcut, and it is the one the service says; and the process holds one accelerator at most,
\* the toggle in use (HotkeyService.reconfigure, restore, start, startFallback, stopForReconfigure).
THEOREM ShortcutsStayTrue ==
  ASSUME Service!HotkeyAssumption, StopsWork PROVE Service!Spec => [](Service!TypeOK /\ Service!OneReporter /\ Service!ToggleOwned)
<1>1. Service!Init => KeysInvariant BY KeysStart
<1>2. KeysInvariant /\ [Service!Next]_(Service!vars) => KeysInvariant' BY KeysAreKept
<1>3. KeysInvariant => Service!TypeOK /\ Service!OneReporter /\ Service!ToggleOwned
  BY DEF KeysInvariant, Agrees, HookAgrees, HelperAgrees, ToggleAgrees, Service!OneReporter, Service!ToggleOwned, Service!NoHold
<1> QED BY <1>1, <1>2, <1>3, PTL DEF Service!Spec

\* "keeping shortcut activation and persistence all-or-nothing": the shortcuts that work are those
\* of the settings row, and never two on the same keys, if the row is always written or nothing
\* that starts fails (persistSettingsTransaction).
THEOREM SavedShortcutsWork ==
  ASSUME Service!HotkeyAssumption, StopsWork, RowIsSaved
  PROVE  Service!Spec => [](Service!AllOrNothing /\ Service!Shortcuts(service) = Service!Shortcuts(row) /\ Service!Shortcuts(row) \notin Clashes)
<1>1. Service!Init => KeysInvariant BY KeysStart
<1>2. KeysInvariant /\ [Service!Next]_(Service!vars) => KeysInvariant' BY KeysAreKept
<1>3. KeysInvariant => Service!AllOrNothing /\ Service!Shortcuts(service) = Service!Shortcuts(row) /\ Service!Shortcuts(row) \notin Clashes
  BY DEF KeysInvariant, Service!AllOrNothing, Service!Shortcuts
<1> QED BY <1>1, <1>2, <1>3, PTL DEF Service!Spec

\* A change of the settings that is refused leaves the row, the login item and the shortcuts
\* in use as they were, if the login item can be put back (persistSettingsTransaction).
THEOREM RefusalLeavesAll ==
  ASSUME Service!HotkeyAssumption, StopsWork, RowIsSaved, "loginRestore" \notin MayFail
  PROVE  Service!Spec => [][Service!RefusalChangesNothing]_(Service!vars)
<1>1. Service!Init => KeysInvariant BY KeysStart
<1>2. KeysInvariant /\ [Service!Next]_(Service!vars) => KeysInvariant' BY KeysAreKept
<1>3. KeysInvariant /\ [Service!Next]_(Service!vars) => [Service!RefusalChangesNothing]_(Service!vars)
  <2>1. SUFFICES ASSUME KeysInvariant, Service!Next PROVE Service!RefusalChangesNothing OBVIOUS
  <2>2. CASE LeavesRow BY <2>2 DEF LeavesRow, Service!RefusalChangesNothing
  <2>3. CASE \E r \in Service!Rows : Saves(r)
    <3>1. PICK r \in Service!Rows : Saves(r) BY <2>3
    <3>2. SUFFICES ASSUME answer'.result = "refused"
                   PROVE row' = row /\ login' = login /\ Service!Shortcuts(service)' = Service!Shortcuts(service)
      BY DEF Service!RefusalChangesNothing
    <3>3. answer' # [to |-> r, result |-> "saved"] BY <3>2
    <3>4. row' = row /\ login' \in {login, row.launch} /\ service'.hold = row.hold /\ service'.toggle = row.toggle
      BY <3>1, <3>3 DEF Saves
    <3> QED BY <2>1, <3>4 DEF KeysInvariant, Service!Shortcuts
  <2> QED BY <2>1, <2>2, <2>3, KeysSteps
<1> QED BY <1>1, <1>2, <1>3, PTL DEF Service!Spec


-----------------------------------------------------------------------------
(* ShortcutCapture *)

CONSTANTS Recorders, MaxAttempts, CaptureMayFail
VARIABLES captureId, capturing, validating, begin, ending, calls, answers, captureHeld, timedOut

Capture == INSTANCE ShortcutCapture WITH MayFail <- CaptureMayFail, captureActive <- captureHeld

Pairs == Recorders \X Capture!Attempts
Answers == [call : {"begin", "end", "accept"}, by : Recorders, attempt : Capture!Attempts, ok : BOOLEAN]
Endings == [then : {"no", "cancel", "finish"}, at : {"none", "awaitsBegin", "endSent", "acceptSent", "settled"}]

CaptureTypes ==
  /\ captureId \in [Recorders -> 0 .. MaxAttempts + 1]
  /\ capturing \in [Recorders -> BOOLEAN] /\ validating \in [Recorders -> BOOLEAN]
  /\ begin \in [Pairs -> {"none", "pending", "ok", "failed"}] /\ ending \in [Pairs -> Endings]
  /\ calls \in Seq(Capture!Calls) /\ answers \in Seq(Answers)
  /\ captureHeld \in BOOLEAN /\ timedOut \in BOOLEAN

\* The attempts of a recorder are begun, and answered, in their order.
After(m, n) == m.call = "begin" /\ n.call = "begin" /\ m.by = n.by => m.attempt < n.attempt
InOrder ==
  /\ \A i, j \in 1 .. Len(calls) : i < j => After(calls[i], calls[j])
  /\ \A i, j \in 1 .. Len(answers) : i < j => After(answers[i], answers[j])
  /\ \A i \in 1 .. Len(answers), j \in 1 .. Len(calls) : After(answers[i], calls[j])

\* A begin on its way is of an attempt that waits for it, and what follows is of one that was answered.
Told(b, m) == IF m.call = "begin" THEN b[<<m.by, m.attempt>>] = "pending" ELSE b[<<m.by, m.attempt>>] \in {"ok", "failed"}
AllTold(b, line) == \A i \in 1 .. Len(line) : Told(b, line[i])

Attempted(r, a) ==
  /\ a > captureId[r] => begin[<<r, a>>] = "none"
  /\ begin[<<r, a>>] = "failed" => captureId[r] # a
  /\ begin[<<r, a>>] = "pending" => (capturing[r] /\ captureId[r] = a) \/ ending[<<r, a>>].at = "awaitsBegin"
  /\ ending[<<r, a>>].at = "awaitsBegin" => begin[<<r, a>>] = "pending"
  /\ ending[<<r, a>>].at = "acceptSent" => begin[<<r, a>>] = "ok"
Recording(r) == capturing[r] => captureId[r] \in Capture!Attempts /\ begin[<<r, captureId[r]>>] \in {"pending", "ok"}

\* The capture of the main process is of an attempt that will end it.
Began(r, a) == begin[<<r, a>>] = "ok" \/ \E i \in 1 .. Len(answers) : answers[i] = [call |-> "begin", by |-> r, attempt |-> a, ok |-> TRUE]
EndIsCalled(r, a) == \E i \in 1 .. Len(calls) : calls[i] = Capture!Call("end", r, a)
Owns(r, a) == Began(r, a) /\ ((capturing[r] /\ captureId[r] = a) \/ ending[<<r, a>>].at = "awaitsBegin" \/ EndIsCalled(r, a))
CaptureIsOwned == captureHeld => \E r \in Recorders, a \in Capture!Attempts : Owns(r, a)

CaptureInvariant ==
  /\ CaptureTypes /\ InOrder /\ AllTold(begin, calls) /\ AllTold(begin, answers)
  /\ (\A r \in Recorders : Recording(r)) /\ (\A r \in Recorders, a \in Capture!Attempts : Attempted(r, a))
  /\ CaptureIsOwned


-----------------------------------------------------------------------------
(* Messages come and go in their order.                                    *)

LEMMA FirstGoes ==
  ASSUME NEW S, NEW line \in Seq(S), line # <<>>
  PROVE  /\ Tail(line) \in Seq(S) /\ Len(line) \in Nat /\ Len(line) >= 1 /\ Len(Tail(line)) = Len(line) - 1
         /\ Head(line) = line[1] /\ Head(line) \in S
         /\ \A i \in 1 .. Len(Tail(line)) : Tail(line)[i] = line[i + 1] /\ i + 1 \in 1 .. Len(line)
OBVIOUS

LEMMA LastComes ==
  ASSUME NEW S, NEW line \in Seq(S), NEW m \in S
  PROVE  /\ Append(line, m) \in Seq(S) /\ Len(line) \in Nat /\ Len(Append(line, m)) = Len(line) + 1
         /\ \A i \in 1 .. Len(line) : Append(line, m)[i] = line[i] /\ line[i] \in S
         /\ Append(line, m)[Len(line) + 1] = m
OBVIOUS

\* Two lines of messages that are in order, each and behind one another.
Ordered(first, then) ==
  /\ \A i, j \in 1 .. Len(first) : i < j => After(first[i], first[j])
  /\ \A i, j \in 1 .. Len(then) : i < j => After(then[i], then[j])
  /\ \A i \in 1 .. Len(first), j \in 1 .. Len(then) : After(first[i], then[j])

LEMMA OrderIs == InOrder <=> Ordered(answers, calls)
BY DEF InOrder, Ordered

LEMMA CallAppended ==
  ASSUME NEW S, NEW T, NEW first \in Seq(S), NEW then \in Seq(T), Ordered(first, then), NEW m \in T,
         \A i \in 1 .. Len(first) : After(first[i], m), \A i \in 1 .. Len(then) : After(then[i], m)
  PROVE  Ordered(first, Append(then, m))
<1>1. PICK w : w = Append(then, m) OBVIOUS
<1>2. /\ Len(then) \in Nat /\ Len(w) = Len(then) + 1 /\ w[Len(then) + 1] = m
      /\ \A i \in 1 .. Len(then) : w[i] = then[i]
  BY <1>1, LastComes
<1>3. \A i, j \in 1 .. Len(w) : i < j => After(w[i], w[j])
  <2>1. SUFFICES ASSUME NEW i \in 1 .. Len(w), NEW j \in 1 .. Len(w), i < j PROVE After(w[i], w[j]) OBVIOUS
  <2>2. i \in 1 .. Len(then) /\ w[i] = then[i] BY <1>2, <2>1
  <2>3. CASE j = Len(then) + 1 BY <1>2, <2>2, <2>3
  <2>4. CASE j # Len(then) + 1
    <3>1. j \in 1 .. Len(then) /\ w[j] = then[j] BY <1>2, <2>4
    <3> QED BY <2>1, <2>2, <3>1 DEF Ordered
  <2> QED BY <2>3, <2>4
<1>4. \A i \in 1 .. Len(first), j \in 1 .. Len(w) : After(first[i], w[j])
  <2>1. SUFFICES ASSUME NEW i \in 1 .. Len(first), NEW j \in 1 .. Len(w) PROVE After(first[i], w[j]) OBVIOUS
  <2>3. CASE j = Len(then) + 1 BY <1>2, <2>3
  <2>4. CASE j # Len(then) + 1
    <3>1. j \in 1 .. Len(then) /\ w[j] = then[j] BY <1>2, <2>4
    <3> QED BY <3>1 DEF Ordered
  <2> QED BY <2>3, <2>4
<1>5. Ordered(first, w) BY <1>3, <1>4 DEF Ordered
<1> QED BY <1>1, <1>5

LEMMA AnswerTaken ==
  ASSUME NEW S, NEW first \in Seq(S), first # <<>>, NEW then, Ordered(first, then)
  PROVE  Ordered(Tail(first), then)
<1>1. PICK w : w = Tail(first) OBVIOUS
<1>2. /\ Len(first) \in Nat /\ Len(w) = Len(first) - 1
      /\ \A i \in 1 .. Len(w) : w[i] = first[i + 1] /\ i + 1 \in 1 .. Len(first)
  BY <1>1, FirstGoes
<1>3. \A i, j \in 1 .. Len(w) : i < j => After(w[i], w[j])
  <2>1. SUFFICES ASSUME NEW i \in 1 .. Len(w), NEW j \in 1 .. Len(w), i < j PROVE After(w[i], w[j]) OBVIOUS
  <2>2. i + 1 < j + 1 BY <1>2, <2>1
  <2>3. w[i] = first[i + 1] /\ w[j] = first[j + 1] /\ i + 1 \in 1 .. Len(first) /\ j + 1 \in 1 .. Len(first) BY <1>2
  <2> QED BY <2>2, <2>3 DEF Ordered
<1>4. \A i \in 1 .. Len(w), j \in 1 .. Len(then) : After(w[i], then[j]) BY <1>2 DEF Ordered
<1>5. Ordered(w, then) BY <1>3, <1>4 DEF Ordered
<1> QED BY <1>1, <1>5

\* What was handled is answered: the first of the calls is the last of the answers.
LEMMA CallAnswered ==
  ASSUME NEW S, NEW T, NEW first \in Seq(S), NEW then \in Seq(T), then # <<>>, Ordered(first, then), NEW m \in S,
         m.call = Head(then).call, m.by = Head(then).by, m.attempt = Head(then).attempt
  PROVE  Ordered(Append(first, m), Tail(then))
<1>1. PICK w : w = Append(first, m) OBVIOUS
<1>2. /\ Len(first) \in Nat /\ Len(w) = Len(first) + 1 /\ w[Len(first) + 1] = m
      /\ \A i \in 1 .. Len(first) : w[i] = first[i]
  BY <1>1, LastComes
<1>3. PICK v : v = Tail(then) OBVIOUS
<1>4. /\ Len(then) \in Nat /\ Len(then) >= 1 /\ Len(v) = Len(then) - 1 /\ Head(then) = then[1]
      /\ \A i \in 1 .. Len(v) : v[i] = then[i + 1] /\ i + 1 \in 1 .. Len(then)
  BY <1>3, FirstGoes
<1>5. \A n : After(then[1], n) => After(m, n) BY <1>4 DEF After
<1>6. \A n : After(n, then[1]) => After(n, m) BY <1>4 DEF After
<1>7. \A i, j \in 1 .. Len(w) : i < j => After(w[i], w[j])
  <2>1. SUFFICES ASSUME NEW i \in 1 .. Len(w), NEW j \in 1 .. Len(w), i < j PROVE After(w[i], w[j]) OBVIOUS
  <2>2. i \in 1 .. Len(first) /\ w[i] = first[i] BY <1>2, <2>1
  <2>3. CASE j = Len(first) + 1
    <3>1. After(first[i], then[1]) BY <1>4, <2>2 DEF Ordered
    <3> QED BY <1>2, <1>6, <2>2, <2>3, <3>1
  <2>4. CASE j # Len(first) + 1
    <3>1. j \in 1 .. Len(first) /\ w[j] = first[j] BY <1>2, <2>4
    <3> QED BY <2>1, <2>2, <3>1 DEF Ordered
  <2> QED BY <2>3, <2>4
<1>8. \A i, j \in 1 .. Len(v) : i < j => After(v[i], v[j])
  <2>1. SUFFICES ASSUME NEW i \in 1 .. Len(v), NEW j \in 1 .. Len(v), i < j PROVE After(v[i], v[j]) OBVIOUS
  <2>2. i + 1 < j + 1 BY <1>4, <2>1
  <2>3. v[i] = then[i + 1] /\ v[j] = then[j + 1] /\ i + 1 \in 1 .. Len(then) /\ j + 1 \in 1 .. Len(then) BY <1>4
  <2> QED BY <2>2, <2>3 DEF Ordered
<1>9. \A i \in 1 .. Len(w), j \in 1 .. Len(v) : After(w[i], v[j])
  <2>1. SUFFICES ASSUME NEW i \in 1 .. Len(w), NEW j \in 1 .. Len(v) PROVE After(w[i], v[j]) OBVIOUS
  <2>2. v[j] = then[j + 1] /\ j + 1 \in 1 .. Len(then) /\ 1 < j + 1 /\ 1 \in 1 .. Len(then) BY <1>4
  <2>3. CASE i = Len(first) + 1
    <3>1. After(then[1], then[j + 1]) BY <2>2 DEF Ordered
    <3> QED BY <1>2, <1>5, <2>2, <2>3, <3>1
  <2>4. CASE i # Len(first) + 1
    <3>1. i \in 1 .. Len(first) /\ w[i] = first[i] BY <1>2, <2>4
    <3> QED BY <2>2, <3>1 DEF Ordered
  <2> QED BY <2>3, <2>4
<1>10. Ordered(w, v) BY <1>7, <1>8, <1>9 DEF Ordered
<1> QED BY <1>1, <1>3, <1>10


-----------------------------------------------------------------------------
(* What is told of the attempts.                                           *)

LEMMA ToldAppends ==
  ASSUME NEW S, NEW line \in Seq(S), NEW b, AllTold(b, line), NEW m \in S, Told(b, m) PROVE AllTold(b, Append(line, m))
<1>1. PICK w : w = Append(line, m) OBVIOUS
<1>2. /\ Len(line) \in Nat /\ Len(w) = Len(line) + 1 /\ w[Len(line) + 1] = m /\ \A i \in 1 .. Len(line) : w[i] = line[i]
  BY <1>1, LastComes
<1>3. SUFFICES ASSUME NEW i \in 1 .. Len(w) PROVE Told(b, w[i]) BY <1>1 DEF AllTold
<1>4. CASE i = Len(line) + 1 BY <1>2, <1>4
<1>5. CASE i # Len(line) + 1
  <2>1. i \in 1 .. Len(line) /\ w[i] = line[i] BY <1>2, <1>5
  <2> QED BY <2>1 DEF AllTold
<1> QED BY <1>4, <1>5

LEMMA ToldTail ==
  ASSUME NEW S, NEW line \in Seq(S), line # <<>>, NEW b, AllTold(b, line) PROVE AllTold(b, Tail(line)) /\ Told(b, Head(line))
<1>1. PICK w : w = Tail(line) OBVIOUS
<1>2. /\ Len(line) \in Nat /\ Len(line) >= 1 /\ Head(line) = line[1]
      /\ \A i \in 1 .. Len(w) : w[i] = line[i + 1] /\ i + 1 \in 1 .. Len(line)
  BY <1>1, FirstGoes
<1>3. AllTold(b, w) BY <1>2 DEF AllTold
<1>4. 1 \in 1 .. Len(line) BY <1>2
<1> QED BY <1>1, <1>2, <1>3, <1>4 DEF AllTold

\* The messages of a line are of attempts that have begun.
LEMMA LineIs ==
  ASSUME CaptureInvariant
  PROVE  /\ \A i \in 1 .. Len(calls) : calls[i] \in Capture!Calls /\ calls[i].by \in Recorders /\ calls[i].attempt \in Capture!Attempts
                                       /\ Told(begin, calls[i])
         /\ \A i \in 1 .. Len(answers) : answers[i] \in Answers /\ answers[i].by \in Recorders /\ answers[i].attempt \in Capture!Attempts
                                         /\ Told(begin, answers[i])
<1>1. calls \in Seq(Capture!Calls) /\ answers \in Seq(Answers) BY DEF CaptureInvariant, CaptureTypes
<1>2. \A i \in 1 .. Len(calls) : calls[i] \in Capture!Calls BY <1>1
<1>3. \A i \in 1 .. Len(answers) : answers[i] \in Answers BY <1>1
<1> QED BY <1>2, <1>3 DEF CaptureInvariant, AllTold, Capture!Calls, Answers

LEMMA CaptureFacts ==
  ASSUME Capture!CaptureAssumption
  PROVE  /\ MaxAttempts \in Nat /\ Capture!Attempts = 1 .. MaxAttempts
         /\ \A r \in Recorders, a \in Capture!Attempts : <<r, a>> \in Pairs
BY DEF Capture!CaptureAssumption, Capture!Attempts, Pairs

LEMMA AttemptIs ==
  ASSUME Capture!CaptureAssumption, NEW a \in Capture!Attempts
  PROVE  a \in Nat /\ a \in 0 .. MaxAttempts + 1 /\ a + 1 \in 0 .. MaxAttempts + 1
BY DEF Capture!CaptureAssumption, Capture!Attempts

LEMMA CallIs ==
  ASSUME NEW r \in Recorders, NEW a \in Capture!Attempts, NEW what \in {"begin", "end", "accept"}
  PROVE  LET m == Capture!Call(what, r, a) IN m \in Capture!Calls /\ m.call = what /\ m.by = r /\ m.attempt = a
BY DEF Capture!Call, Capture!Calls

\* The state of one attempt changes and another call is made, or none.
LEMMA CallMade ==
  ASSUME CaptureInvariant, NEW m \in Capture!Calls, calls' \in {calls, Append(calls, m)}, calls' # calls => Told(begin', m),
         \A n : Told(begin, n) /\ n.by \in Recorders /\ n.attempt \in Capture!Attempts => Told(begin', n),
         m.call # "begin", answers' = answers
  PROVE  InOrder' /\ AllTold(begin, calls)' /\ AllTold(begin, answers)' /\ calls' \in Seq(Capture!Calls)
<1>1. calls \in Seq(Capture!Calls) /\ answers \in Seq(Answers) /\ Ordered(answers, calls)
  BY OrderIs DEF CaptureInvariant, CaptureTypes
<1>2. AllTold(begin', calls) /\ AllTold(begin', answers) BY LineIs DEF AllTold
<1>3. CASE calls' = calls BY <1>1, <1>2, <1>3, OrderIs DEF Ordered, InOrder, AllTold
<1>4. CASE calls' # calls
  <2>1. calls' = Append(calls, m) /\ Told(begin', m) BY <1>4
  <2>2. \A n : After(n, m) BY DEF After
  <2>3. Ordered(answers, Append(calls, m)) BY <1>1, <2>2, CallAppended
  <2>4. AllTold(begin', Append(calls, m)) BY <1>1, <1>2, <2>1, ToldAppends
  <2>5. Append(calls, m) \in Seq(Capture!Calls) BY <1>1, LastComes
  <2> QED BY <1>2, <2>1, <2>3, <2>4, <2>5 DEF Ordered, InOrder, AllTold
<1> QED BY <1>3, <1>4

LEMMA EndCallStays ==
  ASSUME CaptureInvariant, NEW m \in Capture!Calls, calls' \in {calls, Append(calls, m)}, NEW r, NEW a, EndIsCalled(r, a)
  PROVE  EndIsCalled(r, a)'
<1>1. calls \in Seq(Capture!Calls) BY DEF CaptureInvariant, CaptureTypes
<1>2. PICK i \in 1 .. Len(calls) : calls[i] = Capture!Call("end", r, a) BY DEF EndIsCalled
<1>3. CASE calls' = calls BY <1>2, <1>3 DEF EndIsCalled
<1>4. CASE calls' = Append(calls, m)
  <2>1. Len(calls) \in Nat /\ Len(calls') = Len(calls) + 1 /\ calls'[i] = calls[i] BY <1>1, <1>4, LastComes
  <2>2. i \in 1 .. Len(calls') BY <2>1
  <2> QED BY <1>2, <2>1, <2>2 DEF EndIsCalled
<1> QED BY <1>3, <1>4

LEMMA EndCalled ==
  ASSUME CaptureInvariant, NEW r \in Recorders, NEW a \in Capture!Attempts, calls' = Append(calls, Capture!Call("end", r, a))
  PROVE  EndIsCalled(r, a)'
<1>1. calls \in Seq(Capture!Calls) BY DEF CaptureInvariant, CaptureTypes
<1>2. PICK m : m = Capture!Call("end", r, a) OBVIOUS
<1>3. m \in Capture!Calls BY <1>2, CallIs
<1>4. Len(calls) \in Nat /\ Len(calls') = Len(calls) + 1 /\ calls'[Len(calls) + 1] = m BY <1>1, <1>2, <1>3, LastComes
<1>5. Len(calls) + 1 \in 1 .. Len(calls') BY <1>4
<1> QED BY <1>2, <1>4, <1>5 DEF EndIsCalled

-----------------------------------------------------------------------------
(* The window *)

LEMMA CaptureStarts ==
  ASSUME Capture!CaptureAssumption, CaptureInvariant, NEW r \in Recorders, Capture!StartCapture(r) PROVE CaptureInvariant'
<1>1. PICK a : a = captureId[r] + 1 OBVIOUS
<1>t. CaptureTypes BY DEF CaptureInvariant
<1>2. captureId[r] \in 0 .. MaxAttempts + 1 /\ captureId[r] < MaxAttempts BY <1>t DEF CaptureTypes, Capture!StartCapture
<1>3. a \in Capture!Attempts /\ a \in 0 .. MaxAttempts + 1 /\ a > captureId[r] BY <1>1, <1>2, CaptureFacts
<1>4. PICK m : m = Capture!Call("begin", r, a) OBVIOUS
<1>5. m \in Capture!Calls /\ m.call = "begin" /\ m.by = r /\ m.attempt = a BY <1>3, <1>4, CallIs
<1>6. /\ captureId' = [captureId EXCEPT ![r] = a] /\ capturing' = [capturing EXCEPT ![r] = TRUE]
      /\ begin' = [begin EXCEPT ![<<r, a>>] = "pending"] /\ calls' = Append(calls, m)
      /\ UNCHANGED <<validating, ending, answers, captureHeld, timedOut>> /\ \A o \in Recorders : ~capturing[o]
  BY <1>1, <1>4 DEF Capture!StartCapture
<1>7. <<r, a>> \in Pairs BY <1>3, CaptureFacts
<1>8. Attempted(r, a) BY <1>3 DEF CaptureInvariant
<1>9. begin[<<r, a>>] = "none" BY <1>3, <1>8 DEF Attempted
<1>10. /\ begin' \in [Pairs -> {"none", "pending", "ok", "failed"}] /\ begin'[<<r, a>>] = "pending"
       /\ \A p \in Pairs : p # <<r, a>> => begin'[p] = begin[p]
  BY <1>t, <1>6, <1>7 DEF CaptureTypes
<1>11. /\ captureId' \in [Recorders -> 0 .. MaxAttempts + 1] /\ captureId'[r] = a /\ \A o \in Recorders : o # r => captureId'[o] = captureId[o]
       /\ capturing' \in [Recorders -> BOOLEAN] /\ capturing'[r] = TRUE /\ \A o \in Recorders : o # r => ~capturing'[o]
  BY <1>t, <1>3, <1>6 DEF CaptureTypes
<1>12. CaptureTypes'
  <2>1. calls' \in Seq(Capture!Calls) BY <1>t, <1>5, <1>6, LastComes DEF CaptureTypes
  <2> QED BY <1>t, <1>6, <1>10, <1>11, <2>1 DEF CaptureTypes
<1>13. \A n : Told(begin, n) /\ n.by \in Recorders /\ n.attempt \in Capture!Attempts => Told(begin', n) /\ After(n, m)
  <2>1. SUFFICES ASSUME NEW n, Told(begin, n), n.by \in Recorders, n.attempt \in Capture!Attempts
                 PROVE  Told(begin', n) /\ After(n, m)
    OBVIOUS
  <2>2. begin[<<n.by, n.attempt>>] # "none" BY <2>1 DEF Told
  <2>3. <<n.by, n.attempt>> \in Pairs /\ <<n.by, n.attempt>> # <<r, a>> BY <1>9, <2>1, <2>2, CaptureFacts
  <2>4. begin'[<<n.by, n.attempt>>] = begin[<<n.by, n.attempt>>] BY <1>10, <2>3
  <2>5. n.by = r => n.attempt < a
    <3>1. Attempted(n.by, n.attempt) BY <2>1 DEF CaptureInvariant
    <3>2. ~(n.attempt > captureId[n.by]) BY <2>2, <3>1 DEF Attempted
    <3> QED BY <1>1, <1>2, <2>1, <3>2, CaptureFacts
  <2> QED BY <1>5, <2>1, <2>4, <2>5 DEF Told, After
<1>14. InOrder' /\ AllTold(begin, calls)' /\ AllTold(begin, answers)'
  <2>1. calls \in Seq(Capture!Calls) /\ answers \in Seq(Answers) /\ Ordered(answers, calls)
    BY <1>t, OrderIs DEF CaptureInvariant, CaptureTypes
  <2>2. AllTold(begin', calls) /\ AllTold(begin', answers) BY <1>13, LineIs DEF AllTold
  <2>3. (\A i \in 1 .. Len(answers) : After(answers[i], m)) /\ (\A i \in 1 .. Len(calls) : After(calls[i], m)) BY <1>13, LineIs
  <2>4. Ordered(answers, Append(calls, m)) BY <1>5, <2>1, <2>3, CallAppended
  <2>5. Told(begin', m) BY <1>5, <1>10 DEF Told
  <2>6. AllTold(begin', Append(calls, m)) BY <1>5, <2>1, <2>2, <2>5, ToldAppends
  <2> QED BY <1>6, <2>2, <2>4, <2>6 DEF Ordered, InOrder, AllTold
<1>15. \A o \in Recorders : Recording(o)' BY <1>3, <1>10, <1>11 DEF Recording
<1>16. \A o \in Recorders, b \in Capture!Attempts : Attempted(o, b)'
  <2>1. SUFFICES ASSUME NEW o \in Recorders, NEW b \in Capture!Attempts PROVE Attempted(o, b)' OBVIOUS
  <2>2. Attempted(o, b) /\ <<o, b>> \in Pairs BY CaptureFacts DEF CaptureInvariant
  <2>3. CASE o = r /\ b = a
    <3>1. ending[<<r, a>>].at \notin {"awaitsBegin", "acceptSent"} BY <1>8, <1>9 DEF Attempted
    <3>2. a \in Nat BY <1>3, AttemptIs
    <3>3. ~(a > captureId'[r]) BY <1>11, <3>2
    <3> QED BY <1>6, <1>10, <1>11, <2>3, <3>1, <3>3 DEF Attempted
  <2>4. CASE o = r /\ b # a
    <3>1. begin'[<<o, b>>] = begin[<<o, b>>] /\ ending' = ending BY <1>6, <1>10, <2>2, <2>4
    <3>2. b > a => b > captureId[r] BY <1>1, <1>2, <2>2, CaptureFacts
    <3>3. begin[<<o, b>>] = "pending" => ending[<<o, b>>].at = "awaitsBegin" BY <1>6, <2>2 DEF Attempted
    <3> QED BY <1>11, <2>2, <2>4, <3>1, <3>2, <3>3 DEF Attempted
  <2>5. CASE o # r
    <3>1. begin'[<<o, b>>] = begin[<<o, b>>] /\ ending' = ending /\ captureId'[o] = captureId[o] /\ ~capturing[o]
      BY <1>6, <1>10, <1>11, <2>2, <2>5
    <3> QED BY <2>2, <3>1 DEF Attempted
  <2> QED BY <2>3, <2>4, <2>5
<1>17. CaptureIsOwned'
  <2>1. SUFFICES ASSUME captureHeld' PROVE \E o \in Recorders, b \in Capture!Attempts : Owns(o, b)'
    BY DEF CaptureIsOwned
  <2>2. PICK o \in Recorders, b \in Capture!Attempts : Owns(o, b) BY <1>6, <2>1 DEF CaptureInvariant, CaptureIsOwned
  <2>3. <<o, b>> \in Pairs BY CaptureFacts
  <2>4. Began(o, b)' BY <1>6, <1>9, <1>10, <2>2, <2>3 DEF Owns, Began
  <2>5. EndIsCalled(o, b) => EndIsCalled(o, b)' BY <1>5, <1>6, EndCallStays
  <2>6. Owns(o, b)' BY <1>6, <2>2, <2>4, <2>5 DEF Owns
  <2> QED BY <2>6
<1> QED BY <1>12, <1>14, <1>15, <1>16, <1>17 DEF CaptureInvariant

LEMMA CaptureStops ==
  ASSUME Capture!CaptureAssumption, CaptureInvariant, NEW r \in Recorders, Capture!CancelCapture(r) \/ Capture!FinishCapture(r)
  PROVE  CaptureInvariant'
<1>t. CaptureTypes BY DEF CaptureInvariant
<1>1. PICK c : c = captureId[r] OBVIOUS
<1>2. capturing[r] BY DEF Capture!CancelCapture, Capture!FinishCapture
<1>3. Recording(r) BY DEF CaptureInvariant
<1>4. c \in Capture!Attempts /\ begin[<<r, c>>] \in {"pending", "ok"} BY <1>1, <1>2, <1>3 DEF Recording
<1>5. <<r, c>> \in Pairs /\ Attempted(r, c) BY <1>4, CaptureFacts DEF CaptureInvariant
<1>6. PICK then \in {"cancel", "finish"} : Capture!EndNative(r, c, then)
  BY <1>1 DEF Capture!CancelCapture, Capture!FinishCapture
<1>7. PICK m : m = Capture!Call("end", r, c) OBVIOUS
<1>8. m \in Capture!Calls /\ m.call = "end" /\ m.by = r /\ m.attempt = c BY <1>4, <1>7, CallIs
<1>9. PICK e \in Endings : e.at = (IF begin[<<r, c>>] = "ok" THEN "endSent" ELSE "awaitsBegin") /\ ending' = [ending EXCEPT ![<<r, c>>] = e]
  <2>1. CASE begin[<<r, c>>] = "ok"
    <3>1. PICK e : e = [then |-> then, at |-> "endSent"] OBVIOUS
    <3>2. e \in Endings /\ e.at = "endSent" BY <3>1 DEF Endings
    <3>3. ending' = [ending EXCEPT ![<<r, c>>] = e] BY <1>6, <2>1, <3>1 DEF Capture!EndNative, Capture!BeginSettled
    <3> QED BY <2>1, <3>2, <3>3
  <2>2. CASE begin[<<r, c>>] # "ok"
    <3>1. PICK e : e = [then |-> then, at |-> "awaitsBegin"] OBVIOUS
    <3>2. e \in Endings /\ e.at = "awaitsBegin" BY <3>1 DEF Endings
    <3>3. ending' = [ending EXCEPT ![<<r, c>>] = e] BY <1>4, <1>6, <2>2, <3>1 DEF Capture!EndNative, Capture!BeginSettled
    <3> QED BY <2>2, <3>2, <3>3
  <2> QED BY <2>1, <2>2
<1>10. calls' = IF begin[<<r, c>>] = "ok" THEN Append(calls, m) ELSE calls
  BY <1>4, <1>6, <1>7 DEF Capture!EndNative, Capture!BeginSettled
<1>11. /\ ending' \in [Pairs -> Endings] /\ ending'[<<r, c>>] = e /\ \A p \in Pairs : p # <<r, c>> => ending'[p] = ending[p]
  BY <1>t, <1>5, <1>9 DEF CaptureTypes
<1>12. /\ begin' = begin /\ answers' = answers /\ captureHeld' = captureHeld /\ timedOut' = timedOut
       /\ capturing' = [capturing EXCEPT ![r] = FALSE] /\ validating' \in [Recorders -> BOOLEAN]
       /\ captureId' \in {captureId, [captureId EXCEPT ![r] = c + 1]}
  BY <1>t, <1>1 DEF Capture!CancelCapture, Capture!FinishCapture, CaptureTypes
<1>13. /\ capturing' \in [Recorders -> BOOLEAN] /\ ~capturing'[r] /\ \A o \in Recorders : o # r => capturing'[o] = capturing[o]
  BY <1>t, <1>12 DEF CaptureTypes
<1>14. c + 1 \in 0 .. MaxAttempts + 1 /\ c \in Nat BY <1>4, AttemptIs
<1>15. /\ captureId' \in [Recorders -> 0 .. MaxAttempts + 1] /\ captureId'[r] \in {c, c + 1} /\ \A o \in Recorders : o # r => captureId'[o] = captureId[o]
  BY <1>t, <1>1, <1>12, <1>14 DEF CaptureTypes
<1>16. Told(begin', m) \/ calls' = calls BY <1>8, <1>10, <1>12 DEF Told
<1>17. InOrder' /\ AllTold(begin, calls)' /\ AllTold(begin, answers)' /\ calls' \in Seq(Capture!Calls)
  BY <1>8, <1>10, <1>12, <1>16, CallMade
<1>18. CaptureTypes' BY <1>t, <1>11, <1>12, <1>13, <1>15, <1>17 DEF CaptureTypes
<1>19. \A o \in Recorders : Recording(o)'
  <2>1. SUFFICES ASSUME NEW o \in Recorders, capturing'[o] PROVE captureId'[o] \in Capture!Attempts /\ begin'[<<o, captureId'[o]>>] \in {"pending", "ok"}
    BY DEF Recording
  <2>2. o # r /\ capturing[o] /\ captureId'[o] = captureId[o] BY <1>13, <1>15, <2>1
  <2>3. Recording(o) BY DEF CaptureInvariant
  <2> QED BY <1>12, <2>2, <2>3 DEF Recording
<1>20. \A o \in Recorders, b \in Capture!Attempts : Attempted(o, b)'
  <2>1. SUFFICES ASSUME NEW o \in Recorders, NEW b \in Capture!Attempts PROVE Attempted(o, b)' OBVIOUS
  <2>2. Attempted(o, b) /\ <<o, b>> \in Pairs /\ b \in Nat BY CaptureFacts DEF CaptureInvariant
  <2>3. CASE o = r /\ b = c
    <3>1. ~(b > captureId'[r]) BY <1>14, <1>15, <2>3
    <3> QED BY <1>4, <1>9, <1>11, <1>12, <2>3, <3>1 DEF Attempted
  <2>4. CASE o = r /\ b # c
    <3>1. ending'[<<o, b>>] = ending[<<o, b>>] BY <1>11, <2>2, <2>4
    <3>2. b > captureId'[r] => b > c BY <1>14, <1>15, <2>2
    <3>3. captureId'[r] = b => b > c BY <1>14, <1>15, <2>2, <2>4
    <3>4. b > c => begin[<<o, b>>] = "none" BY <1>1, <2>2, <2>4 DEF Attempted
    <3>5. begin[<<o, b>>] = "pending" => ending[<<o, b>>].at = "awaitsBegin" BY <1>1, <2>2, <2>4 DEF Attempted
    <3> QED BY <1>12, <2>2, <2>4, <3>1, <3>2, <3>3, <3>4, <3>5 DEF Attempted
  <2>5. CASE o # r
    <3>1. ending'[<<o, b>>] = ending[<<o, b>>] /\ captureId'[o] = captureId[o] /\ capturing'[o] = capturing[o]
      BY <1>11, <1>13, <1>15, <2>2, <2>5
    <3> QED BY <1>12, <2>2, <3>1 DEF Attempted
  <2> QED BY <2>3, <2>4, <2>5
<1>21. CaptureIsOwned'
  <2>1. SUFFICES ASSUME captureHeld' PROVE \E o \in Recorders, b \in Capture!Attempts : Owns(o, b)'
    BY DEF CaptureIsOwned
  <2>2. PICK o \in Recorders, b \in Capture!Attempts : Owns(o, b) BY <1>12, <2>1 DEF CaptureInvariant, CaptureIsOwned
  <2>3. <<o, b>> \in Pairs BY CaptureFacts
  <2>4. Began(o, b)' BY <1>12, <2>2 DEF Owns, Began
  <2>5. EndIsCalled(o, b) => EndIsCalled(o, b)' BY <1>8, <1>10, EndCallStays
  <2>6. CASE o = r /\ b = c
    <3>1. CASE begin[<<r, c>>] = "ok"
      <4>1. calls' = Append(calls, Capture!Call("end", r, c)) BY <1>7, <1>10, <3>1
      <4>2. EndIsCalled(r, c)' BY <1>4, <4>1, EndCalled
      <4> QED BY <2>4, <2>6, <4>2 DEF Owns
    <3>2. CASE begin[<<r, c>>] # "ok" BY <1>9, <1>11, <2>4, <2>6, <3>2 DEF Owns
    <3> QED BY <3>1, <3>2
  <2>7. CASE ~(o = r /\ b = c)
    <3>1. ending'[<<o, b>>] = ending[<<o, b>>] BY <1>11, <2>3, <2>7
    <3>2. capturing[o] /\ captureId[o] = b => o # r BY <1>1, <2>7
    <3>3. Owns(o, b)' BY <1>13, <1>15, <2>2, <2>4, <2>5, <3>1, <3>2 DEF Owns
    <3> QED BY <3>3
  <2> QED BY <2>6, <2>7
<1> QED BY <1>17, <1>18, <1>19, <1>20, <1>21 DEF CaptureInvariant


-----------------------------------------------------------------------------
(* Answers arrive.                                                         *)

\* The first answer is gone: what is left is in order, and tells what it told.
AnswerGoes(m) ==
  /\ m \in Answers /\ Told(begin, m) /\ answers' = Tail(answers) /\ answers' \in Seq(Answers)
  /\ Ordered(answers', calls) /\ AllTold(begin, answers')
  /\ (\A i \in 1 .. Len(answers') : After(m, answers'[i]) /\ answers'[i] \in Answers)
  /\ \A i \in 1 .. Len(calls) : After(m, calls[i])
  /\ \A n \in Answers : (\E i \in 1 .. Len(answers) : answers[i] = n) => n = m \/ \E i \in 1 .. Len(answers') : answers'[i] = n

LEMMA AnswerIsTaken ==
  ASSUME CaptureInvariant, answers # <<>>, answers' = Tail(answers), NEW m, m = Head(answers)
  PROVE  AnswerGoes(m)
<1>1. calls \in Seq(Capture!Calls) /\ answers \in Seq(Answers) /\ Ordered(answers, calls) /\ AllTold(begin, answers)
  BY OrderIs DEF CaptureInvariant, CaptureTypes
<1>2. PICK w : w = Tail(answers) OBVIOUS
<1>3. /\ w \in Seq(Answers) /\ Len(answers) \in Nat /\ Len(answers) >= 1 /\ Len(w) = Len(answers) - 1
      /\ m = answers[1] /\ m \in Answers
      /\ \A i \in 1 .. Len(w) : w[i] = answers[i + 1] /\ i + 1 \in 1 .. Len(answers)
  BY <1>1, <1>2, FirstGoes
<1>4. Ordered(w, calls) BY <1>1, <1>2, AnswerTaken
<1>5. AllTold(begin, w) /\ Told(begin, m) BY <1>1, <1>2, ToldTail
<1>6. ASSUME NEW i \in 1 .. Len(w) PROVE After(m, w[i]) /\ w[i] \in Answers
  <2>1. 1 \in 1 .. Len(answers) /\ i + 1 \in 1 .. Len(answers) /\ 1 < i + 1 /\ w[i] = answers[i + 1] BY <1>3
  <2>2. After(answers[1], answers[i + 1]) BY <1>1, <2>1 DEF Ordered
  <2>3. w[i] \in Answers BY <1>3
  <2> QED BY <1>3, <2>1, <2>2, <2>3
<1>7. ASSUME NEW i \in 1 .. Len(calls) PROVE After(m, calls[i])
  <2>1. 1 \in 1 .. Len(answers) BY <1>3
  <2> QED BY <1>1, <1>3, <2>1 DEF Ordered
<1>8. ASSUME NEW n \in Answers, NEW i \in 1 .. Len(answers), answers[i] = n, n # m PROVE \E j \in 1 .. Len(w) : w[j] = n
  <2>1. i # 1 BY <1>3, <1>8
  <2>2. i - 1 \in 1 .. Len(w) /\ (i - 1) + 1 = i BY <1>3, <2>1
  <2>3. w[i - 1] = answers[i] BY <1>3, <2>2
  <2> QED BY <1>8, <2>2, <2>3
<1> QED BY <1>2, <1>3, <1>4, <1>5, <1>6, <1>7, <1>8 DEF AnswerGoes

\* The state of one attempt changes with its answer, and another call is made, or none.
LEMMA AnswerTold ==
  ASSUME CaptureInvariant, NEW h, AnswerGoes(h), NEW m \in Capture!Calls, calls' \in {calls, Append(calls, m)},
         calls' # calls => Told(begin', m), m.call # "begin",
         \A n : Told(begin, n) /\ After(h, n) /\ n.by \in Recorders /\ n.attempt \in Capture!Attempts => Told(begin', n)
  PROVE  InOrder' /\ AllTold(begin, calls)' /\ AllTold(begin, answers)' /\ calls' \in Seq(Capture!Calls)
<1>1. calls \in Seq(Capture!Calls) /\ answers' \in Seq(Answers) /\ Ordered(answers', calls)
  BY DEF CaptureInvariant, CaptureTypes, AnswerGoes
<1>2. AllTold(begin', calls) BY LineIs DEF AllTold, AnswerGoes
<1>3. AllTold(begin', answers') BY DEF AllTold, AnswerGoes, Answers
<1>4. CASE calls' = calls BY <1>1, <1>2, <1>3, <1>4 DEF Ordered, InOrder, AllTold
<1>5. CASE calls' # calls
  <2>1. calls' = Append(calls, m) /\ Told(begin', m) BY <1>5
  <2>2. \A n : After(n, m) BY DEF After
  <2>3. Ordered(answers', Append(calls, m)) BY <1>1, <2>2, CallAppended
  <2>4. AllTold(begin', Append(calls, m)) BY <1>1, <1>2, <2>1, ToldAppends
  <2>5. Append(calls, m) \in Seq(Capture!Calls) BY <1>1, LastComes
  <2> QED BY <1>3, <2>1, <2>3, <2>4, <2>5 DEF Ordered, InOrder, AllTold
<1> QED BY <1>4, <1>5

Good(r, a, ok) == [call |-> "begin", by |-> r, attempt |-> a, ok |-> ok]

LEMMA BegunStays ==
  ASSUME CaptureInvariant, NEW h, AnswerGoes(h), NEW r \in Recorders, NEW a \in Capture!Attempts, Began(r, a),
         h # Good(r, a, TRUE), begin'[<<r, a>>] = begin[<<r, a>>]
  PROVE  Began(r, a)'
<1>1. PICK n : n = Good(r, a, TRUE) OBVIOUS
<1>2. n \in Answers /\ n # h BY <1>1 DEF Good, Answers
<1>3. CASE begin[<<r, a>>] = "ok" BY <1>3 DEF Began
<1>4. CASE \E i \in 1 .. Len(answers) : answers[i] = n
  <2>1. \E i \in 1 .. Len(answers') : answers'[i] = n BY <1>2, <1>4 DEF AnswerGoes
  <2> QED BY <1>1, <2>1 DEF Began, Good
<1> QED BY <1>1, <1>3, <1>4 DEF Began, Good

LEMMA BeginIsAnswered ==
  ASSUME Capture!CaptureAssumption, CaptureInvariant, NEW h, AnswerGoes(h), h.call = "begin",
         Capture!BeginAnswered(h.by, h.attempt, h.ok), UNCHANGED <<captureHeld, timedOut>>
  PROVE  CaptureInvariant'
<1>t. CaptureTypes BY DEF CaptureInvariant
<1>1. PICK r \in Recorders, a \in Capture!Attempts, ok \in BOOLEAN : h = Good(r, a, ok)
  <2>1. h \in Answers BY DEF AnswerGoes
  <2>2. h.by \in Recorders /\ h.attempt \in Capture!Attempts /\ h.ok \in BOOLEAN /\ h = Good(h.by, h.attempt, h.ok)
    BY <2>1 DEF Answers, Good
  <2> QED BY <2>2
<1>2. h.call = "begin" /\ h.by = r /\ h.attempt = a /\ h.ok = ok BY <1>1 DEF Good
<1>3. Capture!BeginAnswered(r, a, ok) BY <1>2
<1>4. begin[<<r, a>>] = "pending" BY <1>2 DEF AnswerGoes, Told
<1>5. <<r, a>> \in Pairs /\ Attempted(r, a) /\ a \in Nat /\ a + 1 \in 0 .. MaxAttempts + 1 BY CaptureFacts, AttemptIs DEF CaptureInvariant
<1>6. PICK v \in {"ok", "failed"} : v = IF ok THEN "ok" ELSE "failed" OBVIOUS
<1>7. PICK m : m = Capture!Call("end", r, a) OBVIOUS
<1>8. m \in Capture!Calls /\ m.call = "end" /\ m.by = r /\ m.attempt = a BY <1>7, CallIs
<1>9. begin' = [begin EXCEPT ![<<r, a>>] = v] BY <1>3, <1>6 DEF Capture!BeginAnswered
<1>10. /\ begin' \in [Pairs -> {"none", "pending", "ok", "failed"}] /\ begin'[<<r, a>>] = v
       /\ \A p \in Pairs : p # <<r, a>> => begin'[p] = begin[p]
  BY <1>t, <1>5, <1>9 DEF CaptureTypes
<1>11. PICK c : c = (IF ~ok /\ captureId[r] = a THEN a + 1 ELSE captureId[r]) OBVIOUS
<1>12. captureId' = [captureId EXCEPT ![r] = c] BY <1>3, <1>11 DEF Capture!BeginAnswered, Capture!Invalidated
<1>13. captureId[r] \in 0 .. MaxAttempts + 1 BY <1>t DEF CaptureTypes
<1>14. c \in 0 .. MaxAttempts + 1 BY <1>5, <1>11, <1>13
<1>15. captureId' \in [Recorders -> 0 .. MaxAttempts + 1] /\ captureId'[r] = c /\ \A o \in Recorders : o # r => captureId'[o] = captureId[o]
  BY <1>t, <1>12, <1>14 DEF CaptureTypes
<1>16. PICK k \in BOOLEAN : k = (capturing[r] /\ (ok \/ captureId[r] # a)) OBVIOUS
<1>17. capturing' = [capturing EXCEPT ![r] = k] BY <1>3, <1>16 DEF Capture!BeginAnswered
<1>18. capturing' \in [Recorders -> BOOLEAN] /\ capturing'[r] = k /\ \A o \in Recorders : o # r => capturing'[o] = capturing[o]
  BY <1>t, <1>17 DEF CaptureTypes
<1>19. PICK e \in Endings : /\ e.at = (IF ending[<<r, a>>].at = "awaitsBegin" THEN "endSent" ELSE ending[<<r, a>>].at)
                           /\ ending' = [ending EXCEPT ![<<r, a>>] = e]
  <2>0. ending[<<r, a>>] \in Endings BY <1>t, <1>5 DEF CaptureTypes
  <2>1. CASE ending[<<r, a>>].at = "awaitsBegin"
    <3>1. PICK e : e = [ending[<<r, a>>] EXCEPT !.at = "endSent"] OBVIOUS
    <3>2. e \in Endings /\ e.at = "endSent" BY <2>0, <3>1 DEF Endings
    <3>3. ending' = [ending EXCEPT ![<<r, a>>] = e] BY <1>3, <2>1, <3>1 DEF Capture!BeginAnswered
    <3> QED BY <2>1, <3>2, <3>3
  <2>2. CASE ending[<<r, a>>].at # "awaitsBegin"
    <3>1. ending' = ending BY <1>3, <2>2 DEF Capture!BeginAnswered
    <3>2. ending' = [ending EXCEPT ![<<r, a>>] = ending[<<r, a>>]] BY <1>t, <1>5, <3>1 DEF CaptureTypes
    <3> QED BY <2>0, <2>2, <3>2
  <2> QED BY <2>1, <2>2
<1>20. /\ ending' \in [Pairs -> Endings] /\ ending'[<<r, a>>] = e /\ \A p \in Pairs : p # <<r, a>> => ending'[p] = ending[p]
  BY <1>t, <1>5, <1>19 DEF CaptureTypes
<1>21. calls' = (IF ending[<<r, a>>].at = "awaitsBegin" THEN Append(calls, m) ELSE calls) /\ validating' = validating
  BY <1>3, <1>7 DEF Capture!BeginAnswered
<1>22. Told(begin', m) BY <1>8, <1>10 DEF Told
<1>23. ASSUME NEW n, Told(begin, n), After(h, n), n.by \in Recorders, n.attempt \in Capture!Attempts PROVE Told(begin', n)
  <2>1. <<n.by, n.attempt>> \in Pairs BY <1>23, CaptureFacts
  <2>2. <<n.by, n.attempt>> # <<r, a>>
    <3>1. CASE n.call = "begin"
      <4>1. n.by = r => a < n.attempt BY <1>2, <1>23, <3>1 DEF After
      <4> QED BY <1>5, <4>1
    <3>2. CASE n.call # "begin" BY <1>4, <1>23, <3>2 DEF Told
    <3> QED BY <3>1, <3>2
  <2>3. begin'[<<n.by, n.attempt>>] = begin[<<n.by, n.attempt>>] BY <1>10, <2>1, <2>2
  <2> QED BY <1>23, <2>3 DEF Told
<1>24. InOrder' /\ AllTold(begin, calls)' /\ AllTold(begin, answers)' /\ calls' \in Seq(Capture!Calls)
  <2>1. calls' \in {calls, Append(calls, m)} BY <1>21
  <2> QED BY <1>8, <1>22, <1>23, <2>1, AnswerTold
<1>25. CaptureTypes' BY <1>t, <1>10, <1>15, <1>18, <1>20, <1>21, <1>24 DEF CaptureTypes, AnswerGoes
<1>26. \A o \in Recorders : Recording(o)'
  <2>1. SUFFICES ASSUME NEW o \in Recorders, capturing'[o]
                 PROVE  captureId'[o] \in Capture!Attempts /\ begin'[<<o, captureId'[o]>>] \in {"pending", "ok"}
    BY DEF Recording
  <2>2. capturing[o] /\ captureId'[o] = captureId[o] /\ (o = r /\ captureId[o] = a => ok)
    BY <1>11, <1>15, <1>16, <1>18, <2>1
  <2>3. captureId[o] \in Capture!Attempts /\ begin[<<o, captureId[o]>>] \in {"pending", "ok"} BY <2>2 DEF CaptureInvariant, Recording
  <2>4. <<o, captureId[o]>> \in Pairs BY <2>3, CaptureFacts
  <2>5. CASE o = r /\ captureId[o] = a BY <1>6, <1>10, <2>2, <2>3, <2>5
  <2>6. CASE ~(o = r /\ captureId[o] = a)
    <3>1. begin'[<<o, captureId[o]>>] = begin[<<o, captureId[o]>>] BY <1>10, <2>4, <2>6
    <3> QED BY <2>2, <2>3, <3>1
  <2> QED BY <2>5, <2>6
<1>27. \A o \in Recorders, b \in Capture!Attempts : Attempted(o, b)'
  <2>1. SUFFICES ASSUME NEW o \in Recorders, NEW b \in Capture!Attempts PROVE Attempted(o, b)' OBVIOUS
  <2>2. Attempted(o, b) /\ <<o, b>> \in Pairs /\ b \in Nat BY CaptureFacts, AttemptIs DEF CaptureInvariant
  <2>3. CASE o = r /\ b = a
    <3>1. ~(a > captureId[r]) BY <1>4, <1>5 DEF Attempted
    <3>2. ~(a > captureId'[r]) BY <1>5, <1>11, <1>13, <1>15, <3>1
    <3>3. v = "failed" => captureId'[r] # a BY <1>5, <1>6, <1>11, <1>15
    <3>4. e.at \notin {"awaitsBegin", "acceptSent"} BY <1>4, <1>5, <1>19 DEF Attempted
    <3> QED BY <1>10, <1>20, <2>3, <3>2, <3>3, <3>4 DEF Attempted
  <2>4. CASE o = r /\ b # a
    <3>1. ending'[<<o, b>>] = ending[<<o, b>>] /\ begin'[<<o, b>>] = begin[<<o, b>>] BY <1>10, <1>20, <2>2, <2>4
    <3>2. b > captureId'[r] => b > captureId[r] BY <1>5, <1>11, <1>13, <1>15, <2>2
    <3>3. captureId'[r] = b => captureId[r] = b \/ b > captureId[r] BY <1>5, <1>11, <1>13, <1>15, <2>2
    <3>4. capturing[r] /\ captureId[r] = b => capturing'[r] /\ captureId'[r] = b BY <1>11, <1>15, <1>16, <1>18, <2>4
    <3> QED BY <2>2, <2>4, <3>1, <3>2, <3>3, <3>4 DEF Attempted
  <2>5. CASE o # r
    <3>1. /\ ending'[<<o, b>>] = ending[<<o, b>>] /\ begin'[<<o, b>>] = begin[<<o, b>>]
          /\ captureId'[o] = captureId[o] /\ capturing'[o] = capturing[o]
      BY <1>10, <1>15, <1>18, <1>20, <2>2, <2>5
    <3> QED BY <2>2, <3>1 DEF Attempted
  <2> QED BY <2>3, <2>4, <2>5
<1>28. CaptureIsOwned'
  <2>1. SUFFICES ASSUME captureHeld' PROVE \E o \in Recorders, b \in Capture!Attempts : Owns(o, b)'
    BY DEF CaptureIsOwned
  <2>2. PICK o \in Recorders, b \in Capture!Attempts : Owns(o, b) BY <2>1 DEF CaptureInvariant, CaptureIsOwned
  <2>3. <<o, b>> \in Pairs BY CaptureFacts
  <2>5. EndIsCalled(o, b) => EndIsCalled(o, b)' BY <1>8, <1>21, EndCallStays
  <2>6. CASE o = r /\ b = a
    <3>1. ok
      <4>1. PICK i \in 1 .. Len(answers) : answers[i] = Good(r, a, TRUE) BY <1>4, <2>2, <2>6 DEF Owns, Began, Good
      <4>2. PICK n : n = Good(r, a, TRUE) OBVIOUS
      <4>3. n \in Answers /\ n.call = "begin" /\ n.by = r /\ n.attempt = a /\ n.ok BY <4>2 DEF Answers, Good
      <4>4. ~After(h, n) BY <1>2, <1>5, <4>3 DEF After
      <4>5. n = h BY <4>1, <4>2, <4>3, <4>4 DEF AnswerGoes
      <4> QED BY <1>2, <4>3, <4>5
    <3>2. Began(r, a)' BY <1>6, <1>10, <3>1 DEF Began
    <3>3. CASE ending[<<r, a>>].at = "awaitsBegin"
      <4>1. calls' = Append(calls, Capture!Call("end", r, a)) BY <1>7, <1>21, <3>3
      <4>2. EndIsCalled(r, a)' BY <4>1, EndCalled
      <4> QED BY <2>6, <3>2, <4>2 DEF Owns
    <3>4. CASE capturing[r] /\ captureId[r] = a BY <1>11, <1>15, <1>16, <1>18, <2>6, <3>1, <3>2, <3>4 DEF Owns
    <3>5. CASE EndIsCalled(r, a) BY <2>5, <2>6, <3>2, <3>5 DEF Owns
    <3> QED BY <2>2, <2>6, <3>3, <3>4, <3>5 DEF Owns
  <2>7. CASE ~(o = r /\ b = a)
    <3>1. ending'[<<o, b>>] = ending[<<o, b>>] /\ begin'[<<o, b>>] = begin[<<o, b>>] BY <1>10, <1>20, <2>3, <2>7
    <3>2. h # Good(o, b, TRUE) BY <1>2, <2>7 DEF Good
    <3>3. Began(o, b)' BY <2>2, <3>1, <3>2, BegunStays DEF Owns
    <3>4. capturing[o] /\ captureId[o] = b => capturing'[o] /\ captureId'[o] = b BY <1>11, <1>15, <1>16, <1>18, <2>7
    <3>5. Owns(o, b)' BY <2>2, <2>5, <3>1, <3>3, <3>4 DEF Owns
    <3> QED BY <3>5
  <2> QED BY <2>6, <2>7
<1> QED BY <1>24, <1>25, <1>26, <1>27, <1>28 DEF CaptureInvariant

\* What follows the answer to another call changes no attempt but its own, which is no longer recording.
LEMMA CallIsAnswered ==
  ASSUME Capture!CaptureAssumption, CaptureInvariant, NEW h, AnswerGoes(h), h.call # "begin",
         Capture!EndAnswered(h.by, h.attempt) \/ Capture!AcceptAnswered(h.by, h.attempt), UNCHANGED <<captureHeld, timedOut>>
  PROVE  CaptureInvariant'
<1>t. CaptureTypes BY DEF CaptureInvariant
<1>1. PICK r \in Recorders, a \in Capture!Attempts : r = h.by /\ a = h.attempt BY DEF AnswerGoes, Answers
<1>2. begin[<<r, a>>] \in {"ok", "failed"} BY <1>1 DEF AnswerGoes, Told
<1>3. <<r, a>> \in Pairs /\ Attempted(r, a) BY CaptureFacts DEF CaptureInvariant
<1>4. PICK m : m = Capture!Call("accept", r, a) OBVIOUS
<1>5. m \in Capture!Calls /\ m.call = "accept" /\ m.by = r /\ m.attempt = a BY <1>4, CallIs
<1>6. begin' = begin /\ captureId' = captureId /\ capturing' = capturing BY DEF Capture!EndAnswered, Capture!AcceptAnswered
<1>7. validating' \in [Recorders -> BOOLEAN]
  <2>1. validating' \in {validating, [validating EXCEPT ![r] = FALSE]}
    BY <1>1 DEF Capture!EndAnswered, Capture!AcceptAnswered, Capture!NoLongerBusy
  <2> QED BY <1>t, <2>1 DEF CaptureTypes
<1>8. PICK e \in Endings : e.at \in {"acceptSent", "settled"} /\ (e.at = "acceptSent" => captureId[r] = a) /\ ending' = [ending EXCEPT ![<<r, a>>] = e]
  <2>0. ending[<<r, a>>] \in Endings BY <1>t, <1>3 DEF CaptureTypes
  <2>1. PICK e : e = [ending[<<r, a>>] EXCEPT !.at = "settled"] OBVIOUS
  <2>2. e \in Endings /\ e.at = "settled" BY <2>0, <2>1 DEF Endings
  <2>3. PICK f : f = [ending[<<r, a>>] EXCEPT !.at = "acceptSent"] OBVIOUS
  <2>4. f \in Endings /\ f.at = "acceptSent" BY <2>0, <2>3 DEF Endings
  <2>5. \/ ending' = [ending EXCEPT ![<<r, a>>] = e]
        \/ ending' = [ending EXCEPT ![<<r, a>>] = f] /\ captureId[r] = a
    BY <1>1, <2>1, <2>3 DEF Capture!EndAnswered, Capture!AcceptAnswered
  <2> QED BY <2>2, <2>4, <2>5
<1>9. /\ ending' \in [Pairs -> Endings] /\ ending'[<<r, a>>] = e /\ \A p \in Pairs : p # <<r, a>> => ending'[p] = ending[p]
  BY <1>t, <1>3, <1>8 DEF CaptureTypes
<1>10. calls' \in {calls, Append(calls, m)} BY <1>1, <1>4 DEF Capture!EndAnswered, Capture!AcceptAnswered
<1>11. Told(begin', m) BY <1>2, <1>5, <1>6 DEF Told
<1>12. \A n : Told(begin, n) => Told(begin', n) BY <1>6
<1>13. InOrder' /\ AllTold(begin, calls)' /\ AllTold(begin, answers)' /\ calls' \in Seq(Capture!Calls)
  BY <1>5, <1>10, <1>11, <1>12, AnswerTold
<1>14. CaptureTypes' BY <1>t, <1>6, <1>7, <1>9, <1>13 DEF CaptureTypes, AnswerGoes
<1>15. \A o \in Recorders : Recording(o)' BY <1>6 DEF Recording, CaptureInvariant
<1>16. \A o \in Recorders, b \in Capture!Attempts : Attempted(o, b)'
  <2>1. SUFFICES ASSUME NEW o \in Recorders, NEW b \in Capture!Attempts PROVE Attempted(o, b)' OBVIOUS
  <2>2. Attempted(o, b) /\ <<o, b>> \in Pairs BY CaptureFacts DEF CaptureInvariant
  <2>3. CASE o = r /\ b = a
    <3>1. e.at = "acceptSent" => begin[<<r, a>>] = "ok" BY <1>2, <1>3, <1>8 DEF Attempted
    <3> QED BY <1>2, <1>6, <1>8, <1>9, <2>2, <2>3, <3>1 DEF Attempted
  <2>4. CASE ~(o = r /\ b = a)
    <3>1. ending'[<<o, b>>] = ending[<<o, b>>] BY <1>9, <2>2, <2>4
    <3> QED BY <1>6, <2>2, <3>1 DEF Attempted
  <2> QED BY <2>3, <2>4
<1>17. CaptureIsOwned'
  <2>1. SUFFICES ASSUME captureHeld' PROVE \E o \in Recorders, b \in Capture!Attempts : Owns(o, b)'
    BY DEF CaptureIsOwned
  <2>2. PICK o \in Recorders, b \in Capture!Attempts : Owns(o, b) BY <2>1 DEF CaptureInvariant, CaptureIsOwned
  <2>3. <<o, b>> \in Pairs /\ Attempted(o, b) BY CaptureFacts DEF CaptureInvariant
  <2>4. h # Good(o, b, TRUE) BY DEF Good
  <2>5. Began(o, b)' BY <1>6, <2>2, <2>4, BegunStays DEF Owns
  <2>6. EndIsCalled(o, b) => EndIsCalled(o, b)' BY <1>5, <1>10, EndCallStays
  <2>7. ending[<<o, b>>].at = "awaitsBegin" => ending'[<<o, b>>].at = "awaitsBegin"
    <3>1. ending[<<o, b>>].at = "awaitsBegin" => <<o, b>> # <<r, a>> BY <1>2, <2>3 DEF Attempted
    <3> QED BY <1>9, <2>3, <3>1
  <2>8. Owns(o, b)' BY <1>6, <2>2, <2>5, <2>6, <2>7 DEF Owns
  <2> QED BY <2>8
<1> QED BY <1>13, <1>14, <1>15, <1>16, <1>17 DEF CaptureInvariant

LEMMA AnswersArrive ==
  ASSUME Capture!CaptureAssumption, CaptureInvariant, Capture!Answered PROVE CaptureInvariant'
<1>1. PICK h : h = Head(answers) OBVIOUS
<1>2. AnswerGoes(h) BY <1>1, AnswerIsTaken DEF Capture!Answered
<1>3. CASE h.call = "begin"
  <2>1. Capture!BeginAnswered(h.by, h.attempt, h.ok) /\ UNCHANGED <<captureHeld, timedOut>> BY <1>1, <1>3 DEF Capture!Answered
  <2> QED BY <1>2, <1>3, <2>1, BeginIsAnswered
<1>4. CASE h.call # "begin"
  <2>1. /\ Capture!EndAnswered(h.by, h.attempt) \/ Capture!AcceptAnswered(h.by, h.attempt)
        /\ UNCHANGED <<captureHeld, timedOut>>
    BY <1>1, <1>4 DEF Capture!Answered
  <2> QED BY <1>2, <1>4, <2>1, CallIsAnswered
<1> QED BY <1>3, <1>4


-----------------------------------------------------------------------------
(* The main process                                                        *)

LEMMA CallsAreHandled ==
  ASSUME Capture!CaptureAssumption, CaptureInvariant, Capture!Handle PROVE CaptureInvariant'
<1>t. CaptureTypes BY DEF CaptureInvariant
<1>1. PICK m : m = Head(calls) OBVIOUS
<1>2. calls # <<>> /\ calls' = Tail(calls) BY DEF Capture!Handle
<1>3. /\ calls' \in Seq(Capture!Calls) /\ Len(calls) \in Nat /\ Len(calls) >= 1 /\ m = calls[1] /\ m \in Capture!Calls
      /\ Len(calls') = Len(calls) - 1 /\ \A i \in 1 .. Len(calls') : calls'[i] = calls[i + 1]
  BY <1>t, <1>1, <1>2, FirstGoes DEF CaptureTypes
<1>4. PICK ok \in BOOLEAN : /\ answers' = Append(answers, [call |-> m.call, by |-> m.by, attempt |-> m.attempt, ok |-> ok])
                           /\ (m.call = "begin" => captureHeld' = ok) /\ (m.call = "end" => ~captureHeld')
                           /\ (m.call = "accept" => captureHeld' = captureHeld) /\ timedOut' \in BOOLEAN
                           /\ captureHeld' \in BOOLEAN
  <2>1. PICK ok \in BOOLEAN :
          /\ answers' = Append(answers, [call |-> m.call, by |-> m.by, attempt |-> m.attempt, ok |-> ok])
          /\ captureHeld' = CASE m.call = "begin" -> ok
                             [] m.call = "end" -> FALSE
                             [] m.call = "accept" -> captureHeld
          /\ timedOut' = (timedOut /\ ~(m.call = "begin" /\ ok))
    BY <1>1 DEF Capture!Handle, Capture!EndsCapture
  <2>2. m.call \in {"begin", "end", "accept"} BY <1>3 DEF Capture!Calls
  <2>3. captureHeld' \in BOOLEAN BY <1>t, <2>1, <2>2 DEF CaptureTypes
  <2>4. timedOut' \in BOOLEAN BY <2>1
  <2> QED BY <2>1, <2>3, <2>4
<1>5. PICK n : n = [call |-> m.call, by |-> m.by, attempt |-> m.attempt, ok |-> ok] OBVIOUS
<1>6. n \in Answers /\ n.call = m.call /\ n.by = m.by /\ n.attempt = m.attempt BY <1>3, <1>5 DEF Answers, Capture!Calls
<1>7. UNCHANGED <<captureId, capturing, validating, begin, ending>> BY DEF Capture!Handle, Capture!refs
<1>8. /\ answers' \in Seq(Answers) /\ Len(answers) \in Nat /\ Len(answers') = Len(answers) + 1 /\ answers'[Len(answers) + 1] = n
      /\ \A i \in 1 .. Len(answers) : answers'[i] = answers[i]
  BY <1>t, <1>4, <1>5, <1>6, LastComes DEF CaptureTypes
<1>9. CaptureTypes' BY <1>t, <1>3, <1>4, <1>7, <1>8 DEF CaptureTypes
<1>10. Ordered(answers', calls')
  <2>1. calls \in Seq(Capture!Calls) /\ answers \in Seq(Answers) /\ Ordered(answers, calls)
    BY <1>t, OrderIs DEF CaptureInvariant, CaptureTypes
  <2>2. Ordered(Append(answers, n), Tail(calls)) BY <1>1, <1>2, <1>6, <2>1, CallAnswered
  <2> QED BY <1>2, <1>4, <1>5, <2>2
<1>11. AllTold(begin, answers') /\ AllTold(begin, calls')
  <2>1. AllTold(begin, Tail(calls)) /\ Told(begin, m) BY <1>t, <1>1, <1>2, ToldTail DEF CaptureInvariant, CaptureTypes
  <2>2. Told(begin, n) BY <1>6, <2>1 DEF Told
  <2>3. AllTold(begin, Append(answers, n)) BY <1>t, <1>6, <2>2, ToldAppends DEF CaptureInvariant, CaptureTypes
  <2> QED BY <1>2, <1>4, <1>5, <2>1, <2>3
<1>12. InOrder' /\ AllTold(begin, calls)' /\ AllTold(begin, answers)' BY <1>7, <1>10, <1>11 DEF Ordered, InOrder, AllTold
<1>13. (\A o \in Recorders : Recording(o)') /\ \A o \in Recorders, b \in Capture!Attempts : Attempted(o, b)'
  BY <1>7 DEF Recording, Attempted, CaptureInvariant
<1>14. CaptureIsOwned'
  <2>1. SUFFICES ASSUME captureHeld' PROVE \E o \in Recorders, b \in Capture!Attempts : Owns(o, b)'
    BY DEF CaptureIsOwned
  <2>2. m.call \in {"begin", "end", "accept"} /\ m.by \in Recorders /\ m.attempt \in Capture!Attempts BY <1>3 DEF Capture!Calls
  <2>3. CASE m.call = "begin"
    <3>1. PICK r \in Recorders, a \in Capture!Attempts : r = m.by /\ a = m.attempt BY <2>2
    <3>2. n = [call |-> "begin", by |-> r, attempt |-> a, ok |-> TRUE] BY <1>4, <1>5, <2>1, <2>3, <3>1
    <3>3. Len(answers) + 1 \in 1 .. Len(answers') BY <1>8
    <3>4. Began(r, a)' BY <1>8, <3>2, <3>3 DEF Began
    <3>5. begin[<<r, a>>] = "pending"
      <4>1. Told(begin, m) BY <1>t, <1>1, <1>2, ToldTail DEF CaptureInvariant, CaptureTypes
      <4> QED BY <2>3, <3>1, <4>1 DEF Told
    <3>6. Attempted(r, a) BY DEF CaptureInvariant
    <3>7. Owns(r, a)' BY <1>7, <3>4, <3>5, <3>6 DEF Owns, Attempted
    <3> QED BY <3>7
  <2>4. CASE m.call = "end" BY <1>4, <2>1, <2>4
  <2>5. CASE m.call = "accept"
    <3>1. captureHeld BY <1>4, <2>1, <2>5
    <3>2. PICK o \in Recorders, b \in Capture!Attempts : Owns(o, b) BY <3>1 DEF CaptureInvariant, CaptureIsOwned
    <3>3. Began(o, b)'
      <4>1. CASE begin[<<o, b>>] = "ok" BY <1>7, <4>1 DEF Began
      <4>2. CASE \E i \in 1 .. Len(answers) : answers[i] = [call |-> "begin", by |-> o, attempt |-> b, ok |-> TRUE]
        <5>1. PICK i \in 1 .. Len(answers) : answers[i] = [call |-> "begin", by |-> o, attempt |-> b, ok |-> TRUE] BY <4>2
        <5>2. i \in 1 .. Len(answers') /\ answers'[i] = answers[i] BY <1>8
        <5> QED BY <5>1, <5>2 DEF Began
      <4> QED BY <3>2, <4>1, <4>2 DEF Owns, Began
    <3>4. EndIsCalled(o, b) => EndIsCalled(o, b)'
      <4>1. SUFFICES ASSUME EndIsCalled(o, b) PROVE EndIsCalled(o, b)' OBVIOUS
      <4>2. PICK i \in 1 .. Len(calls) : calls[i] = Capture!Call("end", o, b) BY <4>1 DEF EndIsCalled
      <4>3. i # 1 BY <1>3, <2>5, <4>2, CallIs
      <4>4. i - 1 \in 1 .. Len(calls') /\ (i - 1) + 1 = i BY <1>3, <4>3
      <4>5. calls'[i - 1] = Capture!Call("end", o, b) BY <1>3, <4>2, <4>4
      <4> QED BY <4>4, <4>5 DEF EndIsCalled
    <3>5. Owns(o, b)' BY <1>7, <3>2, <3>3, <3>4 DEF Owns
    <3> QED BY <3>5
  <2> QED BY <2>2, <2>3, <2>4, <2>5
<1> QED BY <1>9, <1>12, <1>13, <1>14 DEF CaptureInvariant

LEMMA CaptureInit == ASSUME Capture!CaptureAssumption, Capture!Init PROVE CaptureInvariant
<1>1. /\ captureId = [r \in Recorders |-> 0] /\ capturing = [r \in Recorders |-> FALSE] /\ validating = [r \in Recorders |-> FALSE]
      /\ begin = [p \in Pairs |-> "none"] /\ ending = [p \in Pairs |-> [then |-> "no", at |-> "none"]]
      /\ calls = <<>> /\ answers = <<>> /\ captureHeld = FALSE /\ timedOut = FALSE
  BY DEF Capture!Init, Pairs
<1>2a. PICK e : e = [then |-> "no", at |-> "none"] OBVIOUS
<1>2. e \in Endings /\ e.at = "none" BY <1>2a DEF Endings
<1>3. ending = [p \in Pairs |-> e] BY <1>1, <1>2a
<1>4. calls \in Seq(Capture!Calls) /\ answers \in Seq(Answers) /\ Len(calls) = 0 /\ Len(answers) = 0 BY <1>1
<1>5. 0 \in 0 .. MaxAttempts + 1 BY CaptureFacts
<1>6. CaptureTypes
  <2>1. captureId \in [Recorders -> 0 .. MaxAttempts + 1] BY <1>1, <1>5
  <2>2. capturing \in [Recorders -> BOOLEAN] /\ validating \in [Recorders -> BOOLEAN] BY <1>1
  <2>3. begin \in [Pairs -> {"none", "pending", "ok", "failed"}] BY <1>1
  <2>4. ending \in [Pairs -> Endings] BY <1>2, <1>3
  <2>5. captureHeld \in BOOLEAN /\ timedOut \in BOOLEAN BY <1>1
  <2> QED BY <1>4, <2>1, <2>2, <2>3, <2>4, <2>5 DEF CaptureTypes
<1>7. InOrder /\ AllTold(begin, calls) /\ AllTold(begin, answers) BY <1>4 DEF InOrder, AllTold
<1>8. \A r \in Recorders : Recording(r) BY <1>1 DEF Recording
<1>9. \A r \in Recorders, a \in Capture!Attempts : Attempted(r, a)
  <2>1. SUFFICES ASSUME NEW r \in Recorders, NEW a \in Capture!Attempts PROVE Attempted(r, a) OBVIOUS
  <2>2. <<r, a>> \in Pairs BY CaptureFacts
  <2>3. begin[<<r, a>>] = "none" /\ ending[<<r, a>>].at = "none" BY <1>1, <1>2, <1>3, <2>2
  <2> QED BY <2>3 DEF Attempted
<1> QED BY <1>1, <1>6, <1>7, <1>8, <1>9 DEF CaptureInvariant, CaptureIsOwned

LEMMA CaptureStep ==
  ASSUME Capture!CaptureAssumption, CaptureInvariant, [Capture!Next]_(Capture!vars) PROVE CaptureInvariant'
<1>1. CASE \E r \in Recorders : Capture!StartCapture(r) \/ Capture!CancelCapture(r) \/ Capture!FinishCapture(r)
  BY <1>1, CaptureStarts, CaptureStops
<1>2. CASE Capture!Answered BY <1>2, AnswersArrive
<1>3. CASE Capture!Handle BY <1>3, CallsAreHandled
<1>4. CASE Capture!CaptureTimerFires \/ UNCHANGED Capture!vars
  <2>1. UNCHANGED <<captureId, capturing, validating, begin, ending, calls, answers>> BY <1>4 DEF Capture!CaptureTimerFires, Capture!refs, Capture!vars
  <2>2. captureHeld' \in BOOLEAN /\ timedOut' \in BOOLEAN /\ (captureHeld' => captureHeld)
    <3>1. captureHeld \in BOOLEAN /\ timedOut \in BOOLEAN BY DEF CaptureInvariant, CaptureTypes
    <3>2. CASE Capture!CaptureTimerFires
      <4>1. captureHeld' = FALSE /\ timedOut' = TRUE BY <3>2 DEF Capture!CaptureTimerFires
      <4> QED BY <4>1
    <3>3. CASE UNCHANGED Capture!vars
      <4>1. captureHeld' = captureHeld /\ timedOut' = timedOut BY <3>3 DEF Capture!vars
      <4> QED BY <3>1, <4>1
    <3> QED BY <1>4, <3>2, <3>3
  <2>3. CaptureTypes' BY <2>1, <2>2 DEF CaptureInvariant, CaptureTypes
  <2>4. InOrder' /\ AllTold(begin, calls)' /\ AllTold(begin, answers)' BY <2>1 DEF CaptureInvariant, InOrder, AllTold
  <2>5. (\A o \in Recorders : Recording(o)') /\ \A o \in Recorders, b \in Capture!Attempts : Attempted(o, b)'
    BY <2>1 DEF Recording, Attempted, CaptureInvariant
  <2>6. \A o \in Recorders, b \in Capture!Attempts : Owns(o, b) => Owns(o, b)' BY <2>1 DEF Owns, Began, EndIsCalled
  <2>7. CaptureIsOwned' BY <2>2, <2>6 DEF CaptureInvariant, CaptureIsOwned
  <2> QED BY <2>3, <2>4, <2>5, <2>7 DEF CaptureInvariant
<1> QED BY <1>1, <1>2, <1>3, <1>4 DEF Capture!Next

\* Whatever recorders are begun, cancelled and finished, in whichever order the answers come
\* and whatever macOS refuses: a shortcut is saved only from an attempt whose capture began, and
\* when everything has been answered the shortcuts work again, though the timer did nothing
\* (ShortcutRecorder finishCapture, endNativeCapture).
THEOREM CapturesArePaired ==
  ASSUME Capture!CaptureAssumption PROVE Capture!Spec => [](Capture!TypeOK /\ Capture!SavedWasCaptured /\ Capture!ReleasedAtRest)
<1>1. Capture!Init => CaptureInvariant BY CaptureInit
<1>2. CaptureInvariant /\ [Capture!Next]_(Capture!vars) => CaptureInvariant' BY CaptureStep
<1>3. CaptureInvariant => Capture!TypeOK /\ Capture!SavedWasCaptured /\ Capture!ReleasedAtRest
  <2>1. SUFFICES ASSUME CaptureInvariant PROVE Capture!TypeOK /\ Capture!SavedWasCaptured /\ Capture!ReleasedAtRest OBVIOUS
  <2>2. CaptureTypes BY <2>1 DEF CaptureInvariant
  <2>3. Capture!TypeOK
    <3>1. \A i \in DOMAIN answers : answers[i] \in Answers BY <2>2 DEF CaptureTypes
    <3> QED BY <2>2, <3>1 DEF CaptureTypes, Capture!TypeOK, Pairs, Endings, Answers
  <2>4. Capture!SavedWasCaptured
    <3>1. SUFFICES ASSUME NEW p \in Pairs, ending[p].at = "acceptSent" PROVE begin[p] = "ok" BY DEF Capture!SavedWasCaptured, Pairs
    <3>2. PICK r \in Recorders, a \in Capture!Attempts : p = <<r, a>> BY DEF Pairs
    <3>3. Attempted(r, a) BY <2>1 DEF CaptureInvariant
    <3> QED BY <3>1, <3>2, <3>3 DEF Attempted
  <2>5. Capture!ReleasedAtRest
    <3>1. SUFFICES ASSUME calls = <<>>, answers = <<>>, \A r \in Recorders : ~capturing[r], captureHeld PROVE FALSE
      BY DEF Capture!ReleasedAtRest
    <3>2. Len(calls) = 0 /\ Len(answers) = 0 BY <3>1
    <3>3. PICK r \in Recorders, a \in Capture!Attempts : Owns(r, a) BY <2>1, <3>1 DEF CaptureInvariant, CaptureIsOwned
    <3>4. begin[<<r, a>>] = "ok" /\ ending[<<r, a>>].at = "awaitsBegin" BY <3>1, <3>2, <3>3 DEF Owns, Began, EndIsCalled
    <3>5. Attempted(r, a) BY <2>1 DEF CaptureInvariant
    <3> QED BY <3>4, <3>5 DEF Attempted
  <2> QED BY <2>3, <2>4, <2>5
<1> QED BY <1>1, <1>2, <1>3, PTL DEF Capture!Spec


-----------------------------------------------------------------------------
(* One recorder alone.                                                     *)

OneRecorder == \A q, r \in Recorders : q = r

\* A call that finishes an attempt, or its answer.
Finishes(m) == m.call # "begin" /\ ending[<<m.by, m.attempt>>].then = "finish"
NonePending == \A r \in Recorders, a \in Capture!Attempts : begin[<<r, a>>] # "pending"
BeginIsOn(r, a) ==
  \/ \E i \in 1 .. Len(answers) : answers[i].call = "begin" /\ answers[i].by = r /\ answers[i].attempt = a
  \/ \E i \in 1 .. Len(calls) : calls[i].call = "begin" /\ calls[i].by = r /\ calls[i].attempt = a

\* The attempts begin, and end, one after the other.
InTurn(r, a) ==
  /\ begin[<<r, a>>] = "pending" => BeginIsOn(r, a)
  /\ begin[<<r, a>>] = "pending" => \A b \in Capture!Attempts : b > a => begin[<<r, b>>] \in {"none", "pending"}
  /\ begin[<<r, a>>] = "none" => ending[<<r, a>>].then = "no"
  /\ ending[<<r, a>>].at = "awaitsBegin" => ending[<<r, a>>].then # "no"
  /\ capturing[r] /\ captureId[r] = a => ending[<<r, a>>].then = "no"
  /\ ending[<<r, a>>].then = "finish" /\ ending[<<r, a>>].at = "awaitsBegin" =>
       validating[r] /\ \A b \in Capture!Attempts : b > a => begin[<<r, b>>] = "none"

EndIsKnown(m) ==
  /\ m.call # "begin" => ending[<<m.by, m.attempt>>].then # "no"
  /\ m.call = "accept" => ending[<<m.by, m.attempt>>].then = "finish"
\* What finishes an attempt is the last message, and nobody records meanwhile.
FinishIsLast(m) == validating[m.by] /\ NonePending
CallsFinish ==
  \A i \in 1 .. Len(calls) :
    /\ EndIsKnown(calls[i])
    /\ Finishes(calls[i]) => i = Len(calls) /\ FinishIsLast(calls[i])
    /\ calls[i].call = "accept" => ~captureHeld
AnswersFinish ==
  \A i \in 1 .. Len(answers) :
    /\ EndIsKnown(answers[i])
    /\ Finishes(answers[i]) => i = Len(answers) /\ calls = <<>> /\ FinishIsLast(answers[i]) /\ ~captureHeld
    /\ answers[i].call = "accept" => answers[i].ok

AloneInvariant ==
  /\ \A r \in Recorders : capturing[r] => ~validating[r]
  /\ \A r \in Recorders, a \in Capture!Attempts : InTurn(r, a)
  /\ CallsFinish /\ AnswersFinish


\* Nothing on its way finishes an attempt.
NothingFinishes ==
  /\ \A i \in 1 .. Len(calls) : ~Finishes(calls[i]) /\ calls[i].call # "accept"
  /\ \A i \in 1 .. Len(answers) : ~Finishes(answers[i]) /\ answers[i].call # "accept"

LEMMA WhileRecording ==
  ASSUME CaptureInvariant, AloneInvariant, OneRecorder, NEW r \in Recorders,
         ~validating[r] \/ \E a \in Capture!Attempts : begin[<<r, a>>] = "pending"
  PROVE  NothingFinishes
<1>1. ASSUME NEW m, FinishIsLast(m), m.by \in Recorders PROVE FALSE
  <2>1. m.by = r BY <1>1 DEF OneRecorder
  <2> QED BY <1>1, <2>1 DEF FinishIsLast, NonePending
<1>2. ASSUME NEW i \in 1 .. Len(calls) PROVE ~Finishes(calls[i]) /\ calls[i].call # "accept"
  <2>1. EndIsKnown(calls[i]) /\ (Finishes(calls[i]) => FinishIsLast(calls[i])) BY <1>2 DEF AloneInvariant, CallsFinish
  <2>2. calls[i].by \in Recorders BY <1>2, LineIs
  <2>3. ~Finishes(calls[i]) BY <1>1, <2>1, <2>2
  <2> QED BY <2>1, <2>3 DEF EndIsKnown, Finishes
<1>3. ASSUME NEW i \in 1 .. Len(answers) PROVE ~Finishes(answers[i]) /\ answers[i].call # "accept"
  <2>1. EndIsKnown(answers[i]) /\ (Finishes(answers[i]) => FinishIsLast(answers[i])) BY <1>3 DEF AloneInvariant, AnswersFinish
  <2>2. answers[i].by \in Recorders BY <1>3, LineIs
  <2>3. ~Finishes(answers[i]) BY <1>1, <2>1, <2>2
  <2> QED BY <2>1, <2>3 DEF EndIsKnown, Finishes
<1> QED BY <1>2, <1>3 DEF NothingFinishes

\* What was said is told the same of its attempt.
SaidBefore(n) ==
  /\ n.call # "begin" => ending'[<<n.by, n.attempt>>].then = ending[<<n.by, n.attempt>>].then
LEMMA NothingFinished ==
  ASSUME NEW n, SaidBefore(n), EndIsKnown(n), ~Finishes(n), n.call # "accept"
  PROVE  n.call # "begin" => ending'[<<n.by, n.attempt>>].then \notin {"no", "finish"}
BY DEF SaidBefore, EndIsKnown, Finishes

\* A call is made while nothing else finishes an attempt.
LEMMA CallIsLast ==
  ASSUME CaptureInvariant, AloneInvariant, NothingFinishes, NEW m \in Capture!Calls, m.call # "accept",
         calls' \in {calls, Append(calls, m)},
         \A i \in 1 .. Len(calls) : SaidBefore(calls[i]), \A i \in 1 .. Len(answers) : SaidBefore(answers[i]),
         \A i \in 1 .. Len(answers') : \E j \in 1 .. Len(answers) : answers'[i] = answers[j],
         calls' # calls /\ m.call # "begin" =>
           /\ ending'[<<m.by, m.attempt>>].then # "no"
           /\ ending'[<<m.by, m.attempt>>].then = "finish" => validating'[m.by] /\ NonePending'
  PROVE  CallsFinish' /\ AnswersFinish'
<1>1. ASSUME NEW i \in 1 .. Len(calls)
      PROVE  calls[i].call # "begin" => calls[i].call # "accept" /\ ending'[<<calls[i].by, calls[i].attempt>>].then \notin {"no", "finish"}
  <2>1. PICK n : n = calls[i] OBVIOUS
  <2>2. SaidBefore(n) /\ EndIsKnown(n) /\ ~Finishes(n) /\ n.call # "accept"
    BY <1>1, <2>1 DEF AloneInvariant, CallsFinish, NothingFinishes
  <2> QED BY <2>1, <2>2, NothingFinished
<1>2. ASSUME NEW i \in 1 .. Len(answers)
      PROVE  answers[i].call # "accept" /\ (answers[i].call # "begin" => ending'[<<answers[i].by, answers[i].attempt>>].then \notin {"no", "finish"})
  <2>1. PICK n : n = answers[i] OBVIOUS
  <2>2. SaidBefore(n) /\ EndIsKnown(n) /\ ~Finishes(n) /\ n.call # "accept"
    BY <1>2, <2>1 DEF AloneInvariant, AnswersFinish, NothingFinishes
  <2> QED BY <2>1, <2>2, NothingFinished
<1>3. AnswersFinish'
  <2>1. SUFFICES ASSUME NEW i \in 1 .. Len(answers')
                 PROVE  /\ EndIsKnown(answers[i])' /\ ~Finishes(answers[i])' /\ (answers'[i].call # "accept")
    BY DEF AnswersFinish
  <2>2. PICK j \in 1 .. Len(answers) : answers'[i] = answers[j] BY <2>1
  <2>3. /\ answers'[i].call # "accept"
        /\ answers'[i].call # "begin" => ending'[<<answers'[i].by, answers'[i].attempt>>].then \notin {"no", "finish"}
    BY <1>2, <2>2
  <2> QED BY <2>3 DEF EndIsKnown, Finishes
<1>4. ASSUME NEW i \in 1 .. Len(calls), calls'[i] = calls[i]
      PROVE  EndIsKnown(calls[i])' /\ ~Finishes(calls[i])' /\ calls'[i].call # "accept"
  <2>1. calls'[i].call # "accept" BY <1>4 DEF NothingFinishes
  <2> QED BY <1>1, <1>4, <2>1 DEF EndIsKnown, Finishes
<1>5. CASE calls' = calls BY <1>3, <1>4, <1>5 DEF CallsFinish
<1>6. CASE calls' # calls
  <2>1. calls \in Seq(Capture!Calls) /\ calls' = Append(calls, m) BY <1>6 DEF CaptureInvariant, CaptureTypes
  <2>2. /\ Len(calls) \in Nat /\ Len(calls') = Len(calls) + 1 /\ calls'[Len(calls) + 1] = m
        /\ \A i \in 1 .. Len(calls) : calls'[i] = calls[i]
    BY <2>1, LastComes
  <2>3. CallsFinish'
    <3>1. SUFFICES ASSUME NEW i \in 1 .. Len(calls')
                   PROVE  /\ EndIsKnown(calls[i])' /\ (Finishes(calls[i])' => i = Len(calls') /\ FinishIsLast(calls[i])')
                          /\ (calls'[i].call # "accept")
      BY DEF CallsFinish
    <3>2. CASE i = Len(calls) + 1
      <4>1. calls'[i] = m /\ i = Len(calls') BY <2>2, <3>2
      <4>2. EndIsKnown(calls[i])' BY <1>6, <4>1 DEF EndIsKnown
      <4>3. Finishes(calls[i])' => FinishIsLast(calls[i])' BY <1>6, <4>1 DEF Finishes, FinishIsLast
      <4> QED BY <4>1, <4>2, <4>3
    <3>3. CASE i # Len(calls) + 1
      <4>1. i \in 1 .. Len(calls) /\ calls'[i] = calls[i] BY <2>2, <3>3
      <4> QED BY <1>4, <4>1
    <3> QED BY <3>2, <3>3
  <2> QED BY <1>3, <2>3
<1> QED BY <1>5, <1>6

LEMMA BeginStaysOn ==
  ASSUME CaptureInvariant, NEW m \in Capture!Calls, calls' \in {calls, Append(calls, m)}, NEW r, NEW a,
         answers' = answers \/ \E h \in Answers : AnswerGoes(h) /\ ~(h.call = "begin" /\ h.by = r /\ h.attempt = a),
         BeginIsOn(r, a)
  PROVE  BeginIsOn(r, a)'
<1>1. CASE \E i \in 1 .. Len(answers) : answers[i].call = "begin" /\ answers[i].by = r /\ answers[i].attempt = a
  <2>1. PICK i \in 1 .. Len(answers) : answers[i].call = "begin" /\ answers[i].by = r /\ answers[i].attempt = a BY <1>1
  <2>2. answers[i] \in Answers BY LineIs
  <2>3. \E j \in 1 .. Len(answers') : answers'[j] = answers[i]
    <3>1. CASE answers' = answers BY <3>1
    <3>2. CASE answers' # answers
      <4>1. PICK h \in Answers : AnswerGoes(h) /\ ~(h.call = "begin" /\ h.by = r /\ h.attempt = a) BY <3>2
      <4>2. answers[i] # h BY <2>1, <4>1
      <4> QED BY <2>2, <4>1, <4>2 DEF AnswerGoes
    <3> QED BY <3>1, <3>2
  <2> QED BY <2>1, <2>3 DEF BeginIsOn
<1>2. CASE \E i \in 1 .. Len(calls) : calls[i].call = "begin" /\ calls[i].by = r /\ calls[i].attempt = a
  <2>1. PICK i \in 1 .. Len(calls) : calls[i].call = "begin" /\ calls[i].by = r /\ calls[i].attempt = a BY <1>2
  <2>2. calls \in Seq(Capture!Calls) BY DEF CaptureInvariant, CaptureTypes
  <2>3. i \in 1 .. Len(calls') /\ calls'[i] = calls[i]
    <3>1. CASE calls' = calls BY <3>1
    <3>2. CASE calls' = Append(calls, m)
      <4>1. Len(calls) \in Nat /\ Len(calls') = Len(calls) + 1 /\ calls'[i] = calls[i] BY <2>2, <3>2, LastComes
      <4> QED BY <4>1
    <3> QED BY <3>1, <3>2
  <2> QED BY <2>1, <2>3 DEF BeginIsOn
<1> QED BY <1>1, <1>2 DEF BeginIsOn


LEMMA StartsAlone ==
  ASSUME Capture!CaptureAssumption, CaptureInvariant, AloneInvariant, OneRecorder, NEW r \in Recorders, Capture!StartCapture(r)
  PROVE  AloneInvariant'
<1>1. PICK a : a = captureId[r] + 1 OBVIOUS
<1>t. CaptureTypes BY DEF CaptureInvariant
<1>2. captureId[r] \in 0 .. MaxAttempts + 1 /\ captureId[r] < MaxAttempts BY <1>t DEF CaptureTypes, Capture!StartCapture
<1>3. a \in Capture!Attempts /\ a > captureId[r] BY <1>1, <1>2, CaptureFacts
<1>4. PICK m : m = Capture!Call("begin", r, a) OBVIOUS
<1>5. m \in Capture!Calls /\ m.call = "begin" /\ m.by = r /\ m.attempt = a BY <1>3, <1>4, CallIs
<1>6. /\ captureId' = [captureId EXCEPT ![r] = a] /\ begin' = [begin EXCEPT ![<<r, a>>] = "pending"] /\ calls' = Append(calls, m)
      /\ validating' = validating /\ ending' = ending /\ answers' = answers /\ ~validating[r]
  BY <1>1, <1>4 DEF Capture!StartCapture
<1>7. <<r, a>> \in Pairs BY <1>3, CaptureFacts
<1>8. begin[<<r, a>>] = "none" /\ ending[<<r, a>>].then = "no"
  <2>1. Attempted(r, a) /\ InTurn(r, a) BY <1>3 DEF CaptureInvariant, AloneInvariant
  <2> QED BY <1>3, <2>1 DEF Attempted, InTurn
<1>9. begin'[<<r, a>>] = "pending" /\ \A p \in Pairs : p # <<r, a>> => begin'[p] = begin[p]
  BY <1>t, <1>6, <1>7 DEF CaptureTypes
<1>10. captureId'[r] = a BY <1>t, <1>6 DEF CaptureTypes
<1>11. NothingFinishes BY <1>6, WhileRecording
<1>12. CallsFinish' /\ AnswersFinish'
  <2>1. \A n : SaidBefore(n) BY <1>6 DEF SaidBefore
  <2> QED BY <1>5, <1>6, <1>11, <2>1, CallIsLast
<1>13. \A o \in Recorders : o = r BY DEF OneRecorder
<1>14. BeginIsOn(r, a)'
  <2>1. Len(calls) \in Nat /\ Len(calls') = Len(calls) + 1 /\ calls'[Len(calls) + 1] = m BY <1>t, <1>5, <1>6, LastComes DEF CaptureTypes
  <2>2. Len(calls) + 1 \in 1 .. Len(calls') BY <2>1
  <2> QED BY <1>5, <2>1, <2>2 DEF BeginIsOn
<1>15. ASSUME NEW b \in Capture!Attempts PROVE InTurn(r, b)'
  <2>1. InTurn(r, b) /\ <<r, b>> \in Pairs BY CaptureFacts DEF AloneInvariant
  <2>2. ASSUME NEW c \in Capture!Attempts, begin[<<r, c>>] \in {"none", "pending"} PROVE begin'[<<r, c>>] \in {"none", "pending"}
    <3>1. <<r, c>> \in Pairs BY CaptureFacts
    <3> QED BY <1>9, <2>2, <3>1
  <2>3. ~(ending'[<<r, b>>].then = "finish" /\ ending'[<<r, b>>].at = "awaitsBegin") BY <1>6, <2>1 DEF InTurn
  <2>6. ending'[<<r, b>>].at = "awaitsBegin" => ending'[<<r, b>>].then # "no" BY <1>6, <2>1 DEF InTurn
  <2>4. CASE b = a
    <3>1. \A c \in Capture!Attempts : c > a => begin'[<<r, c>>] \in {"none", "pending"}
      <4>1. SUFFICES ASSUME NEW c \in Capture!Attempts, c > a PROVE begin[<<r, c>>] = "none" BY <2>2
      <4>2. c > captureId[r] BY <1>1, <1>2, <4>1, CaptureFacts
      <4>3. Attempted(r, c) BY DEF CaptureInvariant
      <4> QED BY <4>2, <4>3 DEF Attempted
    <3> QED BY <1>6, <1>8, <1>9, <1>14, <2>3, <2>4, <2>6, <3>1 DEF InTurn
  <2>5. CASE b # a
    <3>1. begin'[<<r, b>>] = begin[<<r, b>>] BY <1>9, <2>1, <2>5
    <3>2. begin'[<<r, b>>] = "pending" => BeginIsOn(r, b)' BY <1>5, <1>6, <2>1, <3>1, BeginStaysOn DEF InTurn
    <3>3. begin'[<<r, b>>] = "pending" => \A c \in Capture!Attempts : c > b => begin'[<<r, c>>] \in {"none", "pending"}
      BY <2>1, <2>2, <3>1 DEF InTurn
    <3>4. begin'[<<r, b>>] = "none" => ending'[<<r, b>>].then = "no" BY <1>6, <2>1, <3>1 DEF InTurn
    <3> QED BY <1>10, <2>3, <2>5, <2>6, <3>2, <3>3, <3>4 DEF InTurn
  <2> QED BY <2>4, <2>5
<1>16. \A o \in Recorders : capturing'[o] => ~validating'[o] BY <1>6, <1>13
<1> QED BY <1>12, <1>13, <1>15, <1>16 DEF AloneInvariant

LEMMA StopsAlone ==
  ASSUME Capture!CaptureAssumption, CaptureInvariant, AloneInvariant, OneRecorder, NEW r \in Recorders,
         Capture!CancelCapture(r) \/ Capture!FinishCapture(r)
  PROVE  AloneInvariant'
<1>t. CaptureTypes BY DEF CaptureInvariant
<1>1. PICK c : c = captureId[r] OBVIOUS
<1>2. capturing[r] /\ ~validating[r] BY DEF Capture!CancelCapture, Capture!FinishCapture, AloneInvariant
<1>3. c \in Capture!Attempts /\ begin[<<r, c>>] \in {"pending", "ok"} BY <1>1, <1>2 DEF Recording, CaptureInvariant
<1>4. <<r, c>> \in Pairs /\ InTurn(r, c) /\ ending[<<r, c>>].then = "no"
  <2>1. InTurn(r, c) BY <1>3 DEF AloneInvariant
  <2> QED BY <1>1, <1>2, <1>3, <2>1, CaptureFacts DEF InTurn
<1>5. PICK then \in {"cancel", "finish"} :
        Capture!EndNative(r, c, then) /\ (then = "finish" => validating' = [validating EXCEPT ![r] = TRUE])
  BY <1>1 DEF Capture!CancelCapture, Capture!FinishCapture
<1>6. PICK m : m = Capture!Call("end", r, c) OBVIOUS
<1>7. m \in Capture!Calls /\ m.call = "end" /\ m.by = r /\ m.attempt = c BY <1>3, <1>6, CallIs
<1>8. calls' = IF begin[<<r, c>>] = "ok" THEN Append(calls, m) ELSE calls
  BY <1>3, <1>5, <1>6 DEF Capture!EndNative, Capture!BeginSettled
<1>9. ending'[<<r, c>>].then = then /\ \A p \in Pairs : p # <<r, c>> => ending'[p] = ending[p]
  <2>1. \/ ending' = [ending EXCEPT ![<<r, c>>] = [then |-> then, at |-> "endSent"]]
        \/ ending' = [ending EXCEPT ![<<r, c>>] = [then |-> then, at |-> "awaitsBegin"]]
    BY <1>5 DEF Capture!EndNative
  <2> QED BY <1>t, <1>4, <2>1 DEF CaptureTypes
<1>10. begin' = begin /\ answers' = answers /\ capturing' = [capturing EXCEPT ![r] = FALSE]
  BY DEF Capture!CancelCapture, Capture!FinishCapture
<1>11. ~capturing'[r] BY <1>t, <1>10 DEF CaptureTypes
<1>12. then = "finish" => validating'[r] BY <1>t, <1>5 DEF CaptureTypes
<1>13. \A o \in Recorders : o = r BY DEF OneRecorder
<1>14. NothingFinishes BY <1>2, WhileRecording
<1>15. \A b \in Capture!Attempts : b > c => begin[<<r, b>>] = "none"
  <2>1. \A b \in Capture!Attempts : Attempted(r, b) BY DEF CaptureInvariant
  <2> QED BY <1>1, <2>1 DEF Attempted
<1>16. begin[<<r, c>>] = "ok" => NonePending
  <2>1. SUFFICES ASSUME begin[<<r, c>>] = "ok", NEW b \in Capture!Attempts, begin[<<r, b>>] = "pending" PROVE FALSE
    BY <1>13 DEF NonePending
  <2>2. InTurn(r, b) BY DEF AloneInvariant
  <2>3. ~(c > b) BY <1>3, <2>1, <2>2 DEF InTurn
  <2>4. ~(b > c) BY <1>15, <2>1
  <2>5. b # c BY <2>1
  <2> QED BY <1>3, <2>3, <2>4, <2>5, CaptureFacts
<1>17. ASSUME NEW n, EndIsKnown(n), n.by \in Recorders, n.attempt \in Capture!Attempts PROVE SaidBefore(n)
  <2>1. CASE <<n.by, n.attempt>> = <<r, c>> BY <1>4, <1>17, <2>1 DEF SaidBefore, EndIsKnown
  <2>2. CASE <<n.by, n.attempt>> # <<r, c>>
    <3>1. <<n.by, n.attempt>> \in Pairs BY <1>17, CaptureFacts
    <3> QED BY <1>9, <2>2, <3>1 DEF SaidBefore
  <2> QED BY <2>1, <2>2
<1>18. CallsFinish' /\ AnswersFinish'
  <2>1. \A i \in 1 .. Len(calls) : SaidBefore(calls[i]) BY <1>17, LineIs DEF AloneInvariant, CallsFinish
  <2>2. \A i \in 1 .. Len(answers) : SaidBefore(answers[i]) BY <1>17, LineIs DEF AloneInvariant, AnswersFinish
  <2>3. calls' # calls => /\ ending'[<<m.by, m.attempt>>].then # "no"
                          /\ ending'[<<m.by, m.attempt>>].then = "finish" => validating'[m.by] /\ NonePending'
    <3>1. NonePending' <=> NonePending BY <1>10 DEF NonePending
    <3> QED BY <1>5, <1>7, <1>8, <1>9, <1>12, <1>16, <3>1
  <2>4. calls' \in {calls, Append(calls, m)} BY <1>8
  <2>5. \A i \in 1 .. Len(answers') : \E j \in 1 .. Len(answers) : answers'[i] = answers[j] BY <1>10
  <2> QED BY <1>7, <1>14, <2>1, <2>2, <2>3, <2>4, <2>5, CallIsLast
<1>19. ASSUME NEW b \in Capture!Attempts PROVE InTurn(r, b)'
  <2>1. InTurn(r, b) /\ <<r, b>> \in Pairs BY CaptureFacts DEF AloneInvariant
  <2>2. begin[<<r, b>>] = "pending" => BeginIsOn(r, b)'
    <3>1. calls' \in {calls, Append(calls, m)} BY <1>8
    <3> QED BY <1>7, <1>10, <2>1, <3>1, BeginStaysOn DEF InTurn
  <2>3. begin'[<<r, b>>] = "pending" => \A d \in Capture!Attempts : d > b => begin'[<<r, d>>] \in {"none", "pending"}
    BY <1>10, <2>1 DEF InTurn
  <2>4. CASE b = c BY <1>3, <1>9, <1>10, <1>11, <1>12, <1>15, <2>2, <2>3, <2>4 DEF InTurn
  <2>5. CASE b # c
    <3>1. ending'[<<r, b>>] = ending[<<r, b>>] BY <1>9, <2>1, <2>5
    <3>2. ~(ending[<<r, b>>].then = "finish" /\ ending[<<r, b>>].at = "awaitsBegin") BY <1>2, <2>1 DEF InTurn
    <3>3. begin'[<<r, b>>] = "none" => ending'[<<r, b>>].then = "no" BY <1>10, <2>1, <3>1 DEF InTurn
    <3>4. ending'[<<r, b>>].at = "awaitsBegin" => ending'[<<r, b>>].then # "no" BY <2>1, <3>1 DEF InTurn
    <3> QED BY <1>10, <1>11, <2>2, <2>3, <3>1, <3>2, <3>3, <3>4 DEF InTurn
  <2> QED BY <2>4, <2>5
<1>20. \A o \in Recorders : capturing'[o] => ~validating'[o] BY <1>11, <1>13
<1> QED BY <1>13, <1>18, <1>19, <1>20 DEF AloneInvariant


LEMMA BeginsAlone ==
  ASSUME Capture!CaptureAssumption, CaptureInvariant, CaptureInvariant', AloneInvariant, OneRecorder, NEW h, AnswerGoes(h), h.call = "begin",
         answers # <<>>, h = Head(answers), Capture!BeginAnswered(h.by, h.attempt, h.ok)
  PROVE  AloneInvariant'
<1>t. CaptureTypes BY DEF CaptureInvariant
<1>1. PICK r \in Recorders, a \in Capture!Attempts, ok \in BOOLEAN : h.by = r /\ h.attempt = a /\ h.ok = ok
  BY DEF AnswerGoes, Answers
<1>2. Capture!BeginAnswered(r, a, ok) BY <1>1
<1>3. begin[<<r, a>>] = "pending" BY <1>1 DEF AnswerGoes, Told
<1>4. <<r, a>> \in Pairs /\ InTurn(r, a) /\ Attempted(r, a) BY CaptureFacts DEF AloneInvariant, CaptureInvariant
<1>5. PICK m : m = Capture!Call("end", r, a) OBVIOUS
<1>6. m \in Capture!Calls /\ m.call = "end" /\ m.by = r /\ m.attempt = a BY <1>5, CallIs
<1>7. /\ begin'[<<r, a>>] \in {"ok", "failed"} /\ \A p \in Pairs : p # <<r, a>> => begin'[p] = begin[p]
  BY <1>t, <1>2, <1>4 DEF Capture!BeginAnswered, CaptureTypes
<1>8. /\ ending'[<<r, a>>].then = ending[<<r, a>>].then /\ ending'[<<r, a>>].at # "awaitsBegin"
      /\ \A p \in Pairs : p # <<r, a>> => ending'[p] = ending[p]
  <2>0. ending[<<r, a>>] \in Endings BY <1>t, <1>4 DEF CaptureTypes
  <2>1. CASE ending[<<r, a>>].at = "awaitsBegin"
    <3>1. ending' = [ending EXCEPT ![<<r, a>>].at = "endSent"] BY <1>2, <2>1 DEF Capture!BeginAnswered
    <3> QED BY <1>t, <1>4, <2>0, <3>1 DEF CaptureTypes, Endings
  <2>2. CASE ending[<<r, a>>].at # "awaitsBegin"
    <3>1. ending' = ending BY <1>2, <2>2 DEF Capture!BeginAnswered
    <3> QED BY <2>2, <3>1
  <2> QED BY <2>1, <2>2
<1>9. calls' = (IF ending[<<r, a>>].at = "awaitsBegin" THEN Append(calls, m) ELSE calls) /\ validating' = validating
  BY <1>2, <1>5 DEF Capture!BeginAnswered
<1>10. (capturing'[r] => capturing[r]) /\ (capturing'[r] => captureId'[r] = captureId[r])
  <2>1. capturing'[r] = (capturing[r] /\ (ok \/ captureId[r] # a)) BY <1>t, <1>2 DEF Capture!BeginAnswered, CaptureTypes
  <2>2. captureId'[r] = (IF ~ok /\ captureId[r] = a THEN a + 1 ELSE captureId[r])
    BY <1>t, <1>2 DEF Capture!BeginAnswered, Capture!Invalidated, CaptureTypes
  <2> QED BY <2>1, <2>2
<1>11. \A o \in Recorders : o = r BY DEF OneRecorder
<1>12. NothingFinishes BY <1>3, WhileRecording
<1>13. \A n : n.by \in Recorders /\ n.attempt \in Capture!Attempts => SaidBefore(n) BY <1>8, CaptureFacts DEF SaidBefore
\* Attempts are answered in their order.
<1>14. ASSUME NEW b \in Capture!Attempts, begin[<<r, b>>] = "pending" PROVE b >= a
  <2>1. InTurn(r, b) BY DEF AloneInvariant
  <2>2. BeginIsOn(r, b) BY <1>14, <2>1 DEF InTurn
  <2>3. CASE \E i \in 1 .. Len(answers) : answers[i].call = "begin" /\ answers[i].by = r /\ answers[i].attempt = b
    <3>1. PICK i \in 1 .. Len(answers) : answers[i].call = "begin" /\ answers[i].by = r /\ answers[i].attempt = b BY <2>3
    <3>2. CASE answers[i] = h BY <1>1, <3>1, <3>2, CaptureFacts
    <3>3. CASE answers[i] # h
      <4>1. answers[i] \in Answers BY LineIs
      <4>2. PICK j \in 1 .. Len(answers') : answers'[j] = answers[i] BY <3>3, <4>1 DEF AnswerGoes
      <4>3. After(h, answers'[j]) BY DEF AnswerGoes
      <4>4. a < b BY <1>1, <3>1, <4>2, <4>3 DEF After
      <4> QED BY <4>4, CaptureFacts
    <3> QED BY <3>2, <3>3
  <2>4. CASE \E i \in 1 .. Len(calls) : calls[i].call = "begin" /\ calls[i].by = r /\ calls[i].attempt = b
    <3>1. PICK i \in 1 .. Len(calls) : calls[i].call = "begin" /\ calls[i].by = r /\ calls[i].attempt = b BY <2>4
    <3>2. After(h, calls[i]) BY DEF AnswerGoes
    <3>3. a < b BY <1>1, <3>1, <3>2 DEF After
    <3> QED BY <3>3, CaptureFacts
  <2> QED BY <2>2, <2>3, <2>4 DEF BeginIsOn
<1>15. ASSUME ending[<<r, a>>].then = "finish", ending[<<r, a>>].at = "awaitsBegin" PROVE validating'[r] /\ NonePending'
  <2>1. validating[r] /\ \A b \in Capture!Attempts : b > a => begin[<<r, b>>] = "none" BY <1>4, <1>15 DEF InTurn
  <2>2. SUFFICES ASSUME NEW b \in Capture!Attempts, begin'[<<r, b>>] = "pending" PROVE FALSE
    BY <1>9, <1>11, <2>1 DEF NonePending
  <2>3. <<r, b>> \in Pairs /\ b # a BY <1>7, <2>2, CaptureFacts
  <2>4. begin[<<r, b>>] = "pending" BY <1>7, <2>2, <2>3
  <2>5. b > a BY <1>14, <2>3, <2>4, CaptureFacts
  <2> QED BY <2>1, <2>4, <2>5
<1>16. CallsFinish' /\ AnswersFinish'
  <2>1. (\A i \in 1 .. Len(calls) : SaidBefore(calls[i])) /\ \A i \in 1 .. Len(answers) : SaidBefore(answers[i]) BY <1>13, LineIs
  <2>2. \A i \in 1 .. Len(answers') : \E j \in 1 .. Len(answers) : answers'[i] = answers[j]
    <3>1. answers \in Seq(Answers) /\ answers' = Tail(answers) BY <1>t DEF CaptureTypes, AnswerGoes
    <3> QED BY <3>1, FirstGoes
  <2>3. calls' # calls => ending[<<r, a>>].at = "awaitsBegin" BY <1>9
  <2>4. calls' # calls => /\ ending'[<<m.by, m.attempt>>].then # "no"
                          /\ ending'[<<m.by, m.attempt>>].then = "finish" => validating'[m.by] /\ NonePending'
    <3>1. SUFFICES ASSUME ending[<<r, a>>].at = "awaitsBegin"
                   PROVE  /\ ending'[<<r, a>>].then # "no"
                          /\ ending'[<<r, a>>].then = "finish" => validating'[r] /\ NonePending'
      BY <1>6, <2>3
    <3>2. ending[<<r, a>>].then = "finish" => validating'[r] /\ NonePending' BY <1>15, <3>1
    <3>3. ending[<<r, a>>].then # "no" BY <1>4, <3>1 DEF InTurn
    <3> QED BY <1>8, <3>2, <3>3
  <2>5. calls' \in {calls, Append(calls, m)} BY <1>9
  <2> QED BY <1>6, <1>12, <2>1, <2>2, <2>4, <2>5, CallIsLast
<1>17. ASSUME NEW b \in Capture!Attempts PROVE InTurn(r, b)'
  <2>1. InTurn(r, b) /\ <<r, b>> \in Pairs BY CaptureFacts DEF AloneInvariant
  <2>2. ending'[<<r, b>>].then = ending[<<r, b>>].then BY <1>8, <2>1
  <2>3. capturing'[r] /\ captureId'[r] = b => ending'[<<r, b>>].then = "no" BY <1>10, <2>1, <2>2 DEF InTurn
  <2>4. CASE b = a BY <1>7, <1>8, <2>3, <2>4 DEF InTurn
  <2>5. CASE b # a
    <3>1. begin'[<<r, b>>] = begin[<<r, b>>] /\ ending'[<<r, b>>] = ending[<<r, b>>] BY <1>7, <1>8, <2>1, <2>5
    <3>2. begin'[<<r, b>>] = "pending" => BeginIsOn(r, b)'
      <4>1. calls' \in {calls, Append(calls, m)} BY <1>9
      <4>2. h \in Answers /\ ~(h.call = "begin" /\ h.by = r /\ h.attempt = b) BY <1>1, <2>5 DEF AnswerGoes
      <4> QED BY <1>6, <2>1, <3>1, <4>1, <4>2, BeginStaysOn DEF InTurn
    <3>3. ASSUME begin'[<<r, b>>] = "pending", NEW c \in Capture!Attempts, c > b PROVE begin'[<<r, c>>] \in {"none", "pending"}
      <4>1. c # a
        <5>1. b >= a BY <1>14, <3>1, <3>3
        <5> QED BY <3>3, <5>1, CaptureFacts
      <4>2. begin'[<<r, c>>] = begin[<<r, c>>] BY <1>7, <4>1, CaptureFacts
      <4> QED BY <2>1, <3>1, <3>3, <4>2 DEF InTurn
    <3>4. begin'[<<r, b>>] = "none" => ending'[<<r, b>>].then = "no" BY <2>1, <3>1 DEF InTurn
    <3>5. ending'[<<r, b>>].then = "finish" /\ ending'[<<r, b>>].at = "awaitsBegin" =>
            validating'[r] /\ \A c \in Capture!Attempts : c > b => begin'[<<r, c>>] = "none"
      <4>1. SUFFICES ASSUME ending[<<r, b>>].then = "finish", ending[<<r, b>>].at = "awaitsBegin"
                     PROVE  validating'[r] /\ \A c \in Capture!Attempts : c > b => begin'[<<r, c>>] = "none"
        BY <3>1
      <4>2. validating[r] /\ \A c \in Capture!Attempts : c > b => begin[<<r, c>>] = "none" BY <2>1, <4>1 DEF InTurn
      <4>3. ASSUME NEW c \in Capture!Attempts, c > b PROVE begin'[<<r, c>>] = "none"
        <5>1. begin[<<r, c>>] = "none" BY <4>2, <4>3
        <5>2. <<r, c>> \in Pairs /\ c # a BY <1>3, <5>1, CaptureFacts
        <5> QED BY <1>7, <5>1, <5>2
      <4> QED BY <1>9, <4>2, <4>3
    <3>6. ending'[<<r, b>>].at = "awaitsBegin" => ending'[<<r, b>>].then # "no" BY <2>1, <3>1 DEF InTurn
    <3> QED BY <2>3, <3>2, <3>3, <3>4, <3>5, <3>6 DEF InTurn
  <2> QED BY <2>4, <2>5
<1>18. \A o \in Recorders : capturing'[o] => ~validating'[o] BY <1>9, <1>10, <1>11 DEF AloneInvariant
<1> QED BY <1>11, <1>16, <1>17, <1>18 DEF AloneInvariant


\* The answer to another call changes no attempt but its own.
LEMMA AnswersAlone ==
  ASSUME Capture!CaptureAssumption, CaptureInvariant, AloneInvariant, OneRecorder, NEW h, AnswerGoes(h), h.call # "begin",
         answers # <<>>, h = Head(answers), captureHeld' = captureHeld,
         h.call = "end" => Capture!EndAnswered(h.by, h.attempt), h.call = "accept" => Capture!AcceptAnswered(h.by, h.attempt)
  PROVE  AloneInvariant'
<1>t. CaptureTypes BY DEF CaptureInvariant
<1>1. PICK r \in Recorders, a \in Capture!Attempts : h.by = r /\ h.attempt = a BY DEF AnswerGoes, Answers
<1>2. h.call \in {"end", "accept"} BY DEF AnswerGoes, Answers
<1>3. Capture!EndAnswered(r, a) \/ Capture!AcceptAnswered(r, a) BY <1>1, <1>2
<1>4. <<r, a>> \in Pairs BY CaptureFacts
<1>5. begin' = begin /\ captureId' = captureId /\ capturing' = capturing BY <1>3 DEF Capture!EndAnswered, Capture!AcceptAnswered
<1>6. PICK m : m = Capture!Call("accept", r, a) OBVIOUS
<1>7. m \in Capture!Calls /\ m.call = "accept" /\ m.by = r /\ m.attempt = a BY <1>6, CallIs
<1>8. /\ calls' \in {calls, Append(calls, m)}
      /\ calls' # calls => validating' = validating /\ ending[<<r, a>>].then = "finish"
      /\ \A o \in Recorders : validating'[o] => validating[o]
      /\ ~Finishes(h) => calls' = calls /\ validating' = validating
  <2>1. CASE h.call = "end"
    <3>1. Capture!EndAnswered(r, a) BY <1>1, <2>1
    <3>2. validating' \in {validating, [validating EXCEPT ![r] = FALSE]} BY <3>1 DEF Capture!EndAnswered, Capture!NoLongerBusy
    <3>3. \A o \in Recorders : validating'[o] => validating[o] BY <1>t, <3>2 DEF CaptureTypes
    <3>4. calls' \in {calls, Append(calls, m)} /\ (calls' # calls => validating' = validating /\ ending[<<r, a>>].then = "finish")
      BY <1>6, <3>1 DEF Capture!EndAnswered
    <3>5. ~Finishes(h) => ending[<<r, a>>].then # "finish" BY <1>1, <2>1 DEF Finishes
    <3>6. ending[<<r, a>>].then # "finish" => calls' = calls /\ validating' = validating BY <3>1 DEF Capture!EndAnswered
    <3> QED BY <3>3, <3>4, <3>5, <3>6
  <2>2. CASE h.call = "accept"
    <3>1. Capture!AcceptAnswered(r, a) BY <1>1, <2>2
    <3>2. calls' = calls /\ validating' = [validating EXCEPT ![r] = FALSE] BY <3>1 DEF Capture!AcceptAnswered
    <3>3. \A o \in Recorders : validating'[o] => validating[o] BY <1>t, <3>2 DEF CaptureTypes
    <3>4. Finishes(h)
      <4>1. 1 \in 1 .. Len(answers) /\ answers[1] = h BY <1>t, FirstGoes DEF CaptureTypes
      <4>2. EndIsKnown(h) BY <4>1 DEF AloneInvariant, AnswersFinish
      <4> QED BY <2>2, <4>2 DEF EndIsKnown, Finishes
    <3> QED BY <3>2, <3>3, <3>4
  <2> QED BY <1>2, <2>1, <2>2
<1>9. /\ ending'[<<r, a>>].then = ending[<<r, a>>].then /\ ending'[<<r, a>>].at # "awaitsBegin"
      /\ \A p \in Pairs : p # <<r, a>> => ending'[p] = ending[p]
  <2>0. ending[<<r, a>>] \in Endings BY <1>t, <1>4 DEF CaptureTypes
  <2>1. \/ ending' = [ending EXCEPT ![<<r, a>>].at = "acceptSent"] \/ ending' = [ending EXCEPT ![<<r, a>>].at = "settled"]
    BY <1>3 DEF Capture!EndAnswered, Capture!AcceptAnswered
  <2>2. CASE ending' = [ending EXCEPT ![<<r, a>>].at = "acceptSent"] BY <1>t, <1>4, <2>0, <2>2 DEF CaptureTypes, Endings
  <2>3. CASE ending' = [ending EXCEPT ![<<r, a>>].at = "settled"] BY <1>t, <1>4, <2>0, <2>3 DEF CaptureTypes, Endings
  <2> QED BY <2>1, <2>2, <2>3
<1>10. \A p \in Pairs : ending'[p].then = ending[p].then BY <1>9
<1>11. \A o \in Recorders : o = r BY DEF OneRecorder
<1>12. /\ answers \in Seq(Answers) /\ answers' = Tail(answers) /\ Len(answers) \in Nat /\ Len(answers) >= 1 /\ Len(answers') = Len(answers) - 1
       /\ h = answers[1] /\ \A i \in 1 .. Len(answers') : answers'[i] = answers[i + 1] /\ i + 1 \in 1 .. Len(answers)
  BY <1>t, FirstGoes DEF CaptureTypes, AnswerGoes
<1>13. 1 \in 1 .. Len(answers) BY <1>12
<1>14. EndIsKnown(h) /\ (Finishes(h) => 1 = Len(answers) /\ calls = <<>> /\ FinishIsLast(h) /\ ~captureHeld)
  <2>1. /\ EndIsKnown(answers[1])
        /\ Finishes(answers[1]) => 1 = Len(answers) /\ calls = <<>> /\ FinishIsLast(answers[1]) /\ ~captureHeld
    BY <1>13 DEF AloneInvariant, AnswersFinish
  <2>2. answers[1] = h BY <1>12
  <2> QED BY <2>1, <2>2
<1>15. CallsFinish' /\ AnswersFinish'
  <2>1. CASE Finishes(h)
    <3>1. Len(answers') = 0 /\ Len(calls) = 0 /\ FinishIsLast(h) /\ ~captureHeld BY <1>12, <1>14, <2>1
    <3>2. AnswersFinish' BY <3>1 DEF AnswersFinish
    <3>3. CASE calls' = calls BY <3>1, <3>2, <3>3 DEF CallsFinish
    <3>4. CASE calls' # calls
      <4>1. calls' = Append(calls, m) /\ validating' = validating /\ ending'[<<r, a>>].then = "finish" BY <1>8, <1>9, <3>4
      <4>2. Len(calls') = 1 /\ calls'[1] = m BY <1>t, <1>7, <3>1, <4>1, LastComes DEF CaptureTypes
      <4>3. validating'[r] /\ NonePending' BY <1>1, <1>5, <3>1, <4>1 DEF FinishIsLast, NonePending
      <4>4. CallsFinish'
        <5>1. SUFFICES ASSUME NEW i \in 1 .. Len(calls')
                       PROVE  EndIsKnown(calls[i])' /\ i = Len(calls') /\ FinishIsLast(calls[i])' /\ ~captureHeld'
          BY DEF CallsFinish
        <5>2. i = 1 /\ calls'[i] = m BY <4>2, <5>1
        <5>3. EndIsKnown(calls[i])' BY <1>7, <4>1, <5>2 DEF EndIsKnown
        <5>4. FinishIsLast(calls[i])' BY <1>7, <4>3, <5>2 DEF FinishIsLast
        <5> QED BY <3>1, <4>2, <5>2, <5>3, <5>4
      <4> QED BY <3>2, <4>4
    <3> QED BY <3>3, <3>4
  <2>2. CASE ~Finishes(h)
    <3>1. calls' = calls /\ validating' = validating BY <1>8, <2>2
    <3>2. \A n : n.by \in Recorders /\ n.attempt \in Capture!Attempts => ending'[<<n.by, n.attempt>>].then = ending[<<n.by, n.attempt>>].then
      BY <1>10, CaptureFacts
    <3>3. NonePending' <=> NonePending BY <1>5 DEF NonePending
    <3>4. CallsFinish'
      <4>1. SUFFICES ASSUME NEW i \in 1 .. Len(calls)
                     PROVE  /\ EndIsKnown(calls[i])' /\ (Finishes(calls[i])' => i = Len(calls) /\ FinishIsLast(calls[i])')
                            /\ (calls[i].call = "accept" => ~captureHeld)
        BY <3>1 DEF CallsFinish
      <4>2. PICK n : n = calls[i] OBVIOUS
      <4>3. ending'[<<n.by, n.attempt>>].then = ending[<<n.by, n.attempt>>].then BY <3>2, <4>1, <4>2, LineIs
      <4>4. /\ EndIsKnown(n) /\ (Finishes(n) => i = Len(calls) /\ FinishIsLast(n)) /\ (n.call = "accept" => ~captureHeld)
        BY <4>1, <4>2 DEF AloneInvariant, CallsFinish
      <4>5. calls'[i] = n BY <3>1, <4>2
      <4> QED BY <3>1, <3>3, <4>2, <4>3, <4>4, <4>5 DEF EndIsKnown, Finishes, FinishIsLast
    <3>5. AnswersFinish'
      <4>1. SUFFICES ASSUME NEW i \in 1 .. Len(answers')
                     PROVE  /\ EndIsKnown(answers[i])'
                            /\ (Finishes(answers[i])' => i = Len(answers') /\ calls' = <<>> /\ FinishIsLast(answers[i])' /\ ~captureHeld')
                            /\ (answers'[i].call = "accept" => answers'[i].ok)
        BY DEF AnswersFinish
      <4>2. PICK n : n = answers'[i] OBVIOUS
      <4>3. n = answers[i + 1] /\ i + 1 \in 1 .. Len(answers) BY <1>12, <4>1, <4>2
      <4>4. ending'[<<n.by, n.attempt>>].then = ending[<<n.by, n.attempt>>].then BY <3>2, <4>3, LineIs
      <4>5. /\ EndIsKnown(n) /\ (Finishes(n) => i + 1 = Len(answers) /\ calls = <<>> /\ FinishIsLast(n) /\ ~captureHeld)
            /\ (n.call = "accept" => n.ok)
        BY <4>3 DEF AloneInvariant, AnswersFinish
      <4>6. i + 1 = Len(answers) => i = Len(answers') 
        <5>1. Len(answers) \in Nat /\ Len(answers') = Len(answers) - 1 BY <1>12
        <5> QED BY <5>1
      <4> QED BY <3>1, <3>3, <4>2, <4>4, <4>5, <4>6 DEF EndIsKnown, Finishes, FinishIsLast
    <3> QED BY <3>4, <3>5
  <2> QED BY <2>1, <2>2
<1>16. ASSUME NEW b \in Capture!Attempts PROVE InTurn(r, b)'
  <2>1. InTurn(r, b) /\ <<r, b>> \in Pairs BY CaptureFacts DEF AloneInvariant
  <2>2. begin[<<r, b>>] = "pending" => BeginIsOn(r, b)'
    <3>1. h \in Answers BY DEF AnswerGoes
    <3> QED BY <1>7, <1>8, <2>1, <3>1, BeginStaysOn DEF InTurn
  <2>3. ending'[<<r, b>>].then = ending[<<r, b>>].then BY <1>10, <2>1
  <2>4. ending'[<<r, b>>].at = "awaitsBegin" => b # a /\ ending[<<r, b>>].at = "awaitsBegin" BY <1>9, <2>1
  \* One that awaits its begin is pending, so nothing finishes, and nobody is told otherwise.
  <2>5. ending[<<r, b>>].at = "awaitsBegin" => validating' = validating
    <3>1. SUFFICES ASSUME ending[<<r, b>>].at = "awaitsBegin" PROVE ~Finishes(h) BY <1>8
    <3>2. begin[<<r, b>>] = "pending" BY <3>1 DEF CaptureInvariant, Attempted
    <3> QED BY <1>14, <3>2 DEF FinishIsLast, NonePending
  <2>6. begin'[<<r, b>>] = begin[<<r, b>>] BY <1>5
  <2>7. ending'[<<r, b>>].then = "finish" /\ ending'[<<r, b>>].at = "awaitsBegin" =>
          validating'[r] /\ \A c \in Capture!Attempts : c > b => begin'[<<r, c>>] = "none"
    BY <1>5, <2>1, <2>3, <2>4, <2>5 DEF InTurn
  <2>8. begin'[<<r, b>>] = "pending" => \A c \in Capture!Attempts : c > b => begin'[<<r, c>>] \in {"none", "pending"}
    BY <1>5, <2>1 DEF InTurn
  <2> QED BY <1>5, <2>1, <2>2, <2>3, <2>4, <2>6, <2>7, <2>8 DEF InTurn
<1>17. \A o \in Recorders : capturing'[o] => ~validating'[o] BY <1>5, <1>8 DEF AloneInvariant
<1> QED BY <1>11, <1>15, <1>16, <1>17 DEF AloneInvariant


LEMMA HandlesAlone ==
  ASSUME Capture!CaptureAssumption, CaptureInvariant, AloneInvariant, OneRecorder, Capture!Handle
  PROVE  AloneInvariant'
<1>t. CaptureTypes BY DEF CaptureInvariant
<1>1. PICK m : m = Head(calls) OBVIOUS
<1>2. calls # <<>> /\ calls' = Tail(calls) BY DEF Capture!Handle
<1>3. /\ Len(calls) \in Nat /\ Len(calls) >= 1 /\ m = calls[1] /\ m \in Capture!Calls
      /\ Len(calls') = Len(calls) - 1 /\ \A i \in 1 .. Len(calls') : calls'[i] = calls[i + 1] /\ i + 1 \in 1 .. Len(calls)
  BY <1>t, <1>1, <1>2, FirstGoes DEF CaptureTypes
<1>4. PICK ok \in BOOLEAN :
        /\ (m.call = "accept" => ok = ~captureHeld)
        /\ answers' = Append(answers, [call |-> m.call, by |-> m.by, attempt |-> m.attempt, ok |-> ok])
        /\ captureHeld' = CASE m.call = "begin" -> ok
                              [] m.call = "end" -> FALSE
                              [] m.call = "accept" -> captureHeld
  BY <1>1 DEF Capture!Handle, Capture!EndsCapture
<1>5. PICK n : n = [call |-> m.call, by |-> m.by, attempt |-> m.attempt, ok |-> ok] OBVIOUS
<1>6. n \in Answers /\ n.call = m.call /\ n.by = m.by /\ n.attempt = m.attempt /\ n.ok = ok BY <1>3, <1>5 DEF Answers, Capture!Calls
<1>7. UNCHANGED <<captureId, capturing, validating, begin, ending>> BY DEF Capture!Handle, Capture!refs
<1>8. /\ answers' \in Seq(Answers) /\ Len(answers) \in Nat /\ Len(answers') = Len(answers) + 1 /\ answers'[Len(answers) + 1] = n
      /\ \A i \in 1 .. Len(answers) : answers'[i] = answers[i]
  BY <1>t, <1>4, <1>5, <1>6, LastComes DEF CaptureTypes
<1>9. 1 \in 1 .. Len(calls) BY <1>3
<1>10. /\ EndIsKnown(m) /\ (Finishes(m) => 1 = Len(calls) /\ FinishIsLast(m)) /\ (m.call = "accept" => ~captureHeld)
       /\ Told(begin, m)
  <2>1. /\ EndIsKnown(calls[1]) /\ (Finishes(calls[1]) => 1 = Len(calls) /\ FinishIsLast(calls[1]))
        /\ (calls[1].call = "accept" => ~captureHeld)
    BY <1>9 DEF AloneInvariant, CallsFinish
  <2>2. Told(begin, calls[1]) BY <1>9, LineIs
  <2>3. calls[1] = m BY <1>3
  <2> QED BY <2>1, <2>2, <2>3
<1>11. m.call \in {"begin", "end", "accept"} /\ m.by \in Recorders /\ m.attempt \in Capture!Attempts BY <1>3 DEF Capture!Calls
\* The capture can only become active while nothing finishes.
<1>12. m.call # "begin" /\ ~captureHeld => ~captureHeld' BY <1>4, <1>11
<1>13. NonePending => m.call # "begin" BY <1>10, <1>11 DEF NonePending, Told
<1>14. NonePending' <=> NonePending BY <1>7 DEF NonePending
<1>16. CallsFinish'
  <2>1. SUFFICES ASSUME NEW i \in 1 .. Len(calls')
                 PROVE  /\ EndIsKnown(calls[i])' /\ (Finishes(calls[i])' => i = Len(calls') /\ FinishIsLast(calls[i])')
                        /\ (calls'[i].call = "accept" => ~captureHeld')
    BY DEF CallsFinish
  <2>2. PICK x : x = calls'[i] OBVIOUS
  <2>3. x = calls[i + 1] /\ i + 1 \in 1 .. Len(calls) BY <1>3, <2>1, <2>2
  <2>4. EndIsKnown(x) /\ (Finishes(x) => i + 1 = Len(calls) /\ FinishIsLast(x)) /\ (x.call = "accept" => ~captureHeld)
    BY <2>3 DEF AloneInvariant, CallsFinish
  <2>5. i + 1 = Len(calls) => i = Len(calls')
    <3>1. Len(calls) \in Nat /\ Len(calls') = Len(calls) - 1 BY <1>3
    <3> QED BY <3>1
  <2>6. x.call = "accept" => ~captureHeld'
    <3>1. SUFFICES ASSUME x.call = "accept" PROVE ~captureHeld' OBVIOUS
    <3>2. NonePending BY <2>4, <3>1 DEF EndIsKnown, Finishes, FinishIsLast
    <3> QED BY <1>12, <1>13, <2>4, <3>1, <3>2
  <2>7. EndIsKnown(calls[i])' /\ (Finishes(calls[i])' => FinishIsLast(calls[i])' /\ i + 1 = Len(calls))
    BY <1>7, <1>14, <2>2, <2>4 DEF EndIsKnown, Finishes, FinishIsLast
  <2> QED BY <2>2, <2>5, <2>6, <2>7
<1>17. AnswersFinish'
  <2>1. SUFFICES ASSUME NEW i \in 1 .. Len(answers')
                 PROVE  /\ EndIsKnown(answers[i])'
                        /\ (Finishes(answers[i])' => i = Len(answers') /\ calls' = <<>> /\ FinishIsLast(answers[i])' /\ ~captureHeld')
                        /\ (answers'[i].call = "accept" => answers'[i].ok)
    BY DEF AnswersFinish
  <2>2. CASE i = Len(answers) + 1
    <3>1. answers'[i] = n /\ i = Len(answers') BY <1>8, <2>2
    <3>2. EndIsKnown(answers[i])' BY <1>6, <1>7, <1>10, <3>1 DEF EndIsKnown
    <3>3. ASSUME Finishes(answers[i])' PROVE calls' = <<>> /\ FinishIsLast(answers[i])' /\ ~captureHeld'
      <4>1. Finishes(m) BY <1>6, <1>7, <3>1, <3>3 DEF Finishes
      <4>2. 1 = Len(calls) /\ FinishIsLast(m) /\ m.call # "begin" BY <1>10, <4>1 DEF Finishes
      <4>3. calls' \in Seq(Capture!Calls) /\ Len(calls') = 0 BY <1>t, <1>2, <1>3, <4>2, FirstGoes DEF CaptureTypes
      <4>4. FinishIsLast(answers[i])' BY <1>6, <1>7, <1>14, <3>1, <4>2 DEF FinishIsLast
      <4>5. ~captureHeld' BY <1>4, <1>10, <1>11, <4>2
      <4> QED BY <4>3, <4>4, <4>5
    <3>4. n.call = "accept" => n.ok BY <1>4, <1>6, <1>10
    <3> QED BY <3>1, <3>2, <3>3, <3>4
  <2>3. CASE i # Len(answers) + 1
    <3>1. i \in 1 .. Len(answers) /\ answers'[i] = answers[i] BY <1>8, <2>1, <2>3
    <3>2. PICK x : x = answers[i] OBVIOUS
    <3>3. EndIsKnown(x) /\ (Finishes(x) => calls = <<>>) /\ (x.call = "accept" => x.ok)
      BY <3>1, <3>2 DEF AloneInvariant, AnswersFinish
    <3>4. ~Finishes(x) BY <1>2, <3>3
    <3>5. EndIsKnown(answers[i])' /\ ~Finishes(answers[i])' BY <1>7, <3>1, <3>2, <3>3, <3>4 DEF EndIsKnown, Finishes
    <3> QED BY <3>1, <3>2, <3>3, <3>5
  <2> QED BY <2>2, <2>3
<1>18. ASSUME NEW r \in Recorders, NEW b \in Capture!Attempts PROVE InTurn(r, b)'
  <2>1. InTurn(r, b) BY DEF AloneInvariant
  <2>2. begin[<<r, b>>] = "pending" => BeginIsOn(r, b)'
    <3>1. SUFFICES ASSUME BeginIsOn(r, b) PROVE BeginIsOn(r, b)' BY <2>1 DEF InTurn
    <3>2. CASE \E i \in 1 .. Len(answers) : answers[i].call = "begin" /\ answers[i].by = r /\ answers[i].attempt = b
      <4>1. PICK i \in 1 .. Len(answers) : answers[i].call = "begin" /\ answers[i].by = r /\ answers[i].attempt = b BY <3>2
      <4>2. i \in 1 .. Len(answers') /\ answers'[i] = answers[i] BY <1>8
      <4> QED BY <4>1, <4>2 DEF BeginIsOn
    <3>3. CASE \E i \in 1 .. Len(calls) : calls[i].call = "begin" /\ calls[i].by = r /\ calls[i].attempt = b
      <4>1. PICK i \in 1 .. Len(calls) : calls[i].call = "begin" /\ calls[i].by = r /\ calls[i].attempt = b BY <3>3
      <4>2. CASE i = 1
        <5>1. Len(answers) + 1 \in 1 .. Len(answers') BY <1>8
        <5>2. n.call = "begin" /\ n.by = r /\ n.attempt = b BY <1>3, <1>6, <4>1, <4>2
        <5> QED BY <1>8, <5>1, <5>2 DEF BeginIsOn
      <4>3. CASE i # 1
        <5>1. i - 1 \in 1 .. Len(calls') /\ (i - 1) + 1 = i BY <1>3, <4>1, <4>3
        <5>2. calls'[i - 1] = calls[i] BY <1>3, <5>1
        <5> QED BY <4>1, <5>1, <5>2 DEF BeginIsOn
      <4> QED BY <4>2, <4>3
    <3> QED BY <3>1, <3>2, <3>3 DEF BeginIsOn
  <2> QED BY <1>7, <2>1, <2>2 DEF InTurn
<1>19. \A o \in Recorders : capturing'[o] => ~validating'[o] BY <1>7 DEF AloneInvariant
<1> QED BY <1>16, <1>17, <1>18, <1>19 DEF AloneInvariant

LEMMA AloneInit == ASSUME Capture!CaptureAssumption, Capture!Init PROVE AloneInvariant
<1>1. /\ capturing = [r \in Recorders |-> FALSE]
      /\ begin = [p \in Pairs |-> "none"] /\ ending = [p \in Pairs |-> [then |-> "no", at |-> "none"]] /\ calls = <<>> /\ answers = <<>>
  BY DEF Capture!Init, Pairs
<1>2. Len(calls) = 0 /\ Len(answers) = 0 BY <1>1
<1>3. CallsFinish /\ AnswersFinish BY <1>2 DEF CallsFinish, AnswersFinish
<1>4. ASSUME NEW r \in Recorders, NEW a \in Capture!Attempts PROVE InTurn(r, a)
  <2>1. <<r, a>> \in Pairs BY CaptureFacts
  <2>2. begin[<<r, a>>] = "none" /\ ending[<<r, a>>].then = "no" /\ ending[<<r, a>>].at = "none" BY <1>1, <2>1
  <2> QED BY <2>2 DEF InTurn
<1> QED BY <1>1, <1>3, <1>4 DEF AloneInvariant

LEMMA AloneStep ==
  ASSUME Capture!CaptureAssumption, OneRecorder, CaptureInvariant, AloneInvariant, [Capture!Next]_(Capture!vars)
  PROVE  AloneInvariant'
<1>0. CaptureInvariant' BY CaptureStep
<1>1. CASE \E r \in Recorders : Capture!StartCapture(r) \/ Capture!CancelCapture(r) \/ Capture!FinishCapture(r)
  BY <1>1, StartsAlone, StopsAlone
<1>2. CASE Capture!Answered
  <2>1. PICK h : h = Head(answers) OBVIOUS
  <2>2. AnswerGoes(h) /\ answers # <<>> BY <1>2, <2>1, AnswerIsTaken DEF Capture!Answered
  <2>3. CASE h.call = "begin"
    <3>1. Capture!BeginAnswered(h.by, h.attempt, h.ok) BY <1>2, <2>1, <2>3 DEF Capture!Answered
    <3> QED BY <1>0, <2>1, <2>2, <2>3, <3>1, BeginsAlone
  <2>4. CASE h.call # "begin"
    <3>1. /\ h.call = "end" => Capture!EndAnswered(h.by, h.attempt)
          /\ h.call = "accept" => Capture!AcceptAnswered(h.by, h.attempt)
          /\ captureHeld' = captureHeld
      BY <1>2, <2>1, <2>4 DEF Capture!Answered
    <3> QED BY <2>1, <2>2, <2>4, <3>1, AnswersAlone
  <2> QED BY <2>3, <2>4
<1>3. CASE Capture!Handle BY <1>3, HandlesAlone
<1>4. CASE Capture!CaptureTimerFires \/ UNCHANGED Capture!vars
  <2>1. UNCHANGED <<captureId, capturing, validating, begin, ending, calls, answers>> BY <1>4 DEF Capture!CaptureTimerFires, Capture!refs, Capture!vars
  <2>2. ~captureHeld => ~captureHeld' BY <1>4 DEF Capture!CaptureTimerFires, Capture!vars
  <2>3. NonePending' <=> NonePending BY <2>1 DEF NonePending
  <2>4. CallsFinish'
    <3>1. SUFFICES ASSUME NEW i \in 1 .. Len(calls)
                   PROVE  /\ EndIsKnown(calls[i])' /\ (Finishes(calls[i])' => i = Len(calls) /\ FinishIsLast(calls[i])')
                          /\ (calls[i].call = "accept" => ~captureHeld')
      BY <2>1 DEF CallsFinish
    <3>2. EndIsKnown(calls[i]) /\ (Finishes(calls[i]) => i = Len(calls) /\ FinishIsLast(calls[i])) /\ (calls[i].call = "accept" => ~captureHeld)
      BY <3>1 DEF AloneInvariant, CallsFinish
    <3> QED BY <2>1, <2>2, <2>3, <3>2 DEF EndIsKnown, Finishes, FinishIsLast
  <2>5. AnswersFinish'
    <3>1. SUFFICES ASSUME NEW i \in 1 .. Len(answers)
                   PROVE  /\ EndIsKnown(answers[i])'
                          /\ (Finishes(answers[i])' => i = Len(answers) /\ calls = <<>> /\ FinishIsLast(answers[i])' /\ ~captureHeld')
                          /\ (answers[i].call = "accept" => answers[i].ok)
      BY <2>1 DEF AnswersFinish
    <3>2. /\ EndIsKnown(answers[i]) /\ (Finishes(answers[i]) => i = Len(answers) /\ calls = <<>> /\ FinishIsLast(answers[i]) /\ ~captureHeld)
          /\ (answers[i].call = "accept" => answers[i].ok)
      BY <3>1 DEF AloneInvariant, AnswersFinish
    <3> QED BY <2>1, <2>2, <2>3, <3>2 DEF EndIsKnown, Finishes, FinishIsLast
  <2>6. ASSUME NEW r \in Recorders, NEW a \in Capture!Attempts PROVE InTurn(r, a)'
    <3>1. InTurn(r, a) BY DEF AloneInvariant
    <3>2. BeginIsOn(r, a)' <=> BeginIsOn(r, a) BY <2>1 DEF BeginIsOn
    <3> QED BY <2>1, <3>1, <3>2 DEF InTurn
  <2>7. \A r \in Recorders : capturing'[r] => ~validating'[r] BY <2>1 DEF AloneInvariant
  <2> QED BY <2>4, <2>5, <2>6, <2>7 DEF AloneInvariant
<1> QED BY <1>1, <1>2, <1>3, <1>4 DEF Capture!Next

\* One recorder alone is never refused for its own capture: when the main process is asked to
\* accept what was recorded, the capture it was recorded with has ended, and no other has begun,
\* however many attempts were cancelled before it and whatever macOS refused (finishCapture).
THEOREM OneRecorderIsAccepted ==
  ASSUME Capture!CaptureAssumption, OneRecorder PROVE Capture!Spec => []Capture!NeverRefusesItself
<1>1. Capture!Init => CaptureInvariant /\ AloneInvariant BY CaptureInit, AloneInit
<1>2. CaptureInvariant /\ AloneInvariant /\ [Capture!Next]_(Capture!vars) => CaptureInvariant' /\ AloneInvariant' BY CaptureStep, AloneStep
<1>3. CaptureInvariant /\ AloneInvariant => Capture!NeverRefusesItself
  <2>1. SUFFICES ASSUME CaptureInvariant, AloneInvariant, NEW i \in DOMAIN answers, answers[i].call = "accept" PROVE answers[i].ok
    BY DEF Capture!NeverRefusesItself
  <2>2. answers \in Seq(Answers) BY <2>1 DEF CaptureInvariant, CaptureTypes
  <2>3. i \in 1 .. Len(answers) BY <2>1, <2>2
  <2> QED BY <2>1, <2>3 DEF AloneInvariant, AnswersFinish
<1> QED BY <1>1, <1>2, <1>3, PTL DEF Capture!Spec

=============================================================================
