--------------------------------- MODULE TextMarks ---------------------------------
(***************************************************************************)
(* The written form of a dictation: how text is split into words, marks    *)
(* and breaks, how these are written down again, and how sentences are     *)
(* capitalized and closed (src/shared/text/tokens.ts and transform.ts).    *)
(*                                                                         *)
(* A text is a sequence of characters, one of each sort: letters, digits,  *)
(* marks, spaces and line ends.  A symbol in angle brackets stands for the *)
(* words of a spoken command; commands.ts has put its mark in their place. *)
(*                                                                         *)
(* A definition whose comment starts with "Mistake" is a plausible wrong   *)
(* version of the one after it; no specification uses it.                  *)
(***************************************************************************)
EXTENDS Naturals, Sequences, SequencesExt, FiniteSets, FiniteSetsExt

CONSTANTS
  Characters,  \* what a text is made of
  MaxLength    \* bound: characters of a text

VARIABLE text

vars == <<text>>

Letters == {"a", "A"}
Digits  == {"1"}
Alnum   == Letters \union Digits
Closing == {",", ".", ":", "!", "?", "%", ")"}
Opening == {"(", "$"}
Quote   == "\""
Spoken  == {"<dash>", "<hyphen>"}

Word(v) == [kind |-> "word", value |-> v, role |-> "none"]
Mark(v, role) == [kind |-> "mark", value |-> <<v>>, role |-> role]
Break(n) == [kind |-> "break", value |-> [i \in 1..n |-> "\n"], role |-> "none"]

-----------------------------------------------------------------------------
(* Reading: TOKEN_PATTERN *)

At(s, i) == IF i \in DOMAIN s THEN s[i] ELSE " "
\* The end of the run of characters of a set that starts at a place.
RunEnd(s, i, set) == Max({j \in i..Len(s) : \A k \in i..j : s[k] \in set})

\* Mistake: a mark inside a number or a name ends it.
NoBridge(s, j) == 0
\* The end of the run that a mark joins to the word ending at j, or 0.
BridgeEnd(s, j) ==
  CASE At(s, j + 1) \in {"'", "-", ".", "@"} /\ At(s, j + 2) \in Alnum -> RunEnd(s, j + 2, Alnum)
    [] At(s, j + 1) \in {":", ","} /\ At(s, j + 2) \in Digits -> RunEnd(s, j + 2, Digits)
    [] OTHER -> 0

RECURSIVE JoinedEnd(_, _)
JoinedEnd(s, j) == LET next == BridgeEnd(s, j) IN IF next = 0 THEN j ELSE JoinedEnd(s, next)

\* The local part of an address, and its domain, may be joined by more and by fewer marks.
RECURSIVE PartEnd(_, _, _)
PartEnd(s, j, marks) ==
  IF At(s, j + 1) \in marks /\ At(s, j + 2) \in Alnum THEN PartEnd(s, RunEnd(s, j + 2, Alnum), marks) ELSE j
\* Mistake: an address may end with its sign.
OpenAddressEnd(s, i) ==
  LET name == PartEnd(s, RunEnd(s, i, Alnum), {".", "%", "+", "'", "-"}) IN IF At(s, name + 1) = "@" THEN name + 1 ELSE 0
AddressEnd(s, i) ==
  LET name == PartEnd(s, RunEnd(s, i, Alnum), {".", "%", "+", "'", "-"})
  IN  IF At(s, name + 1) = "@" /\ At(s, name + 2) \in Alnum
      THEN PartEnd(s, RunEnd(s, name + 2, Alnum), {".", "-"}) ELSE 0

WordEnd(s, i) == IF AddressEnd(s, i) > 0 THEN AddressEnd(s, i) ELSE JoinedEnd(s, RunEnd(s, i, Alnum))

SpokenMark(c) == IF c = "<dash>" THEN Mark("-", "dash") ELSE Mark("-", "joiner")

\* tokenizeText(): line ends are counted until something follows.
RECURSIVE Read(_, _, _)
Read(s, i, breaks) ==
  IF i > Len(s) THEN IF breaks > 0 THEN <<Break(Min({breaks, 2}))>> ELSE <<>>
  ELSE LET before == IF breaks > 0 THEN <<Break(Min({breaks, 2}))>> ELSE <<>>
       IN  CASE s[i] = "\n" -> Read(s, i + 1, breaks + 1)
             [] s[i] = " " -> Read(s, i + 1, breaks)
             [] s[i] \in Alnum -> before \o <<Word(SubSeq(s, i, WordEnd(s, i)))>> \o Read(s, WordEnd(s, i) + 1, 0)
             [] s[i] \in Spoken -> before \o <<SpokenMark(s[i])>> \o Read(s, i + 1, 0)
             [] OTHER -> before \o <<Mark(s[i], "none")>> \o Read(s, i + 1, 0)
Tokenize(s) == Read(s, 1, 0)

-----------------------------------------------------------------------------
(* Writing: renderTokens() *)

Blank(c) == c \in {" ", "\n"}
TrimEnd(s) == SubSeq(s, 1, Max({0} \union {i \in DOMAIN s : ~Blank(s[i])}))
Trim(s) == LET body == {i \in DOMAIN s : ~Blank(s[i])} IN IF body = {} THEN <<>> ELSE SubSeq(s, Min(body), Max(body))
EndsLine(s) == s # <<>> /\ Last(s) = "\n"
\* A space, unless the text is empty or ends with a space or a line.
Spaced(s) == IF s = <<>> \/ Blank(Last(s)) THEN s ELSE Append(s, " ")

IsClosing(t) == t.kind = "mark" /\ (t.role = "close" \/ t.value[1] \in Closing)
IsOpening(t) == t.kind = "mark" /\ (t.role = "open" \/ t.value[1] \in Opening)
IsJoiner(t)  == t.kind = "mark" /\ (t.role = "joiner" \/ t.value[1] = "/")

\* Mistake: a mark is attached to the line before.
AttachedAcross(s) == TrimEnd(s)
Attached(s) == IF EndsLine(s) THEN s ELSE TrimEnd(s)

\* Mistake: what follows a mark is not set off.
JoinsAnyMark(previous) == previous.kind = "mark"
JoinsNext(previous) == IsOpening(previous) \/ IsJoiner(previous)

\* One token is written; a straight quote opens and closes in turn.
Write(done, t) ==
  LET out == done.out
      written(s, as) == [done EXCEPT !.out = s \o t.value, !.previous = as]
  IN  CASE t.kind = "break" -> written(TrimEnd(out), t)
        [] t = Mark(Quote, "none") ->
             IF done.opens THEN [written(Spaced(out), Mark(Quote, "open")) EXCEPT !.opens = FALSE]
             ELSE [written(TrimEnd(out), Mark(Quote, "close")) EXCEPT !.opens = TRUE]
        [] t.role = "dash" ->
             [written(Spaced(TrimEnd(out)), t) EXCEPT !.out = Append(@, " ")]
        [] t.role # "dash" /\ (IsClosing(t) \/ IsJoiner(t)) -> written(Attached(out), t)
        [] OTHER -> written(IF JoinsNext(done.previous) THEN out ELSE Spaced(out), t)

Start == [out |-> <<>>, previous |-> Word(<<>>), opens |-> TRUE]
Render(tokens) == Trim(FoldLeft(Write, Start, tokens).out)

-----------------------------------------------------------------------------
(* Sentences *)

Upper(c) == IF c = "a" THEN "A" ELSE c
IsStop(c) == c \in {".", "!", "?"}
Abbreviates(s, i) == At(s, i - 1) \in Letters /\ i > 2 /\ At(s, i - 2) = "."

\* Mistake: every stop ends a sentence.
AnyStop(s, i) == TRUE
EndsSentence(s, i) == (i = Len(s) \/ s[i + 1] \in {" ", "\n", Quote, "'", ")"}) /\ ~Abbreviates(s, i)

\* What a character leaves of the start of a sentence.
StartAfter(s, i, start) ==
  CASE start /\ s[i] \in Letters -> FALSE
    [] ~(start /\ s[i] \in Letters) /\ s[i] = "\n" -> TRUE
    [] IsStop(s[i]) -> EndsSentence(s, i)
    [] OTHER -> start /\ s[i] \in {" ", Quote, "'", "("}

\* capitalizeSentences()
CapitalizeSentences(s) ==
  LET start[i \in 0..Len(s)] == IF i = 0 THEN TRUE ELSE StartAfter(s, i, start[i - 1])
  IN  [i \in DOMAIN s |-> IF start[i - 1] THEN Upper(s[i]) ELSE s[i]]

Closers == {Quote, "'", ")"}
Bare(s) == SubSeq(s, 1, Max({0} \union {i \in DOMAIN s : s[i] \notin Closers}))
\* Mistake: the end is not looked at.
NeverStops(s) == FALSE
Stops(s) == Bare(s) # <<>> /\ IsStop(Last(Bare(s)))
\* Mistake: any mark closes a text.
EnsureMark(s) == IF s = <<>> \/ Last(s) \in Closing THEN s ELSE Append(s, ".")
\* applyTerminalPunctuation(), "ensure".
Ensure(s) == IF s = <<>> \/ Stops(s) THEN s ELSE Append(s, ".")

Format(s) == Ensure(CapitalizeSentences(Render(Tokenize(s))))

-----------------------------------------------------------------------------
Init == text = <<>>
Next == \E c \in Characters : Len(text) < MaxLength /\ text' = Append(text, c)
Spec == Init /\ [][Next]_vars

-----------------------------------------------------------------------------
(* Properties *)

\* Text is made of characters, and of tokens that are words, marks and breaks; a word starts and ends with
\* a letter or a digit.
TypeOK ==
  /\ text \in Seq(Characters)
  /\ LET tokens == Tokenize(text)
     IN  \A i \in DOMAIN tokens :
           /\ tokens[i].kind \in {"word", "mark", "break"} /\ tokens[i].value \in Seq(Characters \union {"-"}) \ {<<>>}
           /\ tokens[i].kind = "word" => {Head(tokens[i].value), Last(tokens[i].value)} \subseteq Alnum

AsHeard == \A i \in DOMAIN text : text[i] \notin Spoken
IsBreak(t) == t.kind = "break"
Inner(tokens) == LET body == {i \in DOMAIN tokens : ~IsBreak(tokens[i])}
                 IN  IF body = {} THEN <<>> ELSE SubSeq(tokens, Min(body), Max(body))
\* A straight quote, or a dash, that follows a break.
BreakIsEaten(tokens) == \E i \in 1..Len(tokens) - 1 :
                          IsBreak(tokens[i]) /\ (tokens[i + 1] = Mark(Quote, "none") \/ tokens[i + 1].role = "dash")

\* A text that is written down and read again has the same words, marks and breaks
\* (fillers.ts writes what commands.ts reads).
RenderingKeepsTokens ==
  LET tokens == Tokenize(text)
  IN  AsHeard /\ ~BreakIsEaten(tokens) => Tokenize(Render(tokens)) = Inner(tokens)

\* Marks keep the line they were dictated on (tokens.ts: "the newline a preceding break token had just appended").
Lines(tokens) == Cardinality({i \in DOMAIN Inner(tokens) : IsBreak(Inner(tokens)[i])})
LinesWritten(s) == Cardinality({i \in 1..Len(s) - 1 : s[i] # "\n" /\ s[i + 1] = "\n"})
BreaksAreKept == LinesWritten(Render(Tokenize(text))) = Lines(Tokenize(text))
MarksKeepBreaks == ~BreakIsEaten(Tokenize(text)) => BreaksAreKept

\* Formatting a formatted text changes nothing.
FormattingSettles == AsHeard => Format(Format(text)) = Format(text)

\* A number, an address or an abbreviation that stands alone is only capitalized and closed.
Inside == {i \in 2..Len(text) - 1 : text[i - 1] \in Alnum /\ text[i + 1] \in Alnum}
Joined == /\ \A i \in DOMAIN text : text[i] \in Alnum \/ (text[i] \in {".", "@", "-", "'"} /\ i \in Inside)
          /\ \A i, j \in DOMAIN text : text[i] = "@" /\ i < j => text[j] \notin {"@", "'"}
Capitalized(s) == IF s = <<>> THEN s ELSE [s EXCEPT ![1] = Upper(@)]
JoinedWordsStay == Joined /\ text # <<>> /\ At(text, 1) \in Letters =>
                     Format(text) = Append(Capitalized(text), ".")

\* A letter is capitalized only at a start: of the text, of a line, or after a stop and a space.
CapitalsAtStarts ==
  LET s == Render(Tokenize(text))
      between(i, j) == \A k \in i + 1..j - 1 : Blank(s[k]) \/ s[k] \in {Quote, "'", "("}
      starts == {0} \union {i \in DOMAIN s : s[i] = "\n" \/ (IsStop(s[i]) /\ At(s, i + 1) \notin Alnum \union {"@", "-", "/"})}
  IN  \A j \in DOMAIN s : CapitalizeSentences(s)[j] # s[j] => \E i \in starts : i < j /\ between(i, j)

\* A dictation ends as a sentence does.
EndsStopped == Format(text) # <<>> => \E i \in DOMAIN Format(text) :
                 IsStop(Format(text)[i]) /\ \A k \in i + 1..Len(Format(text)) : Format(text)[k] \in Closers

\* "A word is an alphanumeric run plus the characters that live inside one": no run is split.
Pairs(s) == Cardinality({i \in 1..Len(s) - 1 : s[i] \in Alnum /\ s[i + 1] \in Alnum})
RunsAreWhole == AsHeard => Pairs(Render(Tokenize(text))) = Pairs(text)
=============================================================================
