-------------------------------- MODULE SpokenText --------------------------------
(***************************************************************************)
(* What becomes of the words of a dictation: fillers are taken out, spoken *)
(* commands obeyed, commas tidied, and the user's dictionary and snippets  *)
(* applied (src/shared/text/fillers.ts, commands.ts, tokens.ts and         *)
(* src/shared/textPipeline.ts).                                            *)
(*                                                                         *)
(* A text is a sequence of words, marks and breaks.  Rendering it between  *)
(* two passes and reading it again changes nothing (TextMarks), so the     *)
(* passes are composed here without it.  The table of commands and the     *)
(* lists of fillers hold one entry of each sort.                           *)
(*                                                                         *)
(* A definition whose comment starts with "Mistake" is a plausible wrong   *)
(* version of the one after it; no specification uses it.                  *)
(***************************************************************************)
EXTENDS Naturals, Sequences, SequencesExt, FiniteSets, FiniteSetsExt

CONSTANTS
  Phrases,     \* what may be said, each a sequence of tokens
  OptionSets,  \* cleanup options of a dictation
  MaxTokens    \* bound: words, marks and breaks heard

VARIABLES
  text,        \* what the speech model heard
  options

vars == <<text, options>>

Word(v) == [kind |-> "word", value |-> v, role |-> "none"]
Mark(v, role) == [kind |-> "mark", value |-> v, role |-> role]
Heard(v) == Mark(v, "none")
Break(v) == [kind |-> "break", value |-> v, role |-> "none"]

IsWord(t) == t.kind = "word"
IsMark(t) == t.kind = "mark"
IsBreak(t) == t.kind = "break"
IsParagraph(t) == t = Break("paragraph")
IsComma(t) == IsMark(t) /\ t.value = ","
IsStrong(t) == IsMark(t) /\ t.value \in {".", "!", "?"}
IsCloser(t) == IsMark(t) /\ (t.role = "close" \/ t.value \in {")", "\""}) /\ ~IsStrong(t)

\* The last place of a token of a kind, or 0; the sequence without such tokens at its end.
LastPlace(seq, P(_)) == Max({0} \union {i \in DOMAIN seq : P(seq[i])})
DropLast(seq, P(_)) == SubSeq(seq, 1, LastPlace(seq, LAMBDA t : ~P(t)))
Drop(seq, n) == SubSeq(seq, n + 1, Len(seq))

\* Acronyms are matched in lower case, as every word.
Lower(v) == IF v = "UM" THEN "um" ELSE v
IsAcronym(t) == t = Word("UM")

\* Mistake: the words of a phrase may have marks between them.
SpeechAt(seq, words) == LET said == SelectSeq(seq, IsWord)
                        IN Len(words) <= Len(said) /\ \A i \in DOMAIN words : Lower(said[i].value) = words[i]
\* A text starts with the words of a phrase.
WordSequenceAt(seq, words) ==
  Len(words) <= Len(seq) /\ \A i \in DOMAIN words : IsWord(seq[i]) /\ Lower(seq[i].value) = words[i]

\* The longest phrase of a set that a text starts with.
Longest(found) == CHOOSE w \in found : \A v \in found : Len(v) <= Len(w)

-----------------------------------------------------------------------------
(* Fillers *)

Conservative == {<<"um">>, <<"uh">>}
Aggressive == Conservative \union {<<"you", "know">>, <<"like">>}
Fillers == CASE options.fillers = "aggressive" -> Aggressive
             [] options.fillers = "conservative" -> Conservative
             [] OTHER -> {}

EndsClause(seq) == seq = <<>> \/ IsBreak(Head(seq)) \/ IsStrong(Head(seq))

\* The comma that a filler leaves behind.
TakesComma(out, rest) ==
  CASE out # <<>> /\ IsComma(Last(out)) -> <<IF EndsClause(rest) THEN Front(out) ELSE out, rest>>
    [] ~(out # <<>> /\ IsComma(Last(out))) /\ rest # <<>> /\ IsComma(Head(rest)) -> <<out, Tail(rest)>>
    [] OTHER -> <<out, rest>>

RECURSIVE WithoutFillers(_, _)
WithoutFillers(rest, out) ==
  IF rest = <<>> THEN out
  ELSE LET said == {f \in Fillers : WordSequenceAt(rest, f)}
       IN  IF said = {} \/ (Len(Longest(said)) = 1 /\ IsAcronym(Head(rest)))
           THEN WithoutFillers(Tail(rest), Append(out, Head(rest)))
           ELSE LET left == TakesComma(out, Drop(rest, Len(Longest(said))))
                IN  WithoutFillers(left[2], left[1])

-----------------------------------------------------------------------------
(* Tidying *)

BothBreaks(old, new) == IF IsParagraph(old) THEN old ELSE new

Tidier(out, t) ==
  IF out = <<>> THEN <<t>>
  ELSE CASE IsComma(t) /\ IsComma(Last(out)) -> out
         [] IsBreak(t) /\ IsBreak(Last(out)) -> Append(Front(out), BothBreaks(Last(out), t))
         [] OTHER -> Append(out, t)

\* Mistake: only the end of a text is tidied.
CleanupEnd(seq) == LET tidy == FoldLeft(Tidier, <<>>, seq) IN DropLast(tidy, IsComma)
\* cleanupTokenArtifacts()
Cleanup(seq) ==
  LET tidy == FoldLeft(Tidier, <<>>, seq)
      body == {i \in DOMAIN tidy : ~IsComma(tidy[i])}
  IN  IF body = {} THEN <<>> ELSE SubSeq(tidy, Min(body), Max(body))

\* removeFillers()
RemoveFillers(seq) == IF options.fillers = "off" THEN seq ELSE Cleanup(WithoutFillers(seq, <<>>))

-----------------------------------------------------------------------------
(* Spoken commands *)

Table ==
  {[words |-> <<"scratch", "last", "paragraph">>, kind |-> "scratch", does |-> "paragraph"],
   [words |-> <<"scratch", "last", "sentence">>, kind |-> "scratch", does |-> "sentence"],
   [words |-> <<"scratch", "last", "word">>, kind |-> "scratch", does |-> "word"],
   [words |-> <<"scratch", "that">>, kind |-> "scratch", does |-> "adaptive"],
   [words |-> <<"new", "paragraph">>, kind |-> "paragraph", does |-> "paragraph"],
   [words |-> <<"new", "line">>, kind |-> "paragraph", does |-> "line"],
   [words |-> <<"close", "parenthesis">>, kind |-> "punctuation", does |-> ")"],
   [words |-> <<"period">>, kind |-> "punctuation", does |-> "."],
   [words |-> <<"comma">>, kind |-> "punctuation", does |-> ","]}

Enabled(c) == CASE c.kind = "punctuation" -> options.punctuation
                [] c.kind = "paragraph" -> options.paragraph
                [] OTHER -> options.scratch

EndsSentence(out) == LET at == LastPlace(out, LAMBDA t : ~IsCloser(t)) IN at > 0 /\ IsStrong(out[at])

\* Mistake: the marks before the word go as well.
RemoveWordAndMarks(out) ==
  LET bare == DropLast(DropLast(out, IsBreak), IsMark)
      at == LastPlace(bare, IsWord)
  IN  IF at = 0 THEN bare ELSE DropLast(RemoveAt(bare, at), IsMark)
RemoveLastWord(out) ==
  LET bare == DropLast(DropLast(out, IsBreak), IsMark)
      at == LastPlace(bare, IsWord)
  IN  IF at = 0 THEN bare ELSE RemoveAt(bare, at)

IsBoundary(t) == IsStrong(t) \/ IsParagraph(t)
\* Mistake: the mark that ends the sentence is taken for the end of the one before.
SentenceWithMark(bare) == bare
SentenceBody(bare) == IF EndsSentence(bare) THEN Front(DropLast(bare, IsCloser)) ELSE bare
RemoveLastSentence(out) ==
  LET bare == DropLast(out, IsBreak)
  IN  DropLast(SubSeq(bare, 1, LastPlace(SentenceBody(bare), IsBoundary)), IsBreak)

\* Mistake: a line break starts a paragraph.
ParagraphAtLine(out) == SubSeq(DropLast(out, IsBreak), 1, LastPlace(DropLast(out, IsBreak), IsBreak))
RemoveLastParagraph(out) == SubSeq(DropLast(out, IsBreak), 1, LastPlace(DropLast(out, IsBreak), IsParagraph))

ApplyScratch(out, scope) ==
  LET bare == DropLast(out, IsBreak)
  IN  CASE scope = "paragraph" -> RemoveLastParagraph(bare)
        [] scope = "sentence" \/ (scope = "adaptive" /\ EndsSentence(bare)) -> RemoveLastSentence(bare)
        [] OTHER -> RemoveLastWord(bare)

\* Mistake: every command puts a mark in.
MarkEffect(c, out) ==
  IF c.kind = "scratch" THEN ApplyScratch(out, c.does) ELSE Append(out, Mark(c.does, "close"))
Effect(c, out) ==
  CASE c.kind = "scratch" -> ApplyScratch(out, c.does)
    [] c.kind = "paragraph" -> Append(out, Break(c.does))
    [] OTHER -> Append(out, Mark(c.does, "close"))

RECURSIVE Obey(_, _)
Obey(rest, out) ==
  IF rest = <<>> THEN out
  ELSE LET said == {c \in Table : Enabled(c) /\ WordSequenceAt(rest, c.words)}
       IN  IF said = {} THEN Obey(Tail(rest), Append(out, Head(rest)))
           ELSE LET c == CHOOSE d \in said : d.words = Longest({e.words : e \in said})
                IN  Obey(Drop(rest, Len(c.words)), Effect(c, out))
Obeyed(seq) == Obey(seq, <<>>)

\* Mistake: commands are obeyed before the fillers go.
CommandsFirst(seq) == RemoveFillers(Cleanup(Obeyed(seq)))
\* transformDictation()
Cleaned(seq) == Cleanup(Obeyed(RemoveFillers(seq)))

-----------------------------------------------------------------------------
(* The user's dictionary and snippets *)

\* Mistake: of the rules that match somewhere the shortest is taken.
Shortest(found) == CHOOSE w \in found : \A v \in found : Len(w) <= Len(v)
LongestRule(found) == Longest(found)

\* replacePhase(): one pass from left to right; what was put in is not looked at again.
RECURSIVE ReplacePhase(_, _)
ReplacePhase(rest, rules) ==
  IF rest = <<>> THEN <<>>
  ELSE LET found == {w \in DOMAIN rules : WordSequenceAt(rest, w)}
       IN  IF found = {} THEN <<Head(rest)>> \o ReplacePhase(Tail(rest), rules)
           ELSE LET w == LongestRule(found)
                IN  [i \in DOMAIN rules[w] |-> Word(rules[w][i])] \o ReplacePhase(Drop(rest, Len(w)), rules)

\* Mistake: the rules are applied one after the other.
OneRuleAtATime(seq, rules) ==
  FoldLeft(LAMBDA out, w : ReplacePhase(out, [v \in {w} |-> rules[v]]), seq, SetToSeq(DOMAIN rules))
\* applyLocalTextRules(): the dictionary's phase.
WithDictionary(seq, rules) == ReplacePhase(seq, rules)

-----------------------------------------------------------------------------
Init == text = <<>> /\ options \in OptionSets
Say(phrase) == Len(text) + Len(phrase) <= MaxTokens /\ text' = text \o phrase /\ UNCHANGED options
Next == \E phrase \in Phrases : Say(phrase)
Spec == Init /\ [][Next]_vars

-----------------------------------------------------------------------------
(* Properties *)

IsToken(t) == CASE t.kind = "word" -> t.role = "none"
                [] t.kind = "mark" -> t.value \in {",", ".", "!", "?", ")", "\""} /\ t.role \in {"none", "close"}
                [] t.kind = "break" -> t.value \in {"line", "paragraph"} /\ t.role = "none"

\* A dictation and what becomes of it are made of words, marks and breaks.
TypeOK == options \in OptionSets /\ \A seq \in {text, Cleaned(text)} : \A i \in DOMAIN seq : IsToken(seq[i])

Plain == Word("hello")
Scratch(scope) == IF scope = "adaptive" THEN <<Word("scratch"), Word("that")>>
                  ELSE <<Word("scratch"), Word("last"), Word(scope)>>

\* A word that is scratched at once leaves what was said before it as it was
\* (commands.ts, applyScratch()).
ScratchedWordIsGone ==
  options.scratch => \A scope \in {"word", "adaptive"} : Obeyed(text \o <<Plain>> \o Scratch(scope)) = Obeyed(text)

\* A finished sentence that is scratched leaves the sentences before it, but not a sentence that it continued.
ScratchedSentenceIsGone ==
  options.scratch =>
    LET out == Obeyed(text)
        ends == {0} \union {i \in DOMAIN out : out[i].value \in {".", "!", "?", "paragraph"} /\ out[i].kind # "word"}
        kept == SubSeq(out, 1, Max(ends))
    IN  \A scope \in {"sentence", "adaptive"} :
          Obeyed(text \o <<Plain, Heard("."), Heard(")")>> \o Scratch(scope)) = DropLast(kept, IsBreak)

\* The same when what was said before ends with a sentence in parentheses: nothing else is scratched.
ScratchKeepsTheRest ==
  options.scratch =>
    LET out == Obeyed(text)
    IN  out # <<>> /\ IsWord(out[1]) /\ Last(out).value = ")" /\ EndsSentence(out) =>
          Obeyed(text \o <<Plain, Heard(".")>> \o Scratch("adaptive")) = DropLast(out, IsBreak)

\* A scratched paragraph leaves the ones before it and its own place.
ScratchedParagraphIsGone ==
  options.scratch =>
    LET out == DropLast(Obeyed(text), IsBreak)
        starts == {0} \union {i \in DOMAIN out : out[i] = Break("paragraph")}
    IN  Obeyed(text \o Scratch("paragraph")) = SubSeq(out, 1, Max(starts))

FillerWords == {f[1] : f \in Conservative}
NoFillers(seq) == SelectSeq(seq, LAMBDA t : t.value \notin FillerWords)
MarksOf(seq) == SelectSeq(seq, LAMBDA t : IsMark(t) /\ ~IsComma(t))

\* Removing single-word fillers loses no other word, and of the marks only commas.
OnlyFillersGo ==
  options.fillers = "conservative" =>
    /\ SelectSeq(RemoveFillers(text), IsWord) = SelectSeq(NoFillers(text), IsWord)
    /\ MarksOf(RemoveFillers(text)) = MarksOf(text)

\* A filler between the words of a command does not hide it.
FillersHideNoCommand ==
  options.fillers = "conservative" /\ (\A i \in DOMAIN text : IsWord(text[i])) => Cleaned(text) = Cleaned(NoFillers(text))

\* No comma is left at an end of the text or beside another, and no two breaks meet.
CommasAreTidy ==
  LET out == Cleaned(text)
  IN  /\ out # <<>> => ~IsComma(out[1]) /\ ~IsComma(out[Len(out)])
      /\ \A i \in 1..Len(out) - 1 : ~(IsComma(out[i]) /\ IsComma(out[i + 1])) /\ ~(IsBreak(out[i]) /\ IsBreak(out[i + 1]))

\* Two rules that exchange two words exchange them: a replacement is not replaced again.
Exchange == [w \in {<<"new">>, <<"line">>} |-> IF w = <<"new">> THEN <<"line">> ELSE <<"new">>]
ReplacedOnce == WithDictionary(WithDictionary(text, Exchange), Exchange) = text

\* A rule for a phrase comes before a rule for its first word.
Entries == [w \in {<<"scratch", "that">>, <<"scratch">>} |-> IF Len(w) = 2 THEN <<"both">> ELSE <<"one">>]
LongestRuleWins ==
  LET out == WithDictionary(text, Entries)
  IN  Cardinality({i \in DOMAIN out : out[i] = Word("both")})
        = Cardinality({i \in 1..Len(text) - 1 : text[i] = Word("scratch") /\ text[i + 1] = Word("that")})
=============================================================================
