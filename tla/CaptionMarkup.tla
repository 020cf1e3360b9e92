---------------------------- MODULE CaptionMarkup ----------------------------
(***************************************************************************)
(* The parser of captions: ParseCaptionText, ParsePhraseText, ParseLineRuns *)
(* and the split at <sb> in SetCaptionText.  A caption is read token by     *)
(* token; what has been read is a whole caption at any time, so that the    *)
(* properties speak of every caption up to a length.                        *)
(*                                                                         *)
(* A token is a character or a tag.  "lt" is a `<' that no `>' follows      *)
(* before the next tag, "openDelay" a <delay: in the same case: the parser  *)
(* takes the text up to the next `>' for the rest of it, and what is left   *)
(* of the line, or of the part, if there is none.  Characters are known by  *)
(* their place in the caption, where their letter can be looked up.         *)
(***************************************************************************)
EXTENDS Integers, SequencesExt

CONSTANTS
  Colours,    \* colours of runs
  ConfigInk,  \* the configured text colour
  Letters,    \* characters that are no space
  Tokens,     \* what captions are made of
  MaxLength   \* bound on the length of a caption

Chars == {"char", "space"}
Plain == {"cr", "endclr", "badclr", "bold", "italic", "other", "lt", "sb"}

\* A character has its letter; <clr:r,g,b>, <playerclr:...:...> and <delay:n> carry
\* what the numbers in them mean; "badclr" is one of the first two with numbers
\* that do not parse.
Token ==
  [tag: {"char"}, cp: Letters] \cup [tag: {"space"} \cup Plain]
    \cup [tag: {"clr"}, ink: Colours]
    \cup [tag: {"playerclr"}, own: Colours, other: Colours]
    \cup [tag: {"delay", "openDelay"}, delay: Nat]

ASSUME MarkupAssumption ==
  /\ ConfigInk \in Colours
  /\ Tokens \subseteq Token
  /\ MaxLength \in Nat

VARIABLES
  fromPlayer, \* the caption is the player's own
  several,    \* the caption has more than one <sb> part
  raw,        \* the tokens read
  part,       \* how many of them come before the part that is read
  open,       \* what waits for a `>': "nothing", "line" (lt) or "delay"
  style,      \* curR, curG, curB, curBold, curItalic
  stack,      \* colorStack
  line,       \* the runs of the line that is read
  lines,      \* phrase.lines
  blank,      \* buffer.empty()
  delay,      \* nextDelay
  phrases     \* the phrases before the one that is read

format == <<style, stack>>
given == <<fromPlayer, several>>
vars == <<given, raw, part, open, format, line, lines, blank, delay, phrases>>

Style == [ink: Colours, bold: BOOLEAN, italic: BOOLEAN]
Char == [at: Nat, space: BOOLEAN]
Run == [text: Seq(Char), style: Style]
Phrase == [delay: Nat, lines: Seq(Seq(Run))]

NoStyle == [ink |-> ConfigInk, bold |-> FALSE, italic |-> FALSE]
-----------------------------------------------------------------------------
(* Lines and phrases *)

\* Mutant: every piece of text becomes a run.
AddCharAlone(runs, c) == Append(runs, [text |-> <<c>>, style |-> style])

\* A character joins the last run of the line if that has the current style.
AddChar(runs, c) ==
  IF runs # <<>> /\ Last(runs).style = style
  THEN [runs EXCEPT ![Len(runs)].text = Append(@, c)]
  ELSE Append(runs, [text |-> <<c>>, style |-> style])

\* A line without runs is not kept.
EndedLines == IF line = <<>> THEN lines ELSE Append(lines, line)

\* Nor is a phrase of which nothing has been read.
EndedPhrases ==
  IF blank THEN phrases
  ELSE Append(phrases, [delay |-> delay, lines |-> EndedLines])

\* What ParseCaptionText returns for the part.
ParseCaptionText ==
  IF EndedPhrases = <<>> THEN <<[delay |-> 0, lines |-> <<>>]>> ELSE EndedPhrases

\* Only a caption of several parts has a CaptionFormatState that outlives a phrase.
StartPhrase ==
  /\ line' = <<>> /\ lines' = <<>> /\ blank' = TRUE
  /\ IF several THEN UNCHANGED format ELSE style' = NoStyle /\ stack' = <<>>
-----------------------------------------------------------------------------
(* One action per kind of token *)

Read(token) ==
  /\ Len(raw) < MaxLength
  /\ raw' = Append(raw, token)
  /\ UNCHANGED given

\* A tag that neither is swallowed nor ends a line.
ReadTag(token) ==
  /\ Read(token)
  /\ open = "nothing"
  /\ blank' = FALSE
  /\ UNCHANGED <<part, open, line, lines, delay, phrases>>

ReadChar(token) ==
  /\ token.tag \in Chars
  /\ Read(token)
  /\ blank' = (blank /\ open = "delay")
  /\ line' = IF open = "nothing"
             THEN AddChar(line, [at |-> Len(raw) + 1, space |-> token.tag = "space"])
             ELSE line
  /\ UNCHANGED <<part, open, format, lines, delay, phrases>>

\* A tag within an open `<' only closes it.
Swallow(token) ==
  /\ token.tag \notin Chars \cup {"lt", "openDelay", "sb"}
  /\ \/ open = "delay"
     \/ open = "line" /\ token.tag \notin {"cr", "delay"}
  /\ Read(token)
  /\ open' = "nothing"
  /\ UNCHANGED <<part, format, line, lines, blank, delay, phrases>>

OpenTag(token) ==
  /\ token.tag = "lt"
  /\ Read(token)
  /\ open' = IF open = "delay" THEN "delay" ELSE "line"
  /\ blank' = (blank /\ open = "delay")
  /\ UNCHANGED <<part, format, line, lines, delay, phrases>>

Push(ink) ==
  /\ stack' = Append(stack, style.ink)
  /\ style' = [style EXCEPT !.ink = ink]

Colour(token) ==
  /\ token.tag = "clr"
  /\ ReadTag(token)
  /\ Push(token.ink)

PlayerColour(token) ==
  /\ token.tag = "playerclr"
  /\ ReadTag(token)
  /\ Push(IF fromPlayer THEN token.own ELSE token.other)

\* Mutant: the colour pushed for a tag that cannot be parsed stays.
BadColourKept(token) ==
  /\ token.tag = "badclr"
  /\ ReadTag(token)
  /\ Push(style.ink)

\* The colour pushed for a tag that cannot be parsed is popped again.
BadColour(token) ==
  /\ token.tag = "badclr"
  /\ ReadTag(token)
  /\ UNCHANGED format

\* <clr> and <playerclr> without numbers.
EndColour(token) ==
  /\ token.tag = "endclr"
  /\ ReadTag(token)
  /\ IF stack = <<>>
     THEN style' = [style EXCEPT !.ink = ConfigInk] /\ UNCHANGED stack
     ELSE style' = [style EXCEPT !.ink = Last(stack)] /\ stack' = Front(stack)

Toggle(token) ==
  /\ token.tag \in {"bold", "italic"}
  /\ ReadTag(token)
  /\ style' = IF token.tag = "bold" THEN [style EXCEPT !.bold = ~@]
              ELSE [style EXCEPT !.italic = ~@]
  /\ UNCHANGED stack

\* Tags the parser does not know, <sfx> among them.
OtherTag(token) ==
  /\ token.tag = "other"
  /\ ReadTag(token)
  /\ UNCHANGED format

\* Mutant: a `<' left open takes the lines after it as well.
BreakLineOpen(token) ==
  /\ token.tag = "cr"
  /\ open # "delay"
  /\ Read(token)
  /\ line' = <<>>
  /\ lines' = EndedLines
  /\ blank' = FALSE
  /\ UNCHANGED <<part, open, format, delay, phrases>>

\* Mutant: a <cr> within an open `<' only closes it.
BreakLineSwallowed(token) ==
  /\ token.tag = "cr"
  /\ open # "delay"
  /\ Read(token)
  /\ open' = "nothing"
  /\ IF open = "line" THEN UNCHANGED <<line, lines>>
     ELSE line' = <<>> /\ lines' = EndedLines
  /\ blank' = FALSE
  /\ UNCHANGED <<part, format, delay, phrases>>

\* ParsePhraseText splits at <cr> before ParseLineRuns looks at any tag.
BreakLine(token) ==
  /\ token.tag = "cr"
  /\ open # "delay"
  /\ Read(token)
  /\ open' = "nothing"
  /\ line' = <<>>
  /\ lines' = EndedLines
  /\ blank' = FALSE
  /\ UNCHANGED <<part, format, delay, phrases>>

\* ParseCaptionText splits at <delay: before that.
Delay(token) ==
  /\ token.tag \in {"delay", "openDelay"}
  /\ open # "delay"
  /\ Read(token)
  /\ open' = IF token.tag = "delay" THEN "nothing" ELSE "delay"
  /\ phrases' = EndedPhrases
  /\ delay' = token.delay
  /\ StartPhrase
  /\ UNCHANGED part

\* A second <delay: within one that has no end.
DelayWithin(token) ==
  /\ token.tag = "openDelay"
  /\ open = "delay"
  /\ Read(token)
  /\ UNCHANGED <<part, open, format, line, lines, blank, delay, phrases>>

\* SetCaptionText splits at <sb> before everything else.
NextPart(token) ==
  /\ token.tag = "sb"
  /\ several
  /\ Read(token)
  /\ part' = Len(raw) + 1
  /\ open' = "nothing"
  /\ phrases' = <<>>
  /\ delay' = 0
  /\ StartPhrase

Init ==
  /\ fromPlayer \in BOOLEAN /\ several \in BOOLEAN
  /\ raw = <<>> /\ part = 0
  /\ open = "nothing"
  /\ style = NoStyle /\ stack = <<>>
  /\ line = <<>> /\ lines = <<>> /\ blank = TRUE
  /\ delay = 0 /\ phrases = <<>>

Next ==
  \E token \in Tokens :
    \/ ReadChar(token) \/ Swallow(token) \/ OpenTag(token)
    \/ Colour(token) \/ PlayerColour(token) \/ BadColour(token) \/ EndColour(token)
    \/ Toggle(token) \/ OtherTag(token) \/ BreakLine(token)
    \/ Delay(token) \/ DelayWithin(token) \/ NextPart(token)

Spec == Init /\ [][Next]_vars
-----------------------------------------------------------------------------
(* GetVisibleCharCount of the part, by which an <sb> caption shares out time: *)
(* characters outside `<' ... `>', whatever the tag.                          *)

Outside(n) ==
  LET f[k \in part..n] ==
        IF k = part THEN TRUE
        ELSE IF raw[k].tag \in Chars THEN f[k - 1]
        ELSE raw[k].tag \notin {"lt", "openDelay"}
  IN  f[n]

\* Mutant: tags are counted as well.
GetCharCount == Len(raw) - part

GetVisibleCharCount ==
  LET f[k \in part..Len(raw)] ==
        IF k = part THEN 0
        ELSE f[k - 1] + (IF raw[k].tag \in Chars /\ Outside(k) THEN 1 ELSE 0)
  IN  f[Len(raw)]
-----------------------------------------------------------------------------
(* What the tags mean, said of the caption as a whole. *)

Terminated(i) == raw[i].tag \notin Chars \cup {"lt", "openDelay"}

\* The `<' at i is still open at j.
StillOpen(i, j) ==
  /\ raw[i].tag \in {"lt", "openDelay"}
  /\ \A k \in i + 1..j - 1 : ~Terminated(k)

\* Token j counts, unless an open `<' swallows it.
Counts(j) ==
  \A i \in 1..j - 1 : StillOpen(i, j) =>
    \/ raw[j].tag = "sb"
    \/ raw[i].tag = "lt" /\ raw[j].tag \in {"cr", "delay", "openDelay"}

\* Characters of the part that are text.
Shown == {i \in part + 1..Len(raw) : raw[i].tag \in Chars /\ Counts(i)}

Delays(i) == {j \in part + 1..i - 1 : raw[j].tag \in {"delay", "openDelay"} /\ Counts(j)}

\* Where the formatting begins that a character at i may have: after the last
\* delay, or at the start of a caption of several parts.
From(i) == IF several \/ Delays(i) = {} THEN 1 ELSE Max(Delays(i)) + 1

Tagged(tags, from, to) == {i \in from..to : raw[i].tag \in tags /\ Counts(i)}

NumberOf(tags, from, to) == Cardinality(Tagged(tags, from, to))

\* The colours opened before i and not closed: nothing after the tag has closed
\* more than was opened.
Unclosed(i) ==
  {j \in Tagged({"clr", "playerclr"}, From(i), i - 1) :
     \A k \in j..i - 1 :
       NumberOf({"clr", "playerclr"}, j, k) > NumberOf({"endclr"}, j, k)}

InkOf(token) == IF token.tag = "clr" THEN token.ink
                ELSE IF fromPlayer THEN token.own ELSE token.other

Meant(i) ==
  [ink |-> IF Unclosed(i) = {} THEN ConfigInk ELSE InkOf(raw[Max(Unclosed(i))]),
   bold |-> NumberOf({"bold"}, From(i), i - 1) % 2 = 1,
   italic |-> NumberOf({"italic"}, From(i), i - 1) % 2 = 1]
-----------------------------------------------------------------------------
(* Properties *)

\* The types of the variables.
TypeOK ==
  /\ fromPlayer \in BOOLEAN /\ several \in BOOLEAN
  /\ raw \in Seq(Token) /\ part \in Nat
  /\ open \in {"nothing", "line", "delay"}
  /\ style \in Style /\ stack \in Seq(Colours)
  /\ line \in Seq(Run) /\ lines \in Seq(Seq(Run))
  /\ blank \in BOOLEAN /\ delay \in Nat
  /\ phrases \in Seq(Phrase)

\* The characters of a line.
Text(runs) == FlattenSeq([r \in DOMAIN runs |-> runs[r].text])

AllLines == {pl \in (1..Len(ParseCaptionText)) \X (1..Len(raw)) :
               pl[2] <= Len(ParseCaptionText[pl[1]].lines)}
LineAt(pl) == ParseCaptionText[pl[1]].lines[pl[2]]

\* Every character has the colour of the innermost colour tag around it and is
\* bold or italic after an odd number of tags, however tags are nested, cut off or
\* wrong; formatting goes on after <sb> but not after <delay>.
StyleAsMeant ==
  \A pl \in AllLines : \A r \in DOMAIN LineAt(pl) :
    LET run == LineAt(pl)[r]
    IN  \A k \in DOMAIN run.text : run.style = Meant(run.text[k].at)

\* Runs are as long as can be and no line is empty: what UpdateQueue recolours
\* and the shaper shapes is text of one style.
RunsMaximal ==
  \A pl \in AllLines :
    /\ LineAt(pl) # <<>>
    /\ \A r \in DOMAIN LineAt(pl) : LineAt(pl)[r].text # <<>>
    /\ \A r \in 1..Len(LineAt(pl)) - 1 : LineAt(pl)[r].style # LineAt(pl)[r + 1].style

\* The places of the characters in a line, in lines, in phrases, in order.
PlacesOf(runs) == [k \in DOMAIN Text(runs) |-> Text(runs)[k].at]
PlacesIn(ls) == FlattenSeq([l \in DOMAIN ls |-> PlacesOf(ls[l])])
PlacesAmong(ps) == FlattenSeq([p \in DOMAIN ps |-> PlacesIn(ps[p].lines)])
Places == PlacesAmong(ParseCaptionText)

\* No character that is text is lost or shown twice, and none changes its place;
\* a `<' left open costs its line no more than the text up to the next tag.
TextComplete ==
  /\ {Places[k] : k \in DOMAIN Places} = Shown
  /\ \A k \in 1..Len(Places) - 1 : Places[k] < Places[k + 1]

\* An <sb> part gets time for as many characters as it shows.
CountIsShown == GetVisibleCharCount = Len(Places)

\* Two characters of a part share a line unless a <cr> or a delay is between them,
\* and each waits for the last delay before it.
LinesAsBroken ==
  \A pl, ql \in AllLines :
    \A r \in DOMAIN LineAt(pl), s \in DOMAIN LineAt(ql) :
      \A k \in DOMAIN LineAt(pl)[r].text, m \in DOMAIN LineAt(ql)[s].text :
        LET i == LineAt(pl)[r].text[k].at
            j == LineAt(ql)[s].text[m].at
            due == Delays(i)
        IN  /\ i < j => (pl = ql <=> Tagged({"cr", "delay", "openDelay"}, i, j) = {})
            /\ ParseCaptionText[pl[1]].delay = IF due = {} THEN 0 ELSE raw[Max(due)].delay
=============================================================================
