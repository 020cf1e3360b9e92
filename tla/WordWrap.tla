------------------------------ MODULE WordWrap ------------------------------
(***************************************************************************)
(* The word wrap of RenderEntryTexture, on the lines the parser returns.    *)
(* Every glyph is as wide as its advance, 1; a space has an advance and no  *)
(* ink.  ShapeLine measures from the leftmost to the rightmost ink, or      *)
(* glyph without ink, so that a space at the end of a text has no width.    *)
(***************************************************************************)
EXTENDS CaptionMarkup

CONSTANT MaxWidth  \* maxPixelWidth

ASSUME WidthAssumption == MaxWidth \in Nat \ {0}

\* totalWidth of a text that has been shaped.
Width(text) ==
  IF text = <<>> THEN 0 ELSE Len(text) - (IF Last(text).space THEN 1 ELSE 0)

\* A space the wrap puts between two words; it has no place in the caption.
Space == [at |-> 0, space |-> TRUE]

\* spaceW: a space is the end of its text.
SpaceWidth == Width(<<Space>>)

\* More text for the last run.
Lengthened(runs, more) == [runs EXCEPT ![Len(runs)].text = @ \o more]

\* The words of a run, each with the style of the run.
WordsOf(run) ==
  LET f[k \in 0..Len(run.text)] ==
        IF k = 0 \/ run.text[k].space THEN IF k = 0 THEN <<>> ELSE f[k - 1]
        ELSE IF k = 1 \/ run.text[k - 1].space
             THEN Append(f[k - 1], [text |-> <<run.text[k]>>, style |-> run.style])
             ELSE Lengthened(f[k - 1], <<run.text[k]>>)
  IN  f[Len(run.text)]

\* Where a run ends a word ends too.
Words(runs) == FlattenSeq([r \in DOMAIN runs |-> WordsOf(runs[r])])

\* Mutant: a line is left before it is full.
PlaceTooEarly(s, word) ==
  LET needed == s.width + Width(word.text) + (IF s.line = <<>> THEN 0 ELSE SpaceWidth)
  IN  IF needed >= MaxWidth /\ s.line # <<>>
      THEN [packed |-> Append(s.packed, s.line), line |-> <<word>>,
            width |-> Width(word.text)]
      ELSE [packed |-> s.packed, line |-> Append(s.line, word), width |-> needed]

\* A word goes into the line (curLine, curW) if it fits, or is alone there.
Place(s, word) ==
  LET needed == s.width + Width(word.text) + (IF s.line = <<>> THEN 0 ELSE SpaceWidth)
  IN  IF needed > MaxWidth /\ s.line # <<>>
      THEN [packed |-> Append(s.packed, s.line), line |-> <<word>>,
            width |-> Width(word.text)]
      ELSE [packed |-> s.packed, line |-> Append(s.line, word), width |-> needed]

Placed(words) ==
  LET s[k \in 0..Len(words)] ==
        IF k = 0 THEN [packed |-> <<>>, line |-> <<>>, width |-> 0]
        ELSE Place(s[k - 1], words[k])
  IN  s[Len(words)]

\* Mutant: the last line is forgotten.
PackAllButLast(words) == Placed(words).packed

Pack(words) == Append(Placed(words).packed, Placed(words).line)

\* Mutant: no space where the style changes.
JoinTight(words) ==
  LET f[i \in 0..Len(words)] ==
        IF i = 0 THEN <<>> ELSE IF i = 1 THEN <<words[1]>>
        ELSE IF words[i].style = words[i - 1].style
             THEN Lengthened(f[i - 1], <<Space>> \o words[i].text)
             ELSE Append(f[i - 1], words[i])
  IN  f[Len(words)]

\* Words of one style become one run; between two styles the space has the first.
Join(words) ==
  LET f[i \in 0..Len(words)] ==
        IF i = 0 THEN <<>> ELSE IF i = 1 THEN <<words[1]>>
        ELSE IF words[i].style = words[i - 1].style
             THEN Lengthened(f[i - 1], <<Space>> \o words[i].text)
             ELSE f[i - 1] \o <<[text |-> <<Space>>, style |-> words[i - 1].style],
                                words[i]>>
  IN  f[Len(words)]

\* The lines RenderEntryTexture shapes instead of one.
Wrap(runs) ==
  IF Width(Text(runs)) <= MaxWidth \/ Words(runs) = <<>> THEN <<runs>>
  ELSE LET packed == Pack(Words(runs))
       IN  [l \in DOMAIN packed |-> Join(packed[l])]
-----------------------------------------------------------------------------
(* Properties *)

\* The characters of a run, or of a line, that are no spaces, each with its style.
InkedRun(run) ==
  FlattenSeq([k \in DOMAIN run.text |->
    IF run.text[k].space THEN <<>> ELSE << <<run.text[k], run.style>> >>])
Inked(runs) == FlattenSeq([r \in DOMAIN runs |-> InkedRun(runs[r])])

\* Wrapping loses, doubles, moves or restyles no character, whatever runs and
\* words the line has.
WrapKeepsText ==
  \A pl \in AllLines :
    LET wrapped == Wrap(LineAt(pl))
    IN  FlattenSeq([l \in DOMAIN wrapped |-> Inked(wrapped[l])]) = Inked(LineAt(pl))

Wrapped == {pl \in AllLines : Wrap(LineAt(pl)) # <<LineAt(pl)>>}

\* The characters without a space between them.
Touching(text) ==
  {<<text[k], text[k + 1]>> :
     k \in {j \in 1..Len(text) - 1 : ~text[j].space /\ ~text[j + 1].space}}
TouchingInRuns(runs) == UNION {Touching(runs[r].text) : r \in DOMAIN runs}

\* No two words run together and none is broken, neither at the end of a line nor by
\* a space: two characters touch in a wrapped line just if they touch in a run of the
\* caption.  A line has single spaces, and none at its ends.  The end of a run ends a
\* word for the wrap, so that one whose style changes in the middle is two
\* (caption_texture.cpp:61, against :48, "at word boundaries").
WrapKeepsWords ==
  \A pl \in Wrapped :
    LET wrapped == Wrap(LineAt(pl))
    IN  /\ \A l \in DOMAIN wrapped :
             LET text == Text(wrapped[l])
             IN  /\ ~text[1].space /\ ~Last(text).space
                 /\ \A k \in 1..Len(text) - 1 : ~text[k].space \/ ~text[k + 1].space
                 /\ Touching(text) \subseteq TouchingInRuns(LineAt(pl))
        /\ TouchingInRuns(LineAt(pl))
             \subseteq UNION {TouchingInRuns(wrapped[l]) : l \in DOMAIN wrapped}

InkOnly(runs) == Len(Inked(runs))
FirstWord(runs) == Len(Words(runs)[1].text)

\* As few lines as the words need when spaces take no room, as they do in the code's
\* sums: without its spaces a line fits, unless it is one word, and it would not with
\* the first word of the next line.
WrapGreedy ==
  \A pl \in Wrapped :
    LET wrapped == Wrap(LineAt(pl))
    IN  /\ \A l \in DOMAIN wrapped :
             InkOnly(wrapped[l]) <= MaxWidth \/ Len(Words(wrapped[l])) = 1
        /\ \A l \in 1..Len(wrapped) - 1 :
             InkOnly(wrapped[l]) + FirstWord(wrapped[l + 1]) > MaxWidth
=============================================================================
