----------------------------- MODULE TextShaping -----------------------------
(***************************************************************************)
(* TextShaper::ShapeLine on the lines the parser returns: presentation      *)
(* forms that the font lacks are replaced (NormalizeForFace), the text is   *)
(* split into runs of one direction (SplitDirectionalRuns), each run into   *)
(* spans of one font (BuildFontSpans), and the glyphs of a span get the     *)
(* style of the caption run their character is in.                          *)
(*                                                                         *)
(* A text is a sequence of letters, each with the place in the caption of   *)
(* the character it comes from; offsets count letters, where the code       *)
(* counts bytes.  FriBidi and HarfBuzz are external: the first by the rules *)
(* of the Unicode bidirectional algorithm for letters, digits and spaces,   *)
(* the second as one glyph per letter, in visual order.                     *)
(***************************************************************************)
EXTENDS CaptionMarkup

CONSTANTS
  Latin,        \* letters written from left to right
  Digits,       \* European digits; all other letters are Arabic
  Tatweel,      \* U+0640, which only stretches
  FormEntries,  \* kFormEntries: the presentation forms and what they stand for
  Fonts         \* the letters of the primary and of the fallback font, in pairs

Forms == {FormEntries[e].cp : e \in DOMAIN FormEntries}

\* What a form stands for is no form itself and never only a tatweel
\* (arabic_fallback_data.h), so that Resolve never recurses and never drops all of it.
\* A font may have any letters; HasGlyph gives every font a space.
ASSUME ShapingAssumption ==
  /\ Latin \cup Digits \subseteq Letters /\ Latin \cap Digits = {}
  /\ "space" \notin Letters /\ Forms \cap (Latin \cup Digits) = {}
  /\ FormEntries \in Seq([cp: Letters, base: Seq(Letters \ Forms)])
  /\ \A e, f \in DOMAIN FormEntries : FormEntries[e].cp = FormEntries[f].cp => e = f
  /\ \A e \in DOMAIN FormEntries :
       /\ ToSet(FormEntries[e].base) \cap (Latin \cup Digits) = {}
       /\ ToSet(FormEntries[e].base) \ {Tatweel} # {}
  /\ Fonts \subseteq [primary: SUBSET Letters, fallback: SUBSET Letters]

HasGlyph(face, cp) == cp \in face \cup {"space"}

Cp(c) == IF c.space THEN "space" ELSE raw[c.at].cp
-----------------------------------------------------------------------------
(* arabic_fallback *)

Base(cp) == FormEntries[CHOOSE e \in DOMAIN FormEntries : FormEntries[e].cp = cp].base

\* Other forms of a letter that the font has.
Siblings(cp, base, face) ==
  {e \in DOMAIN FormEntries : /\ FormEntries[e].cp # cp /\ FormEntries[e].base = base
                              /\ FormEntries[e].cp \in face}

WithoutTatweel(base) ==
  FlattenSeq([k \in DOMAIN base |-> IF base[k] = Tatweel THEN <<>> ELSE <<base[k]>>])

\* What replaces a form.  Of several letters each is kept, whether the font has it
\* or not, but for a missing tatweel; of several forms the first of the table.
Resolve(base, siblings, face) ==
  IF Len(base) > 1
  THEN IF HasGlyph(face, Tatweel) THEN base ELSE WithoutTatweel(base)
  ELSE IF HasGlyph(face, base[1]) THEN base
  ELSE IF siblings # {} THEN <<FormEntries[Min(siblings)].cp>> ELSE <<>>

\* The caller keeps the original if there is nothing better.
KeptIfNone(cp, resolved) == IF resolved = <<>> THEN <<cp>> ELSE resolved

NormalizeForFace(cp, face) ==
  IF HasGlyph(face, cp) \/ cp \notin Forms THEN <<cp>>
  ELSE KeptIfNone(cp, Resolve(Base(cp), Siblings(cp, Base(cp), face), face))

\* Letters that stand for the character at a place of the caption.
For(at, letters) == [k \in DOMAIN letters |-> [cp |-> letters[k], at |-> at]]

Normalized(text, face) ==
  FlattenSeq([i \in DOMAIN text |->
    For(text[i].at, NormalizeForFace(Cp(text[i]), face))])
-----------------------------------------------------------------------------
(* FriBidi *)

\* The direction a letter has by itself: "L", "R", "N" for a number, "W" for space.
Class(cp) == IF cp = "space" THEN "W" ELSE IF cp \in Latin THEN "L"
             ELSE IF cp \in Digits THEN "N" ELSE "R"

\* The letters with a direction of their own.
Strong(text) == {i \in DOMAIN text : Class(text[i].cp) \in {"L", "R"}}

\* P2, P3: the direction of a text is that of its first letter.
BaseDirection(text) ==
  IF Strong(text) = {} THEN "L" ELSE Class(text[Min(Strong(text))].cp)

\* The direction of the last letter before a place, or of the text.
StrongBefore(text, i, base) ==
  LET before == {j \in Strong(text) : j < i}
  IN  IF before = {} THEN base ELSE Class(text[Max(before)].cp)

\* W2, W7: a number after Latin is Latin.
Classes(text, base) ==
  [i \in DOMAIN text |->
    IF Class(text[i].cp) = "N" /\ StrongBefore(text, i, base) = "L" THEN "L"
    ELSE Class(text[i].cp)]

\* A number counts as Arabic for its neighbours.
Side(class) == IF class = "L" THEN "L" ELSE "R"

\* N1, N2: a space has the direction of its neighbours if they agree, else that of
\* the text.
Direction(classes, i, base) ==
  LET sided == {j \in DOMAIN classes : classes[j] # "W"}
      before == {j \in sided : j < i}
      after == {j \in sided : j > i}
      left == IF before = {} THEN base ELSE Side(classes[Max(before)])
      right == IF after = {} THEN base ELSE Side(classes[Min(after)])
  IN  IF classes[i] # "W" THEN classes[i] ELSE IF left = right THEN left ELSE base

\* I1, I2.
Level(direction, base) == CASE direction = "R" -> 1
                            [] direction = "N" -> 2
                            [] direction = "L" -> IF base = "L" THEN 0 ELSE 2

\* The levels of fribidi_get_par_embedding_levels.
LevelsOf(classes, base) ==
  [i \in DOMAIN classes |-> Level(Direction(classes, i, base), base)]

Levels(text) == LevelsOf(Classes(text, BaseDirection(text)), BaseDirection(text))

\* L2: turns every stretch of places whose level is high enough around.
Turned(map, levels, level) ==
  LET low == {v \in DOMAIN map : levels[v] < level}
      first(v) == Max({0} \cup {u \in low : u < v}) + 1
      last(v) == Min({Len(map) + 1} \cup {u \in low : u > v}) - 1
  IN  [v \in DOMAIN map |-> IF v \in low THEN map[v] ELSE map[first(v) + last(v) - v]]

\* visualMap: which letter is at each place from the left.
VisualMap(levels) ==
  Turned(Turned([v \in DOMAIN levels |-> v], levels, 2), levels, 1)

\* logToVis: the place of a letter in the map.
PlaceOf(map, i) == CHOOSE v \in DOMAIN map : map[v] = i
-----------------------------------------------------------------------------
(* TextShaper *)

\* The stretches of equal values of a sequence.
Stretches(values) ==
  LET f[i \in 0..Len(values)] ==
        IF i = 0 THEN <<>>
        ELSE IF i > 1 /\ values[i] = values[i - 1]
             THEN [f[i - 1] EXCEPT ![Len(f[i - 1])].last = i]
             ELSE Append(f[i - 1], [first |-> i, last |-> i])
  IN  f[Len(values)]

\* Letters whose levels are even or odd alike make a run.
LogRuns(levels) == Stretches([i \in DOMAIN levels |-> levels[i] % 2])

VisRun(run, levels, map) ==
  [visPos |-> Min({PlaceOf(map, i) : i \in run.first..run.last}),
   first |-> run.first, last |-> run.last, rtl |-> levels[run.first] % 2 = 1]

\* The runs in the order of their leftmost letters.
VisRuns(runs, levels, map) ==
  LET vis == [r \in DOMAIN runs |-> VisRun(runs[r], levels, map)]
      Left(r) == {q \in DOMAIN runs : vis[q].visPos < vis[r].visPos}
  IN  [k \in DOMAIN runs |-> vis[CHOOSE r \in DOMAIN runs : Cardinality(Left(r)) = k - 1]]

SplitDirectionalRuns(levels) == VisRuns(LogRuns(levels), levels, VisualMap(levels))

\* What a letter is written with in the view of its run.
Piece(letters, letter, from, fallback) ==
  [k \in DOMAIN letters |->
     [cp |-> letters[k], at |-> letter.at, from |-> from, fallback |-> fallback]]

\* Mutant: the fallback font is asked for the letter as it is.
PieceAsIs(letter, from, sub, fonts) ==
  Piece(<<letter.cp>>, letter, from,
        ~HasGlyph(fonts.primary, letter.cp) /\ HasGlyph(fonts.fallback, letter.cp))

\* A letter the primary font lacks is replaced by what the fallback font has for
\* it, if that has all of it.
PieceOf(letter, from, sub, fonts) ==
  IF ~HasGlyph(fonts.primary, letter.cp)
     /\ \A k \in DOMAIN sub : HasGlyph(fonts.fallback, sub[k])
  THEN Piece(sub, letter, from, TRUE)
  ELSE Piece(<<letter.cp>>, letter, from, FALSE)

\* The view of a run.
View(text, run, fonts) ==
  FlattenSeq([v \in 1..run.last - run.first + 1 |->
    LET i == run.first + v - 1
    IN  PieceOf(text[i], i, NormalizeForFace(text[i].cp, fonts.fallback), fonts)])

\* Mutant: the span that is open at the end is not closed.
SpansClosed(view) == Front(Stretches([v \in DOMAIN view |-> view[v].fallback]))

\* BuildFontSpans: maximal spans of one font.
Spans(view) == Stretches([v \in DOMAIN view |-> view[v].fallback])

Turn(rtl, seq) == IF rtl THEN Reverse(seq) ELSE seq

\* hb_shape returns the glyphs of a span from left to right.
GlyphsOf(spans, view, rtl) ==
  FlattenSeq([s \in DOMAIN spans |->
    Turn(rtl, SubSeq(view, spans[s].first, spans[s].last))])

\* Mutant: spans of a run from right to left are visited from left to right.
ShapedForward(view, rtl) == GlyphsOf(Spans(view), view, rtl)

\* The spans of a run from right to left are visited in reverse.
Shaped(view, rtl) == GlyphsOf(Turn(rtl, Spans(view)), view, rtl)

\* Mutant: boundaries are those of the text before it was normalized.
BoundariesBefore(runs, face) ==
  [r \in DOMAIN runs |-> Len(FlattenSeq([q \in 1..r |-> runs[q].text]))]

\* Where each caption run ends in the text that is shaped.
Boundaries(runs, face) ==
  [r \in DOMAIN runs |-> Len(FlattenSeq([q \in 1..r |-> Normalized(runs[q].text, face)]))]

FullText(runs, face) ==
  FlattenSeq([r \in DOMAIN runs |-> Normalized(runs[r].text, face)])

\* A glyph has the style of the run in which the letter is that its cluster
\* names; white and plain if there is none.
StyleAt(within, runs) == IF within = {} THEN NoStyle ELSE runs[Min(within)].style

Styled(shaped, runs, ends) ==
  [g \in DOMAIN shaped |->
     [cp |-> shaped[g].cp, at |-> shaped[g].at, fallback |-> shaped[g].fallback,
      style |-> StyleAt({r \in DOMAIN runs : shaped[g].from <= ends[r]}, runs)]]

\* The glyphs of one direction after the other.
ShapeRuns(split, text, runs, ends, fonts) ==
  FlattenSeq([d \in DOMAIN split |->
    Styled(Shaped(View(text, split[d], fonts), split[d].rtl), runs, ends)])

\* The glyphs of a line from left to right.
ShapeLine(runs, fonts) ==
  LET text == FullText(runs, fonts.primary)
  IN  ShapeRuns(SplitDirectionalRuns(Levels(text)), text, runs,
                Boundaries(runs, fonts.primary), fonts)
-----------------------------------------------------------------------------
(* Properties *)

\* Every line of the caption in every pair of fonts.
Shapings ==
  {[runs |-> LineAt(pl), fonts |-> fonts, glyphs |-> ShapeLine(LineAt(pl), fonts)] :
     pl \in AllLines, fonts \in Fonts}

\* However a line is normalized, reordered and spread over two fonts, every glyph
\* has the style of the caption run its character is in.
GlyphsKeepStyle ==
  \A s \in Shapings : \A g \in DOMAIN s.glyphs :
    \E r \in DOMAIN s.runs :
      /\ s.runs[r].style = s.glyphs[g].style
      /\ \E k \in DOMAIN s.runs[r].text : s.runs[r].text[k].at = s.glyphs[g].at

\* The ways to write a letter: itself, another form of it, what it stands for.
FormSpellings(base) ==
  {base, WithoutTatweel(base)}
    \cup {<<e.cp>> : e \in {f \in ToSet(FormEntries) : f.base = base}}
Spellings(cp) == {<<cp>>} \cup IF cp \in Forms THEN FormSpellings(Base(cp)) ELSE {}

\* The letters of the glyphs of a character, as they are read.
Written(glyphs, at) ==
  Reverse(FlattenSeq([g \in DOMAIN glyphs |->
                       IF glyphs[g].at = at THEN <<glyphs[g].cp>> ELSE <<>>]))

\* Every character of a line is written once, in one of its spellings and in the
\* direction of its script, also where its letters come from two fonts.
WrittenOnce ==
  \A s \in Shapings :
    LET text == Text(s.runs)
    IN  /\ {s.glyphs[g].at : g \in DOMAIN s.glyphs} = {text[i].at : i \in DOMAIN text}
        /\ \A i \in DOMAIN text :
             Written(s.glyphs, text[i].at) \in Spellings(Cp(text[i]))

Covers(face, spelling) == \A k \in DOMAIN spelling : HasGlyph(face, spelling[k])

\* The character of a glyph.
Original(glyph) == IF raw[glyph.at].tag = "space" THEN "space" ELSE raw[glyph.at].cp

FaceOf(glyph, fonts) == IF glyph.fallback THEN fonts.fallback ELSE fonts.primary

\* A font writes a spelling if it has its letters, and those of its ligatures.
Writes(face, spelling) ==
  /\ Covers(face, spelling)
  /\ \A k \in DOMAIN spelling :
       spelling[k] \in Forms /\ Len(Base(spelling[k])) > 1 =>
         Covers(face, WithoutTatweel(Base(spelling[k])))

\* The fallback font is used only for what the primary one cannot write, and an
\* empty box stands only for what neither can.  A ligature counts only for a font that
\* also has its letters: it is taken apart for a primary font that lacks it before the
\* fallback font is asked (shaper.cpp:497), and then drawn as boxes if neither has them.
BestFont ==
  \A s \in Shapings : \A g \in DOMAIN s.glyphs :
    LET glyph == s.glyphs[g]
        box == ~HasGlyph(FaceOf(glyph, s.fonts), glyph.cp)
    IN  /\ glyph.fallback \/ box => ~HasGlyph(s.fonts.primary, Original(glyph))
        /\ \A spelling \in Spellings(Original(glyph)) :
             /\ glyph.fallback \/ box => ~Writes(s.fonts.primary, spelling)
             /\ box => ~Writes(s.fonts.fallback, spelling)

\* The glyphs are in the order the bidirectional algorithm gives their letters.
Ordered(glyphs, text, map) ==
  LET Place(at) == Min({PlaceOf(map, i) : i \in {j \in DOMAIN text : text[j].at = at}})
  IN  \A g \in 1..Len(glyphs) - 1 : Place(glyphs[g].at) <= Place(glyphs[g + 1].at)

InVisualOrder(s) ==
  LET text == FullText(s.runs, s.fonts.primary)
  IN  Ordered(s.glyphs, text, VisualMap(Levels(text)))

\* Latin follows a number that follows Arabic.
Meets(levels) == \E i \in 1..Len(levels) - 1 : {levels[i], levels[i + 1]} = {0, 2}

\* Lines are drawn in visual order (shaper.cpp:153), fonts and spans
\* notwithstanding, but for Latin after a number after Arabic.
MixedLinesOrdered ==
  \A s \in Shapings :
    Meets(Levels(FullText(s.runs, s.fonts.primary))) \/ InVisualOrder(s)
=============================================================================
