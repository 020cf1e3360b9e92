---------------------------- MODULE MCConfigSync ----------------------------
(* Values for the constants of ConfigSync: a slider, the language, a font,   *)
(* the alignment, which follows the font in the snapshot, and a setting that *)
(* only the file holds.  A text that cannot be read, or is out of range,     *)
(* gives the default.                                                        *)
EXTENDS ConfigSync, TLC

CONSTANTS
  size, language, font, alignment, offset,
  old, new,   \* two plain values; the old one is the default
  fine,       \* a number with more digits than the page gets or the file keeps
  path,       \* the path of a font, with backslashes
  doubled,    \* the same path with each backslash twice; twice more is too long
  cut         \* the name of a font with a comma, in front of which a default stands

MCExposed == {size, language, font}
MCUnsynced == {alignment}
MCFileOnly == {offset}
MCBefore == [k \in {size, language, font, alignment} |->
               IF k = alignment THEN font ELSE Absent]
MCRank == (offset :> 1) @@ (alignment :> 2) @@ (size :> 3) @@ (font :> 4) @@ (language :> 5)
MCValues == {old, new, fine, path, doubled, cut}
\* A text is named by the value it spells, and Absent cannot be read.
MCTexts == {<<v>> : v \in MCValues} \cup {<<>>}
MCOffered == [k \in {size, language, font, alignment} |->
                CASE k = font -> {old, cut} [] k = size -> {} [] OTHER -> {new}]
MCTyped == (size :> {<<fine>>}) @@ (language :> {}) @@ (font :> {<<path>>})
             @@ (alignment :> {}) @@ (offset :> {<<fine>>})
MCFormat == [v \in MCValues |-> IF v = fine THEN <<old>> ELSE <<v>>]
MCParse == [t \in MCTexts |-> IF t = <<>> THEN old ELSE t[1]]
MCShown == [v \in MCValues |-> IF v = fine THEN old ELSE v]
MCReceived == [v \in MCValues |->
                 CASE v = path -> doubled [] v \in {doubled, cut} -> old [] OTHER -> v]
MCCut == {cut}
MCDefault == [k \in {size, language, font, alignment, offset} |-> old]
=============================================================================
