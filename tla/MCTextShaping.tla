---------------------------- MODULE MCTextShaping ----------------------------
(* Values for the constants of TextShaping. *)
EXTENDS TextShaping

\* Letters of captions, and two more that only ligatures decompose into.
MCTyped == {"a", "1", "alef", "alefForm", "lamAlef", "markForm"}
MCLetters == MCTyped \cup {"lam", "mark", "tatweel", "alefEnd"}
MCTokens == [tag: {"char"}, cp: MCTyped] \cup [tag: {"space", "bold"}]

MCFormEntries ==
  <<[cp |-> "alefForm", base |-> <<"alef">>],
    [cp |-> "alefEnd", base |-> <<"alef">>],
    [cp |-> "markForm", base |-> <<"tatweel", "mark">>],
    [cp |-> "lamAlef", base |-> <<"lam", "alef">>]>>

MCArabic == {"alef", "lam", "mark", "tatweel"}
MCLatin == {"a", "1"}

\* A Latin font with an Arabic one behind it and the other way round, one font
\* alone, fonts that share the letters of a ligature, forms without letters, and a
\* fallback font with a ligature without its letters.
MCFonts ==
  {[primary |-> MCLatin, fallback |-> MCLatin \cup MCArabic],
   [primary |-> MCArabic, fallback |-> MCLatin],
   [primary |-> MCLatin \cup MCArabic, fallback |-> {}],
   [primary |-> {"a", "lam", "mark"}, fallback |-> {"1", "alef", "tatweel"}],
   [primary |-> {"a", "alefEnd"}, fallback |-> MCTyped \cup MCArabic],
   [primary |-> MCLatin \cup {"lam"}, fallback |-> {"lamAlef", "alefForm"}]}
=============================================================================
