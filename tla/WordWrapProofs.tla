---------------------------- MODULE WordWrapProofs ----------------------------
(***************************************************************************)
(* Proofs about the word wrap, for captions of any length and alphabet and   *)
(* for any maxPixelWidth.  Nothing of it depends on how the caption was      *)
(* parsed, only on the types of what the parser returns, which the invariant *)
(* Inv of CaptionMarkupProofs has.                                           *)
(*                                                                         *)
(* WordsOf, Join and Placed are recursive functions over a sequence.  Each   *)
(* is first shown to have a solution (WordsOfIs, JoinIs, PlacedIs), then     *)
(* what one more element adds (WordsOfAppend, JoinAppend, PlacedAppend), and *)
(* with that what it returns, by induction over the sequence (WordsOfRun,    *)
(* WordsJoined, WordsPlaced).                                                *)
(***************************************************************************)
EXTENDS WordWrap, CaptionMarkupProofs
-----------------------------------------------------------------------------
(* Sequences *)

\* What holds of the empty sequence and is kept by Append holds of every sequence.
LEMMA InductionOnSequences ==
  ASSUME NEW S, NEW T, <<>> \in T,
         \A s \in Seq(S), x \in S : s \in T => Append(s, x) \in T
  PROVE  \A s \in Seq(S) : s \in T
<1> DEFINE N == {n \in Nat : \A s \in Seq(S) : Len(s) = n => s \in T}
<1>1. 0 \in N
  BY EmptySeq
<1>2. ASSUME NEW n \in Nat, n \in N PROVE n + 1 \in N
  <2> SUFFICES ASSUME NEW s \in Seq(S), Len(s) = n + 1 PROVE s \in T
    OBVIOUS
  <2>1. PICK t \in Seq(S), x \in S : s = Append(t, x)
    BY SequenceEmptyOrAppend, EmptySeq
  <2>2. Len(t) = n
    BY <2>1, AppendProperties
  <2> QED BY <1>2, <2>1, <2>2
<1>3. \A n \in Nat : n \in N
  <2> HIDE DEF N
  <2> QED BY <1>1, <1>2, Induction
<1> QED BY <1>3

\* The last element is the one appended.
LEMMA LastOfAppend ==
  ASSUME NEW S, NEW s \in Seq(S), NEW x \in S
  PROVE  Last(Append(s, x)) = x
BY AppendProperties DEF Last

\* AppendProperties for a sequence that has a name.
LEMMA AppendIs ==
  ASSUME NEW S, NEW s, NEW x, NEW more, s \in Seq(S), x \in S, more = Append(s, x)
  PROVE  /\ more \in Seq(S) /\ Len(more) = Len(s) + 1 /\ more[Len(s) + 1] = x
         /\ \A i \in 1..Len(s) : more[i] = s[i]
BY AppendProperties

\* Appending commutes with concatenation.
LEMMA AppendConcat ==
  ASSUME NEW S, NEW a \in Seq(S), NEW b \in Seq(S), NEW x \in S
  PROVE  a \o Append(b, x) = Append(a \o b, x)
<1>1. a \o Append(b, x) = a \o (b \o <<x>>) /\ <<x>> \in Seq(S) /\ a \o b \in Seq(S)
  BY AppendIsConcat, ConcatProperties
<1>2. Append(a \o b, x) = (a \o b) \o <<x>>
  BY <1>1, AppendIsConcat
<1> QED BY <1>1, <1>2, ConcatAssociative

\* A sequence of one.
LEMMA OneIs ==
  ASSUME NEW x
  PROVE  DOMAIN <<x>> = {1} /\ <<x>>[1] = x
OBVIOUS

\* Append makes a sequence of two.
LEMMA PairIs ==
  ASSUME NEW a, NEW b
  PROVE  Append(<<a>>, b) = <<a, b>>
<1> DEFINE S == {a, b}
<1>1. a \in S /\ b \in S
  OBVIOUS
<1> HIDE DEF S
<1>2. PICK one : one = <<a>>
  OBVIOUS
<1>3. one \in Seq(S) /\ Len(one) = 1 /\ one[1] = a
  BY <1>1, <1>2
<1>4. /\ Append(one, b) \in Seq(S) /\ Len(Append(one, b)) = 2
      /\ Append(one, b)[1] = a /\ Append(one, b)[2] = b
  <2>1. 1 + 1 = 2 /\ 1 \in 1..1
    OBVIOUS
  <2>2. PICK more : more = Append(one, b)
    OBVIOUS
  <2>3. /\ more \in Seq(S) /\ Len(more) = Len(one) + 1 /\ more[Len(one) + 1] = b
        /\ \A i \in 1..Len(one) : more[i] = one[i]
    <3>1. one \in Seq(S) /\ b \in S
      BY <1>1, <1>3
    <3> QED BY ONLY <2>2, <3>1, AppendIs
  <2> QED BY ONLY <1>3, <2>1, <2>2, <2>3
<1>5. <<a, b>> \in Seq(S) /\ Len(<<a, b>>) = 2 /\ <<a, b>>[1] = a /\ <<a, b>>[2] = b
  BY <1>1
<1>6. PICK p, q : p = Append(one, b) /\ q = <<a, b>>
  OBVIOUS
<1>7. \A i \in 1..2 : p[i] = q[i]
  <2>1. \A i \in 1..2 : i = 1 \/ i = 2
    OBVIOUS
  <2> QED BY <1>4, <1>5, <1>6, <2>1
<1>8. p = q
  BY <1>4, <1>5, <1>6, <1>7, SeqEqual
<1> QED BY ONLY <1>2, <1>6, <1>8

\* EXCEPT on the last element of a sequence.
LEMMA ExceptLast ==
  ASSUME NEW S, NEW a \in Seq(S), NEW x \in S, NEW y \in S, NEW n, n = Len(a) + 1
  PROVE  [Append(a, x) EXCEPT ![n] = y] = Append(a, y)
<1> DEFINE b == Append(a, x)
<1>1. b \in Seq(S) /\ Len(b) = n /\ n \in 1..n /\ \A i \in 1..Len(a) : b[i] = a[i]
  BY AppendProperties
<1> DEFINE c == [b EXCEPT ![n] = y]
<1>2. /\ c \in Seq(S) /\ Len(c) = n
      /\ \A j \in 1..n : c[j] = IF j = n THEN y ELSE b[j]
  <2> HIDE DEF b
  <2> QED BY <1>1, ExceptSeq
<1>3. /\ Append(a, y) \in Seq(S) /\ Len(Append(a, y)) = n
      /\ Append(a, y)[n] = y /\ \A i \in 1..Len(a) : Append(a, y)[i] = a[i]
  BY AppendProperties
<1> HIDE DEF b, c
<1>4. \A j \in 1..n : c[j] = Append(a, y)[j]
  <2>1. \A j \in 1..n : j = n \/ j \in 1..Len(a)
    OBVIOUS
  <2> QED BY <1>1, <1>2, <1>3, <2>1
<1>5. c = Append(a, y)
  BY <1>2, <1>3, <1>4, SeqEqual
<1> QED BY <1>5 DEF b, c

\* A sequence of one sequence, flattened.
LEMMA FlattenOne ==
  ASSUME NEW S, NEW s \in Seq(S)
  PROVE  FlattenSeq(<<s>>) = s
<1>1. <<s>> = Append(<<>>, s) /\ <<>> \in Seq(Seq(S))
  OBVIOUS
<1>2. FlattenSeq(Append(<<>>, s)) = FlattenSeq(<<>>) \o s
  BY <1>1, FlattenAppend
<1>3. FlattenSeq(<<>>) = <<>>
  BY FlattenEmpty
<1>4. <<>> \o s = s
  BY ConcatEmptySeq
<1> QED BY ONLY <1>1, <1>2, <1>3, <1>4

\* Flattening commutes with concatenation.
LEMMA FlattenConcat ==
  ASSUME NEW S, NEW a \in Seq(Seq(S)), NEW b \in Seq(Seq(S))
  PROVE  FlattenSeq(a \o b) = FlattenSeq(a) \o FlattenSeq(b)
<1> DEFINE SS == Seq(S)
           T == {t \in Seq(SS) : FlattenSeq(a \o t) = FlattenSeq(a) \o FlattenSeq(t)}
<1>0. FlattenSeq(a) \in Seq(S)
  BY FlattenType
<1>1. <<>> \in T
  <2>1. a \o <<>> = a /\ FlattenSeq(a) \o <<>> = FlattenSeq(a)
    BY <1>0, ConcatEmptySeq
  <2>2. FlattenSeq(<<>>) = <<>>
    BY FlattenEmpty
  <2>3. FlattenSeq(a \o <<>>) = FlattenSeq(a) \o FlattenSeq(<<>>)
    BY ONLY <2>1, <2>2
  <2> QED BY <2>3
<1>2. ASSUME NEW t \in Seq(SS), NEW x \in SS, t \in T PROVE Append(t, x) \in T
  <2>1. FlattenSeq(Append(t, x)) = FlattenSeq(t) \o x
    BY FlattenAppend
  <2>2. a \o t \in Seq(SS) /\ FlattenSeq(t) \in Seq(S) /\ x \in Seq(S)
    BY ConcatProperties, FlattenType
  <2>3. FlattenSeq(Append(a \o t, x)) = FlattenSeq(a \o t) \o x
    BY <2>2, FlattenAppend
  <2>4. a \o Append(t, x) = Append(a \o t, x)
    BY AppendConcat
  <2>5. (FlattenSeq(a) \o FlattenSeq(t)) \o x = FlattenSeq(a) \o (FlattenSeq(t) \o x)
    BY <1>0, <2>2, ConcatAssociative
  <2>6. FlattenSeq(a \o t) = FlattenSeq(a) \o FlattenSeq(t)
    BY <1>2
  <2>7. FlattenSeq(a \o Append(t, x)) = FlattenSeq(a) \o FlattenSeq(Append(t, x))
    BY ONLY <2>1, <2>3, <2>4, <2>5, <2>6
  <2>8. Append(t, x) \in Seq(SS)
    BY AppendProperties
  <2> QED BY <2>7, <2>8
<1>3. \A t \in Seq(SS) : t \in T
  <2> HIDE DEF T
  <2> QED BY <1>1, <1>2, InductionOnSequences
<1> QED BY <1>3

\* Two functions with one recursion and one start are equal.
LEMMA RecursionsAgreeFromZero ==
  ASSUME NEW n \in Nat, NEW f, NEW h, f[0] = h[0],
         \A k \in 1..n : f[k - 1] = h[k - 1] => f[k] = h[k]
  PROVE  \A k \in 0..n : f[k] = h[k]
<1>1. 0 \in Nat /\ 0 <= n
  OBVIOUS
<1>2. \A k \in 0 + 1..n : f[k - 1] = h[k - 1] => f[k] = h[k]
  OBVIOUS
<1> QED BY <1>1, <1>2, RecursionsAgree
-----------------------------------------------------------------------------
(* The inks and the text of a line *)

\* A character that is no space, with its style.
Inks == Char \X Style

\* What a character adds to the inks of its run.
InkOrNot(c, s) == IF c.space THEN <<>> ELSE << <<c, s>> >>

\* What a character adds is a sequence of inks.
LEMMA InkOrNotType ==
  ASSUME NEW c \in Char, NEW s \in Style
  PROVE  InkOrNot(c, s) \in Seq(Inks)
<1>1. <<c, s>> \in Inks
  BY DEF Inks
<1>2. << <<c, s>> >> \in Seq(Inks) /\ <<>> \in Seq(Inks)
  BY <1>1
<1> QED BY <1>2 DEF InkOrNot

\* The inks of a run, character by character.
InksOf(run) == [k \in DOMAIN run.text |-> InkOrNot(run.text[k], run.style)]

\* A text and a style are a run.
LEMMA RunIs ==
  ASSUME NEW t \in Seq(Char), NEW s \in Style
  PROVE  /\ [text |-> t, style |-> s] \in Run
         /\ [text |-> t, style |-> s].text = t
         /\ [text |-> t, style |-> s].style = s
BY DEF Run

\* A run is a text and a style.
LEMMA RunParts ==
  ASSUME NEW run \in Run
  PROVE  /\ run.text \in Seq(Char) /\ run.style \in Style
         /\ run = [text |-> run.text, style |-> run.style]
BY DEF Run

\* A run has a sequence of inks: those of its characters in their order.
LEMMA InksOfType ==
  ASSUME NEW run \in Run
  PROVE  InksOf(run) \in Seq(Seq(Inks)) /\ Len(InksOf(run)) = Len(run.text)
         /\ InkedRun(run) = FlattenSeq(InksOf(run)) /\ InkedRun(run) \in Seq(Inks)
<1>1. \A k \in 1..Len(run.text) : run.text[k] \in Char
  BY RunParts
<1>2. \A k \in 1..Len(run.text) : InkOrNot(run.text[k], run.style) \in Seq(Inks)
  BY <1>1, RunParts, InkOrNotType
<1>3. InksOf(run) \in Seq(Seq(Inks)) /\ Len(InksOf(run)) = Len(run.text)
  BY <1>2, RunParts DEF InksOf
<1>4. InkedRun(run) = FlattenSeq(InksOf(run))
  BY DEF InkedRun, InksOf, InkOrNot
<1> QED BY <1>3, <1>4, FlattenType

\* The inks of a text are those of its parts.
LEMMA InkedRunConcat ==
  ASSUME NEW t \in Seq(Char), NEW u \in Seq(Char), NEW s \in Style
  PROVE  InkedRun([text |-> t \o u, style |-> s]) =
           InkedRun([text |-> t, style |-> s]) \o InkedRun([text |-> u, style |-> s])
<1> DEFINE R(x) == [text |-> x, style |-> s]
<1>1. t \o u \in Seq(Char) /\ R(t) \in Run /\ R(u) \in Run /\ R(t \o u) \in Run
  BY ConcatProperties, RunIs
<1>2. InksOf(R(t \o u)) = InksOf(R(t)) \o InksOf(R(u))
  <2>1. /\ InksOf(R(t)) \in Seq(Seq(Inks)) /\ Len(InksOf(R(t))) = Len(t)
        /\ InksOf(R(u)) \in Seq(Seq(Inks)) /\ Len(InksOf(R(u))) = Len(u)
        /\ InksOf(R(t \o u)) \in Seq(Seq(Inks)) /\ Len(InksOf(R(t \o u))) = Len(t \o u)
    BY <1>1, InksOfType
  <2>2. /\ Len(t \o u) = Len(t) + Len(u) /\ Len(t) \in Nat /\ Len(u) \in Nat
        /\ \A k \in 1..Len(t) + Len(u) :
             (t \o u)[k] = IF k <= Len(t) THEN t[k] ELSE u[k - Len(t)]
    BY ConcatProperties
  <2>3. /\ \A k \in 1..Len(t) : InksOf(R(t))[k] = InkOrNot(t[k], s)
        /\ \A k \in 1..Len(u) : InksOf(R(u))[k] = InkOrNot(u[k], s)
        /\ \A k \in 1..Len(t \o u) : InksOf(R(t \o u))[k] = InkOrNot((t \o u)[k], s)
    BY <1>1 DEF InksOf
  <2> DEFINE a == InksOf(R(t)) \o InksOf(R(u))
             b == InksOf(R(t \o u))
  <2>4. /\ a \in Seq(Seq(Inks)) /\ Len(a) = Len(t) + Len(u)
        /\ \A k \in 1..Len(t) + Len(u) :
             a[k] = IF k <= Len(t) THEN InksOf(R(t))[k] ELSE InksOf(R(u))[k - Len(t)]
    <3>1. PICK x, y \in Seq(Seq(Inks)) : x = InksOf(R(t)) /\ y = InksOf(R(u))
      BY <2>1
    <3>2. Len(x) = Len(t) /\ Len(y) = Len(u) /\ a = x \o y
      BY <2>1, <3>1
    <3>3. /\ x \o y \in Seq(Seq(Inks)) /\ Len(x \o y) = Len(x) + Len(y)
          /\ \A k \in 1..Len(x) + Len(y) : (x \o y)[k] = IF k <= Len(x) THEN x[k] ELSE y[k - Len(x)]
      BY ConcatProperties
    <3> HIDE DEF R, a
    <3> QED BY ONLY <3>1, <3>2, <3>3
  <2>5. \A k \in 1..Len(t) + Len(u) : a[k] = b[k]
    <3> SUFFICES ASSUME NEW k \in 1..Len(t) + Len(u) PROVE a[k] = b[k]
      OBVIOUS
    <3> HIDE DEF R, a, b
    <3>1. CASE k <= Len(t)
      <4>1. k \in 1..Len(t) /\ k \in 1..Len(t \o u)
        BY <2>2, <3>1
      <4>2. a[k] = InkOrNot(t[k], s)
        BY <2>3, <2>4, <3>1, <4>1
      <4>3. b[k] = InkOrNot(t[k], s)
        BY <2>2, <2>3, <3>1, <4>1 DEF b
      <4> QED BY <4>2, <4>3
    <3>2. CASE ~(k <= Len(t))
      <4>1. k - Len(t) \in 1..Len(u) /\ k \in 1..Len(t \o u)
        BY <2>2, <3>2
      <4>2. a[k] = InkOrNot(u[k - Len(t)], s)
        BY <2>3, <2>4, <3>2, <4>1
      <4>3. b[k] = InkOrNot(u[k - Len(t)], s)
        BY <2>2, <2>3, <3>2, <4>1 DEF b
      <4> QED BY <4>2, <4>3
    <3> QED BY <3>1, <3>2
  <2>6. b \in Seq(Seq(Inks)) /\ Len(b) = Len(t) + Len(u)
    BY <2>1, <2>2
  <2> HIDE DEF a, b
  <2>7. a = b
    BY <2>4, <2>5, <2>6, SeqEqual
  <2> QED BY <2>7 DEF a, b
<1>3. /\ InksOf(R(t)) \in Seq(Seq(Inks)) /\ InkedRun(R(t)) = FlattenSeq(InksOf(R(t)))
      /\ InksOf(R(u)) \in Seq(Seq(Inks)) /\ InkedRun(R(u)) = FlattenSeq(InksOf(R(u)))
      /\ InkedRun(R(t \o u)) = FlattenSeq(InksOf(R(t \o u)))
  BY <1>1, InksOfType
<1> HIDE DEF R
<1>4. InkedRun(R(t \o u)) = InkedRun(R(t)) \o InkedRun(R(u))
  <2>1. PICK x, y \in Seq(Seq(Inks)) : x = InksOf(R(t)) /\ y = InksOf(R(u))
    BY <1>3
  <2>2. FlattenSeq(x \o y) = FlattenSeq(x) \o FlattenSeq(y)
    BY FlattenConcat
  <2> QED BY ONLY <1>2, <1>3, <2>1, <2>2
<1> QED BY <1>4 DEF R

\* The inks of a run of one character.
LEMMA InkedRunOne ==
  ASSUME NEW c \in Char, NEW s \in Style
  PROVE  InkedRun([text |-> <<c>>, style |-> s]) = InkOrNot(c, s)
<1> DEFINE run == [text |-> <<c>>, style |-> s]
<1>1. run \in Run /\ run.text = <<c>> /\ run.style = s
  <2>1. <<c>> \in Seq(Char)
    OBVIOUS
  <2> QED BY <2>1, RunIs
<1> HIDE DEF run
<1>2. InksOf(run) = <<InkOrNot(c, s)>>
  BY <1>1 DEF InksOf
<1>3. InkedRun(run) = FlattenSeq(<<InkOrNot(c, s)>>)
  BY <1>1, <1>2, InksOfType
<1>4. InkOrNot(c, s) \in Seq(Inks)
  BY InkOrNotType
<1>5. FlattenSeq(<<InkOrNot(c, s)>>) = InkOrNot(c, s)
  BY <1>4, FlattenOne
<1> QED BY <1>3, <1>5 DEF run

\* A run without characters has no inks.
LEMMA InkedRunEmpty ==
  ASSUME NEW s \in Style
  PROVE  InkedRun([text |-> <<>>, style |-> s]) = <<>>
<1> DEFINE run == [text |-> <<>>, style |-> s]
<1>1. run \in Run /\ run.text = <<>>
  <2>1. <<>> \in Seq(Char)
    OBVIOUS
  <2> QED BY <2>1, RunIs
<1> HIDE DEF run
<1>2. InksOf(run) = <<>>
  BY <1>1 DEF InksOf
<1>3. InkedRun(run) = FlattenSeq(<<>>)
  BY <1>1, <1>2, InksOfType
<1>4. FlattenSeq(<<>>) = <<>>
  BY FlattenEmpty
<1>5. InkedRun(run) = <<>>
  BY ONLY <1>3, <1>4
<1> QED BY <1>5 DEF run

\* The inks and the text of a line that goes on with a run.
LEMMA InkedType ==
  ASSUME NEW runs \in Seq(Run)
  PROVE  Inked(runs) \in Seq(Inks)
<1>1. \A r \in 1..Len(runs) : InkedRun(runs[r]) \in Seq(Inks)
  BY InksOfType
<1>2. [r \in DOMAIN runs |-> InkedRun(runs[r])] \in Seq(Seq(Inks))
  BY <1>1
<1> QED BY <1>2, FlattenType DEF Inked

\* A line without runs has no inks and no text.
LEMMA InkedEmpty == Inked(<<>>) = <<>> /\ Text(<<>>) = <<>>
<1>1. [r \in DOMAIN <<>> |-> InkedRun(<<>>[r])] = <<>>
  OBVIOUS
<1>2. [r \in DOMAIN <<>> |-> <<>>[r].text] = <<>>
  OBVIOUS
<1>3. FlattenSeq(<<>>) = <<>>
  BY FlattenEmpty
<1>4. Inked(<<>>) = FlattenSeq([r \in DOMAIN <<>> |-> InkedRun(<<>>[r])])
  BY DEF Inked
<1>5. Text(<<>>) = FlattenSeq([r \in DOMAIN <<>> |-> <<>>[r].text])
  BY DEF Text
<1> QED BY ONLY <1>1, <1>2, <1>3, <1>4, <1>5

\* A line that goes on with a run goes on with its inks and its text.
LEMMA InkedAppend ==
  ASSUME NEW runs \in Seq(Run), NEW run \in Run
  PROVE  /\ Inked(Append(runs, run)) = Inked(runs) \o InkedRun(run)
         /\ Text(Append(runs, run)) = Text(runs) \o run.text
<1> DEFINE I(x) == [r \in DOMAIN x |-> InkedRun(x[r])]
           X(x) == [r \in DOMAIN x |-> x[r].text]
           more == Append(runs, run)
<1>1. /\ more \in Seq(Run) /\ Len(more) = Len(runs) + 1 /\ more[Len(runs) + 1] = run
      /\ \A r \in 1..Len(runs) : more[r] = runs[r]
  BY AppendProperties
<1>2. /\ \A r \in 1..Len(runs) : InkedRun(runs[r]) \in Seq(Inks) /\ runs[r].text \in Seq(Char)
      /\ InkedRun(run) \in Seq(Inks) /\ run.text \in Seq(Char)
  BY InksOfType, RunParts
<1> HIDE DEF more
<1>3. I(runs) \in Seq(Seq(Inks)) /\ X(runs) \in Seq(Seq(Char))
  <2>1. I(runs) \in Seq(Seq(Inks))
    BY <1>2
  <2>2. X(runs) \in Seq(Seq(Char))
    BY <1>2
  <2> QED BY <2>1, <2>2
<1>4. I(more) = Append(I(runs), InkedRun(run))
  BY <1>1, <1>2
<1>5. X(more) = Append(X(runs), run.text)
  BY <1>1, <1>2
<1>6. Inked(runs) = FlattenSeq(I(runs)) /\ Inked(more) = FlattenSeq(I(more))
      /\ Text(runs) = FlattenSeq(X(runs)) /\ Text(more) = FlattenSeq(X(more))
  BY DEF Inked, Text
<1> HIDE DEF I, X
<1>7. /\ FlattenSeq(Append(I(runs), InkedRun(run))) = FlattenSeq(I(runs)) \o InkedRun(run)
      /\ FlattenSeq(Append(X(runs), run.text)) = FlattenSeq(X(runs)) \o run.text
  BY <1>2, <1>3, FlattenAppend
<1> QED BY <1>4, <1>5, <1>6, <1>7 DEF more

\* The inks and the text of two lines, one after the other.
LEMMA InkedConcat ==
  ASSUME NEW a \in Seq(Run), NEW b \in Seq(Run)
  PROVE  Inked(a \o b) = Inked(a) \o Inked(b) /\ Text(a \o b) = Text(a) \o Text(b)
<1> DEFINE T == {t \in Seq(Run) : /\ Inked(a \o t) = Inked(a) \o Inked(t)
                                  /\ Text(a \o t) = Text(a) \o Text(t)}
<1>0. Inked(a) \in Seq(Inks) /\ Text(a) \in Seq(Char)
  BY InkedType, TextType
<1>1. <<>> \in T
  <2>1. a \o <<>> = a /\ Inked(a) \o <<>> = Inked(a) /\ Text(a) \o <<>> = Text(a)
    BY <1>0, ConcatEmptySeq
  <2>2. Inked(a \o <<>>) = Inked(a) \o Inked(<<>>) /\ Text(a \o <<>>) = Text(a) \o Text(<<>>)
    BY ONLY <2>1, InkedEmpty
  <2> QED BY <2>2
<1>2. ASSUME NEW t \in Seq(Run), NEW x \in Run, t \in T PROVE Append(t, x) \in T
  <2>1. /\ Inked(Append(t, x)) = Inked(t) \o InkedRun(x)
        /\ Text(Append(t, x)) = Text(t) \o x.text
    BY InkedAppend
  <2>2. /\ a \o t \in Seq(Run) /\ Inked(t) \in Seq(Inks) /\ InkedRun(x) \in Seq(Inks)
        /\ Text(t) \in Seq(Char) /\ x.text \in Seq(Char)
    BY ConcatProperties, InkedType, InksOfType, TextType, RunParts
  <2>3. /\ Inked(Append(a \o t, x)) = Inked(a \o t) \o InkedRun(x)
        /\ Text(Append(a \o t, x)) = Text(a \o t) \o x.text
    BY <2>2, InkedAppend
  <2>4. a \o Append(t, x) = Append(a \o t, x)
    BY AppendConcat
  <2>5. (Inked(a) \o Inked(t)) \o InkedRun(x) = Inked(a) \o (Inked(t) \o InkedRun(x))
    BY <1>0, <2>2, ConcatAssociative
  <2>6. (Text(a) \o Text(t)) \o x.text = Text(a) \o (Text(t) \o x.text)
    <3>1. PICK p, q, r \in Seq(Char) : p = Text(a) /\ q = Text(t) /\ r = x.text
      BY <1>0, <2>2
    <3>2. (p \o q) \o r = p \o (q \o r)
      BY ConcatAssociative
    <3> QED BY ONLY <3>1, <3>2
  <2>7. Inked(a \o t) = Inked(a) \o Inked(t) /\ Text(a \o t) = Text(a) \o Text(t)
    BY <1>2
  <2>8. Inked(a \o Append(t, x)) = Inked(a) \o Inked(Append(t, x))
    BY ONLY <2>1, <2>3, <2>4, <2>5, <2>7
  <2>9. Text(a \o Append(t, x)) = Text(a) \o Text(Append(t, x))
    BY ONLY <2>1, <2>3, <2>4, <2>6, <2>7
  <2>10. Append(t, x) \in Seq(Run)
    BY AppendProperties
  <2> QED BY <2>8, <2>9, <2>10
<1>3. \A t \in Seq(Run) : t \in T
  <2> HIDE DEF T
  <2> QED BY <1>1, <1>2, InductionOnSequences
<1> QED BY <1>3

\* A line of one run has the inks and the text of the run.
LEMMA InkedOne ==
  ASSUME NEW run \in Run
  PROVE  Inked(<<run>>) = InkedRun(run) /\ Text(<<run>>) = run.text
<1>1. <<run>> = Append(<<>>, run) /\ <<>> \in Seq(Run)
  OBVIOUS
<1>2. /\ Inked(Append(<<>>, run)) = Inked(<<>>) \o InkedRun(run)
      /\ Text(Append(<<>>, run)) = Text(<<>>) \o run.text
  BY <1>1, InkedAppend
<1>3. InkedRun(run) \in Seq(Inks) /\ run.text \in Seq(Char)
  BY InksOfType, RunParts
<1>4. <<>> \o InkedRun(run) = InkedRun(run) /\ <<>> \o run.text = run.text
  BY <1>3, ConcatEmptySeq
<1> QED BY ONLY <1>1, <1>2, <1>4, InkedEmpty

\* EXCEPT on the text of a run.
LEMMA LongerRun ==
  ASSUME NEW t, NEW s, NEW more
  PROVE  [[text |-> t, style |-> s] EXCEPT !.text = @ \o more]
           = [text |-> t \o more, style |-> s]
OBVIOUS

\* The last run is longer, the runs before it are the same.
LEMMA LengthenedIs ==
  ASSUME NEW front \in Seq(Run), NEW t \in Seq(Char), NEW s \in Style,
         NEW more \in Seq(Char)
  PROVE  Lengthened(Append(front, [text |-> t, style |-> s]), more)
           = Append(front, [text |-> t \o more, style |-> s])
<1> DEFINE x == [text |-> t, style |-> s]
           y == [text |-> t \o more, style |-> s]
           runs == Append(front, x)
           n == Len(front) + 1
<1>1. t \o more \in Seq(Char) /\ x \in Run /\ y \in Run
  BY ConcatProperties, RunIs
<1>2. [x EXCEPT !.text = @ \o more] = y
  BY LongerRun
<1> HIDE DEF x, y
<1>3. Len(runs) = n /\ runs[n] = x
  BY <1>1, AppendProperties
<1>4. Lengthened(runs, more) = [runs EXCEPT ![n] = [runs[n] EXCEPT !.text = @ \o more]]
  BY <1>3 DEF Lengthened
<1>5. [runs EXCEPT ![n] = y] = Append(front, y)
  BY <1>1, ExceptLast
<1>6. Lengthened(runs, more) = Append(front, y)
  BY ONLY <1>2, <1>3, <1>4, <1>5
<1> QED BY <1>6 DEF x, y

\* A line that is not empty has a last run.
LEMMA LastRun ==
  ASSUME NEW runs \in Seq(Run), runs # <<>>
  PROVE  \E front \in Seq(Run), t \in Seq(Char), s \in Style :
           runs = Append(front, [text |-> t, style |-> s])
<1>1. PICK front \in Seq(Run), x \in Run : runs = Append(front, x)
  BY SequenceEmptyOrAppend
<1> QED BY <1>1, RunParts

\* Nothing is the longer for more text when there is no run.
LEMMA LengthenedEmpty ==
  ASSUME NEW more
  PROVE  Lengthened(<<>>, more) = <<>>
BY DEF Lengthened

\* A line whose last run has more text is a line.
LEMMA LengthenedType ==
  ASSUME NEW runs \in Seq(Run), NEW more \in Seq(Char)
  PROVE  Lengthened(runs, more) \in Seq(Run)
<1>1. CASE runs = <<>>
  BY <1>1, LengthenedEmpty
<1>2. CASE runs # <<>>
  <2>1. PICK front \in Seq(Run), t \in Seq(Char), s \in Style :
           runs = Append(front, [text |-> t, style |-> s])
    BY <1>2, LastRun
  <2>2. [text |-> t \o more, style |-> s] \in Run
    BY ConcatProperties, RunIs
  <2>3. Append(front, [text |-> t \o more, style |-> s]) \in Seq(Run)
    BY <2>2, AppendProperties
  <2> QED BY <2>1, <2>3, LengthenedIs
<1> QED BY <1>1, <1>2
-----------------------------------------------------------------------------
(* The words of a line *)

\* One step of the loop over the characters of a run.
WordStep(words, text, s, k) ==
  IF text[k].space THEN words
  ELSE IF k = 1 \/ text[k - 1].space
       THEN Append(words, [text |-> <<text[k]>>, style |-> s])
       ELSE Lengthened(words, <<text[k]>>)

\* The step leaves a sequence of runs.
LEMMA WordStepType ==
  ASSUME NEW words \in Seq(Run), NEW text \in Seq(Char), NEW s \in Style,
         NEW k \in 1..Len(text)
  PROVE  WordStep(words, text, s, k) \in Seq(Run)
<1>1. <<text[k]>> \in Seq(Char)
  BY ElementOfSeq
<1>2. [text |-> <<text[k]>>, style |-> s] \in Run
  BY <1>1, RunIs
<1>3. Append(words, [text |-> <<text[k]>>, style |-> s]) \in Seq(Run)
  BY <1>2, AppendProperties
<1>4. Lengthened(words, <<text[k]>>) \in Seq(Run)
  BY <1>1, LengthenedType
<1> QED BY <1>3, <1>4 DEF WordStep

\* The recursion of WordsOf has a solution, and WordsOf is its end.
LEMMA WordsOfIs ==
  ASSUME NEW text, NEW s, text \in Seq(Char), s \in Style
  PROVE  \E f \in [0..Len(text) -> Seq(Run)] :
           /\ f[0] = <<>>
           /\ \A k \in 1..Len(text) : f[k] = WordStep(f[k - 1], text, s, k)
           /\ WordsOf([text |-> text, style |-> s]) = f[Len(text)]
<1> DEFINE run == [text |-> text, style |-> s]
<1>0. run.text = text /\ run.style = s
  OBVIOUS
<1>1. PICK n : n = Len(text) /\ n \in Nat
  OBVIOUS
<1> DEFINE V == Seq(Run)
           G == [k \in 1..n |-> [v \in V |-> WordStep(v, text, s, k)]]
<1>2. PICK f \in [0..n -> V] : f[0] = <<>> /\ \A k \in 1..n : f[k] = G[k][f[k - 1]]
  <2>1. G \in [1..n -> [V -> V]]
    BY <1>1, WordStepType
  <2>2. PICK W, c, m, H : W = V /\ c = <<>> /\ m = n /\ H = G
    OBVIOUS
  <2>3. c \in W /\ m \in Nat /\ H \in [1..m -> [W -> W]]
    BY <1>1, <2>1, <2>2
  <2> HIDE DEF V, G
  <2>4. \E f \in [0..m -> W] : f[0] = c /\ \A k \in 1..m : f[k] = H[k][f[k - 1]]
    BY ONLY <2>3, Recursion
  <2> QED BY <2>2, <2>4
<1> DEFINE Body(g) == [k \in 0..n |->
             IF k = 0 \/ run.text[k].space THEN IF k = 0 THEN <<>> ELSE g[k - 1]
             ELSE IF k = 1 \/ run.text[k - 1].space
                  THEN Append(g[k - 1], [text |-> <<run.text[k]>>, style |-> run.style])
                  ELSE Lengthened(g[k - 1], <<run.text[k]>>)]
           h == CHOOSE g : g = Body(g)
<1>3. \A k \in 1..n : k - 1 \in 0..n /\ k \in 0..n /\ f[k - 1] \in V
  BY <1>1
<1>4. \A k \in 1..n : f[k] = WordStep(f[k - 1], text, s, k)
  BY <1>2, <1>3
<1>5. ASSUME NEW g, NEW k \in 1..n
      PROVE  Body(g)[k] = WordStep(g[k - 1], text, s, k)
  BY <1>0 DEF WordStep
<1>6. \A g : Body(g)[0] = <<>>
  BY <1>1
<1>7. 0..n = {0} \cup (1..n)
  BY <1>1
<1>8. f = Body(f)
  <2>1. \A k \in 0..n : f[k] = Body(f)[k]
    <3> HIDE DEF Body
    <3> QED BY <1>2, <1>4, <1>5, <1>6, <1>7
  <2> QED BY <2>1
<1>9. h = Body(h)
  <2> HIDE DEF Body
  <2> QED BY <1>8
<1>10. WordsOf(run) = h[n]
  BY <1>0, <1>1 DEF WordsOf
<1>11. \A k \in 0..n : f[k] = h[k]
  <2>1. f[0] = h[0]
    <3> HIDE DEF Body, h
    <3> QED BY <1>2, <1>6, <1>9
  <2>2. ASSUME NEW k \in 1..n, f[k - 1] = h[k - 1] PROVE f[k] = h[k]
    <3>1. h[k] = WordStep(h[k - 1], text, s, k)
      <4>1. Body(h)[k] = WordStep(h[k - 1], text, s, k)
        <5> HIDE DEF Body, h
        <5> QED BY <1>5
      <4> HIDE DEF Body, h
      <4> QED BY ONLY <4>1, <1>9
    <3> HIDE DEF Body, h
    <3> QED BY <1>4, <2>2, <3>1
  <2> HIDE DEF h
  <2>3. PICK hh : hh = h
    OBVIOUS
  <2>4. PICK ff : ff = f
    OBVIOUS
  <2>5. ff[0] = hh[0] /\ \A k \in 1..n : ff[k - 1] = hh[k - 1] => ff[k] = hh[k]
    BY <2>1, <2>2, <2>3, <2>4
  <2>6. \A k \in 0..n : ff[k] = hh[k]
    <3>1. n \in Nat
      BY <1>1
    <3> HIDE DEF V, G, Body, run
    <3> QED BY ONLY <2>5, <3>1, RecursionsAgreeFromZero
  <2> QED BY <2>3, <2>4, <2>6
<1>12. WordsOf(run) = f[n]
  <2>1. n \in 0..n
    BY <1>1
  <2> HIDE DEF h
  <2> QED BY <1>10, <1>11, <2>1
<1> QED BY <1>1, <1>2, <1>4, <1>12

\* The words of a run are runs.
LEMMA WordsOfType ==
  ASSUME NEW run \in Run
  PROVE  WordsOf(run) \in Seq(Run)
<1>1. PICK f \in [0..Len(run.text) -> Seq(Run)] :
        WordsOf([text |-> run.text, style |-> run.style]) = f[Len(run.text)]
  BY RunParts, WordsOfIs
<1>2. Len(run.text) \in 0..Len(run.text)
  BY RunParts
<1> QED BY <1>1, <1>2, RunParts

\* A run without characters has no words.
LEMMA WordsOfEmpty ==
  ASSUME NEW s \in Style
  PROVE  WordsOf([text |-> <<>>, style |-> s]) = <<>>
<1>1. <<>> \in Seq(Char) /\ Len(<<>>) = 0
  OBVIOUS
<1>2. PICK f : f[0] = <<>> /\ WordsOf([text |-> <<>>, style |-> s]) = f[Len(<<>>)]
  BY <1>1, WordsOfIs
<1> QED BY <1>1, <1>2

\* The words of a run that is longer by a character.
LEMMA WordsOfAppend ==
  ASSUME NEW text \in Seq(Char), NEW c \in Char, NEW s \in Style
  PROVE  WordsOf([text |-> Append(text, c), style |-> s]) =
           LET words == WordsOf([text |-> text, style |-> s])
           IN  IF c.space THEN words
               ELSE IF text = <<>> \/ Last(text).space
                    THEN Append(words, [text |-> <<c>>, style |-> s])
                    ELSE Lengthened(words, <<c>>)
<1>1. PICK n \in Nat : n = Len(text)
  OBVIOUS
<1>2. PICK more \in Seq(Char) : more = Append(text, c)
  BY AppendProperties
<1>3. /\ Len(more) = n + 1 /\ more[n + 1] = c
      /\ \A k \in 1..n : more[k] = text[k]
  BY <1>1, <1>2, AppendProperties
<1>4. PICK f \in [0..n -> Seq(Run)] :
        /\ f[0] = <<>> /\ \A k \in 1..n : f[k] = WordStep(f[k - 1], text, s, k)
        /\ WordsOf([text |-> text, style |-> s]) = f[n]
  BY <1>1, WordsOfIs
<1>5. PICK g \in [0..n + 1 -> Seq(Run)] :
        /\ g[0] = <<>> /\ \A k \in 1..n + 1 : g[k] = WordStep(g[k - 1], more, s, k)
        /\ WordsOf([text |-> more, style |-> s]) = g[n + 1]
  BY <1>3, WordsOfIs
<1>6. \A k \in 0..n : f[k] = g[k]
  <2>1. ASSUME NEW k \in 1..n, f[k - 1] = g[k - 1] PROVE f[k] = g[k]
    <3>1. k \in 1..n /\ k \in 1..n + 1 /\ (k = 1 \/ k - 1 \in 1..n)
      OBVIOUS
    <3>2. WordStep(f[k - 1], text, s, k) = WordStep(g[k - 1], more, s, k)
      BY <1>3, <2>1, <3>1 DEF WordStep
    <3> QED BY <1>4, <1>5, <3>1, <3>2
  <2> DEFINE T == {k \in Nat : k <= n => f[k] = g[k]}
  <2>2. 0 \in T
    BY <1>4, <1>5
  <2>3. ASSUME NEW k \in Nat, k \in T PROVE k + 1 \in T
    <3> SUFFICES ASSUME k + 1 <= n PROVE f[k + 1] = g[k + 1]
      OBVIOUS
    <3>1. k + 1 \in 1..n /\ (k + 1) - 1 = k /\ f[k] = g[k]
      BY <2>3
    <3>2. f[(k + 1) - 1] = g[(k + 1) - 1]
      BY <3>1
    <3> QED BY <2>1, <3>1, <3>2
  <2>4. \A k \in Nat : k \in T
    <3> HIDE DEF T
    <3> QED BY <2>2, <2>3, Induction
  <2> QED BY <2>4
<1>7. g[n + 1] = WordStep(g[n], more, s, n + 1)
  <2>1. n + 1 \in 1..n + 1 /\ (n + 1) - 1 = n
    OBVIOUS
  <2> QED BY <1>5, <2>1
<1>8. f[n] = g[n]
  BY <1>6
<1>9. (n + 1 = 1 \/ more[(n + 1) - 1].space) <=> (text = <<>> \/ Last(text).space)
  <2>1. CASE n = 0
    <3>1. text = <<>>
      BY <1>1, <2>1, EmptySeq
    <3> QED BY <2>1, <3>1
  <2>2. CASE n # 0
    <3>1. (n + 1) - 1 = n /\ n \in 1..n /\ text # <<>> /\ n + 1 # 1
      BY <1>1, <2>2
    <3>2. more[(n + 1) - 1] = Last(text)
      BY <1>1, <1>3, <3>1 DEF Last
    <3> QED BY <3>1, <3>2
  <2> QED BY <2>1, <2>2
<1>10. WordStep(g[n], more, s, n + 1) =
         IF c.space THEN f[n]
         ELSE IF text = <<>> \/ Last(text).space
              THEN Append(f[n], [text |-> <<c>>, style |-> s])
              ELSE Lengthened(f[n], <<c>>)
  BY <1>3, <1>8, <1>9 DEF WordStep
<1> QED BY <1>2, <1>4, <1>5, <1>7, <1>10

\* The pairs of characters that follow one another in a text.
Adjacent(text) == {<<text[m], text[m + 1]>> : m \in 1..Len(text) - 1}

\* No character of the text is a space.
Spaceless(text) == \A k \in 1..Len(text) : ~text[k].space

\* The words whose neighbouring characters are among the pairs.
WordOver(pairs) ==
  {w \in Run : w.text # <<>> /\ Spaceless(w.text) /\ Adjacent(w.text) \subseteq pairs}

\* A text that goes on with a character has one more pair.
LEMMA AdjacentAppend ==
  ASSUME NEW text \in Seq(Char), NEW c \in Char
  PROVE  /\ Adjacent(text) \subseteq Adjacent(Append(text, c))
         /\ text # <<>> => Adjacent(Append(text, c)) = Adjacent(text) \cup {<<Last(text), c>>}
<1>1. PICK n \in Nat : n = Len(text)
  OBVIOUS
<1>2. PICK more \in Seq(Char) : more = Append(text, c)
  BY AppendProperties
<1>3. /\ Len(more) = n + 1 /\ more[n + 1] = c
      /\ \A k \in 1..n : more[k] = text[k]
  BY <1>1, <1>2, AppendProperties
<1>4. Adjacent(text) = {<<text[m], text[m + 1]>> : m \in 1..n - 1}
  BY <1>1 DEF Adjacent
<1>5. Adjacent(more) = {<<more[m], more[m + 1]>> : m \in 1..n}
  <2>1. 1..n + 1 - 1 = 1..n
    OBVIOUS
  <2>2. Adjacent(more) = {<<more[m], more[m + 1]>> : m \in 1..n + 1 - 1}
    BY <1>3 DEF Adjacent
  <2> QED BY <2>1, <2>2
<1>6. \A m \in 1..n - 1 : m \in 1..n /\ m + 1 \in 1..n
  OBVIOUS
<1>7. Adjacent(text) \subseteq Adjacent(more)
  <2> SUFFICES ASSUME NEW m \in 1..n - 1 PROVE <<text[m], text[m + 1]>> \in Adjacent(more)
    BY <1>4
  <2>1. m \in 1..n /\ more[m] = text[m] /\ more[m + 1] = text[m + 1]
    BY <1>3, <1>6
  <2> QED BY <1>5, <2>1
<1>8. ASSUME text # <<>>
      PROVE  Adjacent(more) = Adjacent(text) \cup {<<Last(text), c>>}
  <2>1. n \in 1..n /\ Last(text) = text[n] /\ more[n] = text[n]
    BY <1>1, <1>3, <1>8 DEF Last
  <2>2. <<Last(text), c>> \in Adjacent(more)
    <3>1. <<more[n], more[n + 1]>> \in Adjacent(more)
      BY <1>5, <2>1
    <3> QED BY <1>3, <2>1, <3>1
  <2>3. ASSUME NEW m \in 1..n
        PROVE  <<more[m], more[m + 1]>> \in Adjacent(text) \cup {<<Last(text), c>>}
    <3>1. CASE m = n
      BY <1>3, <2>1, <3>1
    <3>2. CASE m # n
      <4>1. m \in 1..n - 1
        BY <3>2
      <4>2. more[m] = text[m] /\ more[m + 1] = text[m + 1]
        BY <1>3, <1>6, <4>1
      <4> QED BY <1>4, <4>1, <4>2
    <3> QED BY <3>1, <3>2
  <2> QED BY <1>5, <1>7, <2>2, <2>3
<1> QED BY <1>2, <1>7, <1>8

\* A character that is no space is a word.
LEMMA WordOne ==
  ASSUME NEW c \in Char, ~c.space, NEW s \in Style, NEW pairs
  PROVE  [text |-> <<c>>, style |-> s] \in WordOver(pairs)
<1>1. <<c>> \in Seq(Char) /\ <<c>> # <<>> /\ Spaceless(<<c>>)
  BY DEF Spaceless
<1>2. Adjacent(<<c>>) \subseteq pairs
  BY DEF Adjacent
<1> QED BY <1>1, <1>2, RunIs DEF WordOver

\* A word goes on with a character that may follow its last one.
LEMMA WordLonger ==
  ASSUME NEW t \in Seq(Char), NEW s \in Style, NEW c \in Char, ~c.space, NEW pairs,
         [text |-> t, style |-> s] \in WordOver(pairs), <<Last(t), c>> \in pairs
  PROVE  [text |-> t \o <<c>>, style |-> s] \in WordOver(pairs)
<1>1. t # <<>> /\ Spaceless(t) /\ Adjacent(t) \subseteq pairs
  BY RunIs DEF WordOver
<1>2. t \o <<c>> = Append(t, c)
  BY AppendIsConcat
<1>3. Append(t, c) \in Seq(Char) /\ Append(t, c) # <<>>
  BY AppendProperties
<1>4. Spaceless(Append(t, c))
  <2>1. ASSUME NEW k \in 1..Len(t) + 1 PROVE ~Append(t, c)[k].space
    <3>1. k = Len(t) + 1 \/ k \in 1..Len(t)
      OBVIOUS
    <3> QED BY <1>1, <3>1, AppendProperties DEF Spaceless
  <2> QED BY <2>1, AppendProperties DEF Spaceless
<1>5. Adjacent(Append(t, c)) \subseteq pairs
  <2>1. PICK pair : pair = <<Last(t), c>> /\ pair \in pairs
    OBVIOUS
  <2>2. Adjacent(Append(t, c)) = Adjacent(t) \cup {pair}
    BY <1>1, <2>1, AdjacentAppend
  <2> QED BY ONLY <1>1, <2>1, <2>2
<1>6. PICK t2 \in Seq(Char) : t2 = Append(t, c)
  BY <1>3
<1>7. [text |-> t2, style |-> s] \in WordOver(pairs)
  BY <1>3, <1>4, <1>5, <1>6, RunIs DEF WordOver
<1> QED BY <1>2, <1>6, <1>7

\* The inks and the text of a line whose last run goes on.
LEMMA InkedLonger ==
  ASSUME NEW front \in Seq(Run), NEW t \in Seq(Char), NEW more \in Seq(Char), NEW s \in Style
  PROVE  /\ Inked(Append(front, [text |-> t \o more, style |-> s]))
              = Inked(Append(front, [text |-> t, style |-> s]))
                  \o InkedRun([text |-> more, style |-> s])
         /\ Text(Append(front, [text |-> t \o more, style |-> s]))
              = Text(Append(front, [text |-> t, style |-> s])) \o more
<1> DEFINE x == [text |-> t, style |-> s]
           y == [text |-> more, style |-> s]
           z == [text |-> t \o more, style |-> s]
<1>1. /\ t \o more \in Seq(Char) /\ x \in Run /\ y \in Run /\ z \in Run
      /\ x.text = t /\ z.text = t \o more
  BY ConcatProperties, RunIs
<1>2. InkedRun(z) = InkedRun(x) \o InkedRun(y)
  BY InkedRunConcat
<1> HIDE DEF x, y, z
<1>3. /\ Inked(Append(front, z)) = Inked(front) \o InkedRun(z)
      /\ Text(Append(front, z)) = Text(front) \o z.text
      /\ Inked(Append(front, x)) = Inked(front) \o InkedRun(x)
      /\ Text(Append(front, x)) = Text(front) \o x.text
  BY <1>1, InkedAppend
<1>4. (Inked(front) \o InkedRun(x)) \o InkedRun(y) = Inked(front) \o (InkedRun(x) \o InkedRun(y))
  <2>1. PICK p, q, r \in Seq(Inks) : p = Inked(front) /\ q = InkedRun(x) /\ r = InkedRun(y)
    BY <1>1, InkedType, InksOfType
  <2>2. (p \o q) \o r = p \o (q \o r)
    BY ConcatAssociative
  <2> QED BY ONLY <2>1, <2>2
<1>5. (Text(front) \o t) \o more = Text(front) \o (t \o more)
  BY TextType, ConcatAssociative
<1>6. Inked(Append(front, z)) = Inked(Append(front, x)) \o InkedRun(y)
  BY ONLY <1>2, <1>3, <1>4
<1>7. Text(Append(front, z)) = Text(Append(front, x)) \o more
  BY ONLY <1>1, <1>3, <1>5
<1> QED BY <1>6, <1>7 DEF x, y, z

\* The words of a run are words of its style, they have its inks, and a text that
\* does not end in a space has a last word with the same end.
LEMMA WordsOfRun ==
  ASSUME NEW s \in Style, NEW pairs
  PROVE  \A text \in Seq(Char) :
           LET run == [text |-> text, style |-> s]
               words == WordsOf(run)
           IN  Adjacent(text) \subseteq pairs =>
                 /\ words \in Seq({w \in WordOver(pairs) : w.style = s})
                 /\ Inked(words) = InkedRun(run)
                 /\ text # <<>> /\ ~Last(text).space =>
                      words # <<>> /\ Last(Last(words).text) = Last(text)
<1> DEFINE R(text) == [text |-> text, style |-> s]
           W == {w \in WordOver(pairs) : w.style = s}
           Good(text) == /\ WordsOf(R(text)) \in Seq(W)
                         /\ Inked(WordsOf(R(text))) = InkedRun(R(text))
                         /\ text # <<>> /\ ~Last(text).space =>
                              /\ WordsOf(R(text)) # <<>>
                              /\ Last(Last(WordsOf(R(text))).text) = Last(text)
           T == {text \in Seq(Char) : Adjacent(text) \subseteq pairs => Good(text)}
<1>0. W \subseteq Run /\ Seq(W) \subseteq Seq(Run)
  BY DEF WordOver
<1>1. <<>> \in T
  <2>1. WordsOf(R(<<>>)) = <<>> /\ InkedRun(R(<<>>)) = <<>>
    BY WordsOfEmpty, InkedRunEmpty
  <2>2. Inked(WordsOf(R(<<>>))) = InkedRun(R(<<>>))
    <3> HIDE DEF R
    <3> QED BY ONLY <2>1, InkedEmpty
  <2>3. <<>> \in Seq(W) /\ <<>> \in Seq(Char)
    OBVIOUS
  <2>4. WordsOf(R(<<>>)) \in Seq(W)
    BY <2>1, <2>3
  <2> HIDE DEF R, W
  <2> QED BY <2>2, <2>3, <2>4
<1>2. ASSUME NEW text \in Seq(Char), NEW c \in Char, text \in T
      PROVE  Append(text, c) \in T
  <2> DEFINE more == Append(text, c)
             words == WordsOf(R(text))
  <2>1. /\ more \in Seq(Char) /\ more # <<>> /\ Last(more) = c
        /\ text \o <<c>> = more /\ <<c>> \in Seq(Char)
    <3>1. <<c>> \in Seq(Char)
      OBVIOUS
    <3> QED BY <3>1, AppendProperties, LastOfAppend, AppendIsConcat
  <2> SUFFICES ASSUME Adjacent(more) \subseteq pairs PROVE Good(more)
    BY <2>1
  <2>2. Adjacent(text) \subseteq pairs
    BY AdjacentAppend
  <2>3. Good(text)
    BY <1>2, <2>2
  <2>4. InkedRun(R(more)) = InkedRun(R(text)) \o InkOrNot(c, s)
    BY <2>1, InkedRunConcat, InkedRunOne
  <2>5. InkedRun(R(text)) \in Seq(Inks) /\ words \in Seq(Run)
    BY <1>0, <2>3, RunIs, InksOfType
  <2>6. WordsOf(R(more)) =
          IF c.space THEN words
          ELSE IF text = <<>> \/ Last(text).space THEN Append(words, R(<<c>>))
               ELSE Lengthened(words, <<c>>)
    BY WordsOfAppend
  <2>7. CASE c.space
    <3>1. WordsOf(R(more)) = words
      BY <2>6, <2>7
    <3>2. InkedRun(R(more)) = InkedRun(R(text))
      <4>1. InkOrNot(c, s) = <<>>
        BY <2>7 DEF InkOrNot
      <4>2. InkedRun(R(text)) \o <<>> = InkedRun(R(text))
        BY <2>5, ConcatEmptySeq
      <4> HIDE DEF R, more
      <4> QED BY ONLY <2>4, <4>1, <4>2
    <3> HIDE DEF R, W, more
    <3> QED BY <2>1, <2>3, <2>7, <3>1, <3>2
  <2>8. CASE ~c.space /\ (text = <<>> \/ Last(text).space)
    <3> DEFINE w == R(<<c>>)
    <3>1. WordsOf(R(more)) = Append(words, w)
      BY <2>6, <2>8
    <3>2. w \in W /\ w \in Run /\ w.text = <<c>>
      BY <2>8, WordOne, RunIs DEF WordOver
    <3>3. Inked(Append(words, w)) = Inked(words) \o InkedRun(w)
      BY <2>5, <3>2, InkedAppend
    <3>4. InkedRun(w) = InkOrNot(c, s)
      BY InkedRunOne
    <3>5. Append(words, w) \in Seq(W) /\ Append(words, w) # <<>>
      <4> HIDE DEF W, w, words
      <4> QED BY <2>3, <3>2, AppendProperties DEF words
    <3>6. Last(Append(words, w)) = w /\ Last(<<c>>) = c
      BY <2>5, <3>2, LastOfAppend DEF Last
    <3> HIDE DEF R, W, more, w
    <3>7. Inked(Append(words, w)) = InkedRun(R(more))
      BY ONLY <2>3, <2>4, <3>3, <3>4
    <3>8. Last(Last(Append(words, w)).text) = c
      BY ONLY <3>2, <3>6
    <3> HIDE DEF words
    <3> QED BY <2>1, <3>1, <3>5, <3>7, <3>8
  <2>9. CASE ~c.space /\ text # <<>> /\ ~Last(text).space
    <3>1. WordsOf(R(more)) = Lengthened(words, <<c>>)
      BY <2>6, <2>9
    <3>2. words # <<>> /\ Last(Last(words).text) = Last(text)
      BY <2>3, <2>9
    <3>3. PICK front \in Seq(W), w \in W : words = Append(front, w)
      <4> HIDE DEF W, words
      <4> QED BY <2>3, <3>2, SequenceEmptyOrAppend DEF words
    <3>4. PICK u \in Seq(Char) : u = w.text /\ w = R(u) /\ w \in Run /\ front \in Seq(Run)
      BY <1>0, RunParts
    <3>5. Lengthened(words, <<c>>) = Append(front, R(u \o <<c>>))
      <4>1. Lengthened(Append(front, R(u)), <<c>>) = Append(front, R(u \o <<c>>))
        <5> HIDE DEF W, words, more
        <5> QED BY <2>1, <3>4, LengthenedIs
      <4> HIDE DEF W, words, more, R
      <4> QED BY ONLY <3>3, <3>4, <4>1
    <3>6. Last(words) = w
      <4>1. Last(Append(front, w)) = w
        BY ONLY <3>4, LastOfAppend
      <4> QED BY ONLY <3>3, <4>1
    <3>7. <<Last(u), c>> \in pairs
      <4>1. Last(u) = Last(text)
        BY ONLY <3>2, <3>4, <3>6
      <4>2. <<Last(text), c>> \in Adjacent(more)
        <5>1. PICK pair : pair = <<Last(text), c>>
          OBVIOUS
        <5>2. Adjacent(Append(text, c)) = Adjacent(text) \cup {pair}
          <6> HIDE DEF R, W, words, more
          <6> QED BY <2>9, <5>1, AdjacentAppend
        <5> QED BY ONLY <5>1, <5>2
      <4> QED BY <4>1, <4>2
    <3> DEFINE w2 == R(u \o <<c>>)
               words2 == Append(front, w2)
    <3>8. w2 \in W /\ w2 \in Run /\ w2.text = u \o <<c>>
      <4>1. w2 \in WordOver(pairs)
        BY <2>9, <3>4, <3>7, WordLonger
      <4> QED BY <4>1 DEF WordOver
    <3>10. Inked(words2) = InkedRun(R(more))
      <4>1. Inked(words2) = Inked(words) \o InkedRun(R(<<c>>))
        <5>1. Inked(Append(front, R(u \o <<c>>)))
                = Inked(Append(front, R(u))) \o InkedRun(R(<<c>>))
          <6> HIDE DEF W, words, more
          <6> QED BY <2>1, <3>4, InkedLonger
        <5> HIDE DEF W, words, more, R
        <5> QED BY ONLY <3>3, <3>4, <5>1 DEF words2, w2
      <4>2. InkedRun(R(<<c>>)) = InkOrNot(c, s)
        BY InkedRunOne
      <4>3. Inked(words) = InkedRun(R(text))
        BY <2>3
      <4> HIDE DEF R, W, more, words, words2
      <4> QED BY ONLY <2>4, <4>1, <4>2, <4>3
    <3> HIDE DEF w2
    <3>9. words2 \in Seq(W) /\ words2 # <<>>
      <4> HIDE DEF W
      <4> QED BY <3>8, AppendProperties
    <3>11. Last(Last(words2).text) = c
      <4>1. Last(words2) = w2
        BY <3>4, <3>8, LastOfAppend
      <4>2. Last(u \o <<c>>) = c
        <5>1. u \o <<c>> = Append(u, c) /\ Last(Append(u, c)) = c
          <6> HIDE DEF R, W, more, words, words2
          <6> QED BY AppendIsConcat, LastOfAppend
        <5> QED BY ONLY <5>1
      <4> HIDE DEF words2
      <4> QED BY ONLY <3>8, <4>1, <4>2
    <3>12. WordsOf(R(more)) = words2
      BY <3>1, <3>5 DEF w2
    <3> HIDE DEF R, W, more, words, words2
    <3> QED BY <2>1, <3>9, <3>10, <3>11, <3>12
  <2> QED BY <2>7, <2>8, <2>9
<1>3. \A text \in Seq(Char) : text \in T
  <2> HIDE DEF T
  <2> QED BY <1>1, <1>2, InductionOnSequences
<1> QED BY <1>3

\* The space between two words is a character.
LEMMA SpaceIsChar == Space \in Char /\ Space.space = TRUE /\ <<Space>> \in Seq(Char)
<1>1. Space \in Char /\ Space.space = TRUE
  BY DEF Space, Char
<1> QED BY <1>1

\* The words of a line that goes on with a run.
LEMMA WordsAppend ==
  ASSUME NEW runs \in Seq(Run), NEW run \in Run
  PROVE  Words(Append(runs, run)) = Words(runs) \o WordsOf(run)
<1> DEFINE I(x) == [r \in DOMAIN x |-> WordsOf(x[r])]
           more == Append(runs, run)
<1>1. /\ more \in Seq(Run) /\ Len(more) = Len(runs) + 1 /\ more[Len(runs) + 1] = run
      /\ \A r \in 1..Len(runs) : more[r] = runs[r]
  BY AppendProperties
<1>2. WordsOf(run) \in Seq(Run) /\ \A r \in 1..Len(runs) : WordsOf(runs[r]) \in Seq(Run)
  BY WordsOfType
<1> HIDE DEF more
<1>3. I(runs) \in Seq(Seq(Run))
  BY <1>2
<1>4. I(more) = Append(I(runs), WordsOf(run))
  BY <1>1, <1>2
<1>5. Words(runs) = FlattenSeq(I(runs)) /\ Words(more) = FlattenSeq(I(more))
  BY DEF Words
<1> HIDE DEF I
<1>6. FlattenSeq(Append(I(runs), WordsOf(run))) = FlattenSeq(I(runs)) \o WordsOf(run)
  BY <1>2, <1>3, FlattenAppend
<1> QED BY <1>4, <1>5, <1>6 DEF more

\* A line without runs has no words.
LEMMA WordsEmpty == Words(<<>>) = <<>>
<1>1. [r \in DOMAIN <<>> |-> WordsOf(<<>>[r])] = <<>>
  OBVIOUS
<1>2. Words(<<>>) = FlattenSeq([r \in DOMAIN <<>> |-> WordsOf(<<>>[r])])
  BY DEF Words
<1>3. FlattenSeq(<<>>) = <<>>
  BY FlattenEmpty
<1> QED BY ONLY <1>1, <1>2, <1>3

\* The words of a line are runs.
LEMMA WordsType ==
  ASSUME NEW runs \in Seq(Run)
  PROVE  Words(runs) \in Seq(Run)
<1>1. \A r \in 1..Len(runs) : WordsOf(runs[r]) \in Seq(Run)
  BY WordsOfType
<1>2. [r \in DOMAIN runs |-> WordsOf(runs[r])] \in Seq(Seq(Run))
  BY <1>1
<1> QED BY <1>2, FlattenType DEF Words

\* The pairs of characters that follow one another in a run of the line.
Pairs(runs) == UNION {Adjacent(runs[r].text) : r \in DOMAIN runs}

\* The words of a line have its inks, and their characters follow one another in it.
LEMMA WordsOfLine ==
  ASSUME NEW pairs
  PROVE  \A runs \in Seq(Run) :
           (\A r \in 1..Len(runs) : Adjacent(runs[r].text) \subseteq pairs) =>
             Words(runs) \in Seq(WordOver(pairs)) /\ Inked(Words(runs)) = Inked(runs)
<1> DEFINE W == WordOver(pairs)
           Over(runs) == \A r \in 1..Len(runs) : Adjacent(runs[r].text) \subseteq pairs
           T == {runs \in Seq(Run) : Over(runs) =>
                   Words(runs) \in Seq(W) /\ Inked(Words(runs)) = Inked(runs)}
<1>0. W \subseteq Run /\ Seq(W) \subseteq Seq(Run)
  BY DEF WordOver
<1>1. <<>> \in T
  <2>1. <<>> \in Seq(W) /\ <<>> \in Seq(Run)
    OBVIOUS
  <2>2. Words(<<>>) \in Seq(W)
    BY <2>1, WordsEmpty
  <2>3. Inked(Words(<<>>)) = Inked(<<>>)
    BY WordsEmpty
  <2> QED BY <2>1, <2>2, <2>3
<1>2. ASSUME NEW runs \in Seq(Run), NEW run \in Run, runs \in T
      PROVE  Append(runs, run) \in T
  <2> DEFINE more == Append(runs, run)
  <2>1. /\ more \in Seq(Run) /\ Len(more) = Len(runs) + 1 /\ more[Len(runs) + 1] = run
        /\ \A r \in 1..Len(runs) : more[r] = runs[r]
    BY AppendProperties
  <2> SUFFICES ASSUME Over(more)
               PROVE  Words(more) \in Seq(W) /\ Inked(Words(more)) = Inked(more)
    BY <2>1
  <2>2. Over(runs) /\ Adjacent(run.text) \subseteq pairs
    <3> HIDE DEF more
    <3>1. \A r \in 1..Len(runs) : r \in 1..Len(more)
      BY <2>1
    <3>2. Len(runs) + 1 \in 1..Len(more)
      BY <2>1
    <3> QED BY <2>1, <3>1, <3>2
  <2>3. Words(runs) \in Seq(W) /\ Inked(Words(runs)) = Inked(runs)
    BY <1>2, <2>2
  <2>4. WordsOf(run) \in Seq(W) /\ Inked(WordsOf(run)) = InkedRun(run)
    <3>1. PICK t \in Seq(Char), s \in Style : run = [text |-> t, style |-> s] /\ t = run.text
      BY RunParts
    <3>2. /\ WordsOf([text |-> t, style |-> s]) \in Seq({w \in W : w.style = s})
          /\ Inked(WordsOf([text |-> t, style |-> s])) = InkedRun([text |-> t, style |-> s])
      <4>1. Adjacent(t) \subseteq pairs
        BY <2>2, <3>1
      <4> HIDE DEF Over, T, more
      <4> QED BY <4>1, WordsOfRun
    <3>3. Seq({w \in W : w.style = s}) \subseteq Seq(W)
      <4> HIDE DEF W
      <4> QED OBVIOUS
    <3> HIDE DEF W, more, Over
    <3> QED BY <3>1, <3>2, <3>3
  <2>5. Words(more) = Words(runs) \o WordsOf(run) /\ Inked(more) = Inked(runs) \o InkedRun(run)
    BY WordsAppend, InkedAppend
  <2>6. Words(runs) \o WordsOf(run) \in Seq(W)
    <3> HIDE DEF W
    <3> QED BY <2>3, <2>4, ConcatProperties
  <2>7. Inked(Words(runs) \o WordsOf(run)) = Inked(Words(runs)) \o Inked(WordsOf(run))
    BY <1>0, <2>3, <2>4, InkedConcat
  <2> HIDE DEF more, W
  <2> QED BY <2>3, <2>4, <2>5, <2>6, <2>7
<1>3. \A runs \in Seq(Run) : runs \in T
  <2> HIDE DEF T
  <2> QED BY <1>1, <1>2, InductionOnSequences
<1> QED BY <1>3

\* A space at the end adds no word.
LEMMA WordsOfSpace ==
  ASSUME NEW t \in Seq(Char), NEW s \in Style
  PROVE  WordsOf([text |-> t \o <<Space>>, style |-> s]) = WordsOf([text |-> t, style |-> s])
<1>1. t \o <<Space>> = Append(t, Space)
  BY SpaceIsChar, AppendIsConcat
<1>2. WordsOf([text |-> Append(t, Space), style |-> s]) = WordsOf([text |-> t, style |-> s])
  BY SpaceIsChar, WordsOfAppend
<1> QED BY ONLY <1>1, <1>2

\* Characters that are no spaces are one more word.
LEMMA WordsOfWord ==
  ASSUME NEW t \in Seq(Char), NEW s \in Style, t = <<>> \/ Last(t).space
  PROVE  \A u \in Seq({c \in Char : ~c.space}) :
           u # <<>> => WordsOf([text |-> t \o u, style |-> s])
                         = Append(WordsOf([text |-> t, style |-> s]),
                                  [text |-> u, style |-> s])
<1> DEFINE R(x) == [text |-> x, style |-> s]
           Ink == {c \in Char : ~c.space}
           front == WordsOf(R(t))
           T == {u \in Seq(Ink) : u # <<>> => WordsOf(R(t \o u)) = Append(front, R(u))}
<1>0. Seq(Ink) \subseteq Seq(Char) /\ front \in Seq(Run)
  BY RunIs, WordsOfType
<1>1. <<>> \in T
  OBVIOUS
<1>2. ASSUME NEW u \in Seq(Ink), NEW c \in Ink, u \in T
      PROVE  Append(u, c) \in T
  <2>1. u \in Seq(Char) /\ c \in Char /\ ~c.space /\ t \o u \in Seq(Char)
    BY <1>0, ConcatProperties
  <2>2. t \o Append(u, c) = Append(t \o u, c)
    BY <2>1, AppendConcat
  <2>3. WordsOf(R(Append(t \o u, c))) =
          IF t \o u = <<>> \/ Last(t \o u).space THEN Append(WordsOf(R(t \o u)), R(<<c>>))
          ELSE Lengthened(WordsOf(R(t \o u)), <<c>>)
    BY <2>1, WordsOfAppend
  <2>4. Append(u, c) \in Seq(Ink)
    <3> HIDE DEF Ink
    <3> QED BY AppendProperties
  <2>5. CASE u = <<>>
    <3>1. t \o u = t /\ Append(u, c) = <<c>>
      BY <2>5, ConcatEmptySeq
    <3>2. WordsOf(R(Append(t \o u, c))) = Append(front, R(<<c>>))
      BY ONLY <2>3, <3>1, t = <<>> \/ Last(t).space
    <3> HIDE DEF R, front
    <3>3. WordsOf(R(t \o Append(u, c))) = Append(front, R(Append(u, c)))
      BY ONLY <2>2, <3>1, <3>2
    <3> QED BY <2>4, <3>3
  <2>6. CASE u # <<>>
    <3>1. WordsOf(R(t \o u)) = Append(front, R(u))
      BY <1>2, <2>6
    <3>2. t \o u # <<>> /\ Last(t \o u) = Last(u)
      <4>1. Len(u) > 0 /\ Len(t \o u) = Len(t) + Len(u) /\ Len(t) \in Nat
        BY <2>1, <2>6, ConcatProperties, EmptySeq
      <4>2. (t \o u)[Len(t) + Len(u)] = u[Len(u)]
        BY <2>1, <4>1, ConcatProperties
      <4>3. t \o u # <<>>
        BY <4>1, EmptySeq
      <4> QED BY <4>1, <4>2, <4>3 DEF Last
    <3>3. ~Last(u).space
      BY <2>6 DEF Last
    <3>4. WordsOf(R(Append(t \o u, c))) = Lengthened(Append(front, R(u)), <<c>>)
      <4> HIDE DEF R, front, Ink
      <4> QED BY ONLY <2>3, <3>1, <3>2, <3>3
    <3>5. Lengthened(Append(front, R(u)), <<c>>) = Append(front, R(u \o <<c>>))
      <4>1. <<c>> \in Seq(Char)
        BY <2>1
      <4> HIDE DEF front, Ink
      <4> QED BY <1>0, <2>1, <4>1, LengthenedIs
    <3>6. u \o <<c>> = Append(u, c)
      BY <2>1, AppendIsConcat
    <3> HIDE DEF R, front
    <3>7. WordsOf(R(t \o Append(u, c))) = Append(front, R(Append(u, c)))
      BY ONLY <2>2, <3>4, <3>5, <3>6
    <3> QED BY <2>4, <3>7
  <2> QED BY <2>5, <2>6
<1>3. \A u \in Seq(Ink) : u \in T
  <2> HIDE DEF T, Ink
  <2> QED BY <1>1, <1>2, InductionOnSequences
<1> QED BY <1>3
-----------------------------------------------------------------------------
(* Join, word by word *)

\* One step of the loop over the words of a line.
Glue(word) == [text |-> <<Space>>, style |-> word.style]

\* The loop of Join, one word on.
JoinStep(runs, words, i) ==
  IF i = 1 THEN <<words[1]>>
  ELSE IF words[i].style = words[i - 1].style
       THEN Lengthened(runs, <<Space>> \o words[i].text)
       ELSE runs \o <<Glue(words[i - 1]), words[i]>>

\* What Join puts between two words.
LEMMA GlueType ==
  ASSUME NEW word \in Run
  PROVE  Glue(word) \in Run /\ <<Space>> \o word.text \in Seq(Char)
<1>1. Glue(word) \in Run
  BY SpaceIsChar, RunParts, RunIs DEF Glue
<1>2. <<Space>> \o word.text \in Seq(Char)
  BY SpaceIsChar, RunParts, ConcatProperties
<1> QED BY <1>1, <1>2

\* The step leaves a sequence of runs.
LEMMA JoinStepType ==
  ASSUME NEW runs \in Seq(Run), NEW words \in Seq(Run), NEW i \in 1..Len(words)
  PROVE  JoinStep(runs, words, i) \in Seq(Run)
<1>1. CASE i = 1
  <2>1. words[1] \in Run
    BY <1>1, ElementOfSeq
  <2>2. <<words[1]>> \in Seq(Run)
    BY <2>1
  <2> QED BY <1>1, <2>2 DEF JoinStep
<1>2. CASE i # 1
  <2>1. i - 1 \in 1..Len(words)
    BY <1>2
  <2>2. PICK v, w \in Run : v = words[i - 1] /\ w = words[i]
    BY <2>1, ElementOfSeq
  <2>3. Lengthened(runs, <<Space>> \o w.text) \in Seq(Run)
    BY GlueType, LengthenedType
  <2>4. <<Glue(v), w>> \in Seq(Run)
    BY GlueType
  <2>5. runs \o <<Glue(v), w>> \in Seq(Run)
    BY <2>4, ConcatProperties
  <2> QED BY <1>2, <2>2, <2>3, <2>5 DEF JoinStep
<1> QED BY <1>1, <1>2

\* The recursion of Join has a solution, and Join is its end.
LEMMA JoinIs ==
  ASSUME NEW words, words \in Seq(Run)
  PROVE  \E f \in [0..Len(words) -> Seq(Run)] :
           /\ f[0] = <<>>
           /\ \A i \in 1..Len(words) : f[i] = JoinStep(f[i - 1], words, i)
           /\ Join(words) = f[Len(words)]
<1>1. PICK n : n = Len(words) /\ n \in Nat
  OBVIOUS
<1> DEFINE V == Seq(Run)
           G == [i \in 1..n |-> [v \in V |-> JoinStep(v, words, i)]]
<1>2. PICK f \in [0..n -> V] : f[0] = <<>> /\ \A i \in 1..n : f[i] = G[i][f[i - 1]]
  <2>1. G \in [1..n -> [V -> V]]
    BY <1>1, JoinStepType
  <2>2. PICK W, c, m, H : W = V /\ c = <<>> /\ m = n /\ H = G
    OBVIOUS
  <2>3. c \in W /\ m \in Nat /\ H \in [1..m -> [W -> W]]
    BY <1>1, <2>1, <2>2
  <2> HIDE DEF V, G
  <2>4. \E f \in [0..m -> W] : f[0] = c /\ \A i \in 1..m : f[i] = H[i][f[i - 1]]
    BY ONLY <2>3, Recursion
  <2> QED BY <2>2, <2>4
<1> DEFINE Body(g) == [i \in 0..n |->
             IF i = 0 THEN <<>> ELSE IF i = 1 THEN <<words[1]>>
             ELSE IF words[i].style = words[i - 1].style
                  THEN Lengthened(g[i - 1], <<Space>> \o words[i].text)
                  ELSE g[i - 1] \o <<[text |-> <<Space>>, style |-> words[i - 1].style],
                                     words[i]>>]
           h == CHOOSE g : g = Body(g)
<1>3. \A i \in 1..n : i - 1 \in 0..n /\ i \in 0..n /\ f[i - 1] \in V
  BY <1>1
<1>4. \A i \in 1..n : f[i] = JoinStep(f[i - 1], words, i)
  BY <1>2, <1>3
<1>5. ASSUME NEW g, NEW i \in 1..n
      PROVE  Body(g)[i] = JoinStep(g[i - 1], words, i)
  BY <1>1 DEF JoinStep, Glue
<1>6. \A g : Body(g)[0] = <<>>
  BY <1>1
<1>7. 0..n = {0} \cup (1..n)
  BY <1>1
<1>8. f = Body(f)
  <2>1. \A i \in 0..n : f[i] = Body(f)[i]
    <3> HIDE DEF Body
    <3> QED BY <1>2, <1>4, <1>5, <1>6, <1>7
  <2> QED BY <2>1
<1>9. h = Body(h)
  <2> HIDE DEF Body
  <2> QED BY <1>8
<1>10. Join(words) = h[n]
  BY <1>1 DEF Join
<1>11. \A i \in 0..n : f[i] = h[i]
  <2>1. f[0] = h[0]
    <3> HIDE DEF Body, h
    <3> QED BY <1>2, <1>6, <1>9
  <2>2. ASSUME NEW i \in 1..n, f[i - 1] = h[i - 1] PROVE f[i] = h[i]
    <3>1. h[i] = JoinStep(h[i - 1], words, i)
      <4>1. Body(h)[i] = JoinStep(h[i - 1], words, i)
        <5> HIDE DEF Body, h
        <5> QED BY <1>5
      <4> HIDE DEF Body, h
      <4> QED BY ONLY <4>1, <1>9
    <3> HIDE DEF Body, h
    <3> QED BY <1>4, <2>2, <3>1
  <2> HIDE DEF h
  <2>3. PICK hh : hh = h
    OBVIOUS
  <2>4. PICK ff : ff = f
    OBVIOUS
  <2>5. ff[0] = hh[0] /\ \A i \in 1..n : ff[i - 1] = hh[i - 1] => ff[i] = hh[i]
    BY <2>1, <2>2, <2>3, <2>4
  <2>6. \A i \in 0..n : ff[i] = hh[i]
    <3>1. n \in Nat
      BY <1>1
    <3> HIDE DEF V, G, Body
    <3> QED BY ONLY <2>5, <3>1, RecursionsAgreeFromZero
  <2> QED BY <2>3, <2>4, <2>6
<1>12. Join(words) = f[n]
  <2>1. n \in 0..n
    BY <1>1
  <2> HIDE DEF h
  <2> QED BY <1>10, <1>11, <2>1
<1> QED BY <1>1, <1>2, <1>4, <1>12

\* The line of one more word.
LEMMA JoinAppend ==
  ASSUME NEW words \in Seq(Run), NEW word \in Run
  PROVE  Join(Append(words, word)) =
           IF words = <<>> THEN <<word>>
           ELSE IF word.style = Last(words).style
                THEN Lengthened(Join(words), <<Space>> \o word.text)
                ELSE Join(words) \o <<Glue(Last(words)), word>>
<1>1. PICK n \in Nat : n = Len(words)
  OBVIOUS
<1>2. PICK more \in Seq(Run) : more = Append(words, word)
  BY AppendProperties
<1>3. /\ Len(more) = n + 1 /\ more[n + 1] = word
      /\ \A i \in 1..n : more[i] = words[i]
  BY <1>1, <1>2, AppendProperties
<1>4. PICK f \in [0..n -> Seq(Run)] :
        /\ f[0] = <<>> /\ \A i \in 1..n : f[i] = JoinStep(f[i - 1], words, i)
        /\ Join(words) = f[n]
  BY <1>1, JoinIs
<1>5. PICK g \in [0..n + 1 -> Seq(Run)] :
        /\ g[0] = <<>> /\ \A i \in 1..n + 1 : g[i] = JoinStep(g[i - 1], more, i)
        /\ Join(more) = g[n + 1]
  BY <1>3, JoinIs
<1>6. \A i \in 0..n : f[i] = g[i]
  <2>1. ASSUME NEW i \in 1..n, f[i - 1] = g[i - 1] PROVE f[i] = g[i]
    <3>1. i \in 1..n /\ i \in 1..n + 1 /\ (i = 1 \/ i - 1 \in 1..n) /\ 1 \in 1..n
      OBVIOUS
    <3>2. JoinStep(f[i - 1], words, i) = JoinStep(g[i - 1], more, i)
      <4>1. PICK v : v = f[i - 1] /\ v = g[i - 1]
        BY <2>1
      <4>2. words[1] = more[1] /\ words[i] = more[i] /\ (i = 1 \/ words[i - 1] = more[i - 1])
        BY <1>3, <3>1
      <4>3. JoinStep(v, words, i) = JoinStep(v, more, i)
        BY ONLY <4>2 DEF JoinStep
      <4> QED BY ONLY <4>1, <4>3
    <3> QED BY <1>4, <1>5, <3>1, <3>2
  <2> DEFINE T == {i \in Nat : i <= n => f[i] = g[i]}
  <2>2. 0 \in T
    BY <1>4, <1>5
  <2>3. ASSUME NEW i \in Nat, i \in T PROVE i + 1 \in T
    <3> SUFFICES ASSUME i + 1 <= n PROVE f[i + 1] = g[i + 1]
      OBVIOUS
    <3>1. i + 1 \in 1..n /\ (i + 1) - 1 = i /\ f[i] = g[i]
      BY <2>3
    <3>2. f[(i + 1) - 1] = g[(i + 1) - 1]
      BY <3>1
    <3> QED BY <2>1, <3>1, <3>2
  <2>4. \A i \in Nat : i \in T
    <3> HIDE DEF T
    <3> QED BY <2>2, <2>3, Induction
  <2> QED BY <2>4
<1>7. g[n + 1] = JoinStep(f[n], more, n + 1)
  <2>1. n + 1 \in 1..n + 1 /\ (n + 1) - 1 = n /\ f[n] = g[n]
    BY <1>6
  <2> QED BY <1>5, <2>1
<1>8. CASE words = <<>>
  <2>1. n = 0
    BY <1>1, <1>8
  <2>2. JoinStep(f[n], more, n + 1) = <<word>>
    BY <1>3, <2>1 DEF JoinStep
  <2>3. Join(more) = <<word>>
    BY ONLY <1>5, <1>7, <2>2
  <2> QED BY <1>2, <1>8, <2>3
<1>9. CASE words # <<>>
  <2>1. n \in 1..n /\ (n + 1) - 1 = n /\ n + 1 # 1
    BY <1>1, <1>9, EmptySeq
  <2>2. more[n + 1] = word /\ more[(n + 1) - 1] = Last(words)
    BY <1>1, <1>3, <2>1 DEF Last
  <2>3. JoinStep(f[n], more, n + 1) =
          IF word.style = Last(words).style
          THEN Lengthened(f[n], <<Space>> \o word.text)
          ELSE f[n] \o <<Glue(Last(words)), word>>
    BY ONLY <2>1, <2>2 DEF JoinStep
  <2>4. Join(more) = IF word.style = Last(words).style
                     THEN Lengthened(Join(words), <<Space>> \o word.text)
                     ELSE Join(words) \o <<Glue(Last(words)), word>>
    BY ONLY <1>4, <1>5, <1>7, <2>3
  <2> QED BY <1>2, <1>9, <2>4
<1> QED BY <1>8, <1>9
-----------------------------------------------------------------------------
(* Place, word by word *)

\* What the loop over the words has placed.
PlaceState == [packed: Seq(Seq(Run)), line: Seq(Run), width: Nat]

\* Before the first word.
NothingPlaced == [packed |-> <<>>, line |-> <<>>, width |-> 0]

\* The loop starts in such a state.
LEMMA NothingPlacedType == NothingPlaced \in PlaceState
<1>1. <<>> \in Seq(Run)
  OBVIOUS
<1>2. <<>> \in Seq(Seq(Run))
  OBVIOUS
<1> QED BY <1>1, <1>2 DEF NothingPlaced, PlaceState

\* A width is a natural number.
LEMMA WidthType ==
  ASSUME NEW text \in Seq(Char)
  PROVE  Width(text) \in Nat
<1>1. CASE text = <<>>
  BY <1>1 DEF Width
<1>2. CASE text # <<>>
  <2>1. Len(text) \in Nat \ {0}
    BY <1>2, EmptySeq
  <2> QED BY <1>2, <2>1 DEF Width
<1> QED BY <1>1, <1>2

\* A space at the end of a text, as SpaceWidth has it, is not measured.
LEMMA SpaceHasNoWidth == SpaceWidth = 0
<1>1. <<Space>> # <<>> /\ Len(<<Space>>) = 1 /\ Last(<<Space>>) = Space
  BY DEF Last
<1> QED BY <1>1, SpaceIsChar DEF SpaceWidth, Width

\* Placing a word leaves such a state.
LEMMA PlaceType ==
  ASSUME NEW st \in PlaceState, NEW word \in Run
  PROVE  Place(st, word) \in PlaceState
<1>1. PICK n \in Nat : n = Width(word.text)
  BY RunParts, WidthType
<1>2. /\ st.packed \in Seq(Seq(Run)) /\ st.line \in Seq(Run) /\ st.width \in Nat
  BY DEF PlaceState
<1>3. <<word>> \in Seq(Run) /\ Append(st.line, word) \in Seq(Run)
  BY <1>2, AppendProperties
<1>4. Append(st.packed, st.line) \in Seq(Seq(Run))
  BY <1>2, AppendProperties
<1>5. [packed |-> Append(st.packed, st.line), line |-> <<word>>, width |-> n] \in PlaceState
  BY <1>3, <1>4 DEF PlaceState
<1>6. ASSUME NEW k \in Nat
      PROVE  [packed |-> st.packed, line |-> Append(st.line, word), width |-> k] \in PlaceState
  BY <1>2, <1>3 DEF PlaceState
<1>7. st.width + n + (IF st.line = <<>> THEN 0 ELSE SpaceWidth) \in Nat
  BY <1>2, SpaceHasNoWidth
<1> QED BY <1>1, <1>5, <1>6, <1>7 DEF Place

\* The recursion of Placed has a solution, and Placed is its end.
LEMMA PlacedIs ==
  ASSUME NEW words, words \in Seq(Run)
  PROVE  \E f \in [0..Len(words) -> PlaceState] :
           /\ f[0] = NothingPlaced
           /\ \A i \in 1..Len(words) : f[i] = Place(f[i - 1], words[i])
           /\ Placed(words) = f[Len(words)]
<1>1. PICK n : n = Len(words) /\ n \in Nat
  OBVIOUS
<1> DEFINE V == PlaceState
           G == [i \in 1..n |-> [v \in V |-> Place(v, words[i])]]
<1>2. PICK f \in [0..n -> V] : f[0] = NothingPlaced /\ \A i \in 1..n : f[i] = G[i][f[i - 1]]
  <2>1. G \in [1..n -> [V -> V]]
    BY <1>1, PlaceType, ElementOfSeq
  <2>2. PICK W, c, m, H : W = V /\ c = NothingPlaced /\ m = n /\ H = G
    OBVIOUS
  <2>3. c \in W /\ m \in Nat /\ H \in [1..m -> [W -> W]]
    BY <1>1, <2>1, <2>2, NothingPlacedType
  <2> HIDE DEF V, G
  <2>4. \E f \in [0..m -> W] : f[0] = c /\ \A i \in 1..m : f[i] = H[i][f[i - 1]]
    BY ONLY <2>3, Recursion
  <2> QED BY <2>2, <2>4
<1> DEFINE Body(g) == [i \in 0..n |->
             IF i = 0 THEN [packed |-> <<>>, line |-> <<>>, width |-> 0]
             ELSE Place(g[i - 1], words[i])]
           h == CHOOSE g : g = Body(g)
<1>3. \A i \in 1..n : i - 1 \in 0..n /\ i \in 0..n /\ f[i - 1] \in V
  BY <1>1
<1>4. \A i \in 1..n : f[i] = Place(f[i - 1], words[i])
  BY <1>2, <1>3
<1>5. ASSUME NEW g, NEW i \in 1..n
      PROVE  Body(g)[i] = Place(g[i - 1], words[i])
  BY <1>1
<1>6. \A g : Body(g)[0] = NothingPlaced
  BY <1>1 DEF NothingPlaced
<1>7. 0..n = {0} \cup (1..n)
  BY <1>1
<1>8. f = Body(f)
  <2>1. \A i \in 0..n : f[i] = Body(f)[i]
    <3> HIDE DEF Body
    <3> QED BY <1>2, <1>4, <1>5, <1>6, <1>7
  <2> QED BY <2>1
<1>9. h = Body(h)
  <2> HIDE DEF Body
  <2> QED BY <1>8
<1>10. Placed(words) = h[n]
  BY <1>1 DEF Placed
<1>11. \A i \in 0..n : f[i] = h[i]
  <2>1. f[0] = h[0]
    <3> HIDE DEF Body, h
    <3> QED BY <1>2, <1>6, <1>9
  <2>2. ASSUME NEW i \in 1..n, f[i - 1] = h[i - 1] PROVE f[i] = h[i]
    <3>1. h[i] = Place(h[i - 1], words[i])
      <4>1. Body(h)[i] = Place(h[i - 1], words[i])
        <5> HIDE DEF Body, h
        <5> QED BY <1>5
      <4> HIDE DEF Body, h
      <4> QED BY ONLY <4>1, <1>9
    <3> HIDE DEF Body, h
    <3> QED BY <1>4, <2>2, <3>1
  <2> HIDE DEF h
  <2>3. PICK hh : hh = h
    OBVIOUS
  <2>4. PICK ff : ff = f
    OBVIOUS
  <2>5. ff[0] = hh[0] /\ \A i \in 1..n : ff[i - 1] = hh[i - 1] => ff[i] = hh[i]
    BY <2>1, <2>2, <2>3, <2>4
  <2>6. \A i \in 0..n : ff[i] = hh[i]
    <3>1. n \in Nat
      BY <1>1
    <3> HIDE DEF V, G, Body
    <3> QED BY ONLY <2>5, <3>1, RecursionsAgreeFromZero
  <2> QED BY <2>3, <2>4, <2>6
<1>12. Placed(words) = f[n]
  <2>1. n \in 0..n
    BY <1>1
  <2> HIDE DEF h
  <2> QED BY <1>10, <1>11, <2>1
<1> QED BY <1>1, <1>2, <1>4, <1>12

\* One more word is placed after the others.
LEMMA PlacedAppend ==
  ASSUME NEW words \in Seq(Run), NEW word \in Run
  PROVE  Placed(Append(words, word)) = Place(Placed(words), word)
<1>1. PICK n \in Nat : n = Len(words)
  OBVIOUS
<1>2. PICK more \in Seq(Run) : more = Append(words, word)
  BY AppendProperties
<1>3. /\ Len(more) = n + 1 /\ more[n + 1] = word
      /\ \A i \in 1..n : more[i] = words[i]
  BY <1>1, <1>2, AppendProperties
<1>4. PICK f \in [0..n -> PlaceState] :
        /\ f[0] = NothingPlaced /\ \A i \in 1..n : f[i] = Place(f[i - 1], words[i])
        /\ Placed(words) = f[n]
  BY <1>1, PlacedIs
<1>5. PICK g \in [0..n + 1 -> PlaceState] :
        /\ g[0] = NothingPlaced /\ \A i \in 1..n + 1 : g[i] = Place(g[i - 1], more[i])
        /\ Placed(more) = g[n + 1]
  BY <1>3, PlacedIs
<1>6. \A i \in 0..n : f[i] = g[i]
  <2>1. ASSUME NEW i \in 1..n, f[i - 1] = g[i - 1] PROVE f[i] = g[i]
    <3>1. i \in 1..n /\ i \in 1..n + 1 /\ (i = 1 \/ i - 1 \in 1..n) /\ 1 \in 1..n
      OBVIOUS
    <3>2. Place(f[i - 1], words[i]) = Place(g[i - 1], more[i])
      BY <1>3, <2>1
    <3> QED BY <1>4, <1>5, <3>1, <3>2
  <2> DEFINE T == {i \in Nat : i <= n => f[i] = g[i]}
  <2>2. 0 \in T
    BY <1>4, <1>5
  <2>3. ASSUME NEW i \in Nat, i \in T PROVE i + 1 \in T
    <3> SUFFICES ASSUME i + 1 <= n PROVE f[i + 1] = g[i + 1]
      OBVIOUS
    <3>1. i + 1 \in 1..n /\ (i + 1) - 1 = i /\ f[i] = g[i]
      BY <2>3
    <3>2. f[(i + 1) - 1] = g[(i + 1) - 1]
      BY <3>1
    <3> QED BY <2>1, <3>1, <3>2
  <2>4. \A i \in Nat : i \in T
    <3> HIDE DEF T
    <3> QED BY <2>2, <2>3, Induction
  <2> QED BY <2>4
<1>7. g[n + 1] = Place(f[n], word)
  <2>1. n + 1 \in 1..n + 1 /\ (n + 1) - 1 = n /\ f[n] = g[n] /\ more[n + 1] = word
    BY <1>3, <1>6
  <2> QED BY <1>5, <2>1
<1> QED BY ONLY <1>2, <1>4, <1>5, <1>7

\* No word, nothing placed.
LEMMA PlacedEmpty == Placed(<<>>) = NothingPlaced
<1>1. <<>> \in Seq(Run) /\ Len(<<>>) = 0
  OBVIOUS
<1>2. PICK f : f[0] = NothingPlaced /\ Placed(<<>>) = f[Len(<<>>)]
  BY <1>1, PlacedIs
<1> QED BY <1>1, <1>2
-----------------------------------------------------------------------------
(* Pack fills the lines *)

\* A word is as wide as it has inks.
LEMMA SpacelessInks ==
  ASSUME NEW s \in Style
  PROVE  \A t \in Seq({c \in Char : ~c.space}) :
           Len(InkedRun([text |-> t, style |-> s])) = Len(t)
<1> DEFINE R(x) == [text |-> x, style |-> s]
           Ink == {c \in Char : ~c.space}
           T == {t \in Seq(Ink) : Len(InkedRun(R(t))) = Len(t)}
<1>0. Seq(Ink) \subseteq Seq(Char)
  OBVIOUS
<1>1. <<>> \in T
  <2>1. InkedRun(R(<<>>)) = <<>>
    BY InkedRunEmpty
  <2>2. Len(<<>>) = 0 /\ <<>> \in Seq(Ink)
    OBVIOUS
  <2> HIDE DEF R, Ink
  <2> QED BY <2>1, <2>2
<1>2. ASSUME NEW t \in Seq(Ink), NEW c \in Ink, t \in T
      PROVE  Append(t, c) \in T
  <2>1. t \in Seq(Char) /\ c \in Char /\ ~c.space
    BY <1>0
  <2>2. <<c>> \in Seq(Char) /\ R(t) \in Run
    BY <2>1, RunIs
  <2>3. t \o <<c>> = Append(t, c)
    BY <2>1, AppendIsConcat
  <2>4. InkedRun(R(t \o <<c>>)) = InkedRun(R(t)) \o InkedRun(R(<<c>>))
    BY <2>1, <2>2, InkedRunConcat
  <2>5. InkedRun(R(<<c>>)) = << <<c, s>> >> /\ InkedRun(R(<<c>>)) \in Seq(Inks)
    <3>1. InkedRun(R(<<c>>)) = InkOrNot(c, s) /\ InkOrNot(c, s) \in Seq(Inks)
      BY <2>1, InkedRunOne, InkOrNotType
    <3>2. InkOrNot(c, s) = << <<c, s>> >>
      BY <2>1 DEF InkOrNot
    <3> QED BY ONLY <3>1, <3>2
  <2>6. Len(InkedRun(R(<<c>>))) = 1
    <3> HIDE DEF R
    <3> QED BY <2>5
  <2>7. InkedRun(R(t)) \in Seq(Inks)
    BY <2>2, InksOfType
  <2>8. PICK a, b \in Seq(Inks) : a = InkedRun(R(t)) /\ b = InkedRun(R(<<c>>))
    BY <2>5, <2>7
  <2>9. Len(a \o b) = Len(a) + Len(b)
    BY ConcatProperties
  <2>10. Append(t, c) \in Seq(Ink) /\ Len(Append(t, c)) = Len(t) + 1 /\ Len(InkedRun(R(t))) = Len(t)
    <3>1. Append(t, c) \in Seq(Ink) /\ Len(Append(t, c)) = Len(t) + 1
      <4> HIDE DEF Ink
      <4> QED BY AppendProperties
    <3>2. Len(InkedRun(R(t))) = Len(t)
      BY <1>2
    <3> QED BY <3>1, <3>2
  <2>11. Len(InkedRun(R(Append(t, c)))) = Len(Append(t, c))
    <3> HIDE DEF R, Ink
    <3> QED BY ONLY <2>3, <2>4, <2>6, <2>8, <2>9, <2>10
  <2> HIDE DEF R, Ink
  <2> QED BY <2>10, <2>11
<1>3. \A t \in Seq(Ink) : t \in T
  <2> HIDE DEF T, Ink
  <2> QED BY <1>1, <1>2, InductionOnSequences
<1> QED BY <1>3

\* A word is a text without spaces, and a style.
LEMMA WordParts ==
  ASSUME NEW pairs, NEW w \in WordOver(pairs)
  PROVE  /\ w \in Run /\ w.text \in Seq(Char) /\ w.style \in Style
         /\ w.text \in Seq({c \in Char : ~c.space}) /\ w.text # <<>>
         /\ w = [text |-> w.text, style |-> w.style]
<1>1. w \in Run /\ w.text # <<>> /\ Spaceless(w.text)
  BY DEF WordOver
<1>2. w.text \in Seq(Char) /\ w.style \in Style /\ w = [text |-> w.text, style |-> w.style]
  BY <1>1, RunParts
<1>3. \A k \in 1..Len(w.text) : w.text[k] \in {c \in Char : ~c.space}
  BY <1>1, <1>2, ElementOfSeq DEF Spaceless
<1>4. PICK t \in Seq(Char) : t = w.text
  BY <1>2
<1>5. t \in Seq({c \in Char : ~c.space})
  <2> DEFINE Ink == {c \in Char : ~c.space}
  <2>1. \A k \in 1..Len(t) : t[k] \in Ink
    BY <1>3, <1>4
  <2> HIDE DEF Ink
  <2>2. t \in Seq(Ink)
    BY <2>1
  <2> QED BY <2>2 DEF Ink
<1> QED BY <1>1, <1>2, <1>4, <1>5

\* A word is as wide as it has characters, all of them inks.
LEMMA WordWidth ==
  ASSUME NEW pairs, NEW w \in WordOver(pairs)
  PROVE  /\ Len(InkedRun(w)) = Len(w.text) /\ Width(w.text) = Len(w.text)
         /\ Len(w.text) \in Nat /\ InkedRun(w) \in Seq(Inks)
<1>1. PICK t, s : /\ w = [text |-> t, style |-> s] /\ s \in Style /\ t = w.text
                  /\ t \in Seq({c \in Char : ~c.space}) /\ t # <<>>
  BY WordParts
<1>2. Len(InkedRun([text |-> t, style |-> s])) = Len(t)
  BY <1>1, SpacelessInks
<1>3. Width(t) = Len(t)
  <2>1. Len(t) \in 1..Len(t)
    BY <1>1, EmptySeq
  <2>2. ~Last(t).space
    BY <1>1, <2>1 DEF Last
  <2> QED BY <1>1, <2>1, <2>2 DEF Width
<1>4. Len(t) \in Nat
  BY <1>1
<1>5. InkedRun(w) \in Seq(Inks)
  BY WordParts, InksOfType
<1> QED BY ONLY <1>1, <1>2, <1>3, <1>4, <1>5

\* A line that goes on with a word has as many inks more as the word.
LEMMA InkOnlyAppend ==
  ASSUME NEW pairs, NEW row \in Seq(WordOver(pairs)), NEW w \in WordOver(pairs)
  PROVE  /\ InkOnly(Append(row, w)) = InkOnly(row) + Len(w.text)
         /\ InkOnly(<<w>>) = Len(w.text) /\ InkOnly(row) \in Nat
<1>1. row \in Seq(Run) /\ w \in Run
  BY DEF WordOver
<1>2. Inked(Append(row, w)) = Inked(row) \o InkedRun(w) /\ Inked(<<w>>) = InkedRun(w)
  BY <1>1, InkedAppend, InkedOne
<1>3. PICK a, b \in Seq(Inks) : a = Inked(row) /\ b = InkedRun(w)
  BY <1>1, InkedType, WordWidth
<1>4. Len(a \o b) = Len(a) + Len(b) /\ Len(a) \in Nat
  BY ConcatProperties
<1>5. Len(InkedRun(w)) = Len(w.text)
  BY WordWidth
<1> QED BY ONLY <1>2, <1>3, <1>4, <1>5 DEF InkOnly

\* The lines hold the words in their order, each fits or has one word only, and the
\* first word of the next would not fit.
PackedWell(rows, words, W) ==
  /\ rows \in Seq(Seq(W)) /\ FlattenSeq(rows) = words
  /\ \A l \in 1..Len(rows) :
       /\ rows[l] # <<>>
       /\ InkOnly(rows[l]) <= MaxWidth \/ Len(rows[l]) = 1
  /\ \A l \in 1..Len(rows) - 1 :
       InkOnly(rows[l]) + Len(rows[l + 1][1].text) > MaxWidth

\* The first word makes a line.
LEMMA PackedFirst ==
  ASSUME NEW pairs, NEW w \in WordOver(pairs)
  PROVE  PackedWell(<< <<w>> >>, <<w>>, WordOver(pairs))
<1> DEFINE W == WordOver(pairs)
<1> HIDE DEF W
<1>1. w \in W
  BY DEF W
<1>2. PICK row \in Seq(W) : row = <<w>> /\ Len(row) = 1 /\ row # <<>>
  <2>1. <<w>> \in Seq(W) /\ Len(<<w>>) = 1 /\ <<w>> # <<>>
    BY <1>1
  <2> QED BY <2>1
<1>3. <<row>> \in Seq(Seq(W)) /\ Len(<<row>>) = 1 /\ <<row>>[1] = row
  OBVIOUS
<1>4. FlattenSeq(<<row>>) = row
  BY FlattenOne
<1>5. PackedWell(<<row>>, row, W)
  <2>1. PICK rows : rows = <<row>>
    OBVIOUS
  <2>2. rows \in Seq(Seq(W)) /\ Len(rows) = 1 /\ rows[1] = row /\ FlattenSeq(rows) = row
    BY ONLY <1>3, <1>4, <2>1
  <2>3. PackedWell(rows, row, W)
    <3>1. (1 - 1) = 0 /\ 1..1 = {1} /\ 1..0 = {}
      OBVIOUS
    <3>2. \A l \in 1..Len(rows) :
            rows[l] # <<>> /\ (InkOnly(rows[l]) <= MaxWidth \/ Len(rows[l]) = 1)
      BY ONLY <1>2, <2>2, <3>1
    <3>3. 1..Len(rows) - 1 = {}
      BY ONLY <2>2, <3>1
    <3> QED BY ONLY <2>2, <3>2, <3>3 DEF PackedWell
  <2> QED BY ONLY <2>1, <2>3
<1> QED BY ONLY <1>2, <1>5 DEF W

\* A word that does not fit starts a line.
LEMMA PackedNewLine ==
  ASSUME NEW pairs, NEW front, NEW row, NEW words, NEW w,
         front \in Seq(Seq(WordOver(pairs))), row \in Seq(WordOver(pairs)),
         words \in Seq(WordOver(pairs)), w \in WordOver(pairs),
         PackedWell(Append(front, row), words, WordOver(pairs)),
         InkOnly(row) + Len(w.text) > MaxWidth
  PROVE  PackedWell(Append(Append(front, row), <<w>>), Append(words, w), WordOver(pairs))
<1> DEFINE W == WordOver(pairs)
<1>1. PICK last : last \in Seq(W) /\ last = <<w>> /\ Len(last) = 1 /\ last[1] = w /\ last # <<>>
  <2>1. <<w>> \in Seq(W) /\ Len(<<w>>) = 1 /\ <<w>>[1] = w /\ <<w>> # <<>>
    BY DEF W
  <2> QED BY <2>1
<1>2. words \o last = Append(words, w)
  <2>1. Append(words, w) = words \o <<w>>
    BY AppendIsConcat
  <2> QED BY ONLY <1>1, <2>1
<1> HIDE DEF W
<1>3. PICK n \in Nat : n = Len(front)
  BY DEF W
<1>4a. PICK rows : rows = Append(front, row)
  OBVIOUS
<1>4. /\ rows \in Seq(Seq(W)) /\ rows = Append(front, row) /\ Len(rows) = n + 1 /\ rows[n + 1] = row
  <2> DEFINE S == Seq(W)
  <2>1. front \in Seq(S) /\ row \in S
    BY DEF W
  <2> HIDE DEF S
  <2>2. /\ rows \in Seq(S) /\ Len(rows) = Len(front) + 1 /\ rows[Len(front) + 1] = row
        /\ \A l \in 1..Len(front) : rows[l] = front[l]
    BY ONLY <2>1, <1>4a, AppendIs
  <2> QED BY ONLY <1>3, <1>4a, <2>2 DEF S
<1>5a. PICK more : more = Append(rows, last)
  OBVIOUS
<1>5. /\ more \in Seq(Seq(W)) /\ more = Append(rows, last) /\ Len(more) = n + 2 /\ more[n + 2] = last
        /\ \A l \in 1..n + 1 : more[l] = rows[l]
  <2> DEFINE S == Seq(W)
  <2>1. rows \in Seq(S) /\ last \in S
    BY <1>1, <1>4
  <2> HIDE DEF S
  <2>2. /\ more \in Seq(S) /\ Len(more) = Len(rows) + 1 /\ more[Len(rows) + 1] = last
        /\ \A l \in 1..Len(rows) : more[l] = rows[l]
    BY ONLY <2>1, <1>5a, AppendIs
  <2>3. n + 2 = (n + 1) + 1 /\ Len(rows) = n + 1
    BY <1>4
  <2> QED BY ONLY <1>5a, <2>2, <2>3 DEF S
<1>6. FlattenSeq(more) = Append(words, w)
  <2>1. FlattenSeq(more) = FlattenSeq(rows) \o last
    BY <1>1, <1>4, <1>5, FlattenAppend
  <2>2. FlattenSeq(rows) = words
    BY <1>4 DEF PackedWell, W
  <2> QED BY ONLY <1>2, <2>1, <2>2
<1>7. /\ \A l \in 1..n + 1 : rows[l] # <<>> /\ (InkOnly(rows[l]) <= MaxWidth \/ Len(rows[l]) = 1)
      /\ \A l \in 1..n : InkOnly(rows[l]) + Len(rows[l + 1][1].text) > MaxWidth
  <2>1. (n + 1) - 1 = n
    OBVIOUS
  <2>2. PackedWell(rows, words, W)
    BY <1>4 DEF W
  <2> QED BY <1>4, <2>1, <2>2 DEF PackedWell
<1>8. \A l \in 1..n + 2 :
        more[l] # <<>> /\ (InkOnly(more[l]) <= MaxWidth \/ Len(more[l]) = 1)
  <2>1. \A l \in 1..n + 2 : l \in 1..n + 1 \/ l = n + 2
    OBVIOUS
  <2> QED BY ONLY <1>1, <1>5, <1>7, <2>1
<1>9. \A l \in 1..n + 1 : InkOnly(more[l]) + Len(more[l + 1][1].text) > MaxWidth
  <2> SUFFICES ASSUME NEW l \in 1..n + 1
               PROVE  InkOnly(more[l]) + Len(more[l + 1][1].text) > MaxWidth
    OBVIOUS
  <2>1. CASE l = n + 1
    <3>1. more[l] = row /\ more[l + 1][1] = w
      <4>1. l + 1 = n + 2 /\ n + 1 \in 1..n + 1
        BY <2>1
      <4> QED BY ONLY <1>1, <1>4, <1>5, <2>1, <4>1
    <3> QED BY <3>1
  <2>2. CASE l # n + 1
    <3>1. l \in 1..n /\ l + 1 \in 1..n + 1
      BY <2>2
    <3> QED BY <1>5, <1>7, <3>1
  <2> QED BY <2>1, <2>2
<1>10. PackedWell(more, Append(words, w), W)
  <2>1. (n + 2) - 1 = n + 1
    OBVIOUS
  <2> QED BY <1>5, <1>6, <1>8, <1>9, <2>1 DEF PackedWell
<1> QED BY ONLY <1>1, <1>4, <1>5, <1>10 DEF W

\* A word that fits joins the line.
LEMMA PackedSameLine ==
  ASSUME NEW pairs, NEW front, NEW row, NEW words, NEW w,
         front \in Seq(Seq(WordOver(pairs))), row \in Seq(WordOver(pairs)),
         words \in Seq(WordOver(pairs)), w \in WordOver(pairs),
         PackedWell(Append(front, row), words, WordOver(pairs)),
         InkOnly(row) + Len(w.text) <= MaxWidth
  PROVE  PackedWell(Append(front, Append(row, w)), Append(words, w), WordOver(pairs))
<1> DEFINE W == WordOver(pairs)
<1> HIDE DEF W
<1>1. PICK n \in Nat : n = Len(front)
  BY DEF W
<1>2a. PICK rows : rows = Append(front, row)
  OBVIOUS
<1>2. /\ rows \in Seq(Seq(W)) /\ rows = Append(front, row) /\ Len(rows) = n + 1 /\ rows[n + 1] = row
        /\ \A l \in 1..n : rows[l] = front[l]
  <2> DEFINE S == Seq(W)
  <2>1. front \in Seq(S) /\ row \in S
    BY DEF W
  <2> HIDE DEF S
  <2>2. /\ rows \in Seq(S) /\ Len(rows) = Len(front) + 1 /\ rows[Len(front) + 1] = row
        /\ \A l \in 1..Len(front) : rows[l] = front[l]
    BY ONLY <2>1, <1>2a, AppendIs
  <2> QED BY ONLY <1>1, <1>2a, <2>2 DEF S
<1>3. PICK last :
        /\ last \in Seq(W) /\ last = Append(row, w) /\ last # <<>>
  BY AppendProperties DEF W
<1>4a. PICK more : more = Append(front, last)
  OBVIOUS
<1>4. /\ more \in Seq(Seq(W)) /\ more = Append(front, last) /\ Len(more) = n + 1 /\ more[n + 1] = last
        /\ \A l \in 1..n : more[l] = front[l]
  <2> DEFINE S == Seq(W)
  <2>1. front \in Seq(S) /\ last \in S
    BY <1>3 DEF W
  <2> HIDE DEF S
  <2>2. /\ more \in Seq(S) /\ Len(more) = Len(front) + 1 /\ more[Len(front) + 1] = last
        /\ \A l \in 1..Len(front) : more[l] = front[l]
    BY ONLY <2>1, <1>4a, AppendIs
  <2> QED BY ONLY <1>1, <1>3, <1>4a, <2>2 DEF S
<1>5. PackedWell(rows, words, W)
  BY <1>2 DEF W
<1>6. /\ \A l \in 1..n + 1 : rows[l] # <<>> /\ (InkOnly(rows[l]) <= MaxWidth \/ Len(rows[l]) = 1)
      /\ \A l \in 1..n : InkOnly(rows[l]) + Len(rows[l + 1][1].text) > MaxWidth
  <2>1. (n + 1) - 1 = n
    OBVIOUS
  <2> QED BY <1>2, <1>5, <2>1 DEF PackedWell
<1>7. FlattenSeq(more) = Append(words, w)
  <2>1. FlattenSeq(more) = FlattenSeq(front) \o last /\ FlattenSeq(rows) = FlattenSeq(front) \o row
    BY <1>2, <1>3, <1>4, FlattenAppend DEF W
  <2>2. FlattenSeq(rows) = words
    BY <1>5 DEF PackedWell
  <2>3. FlattenSeq(front) \o Append(row, w) = Append(FlattenSeq(front) \o row, w)
    BY FlattenType, AppendConcat
  <2> QED BY ONLY <1>3, <2>1, <2>2, <2>3
<1>8. last[1] = row[1]
  <2>1. row # <<>>
    <3>1. n + 1 \in 1..n + 1
      OBVIOUS
    <3> QED BY <1>2, <1>6, <3>1
  <2>2. 1 \in 1..Len(row)
    BY <2>1, EmptySeq
  <2> QED BY <1>3, <2>2, AppendProperties
<1>9. InkOnly(last) <= MaxWidth
  BY <1>3, InkOnlyAppend
<1>10. \A l \in 1..n + 1 :
         more[l] # <<>> /\ (InkOnly(more[l]) <= MaxWidth \/ Len(more[l]) = 1)
  <2>1. \A l \in 1..n + 1 : l \in 1..n \/ l = n + 1
    OBVIOUS
  <2> QED BY ONLY <1>2, <1>3, <1>4, <1>6, <1>9, <2>1
<1>11. \A l \in 1..n : InkOnly(more[l]) + Len(more[l + 1][1].text) > MaxWidth
  <2> SUFFICES ASSUME NEW l \in 1..n
               PROVE  InkOnly(more[l]) + Len(more[l + 1][1].text) > MaxWidth
    OBVIOUS
  <2>1. l + 1 = n + 1 \/ l + 1 \in 1..n
    OBVIOUS
  <2>2. more[l] = rows[l] /\ more[l + 1][1] = rows[l + 1][1]
    BY ONLY <1>2, <1>4, <1>8, <2>1, l \in 1..n
  <2> QED BY <1>6, <2>2
<1>12. PackedWell(more, Append(words, w), W)
  <2>1. (n + 1) - 1 = n
    OBVIOUS
  <2> QED BY <1>4, <1>7, <1>10, <1>11, <2>1 DEF PackedWell
<1> QED BY ONLY <1>3, <1>4, <1>12 DEF W

\* What the loop over the words keeps.
PlacedWell(st, words, W) ==
  /\ st.packed \in Seq(Seq(W)) /\ st.line \in Seq(W) /\ st.line # <<>>
  /\ st.width = InkOnly(st.line)
  /\ PackedWell(Append(st.packed, st.line), words, W)

\* PlacedWell, field by field.
LEMMA PlacedWellIs ==
  ASSUME NEW W, NEW words, NEW front, NEW row, NEW n,
         front \in Seq(Seq(W)), row \in Seq(W), row # <<>>, n = InkOnly(row),
         PackedWell(Append(front, row), words, W)
  PROVE  PlacedWell([packed |-> front, line |-> row, width |-> n], words, W)
BY DEF PlacedWell

\* The loop keeps that: by induction over the words.
LEMMA WordsPlaced ==
  ASSUME NEW pairs
  PROVE  \A words \in Seq(WordOver(pairs)) :
           words # <<>> => PlacedWell(Placed(words), words, WordOver(pairs))
<1> DEFINE W == WordOver(pairs)
           T == {words \in Seq(W) : words # <<>> => PlacedWell(Placed(words), words, W)}
<1>0. W \subseteq Run
  BY DEF WordOver
<1>1. <<>> \in T
  OBVIOUS
<1>2. ASSUME NEW words \in Seq(W), NEW w \in W, words \in T
      PROVE  Append(words, w) \in T
  <2> DEFINE st == Placed(words)
             more == Append(words, w)
             needed == st.width + Width(w.text) + (IF st.line = <<>> THEN 0 ELSE SpaceWidth)
  <2> SUFFICES PlacedWell(Placed(more), more, W)
    <3> HIDE DEF W
    <3> QED BY AppendProperties
  <2>1. Placed(more) = Place(st, w)
    <3>1. words \in Seq(Run) /\ w \in Run
      BY <1>0
    <3> QED BY <3>1, PlacedAppend
  <2>2. Width(w.text) = Len(w.text) /\ Len(w.text) \in Nat
    BY WordWidth
  <2>3. CASE words = <<>>
    <3>1. st = NothingPlaced /\ more = <<w>>
      BY <2>3, PlacedEmpty
    <3>2. needed = Len(w.text)
      BY <2>2, <3>1 DEF NothingPlaced
    <3>3. Place(st, w) = [packed |-> <<>>, line |-> <<w>>, width |-> Len(w.text)]
      <4>1. st.packed = <<>> /\ st.line = <<>> /\ Append(st.line, w) = <<w>>
        BY <3>1 DEF NothingPlaced
      <4> HIDE DEF st
      <4> QED BY <3>2, <4>1 DEF Place
    <3>4. PICK front, row, n : front = <<>> /\ row = <<w>> /\ n = Len(w.text)
      OBVIOUS
    <3>5. front \in Seq(Seq(W)) /\ row \in Seq(W) /\ row # <<>>
      <4> HIDE DEF W
      <4> QED BY <3>4
    <3>6. n = InkOnly(row)
      <4>1. <<>> \in Seq(WordOver(pairs))
        OBVIOUS
      <4>2. InkOnly(<<w>>) = Len(w.text)
        BY <4>1, InkOnlyAppend
      <4> QED BY ONLY <3>4, <4>2
    <3>7. Append(front, row) = << <<w>> >>
      BY <3>4
    <3>8. PackedWell(<< <<w>> >>, <<w>>, W)
      BY PackedFirst
    <3> HIDE DEF W, st, more
    <3>9. PlacedWell([packed |-> front, line |-> row, width |-> n], more, W)
      <4>1. PackedWell(Append(front, row), more, W)
        BY ONLY <3>1, <3>7, <3>8
      <4> QED BY ONLY <3>5, <3>6, <4>1, PlacedWellIs
    <3> QED BY ONLY <2>1, <3>3, <3>4, <3>9
  <2>4. CASE words # <<>>
    <3>1. PlacedWell(st, words, W)
      BY <1>2, <2>4
    <3>2. PICK front, row : front = st.packed /\ row = st.line
      OBVIOUS
    <3>3. /\ front \in Seq(Seq(W)) /\ row \in Seq(W) /\ row # <<>>
          /\ PackedWell(Append(front, row), words, W) /\ st.width = InkOnly(row)
      BY <3>1, <3>2 DEF PlacedWell
    <3>4. needed = InkOnly(row) + Len(w.text) /\ InkOnly(row) \in Nat
      <4>1. InkOnly(row) \in Nat
        BY <3>3, InkOnlyAppend
      <4> QED BY <2>2, <3>2, <3>3, <4>1, SpaceHasNoWidth
    <3> HIDE DEF st, needed
    <3>5. CASE needed > MaxWidth
      <4>1. PICK last, rows, n : last = <<w>> /\ rows = Append(front, row) /\ n = Len(w.text)
        OBVIOUS
      <4>2. Place(st, w) = [packed |-> rows, line |-> last, width |-> n]
        BY ONLY <2>2, <3>2, <3>3, <3>5, <4>1 DEF Place, needed
      <4>3. PackedWell(Append(rows, last), more, W)
        <5>1. PackedWell(Append(Append(front, row), <<w>>), more, W)
          BY <3>3, <3>4, <3>5, PackedNewLine
        <5> HIDE DEF W, more
        <5> QED BY ONLY <4>1, <5>1
      <4>4. rows \in Seq(Seq(W)) /\ last \in Seq(W) /\ last # <<>>
        <5> HIDE DEF W
        <5>1. last \in Seq(W) /\ last # <<>>
          BY <4>1
        <5> DEFINE S == Seq(W)
        <5>2. front \in Seq(S) /\ row \in S
          BY <3>3
        <5> HIDE DEF S
        <5>3. rows \in Seq(S)
          BY ONLY <4>1, <5>2, AppendIs
        <5> QED BY ONLY <5>1, <5>3 DEF S
      <4>5. n = InkOnly(last)
        <5>1. InkOnly(<<w>>) = Len(w.text)
          BY <3>3, InkOnlyAppend
        <5> QED BY ONLY <4>1, <5>1
      <4> HIDE DEF W, more
      <4>6. PlacedWell([packed |-> rows, line |-> last, width |-> n], more, W)
        BY ONLY <4>3, <4>4, <4>5, PlacedWellIs
      <4> QED BY ONLY <2>1, <4>2, <4>6
    <3>6. CASE ~(needed > MaxWidth)
      <4>1. PICK last, n : last = Append(row, w) /\ n = InkOnly(row) + Len(w.text)
        OBVIOUS
      <4>2. Place(st, w) = [packed |-> front, line |-> last, width |-> n]
        BY ONLY <3>2, <3>4, <3>6, <4>1 DEF Place, needed
      <4>3. PackedWell(Append(front, last), more, W)
        <5>1. InkOnly(row) + Len(w.text) <= MaxWidth
          BY <2>2, <3>4, <3>6, WidthAssumption
        <5>2. PackedWell(Append(front, Append(row, w)), more, W)
          BY <3>3, <5>1, PackedSameLine
        <5> HIDE DEF W, more
        <5> QED BY ONLY <4>1, <5>2
      <4>4. last \in Seq(W) /\ last # <<>>
        <5> HIDE DEF W
        <5> QED BY <3>3, <4>1, AppendProperties
      <4>5. n = InkOnly(last)
        <5>1. InkOnly(Append(row, w)) = InkOnly(row) + Len(w.text)
          BY <3>3, InkOnlyAppend
        <5> QED BY ONLY <4>1, <5>1
      <4> HIDE DEF W, more
      <4>6. PlacedWell([packed |-> front, line |-> last, width |-> n], more, W)
        BY ONLY <3>3, <4>3, <4>4, <4>5, PlacedWellIs
      <4> QED BY ONLY <2>1, <4>2, <4>6
    <3> QED BY <3>5, <3>6
  <2> QED BY <2>3, <2>4
<1>3. \A words \in Seq(W) : words \in T
  <2> HIDE DEF T, W
  <2> QED BY <1>1, <1>2, InductionOnSequences
<1> QED BY <1>3

\* The packed lines of a line's words.
LEMMA WordsPacked ==
  ASSUME NEW pairs, NEW words, words \in Seq(WordOver(pairs)), words # <<>>
  PROVE  PackedWell(Pack(words), words, WordOver(pairs))
BY WordsPlaced DEF PlacedWell, Pack
-----------------------------------------------------------------------------
(* Join keeps the words *)

\* A text that starts and ends with a word, with one space between two words.
Spaced(text, pairs) ==
  /\ text \in Seq(Char) /\ text # <<>> /\ ~text[1].space /\ ~Last(text).space
  /\ \A k \in 1..Len(text) - 1 :
       \/ text[k].space # text[k + 1].space
       \/ /\ ~text[k].space /\ ~text[k + 1].space
          /\ <<text[k], text[k + 1]>> \in pairs

\* A word is such a text.
LEMMA SpacedWord ==
  ASSUME NEW pairs, NEW w \in WordOver(pairs)
  PROVE  Spaced(w.text, pairs)
<1>1. w.text \in Seq(Char) /\ w.text # <<>>
  BY WordParts
<1>2. PICK t : t = w.text
  OBVIOUS
<1>3. /\ t \in Seq(Char) /\ t # <<>> /\ Adjacent(t) \subseteq pairs
      /\ \A k \in 1..Len(t) : ~t[k].space
  BY <1>1, <1>2 DEF WordOver, Spaceless
<1>4. PICK n \in Nat : n = Len(t) /\ n # 0
  BY <1>3, EmptySeq
<1>5. 1 \in 1..n /\ n \in 1..n /\ \A k \in 1..n - 1 : k \in 1..n /\ k + 1 \in 1..n
  BY <1>4
<1>6. ~t[1].space /\ ~Last(t).space
  BY <1>3, <1>4, <1>5 DEF Last
<1>7. \A k \in 1..n - 1 : <<t[k], t[k + 1]>> \in pairs
  BY <1>3, <1>4 DEF Adjacent
<1>8. Spaced(t, pairs)
  BY <1>3, <1>4, <1>5, <1>6, <1>7 DEF Spaced
<1> QED BY <1>2, <1>8

\* Two such texts with a space between them are one.
LEMMA SpacedLonger ==
  ASSUME NEW pairs, NEW t, NEW u, Spaced(t, pairs), Spaced(u, pairs)
  PROVE  Spaced(t \o (<<Space>> \o u), pairs)
<1>1. t \in Seq(Char) /\ u \in Seq(Char) /\ t # <<>> /\ u # <<>>
  BY DEF Spaced
<1>2. PICK n \in Nat, m \in Nat : n = Len(t) /\ m = Len(u) /\ n # 0 /\ m # 0
  BY <1>1, EmptySeq
<1>3. PICK v : v = <<Space>> \o u
  OBVIOUS
<1>4. /\ v \in Seq(Char) /\ Len(v) = m + 1 /\ v[1] = Space
      /\ \A k \in 1..m : v[k + 1] = u[k]
  <2>1. PICK sp \in Seq(Char) : sp = <<Space>> /\ Len(sp) = 1 /\ sp[1] = Space
    BY SpaceIsChar
  <2>2. /\ v \in Seq(Char) /\ Len(v) = Len(sp) + Len(u)
        /\ \A k \in 1..Len(sp) + Len(u) : v[k] = IF k <= Len(sp) THEN sp[k] ELSE u[k - Len(sp)]
    BY <1>1, <1>3, <2>1, ConcatProperties
  <2>3. 1 \in 1..1 + m /\ \A k \in 1..m : k + 1 \in 1..1 + m /\ (k + 1) - 1 = k /\ ~(k + 1 <= 1)
    OBVIOUS
  <2>4. v[1] = Space
    BY <1>2, <2>1, <2>2, <2>3
  <2>5. \A k \in 1..m : v[k + 1] = u[k]
    BY <1>2, <2>1, <2>2, <2>3
  <2> QED BY <1>2, <2>1, <2>2, <2>4, <2>5
<1>5. PICK x : x = t \o v
  OBVIOUS
<1>6. /\ x \in Seq(Char) /\ Len(x) = n + (m + 1)
      /\ \A k \in 1..n : x[k] = t[k]
      /\ \A k \in 1..m + 1 : x[n + k] = v[k]
  <2>1. /\ x \in Seq(Char) /\ Len(x) = Len(t) + Len(v)
        /\ \A k \in 1..Len(t) + Len(v) : x[k] = IF k <= Len(t) THEN t[k] ELSE v[k - Len(t)]
    BY <1>1, <1>4, <1>5, ConcatProperties
  <2>2. \A k \in 1..n : k \in 1..n + (m + 1) /\ k <= n
    OBVIOUS
  <2>3. \A k \in 1..m + 1 : n + k \in 1..n + (m + 1) /\ ~(n + k <= n) /\ (n + k) - n = k
    OBVIOUS
  <2>4. \A k \in 1..n : x[k] = t[k]
    BY <1>2, <1>4, <2>1, <2>2
  <2>5. \A k \in 1..m + 1 : x[n + k] = v[k]
    BY <1>2, <1>4, <2>1, <2>3
  <2> QED BY <1>2, <1>4, <2>1, <2>4, <2>5
<1>7. x[n + 1] = Space /\ \A k \in 1..m : x[n + 1 + k] = u[k]
  <2>1. 1 \in 1..m + 1 /\ \A k \in 1..m : k + 1 \in 1..m + 1 /\ n + (k + 1) = n + 1 + k
    BY <1>2
  <2> QED BY <1>4, <1>6, <2>1
<1>8. /\ ~t[1].space /\ ~t[n].space /\ ~u[1].space /\ ~u[m].space
      /\ \A k \in 1..n - 1 :
           \/ t[k].space # t[k + 1].space
           \/ ~t[k].space /\ ~t[k + 1].space /\ <<t[k], t[k + 1]>> \in pairs
      /\ \A k \in 1..m - 1 :
           \/ u[k].space # u[k + 1].space
           \/ ~u[k].space /\ ~u[k + 1].space /\ <<u[k], u[k + 1]>> \in pairs
  BY <1>2 DEF Spaced, Last
<1>9. ~x[1].space /\ ~Last(x).space /\ x # <<>>
  <2>1. 1 \in 1..n /\ m \in 1..m /\ n + 1 + m = n + (m + 1)
    BY <1>2
  <2>2. x[1] = t[1] /\ x[n + (m + 1)] = u[m]
    BY <1>6, <1>7, <2>1
  <2>3. Len(x) # 0
    BY <1>6
  <2> QED BY <1>6, <1>8, <2>2, <2>3, EmptySeq DEF Last
<1>10. ASSUME NEW k \in 1..n + (m + 1) - 1
       PROVE  \/ x[k].space # x[k + 1].space
              \/ ~x[k].space /\ ~x[k + 1].space /\ <<x[k], x[k + 1]>> \in pairs
  <2>1. CASE k \in 1..n - 1
    <3>1. k \in 1..n /\ k + 1 \in 1..n
      BY <2>1
    <3>2. x[k] = t[k] /\ x[k + 1] = t[k + 1]
      BY <1>6, <3>1
    <3> QED BY <1>8, <2>1, <3>2
  <2>2. CASE k = n
    <3>1. n \in 1..n
      BY <1>2
    <3>2. x[k] = t[n] /\ x[k + 1] = Space
      BY <1>6, <1>7, <2>2, <3>1
    <3> QED BY <1>8, <3>2, SpaceIsChar
  <2>3. CASE k = n + 1
    <3>1. 1 \in 1..m
      BY <1>2
    <3>2. x[k] = Space /\ x[k + 1] = u[1]
      BY <1>7, <2>3, <3>1
    <3> QED BY <1>8, <3>2, SpaceIsChar
  <2>4. CASE k > n + 1
    <3>1. PICK i \in 1..m - 1 : i = k - (n + 1)
      BY <2>4
    <3>2. i \in 1..m /\ i + 1 \in 1..m /\ k = n + 1 + i /\ k + 1 = n + 1 + (i + 1)
      BY <3>1
    <3>3. x[k] = u[i] /\ x[k + 1] = u[i + 1]
      BY <1>7, <3>2
    <3> QED BY <1>8, <3>1, <3>3
  <2>5. k \in 1..n - 1 \/ k = n \/ k = n + 1 \/ k > n + 1
    OBVIOUS
  <2> QED BY <2>1, <2>2, <2>3, <2>4, <2>5
<1>11. Spaced(x, pairs)
  BY <1>6, <1>9, <1>10 DEF Spaced
<1> QED BY ONLY <1>3, <1>5, <1>11

\* The words of a run that goes on with a space and a word.
LEMMA WordsGoOn ==
  ASSUME NEW pairs, NEW w \in WordOver(pairs), NEW t \in Seq(Char)
  PROVE  LET R(x) == [text |-> x, style |-> w.style]
         IN  WordsOf(R(t \o (<<Space>> \o w.text))) = Append(WordsOf(R(t)), w)
<1> DEFINE R(x) == [text |-> x, style |-> w.style]
<1>1. PICK u, s : u = w.text /\ s = w.style
  OBVIOUS
<1>2. /\ u \in Seq({c \in Char : ~c.space}) /\ u # <<>> /\ u \in Seq(Char) /\ s \in Style
      /\ w = [text |-> u, style |-> s]
  BY <1>1, WordParts
<1>3. PICK t2 : t2 = t \o <<Space>>
  OBVIOUS
<1>4. t2 \in Seq(Char) /\ Last(t2) = Space /\ t2 \o u = t \o (<<Space>> \o u)
  <2>1. t2 = Append(t, Space)
    BY <1>3, SpaceIsChar, AppendIsConcat
  <2>2. t2 \in Seq(Char) /\ Last(t2) = Space
    BY <2>1, SpaceIsChar, AppendProperties, LastOfAppend
  <2>3. (t \o <<Space>>) \o u = t \o (<<Space>> \o u)
    BY <1>2, SpaceIsChar, ConcatAssociative
  <2> QED BY ONLY <1>3, <2>2, <2>3
<1>5. WordsOf([text |-> t2, style |-> s]) = WordsOf([text |-> t, style |-> s])
  BY <1>2, <1>3, WordsOfSpace
<1>6. WordsOf([text |-> t2 \o u, style |-> s])
        = Append(WordsOf([text |-> t2, style |-> s]), [text |-> u, style |-> s])
  BY <1>2, <1>4, SpaceIsChar, WordsOfWord
<1> QED BY ONLY <1>1, <1>2, <1>4, <1>5, <1>6

\* A word has one word, the space between two words none.
LEMMA WordsAlone ==
  ASSUME NEW pairs, NEW w \in WordOver(pairs)
  PROVE  WordsOf(w) = <<w>> /\ WordsOf(Glue(w)) = <<>>
<1>1. PICK u, s : u = w.text /\ s = w.style
  OBVIOUS
<1>2. /\ u \in Seq({c \in Char : ~c.space}) /\ u # <<>> /\ u \in Seq(Char) /\ s \in Style
      /\ w = [text |-> u, style |-> s]
  BY <1>1, WordParts
<1>3. PICK t : t = <<>>
  OBVIOUS
<1>4. t \in Seq(Char) /\ t \o u = u /\ t \o <<Space>> = <<Space>>
  BY <1>2, <1>3, SpaceIsChar, ConcatEmptySeq
<1>5. WordsOf([text |-> t, style |-> s]) = <<>>
  BY <1>2, <1>3, WordsOfEmpty
<1>6. WordsOf([text |-> t \o u, style |-> s])
        = Append(WordsOf([text |-> t, style |-> s]), [text |-> u, style |-> s])
  BY <1>2, <1>3, <1>4, WordsOfWord
<1>7. Append(<<>>, w) = <<w>>
  OBVIOUS
<1>8. WordsOf([text |-> t \o <<Space>>, style |-> s]) = WordsOf([text |-> t, style |-> s])
  BY <1>2, <1>4, WordsOfSpace
<1>9. Glue(w) = [text |-> <<Space>>, style |-> s]
  BY <1>1 DEF Glue
<1> QED BY ONLY <1>2, <1>4, <1>5, <1>6, <1>7, <1>8, <1>9

\* The line has these words, of which the last ends it, and one space between two.
JoinedWell(runs, words, pairs) ==
  /\ runs \in Seq(Run) /\ runs # <<>> /\ Words(runs) = words
  /\ Last(runs).style = Last(words).style
  /\ Spaced(Text(runs), pairs)

\* Words are runs.
LEMMA WordsAreRuns ==
  ASSUME NEW pairs
  PROVE  WordOver(pairs) \subseteq Run /\ Seq(WordOver(pairs)) \subseteq Seq(Run)
<1>1. WordOver(pairs) \subseteq Run
  BY DEF WordOver
<1> HIDE DEF WordOver
<1> QED BY <1>1

\* A line that goes on with two runs.
LEMMA TwoMore ==
  ASSUME NEW runs \in Seq(Run), NEW a \in Run, NEW b \in Run
  PROVE  /\ Append(runs, a) \in Seq(Run) /\ Append(Append(runs, a), b) \in Seq(Run)
         /\ Append(Append(runs, a), b) # <<>> /\ Last(Append(Append(runs, a), b)) = b
         /\ runs \o <<a, b>> = Append(Append(runs, a), b)
         /\ Text(Append(Append(runs, a), b)) = Text(runs) \o (a.text \o b.text)
         /\ Words(Append(Append(runs, a), b)) = (Words(runs) \o WordsOf(a)) \o WordsOf(b)
<1>1. PICK more \in Seq(Run) : more = Append(runs, a)
  BY AppendProperties
<1>2. Append(more, b) \in Seq(Run) /\ Append(more, b) # <<>> /\ Last(Append(more, b)) = b
  BY AppendProperties, LastOfAppend
<1>3. runs \o <<a, b>> = Append(more, b)
  <2>1. PICK one \in Seq(Run) : one = <<a>>
    <3>1. <<a>> \in Seq(Run)
      OBVIOUS
    <3> QED BY <3>1
  <2>2. Append(one, b) = <<a, b>>
    <3>1. Append(<<a>>, b) = <<a, b>>
      BY PairIs
    <3> QED BY ONLY <2>1, <3>1
  <2>3. runs \o one = more
    BY <1>1, <2>1, AppendIsConcat
  <2>4. runs \o Append(one, b) = Append(runs \o one, b)
    BY AppendConcat
  <2> QED BY ONLY <2>2, <2>3, <2>4
<1>4. Text(Append(more, b)) = Text(runs) \o (a.text \o b.text)
  <2>1. Text(more) = Text(runs) \o a.text /\ Text(Append(more, b)) = Text(more) \o b.text
    BY <1>1, InkedAppend
  <2>2. PICK p, q, r \in Seq(Char) : p = Text(runs) /\ q = a.text /\ r = b.text
    BY TextType, RunParts
  <2>3. (p \o q) \o r = p \o (q \o r)
    BY ConcatAssociative
  <2> QED BY ONLY <2>1, <2>2, <2>3
<1>5. Words(Append(more, b)) = (Words(runs) \o WordsOf(a)) \o WordsOf(b)
  BY <1>1, WordsAppend
<1> QED BY ONLY <1>1, <1>2, <1>3, <1>4, <1>5, more \in Seq(Run)

\* Join starts with the first word.
LEMMA JoinedFirst ==
  ASSUME NEW pairs, NEW w \in WordOver(pairs)
  PROVE  JoinedWell(<<w>>, <<w>>, pairs)
<1>1. w \in Run /\ w.text \in Seq(Char)
  BY WordParts
<1>2. PICK runs : runs = <<w>>
  OBVIOUS
<1>3. runs \in Seq(Run) /\ runs # <<>>
  BY <1>1, <1>2
<1>4. Words(runs) = <<w>>
  <2>1. PICK none : none = <<>> /\ none \in Seq(Run)
    <3>1. <<>> \in Seq(Run)
      OBVIOUS
    <3> QED BY <3>1
  <2>2. Words(Append(none, w)) = Words(none) \o WordsOf(w)
    BY <1>1, <2>1, WordsAppend
  <2>3. Append(none, w) = <<w>> /\ Words(none) = none
    BY <2>1, WordsEmpty
  <2>4. none \o <<w>> = <<w>>
    BY <1>2, <1>3, <2>1, ConcatEmptySeq
  <2>5. WordsOf(w) = <<w>>
    BY WordsAlone
  <2> QED BY ONLY <1>2, <2>2, <2>3, <2>4, <2>5
<1>5. Text(runs) = w.text
  BY <1>1, <1>2, InkedOne
<1>6. Spaced(Text(runs), pairs)
  BY <1>5, SpacedWord
<1> QED BY ONLY <1>2, <1>3, <1>4, <1>6 DEF JoinedWell

\* Join goes on in the last run when the style is the same.
LEMMA JoinedSameStyle ==
  ASSUME NEW pairs, NEW runs, NEW words, NEW w,
         words \in Seq(WordOver(pairs)), w \in WordOver(pairs),
         JoinedWell(runs, words, pairs), words # <<>>, w.style = Last(words).style
  PROVE  JoinedWell(Lengthened(runs, <<Space>> \o w.text), Append(words, w), pairs)
<1>1. runs \in Seq(Run) /\ runs # <<>> /\ Words(runs) = words
  BY DEF JoinedWell
<1>2. PICK front \in Seq(Run), t \in Seq(Char), s \in Style :
        runs = Append(front, [text |-> t, style |-> s])
  BY <1>1, LastRun
<1> DEFINE R(x) == [text |-> x, style |-> s]
<1>3. w \in Run /\ w.text \in Seq(Char) /\ words \in Seq(Run)
  BY WordParts, WordsAreRuns
<1>4. s = w.style
  <2>1. R(t) \in Run /\ R(t).style = s
    BY RunIs
  <2>2. Last(runs) = R(t)
    BY <1>2, <2>1, LastOfAppend
  <2> QED BY <2>1, <2>2 DEF JoinedWell
<1>5. PICK more \in Seq(Char) : more = <<Space>> \o w.text
  BY <1>3, GlueType
<1>6. PICK runs2 : runs2 = Append(front, R(t \o more))
  OBVIOUS
<1>7. R(t) \in Run /\ R(t \o more) \in Run /\ R(t \o more).style = s
  BY ConcatProperties, RunIs
<1>8. Lengthened(runs, more) = runs2
  BY <1>2, <1>6, LengthenedIs
<1>9. runs2 \in Seq(Run) /\ runs2 # <<>> /\ Last(runs2) = R(t \o more)
  BY <1>6, <1>7, AppendProperties, LastOfAppend
<1>10. Words(runs2) = Append(words, w)
  <2>1. Words(runs2) = Words(front) \o WordsOf(R(t \o more))
    BY <1>6, <1>7, WordsAppend
  <2>2. Words(runs) = Words(front) \o WordsOf(R(t))
    BY <1>2, <1>7, WordsAppend
  <2>3. WordsOf(R(t \o more)) = Append(WordsOf(R(t)), w)
    BY <1>4, <1>5, WordsGoOn
  <2>4. Words(front) \o Append(WordsOf(R(t)), w) = Append(Words(front) \o WordsOf(R(t)), w)
    <3>1. PICK a, b \in Seq(Run) : a = Words(front) /\ b = WordsOf(R(t))
      BY <1>7, WordsType, WordsOfType
    <3>2. a \o Append(b, w) = Append(a \o b, w)
      BY <1>3, AppendConcat
    <3> QED BY ONLY <3>1, <3>2
  <2> HIDE DEF R
  <2> QED BY ONLY <1>1, <2>1, <2>2, <2>3, <2>4
<1>11. Spaced(Text(runs2), pairs)
  <2>1. Text(runs2) = Text(runs) \o more
    BY <1>2, <1>6, InkedLonger
  <2>2. Spaced(Text(runs), pairs) /\ Spaced(w.text, pairs)
    BY SpacedWord DEF JoinedWell
  <2>3. Spaced(Text(runs) \o (<<Space>> \o w.text), pairs)
    BY ONLY <2>2, SpacedLonger
  <2> QED BY ONLY <1>5, <2>1, <2>3
<1>12. Last(runs2).style = Last(Append(words, w)).style
  <2>1. Last(Append(words, w)) = w
    BY <1>3, LastOfAppend
  <2> QED BY ONLY <1>4, <1>7, <1>9, <2>1
<1>13. JoinedWell(runs2, Append(words, w), pairs)
  BY ONLY <1>9, <1>10, <1>11, <1>12 DEF JoinedWell
<1> QED BY ONLY <1>5, <1>8, <1>13

\* Join adds two runs, the space and the word, when the style is another.
LEMMA JoinedOtherStyle ==
  ASSUME NEW pairs, NEW runs, NEW words, NEW w,
         words \in Seq(WordOver(pairs)), w \in WordOver(pairs),
         JoinedWell(runs, words, pairs), words # <<>>
  PROVE  JoinedWell(runs \o <<Glue(Last(words)), w>>, Append(words, w), pairs)
<1>1. runs \in Seq(Run) /\ runs # <<>> /\ Words(runs) = words
  BY DEF JoinedWell
<1>2. w \in Run /\ w.text \in Seq(Char) /\ words \in Seq(Run)
  BY WordParts, WordsAreRuns
<1>3. Last(words) \in WordOver(pairs)
  <2>1. Len(words) \in 1..Len(words)
    BY EmptySeq
  <2> QED BY <2>1, ElementOfSeq DEF Last
<1>4. PICK glue : glue = Glue(Last(words))
  OBVIOUS
<1>5. glue \in Run /\ glue.text = <<Space>> /\ WordsOf(glue) = <<>> /\ WordsOf(w) = <<w>>
  BY <1>3, <1>4, WordParts, WordsAlone, GlueType DEF Glue
<1>6. PICK runs2 : runs2 = Append(Append(runs, glue), w)
  OBVIOUS
<1>7. /\ runs2 \in Seq(Run) /\ runs2 # <<>> /\ Last(runs2) = w
      /\ runs \o <<glue, w>> = runs2
      /\ Text(runs2) = Text(runs) \o (glue.text \o w.text)
      /\ Words(runs2) = (Words(runs) \o WordsOf(glue)) \o WordsOf(w)
  BY ONLY <1>1, <1>2, <1>5, <1>6, TwoMore
<1>9. Words(runs2) = Append(words, w)
  <2>1. words \o <<>> = words /\ words \o <<w>> = Append(words, w)
    BY <1>2, ConcatEmptySeq, AppendIsConcat
  <2> QED BY ONLY <1>1, <1>5, <1>7, <2>1
<1>10. Spaced(Text(runs2), pairs)
  <2>1. Spaced(Text(runs), pairs) /\ Spaced(w.text, pairs)
    BY SpacedWord DEF JoinedWell
  <2>2. Spaced(Text(runs) \o (<<Space>> \o w.text), pairs)
    BY ONLY <2>1, SpacedLonger
  <2> QED BY ONLY <1>5, <1>7, <2>2
<1>11. Last(runs2).style = Last(Append(words, w)).style
  <2>1. Last(Append(words, w)) = w
    BY <1>2, LastOfAppend
  <2> QED BY ONLY <1>7, <2>1
<1>12. JoinedWell(runs2, Append(words, w), pairs)
  BY ONLY <1>7, <1>9, <1>10, <1>11 DEF JoinedWell
<1> QED BY ONLY <1>4, <1>7, <1>12

\* Join makes such a line of the words.
LEMMA WordsJoined ==
  ASSUME NEW pairs
  PROVE  \A words \in Seq(WordOver(pairs)) :
           words # <<>> => JoinedWell(Join(words), words, pairs)
<1> DEFINE W == WordOver(pairs)
           T == {words \in Seq(W) : words # <<>> => JoinedWell(Join(words), words, pairs)}
<1>0. W \subseteq Run
  BY DEF WordOver
<1>1. <<>> \in T
  OBVIOUS
<1>2. ASSUME NEW words \in Seq(W), NEW w \in W, words \in T
      PROVE  Append(words, w) \in T
  <2> DEFINE more == Append(words, w)
  <2> SUFFICES JoinedWell(Join(more), more, pairs)
    <3> HIDE DEF W
    <3> QED BY AppendProperties
  <2>1. Join(more) = IF words = <<>> THEN <<w>>
                     ELSE IF w.style = Last(words).style
                          THEN Lengthened(Join(words), <<Space>> \o w.text)
                          ELSE Join(words) \o <<Glue(Last(words)), w>>
    <3>1. words \in Seq(Run) /\ w \in Run
      BY <1>0
    <3> QED BY <3>1, JoinAppend
  <2>2. CASE words = <<>>
    <3>1. more = <<w>>
      BY <2>2
    <3>2. JoinedWell(<<w>>, <<w>>, pairs)
      BY JoinedFirst
    <3> HIDE DEF more
    <3> QED BY ONLY <2>1, <2>2, <3>1, <3>2
  <2>3. CASE words # <<>>
    <3>1. JoinedWell(Join(words), words, pairs)
      BY <1>2, <2>3
    <3>2. CASE w.style = Last(words).style
      <4>1. JoinedWell(Lengthened(Join(words), <<Space>> \o w.text), more, pairs)
        BY <2>3, <3>1, <3>2, JoinedSameStyle
      <4> HIDE DEF more
      <4> QED BY ONLY <2>1, <2>3, <3>2, <4>1
    <3>3. CASE w.style # Last(words).style
      <4>1. JoinedWell(Join(words) \o <<Glue(Last(words)), w>>, more, pairs)
        BY <2>3, <3>1, JoinedOtherStyle
      <4> HIDE DEF more
      <4> QED BY ONLY <2>1, <2>3, <3>3, <4>1
    <3> QED BY <3>2, <3>3
  <2> QED BY <2>2, <2>3
<1>3. \A words \in Seq(W) : words \in T
  <2> HIDE DEF T, W
  <2> QED BY <1>1, <1>2, InductionOnSequences
<1> QED BY <1>3
-----------------------------------------------------------------------------
(* No word is broken: what touches in a run touches in one of its words *)

\* The pairs of a line that goes on with a run.
LEMMA PairsAppend ==
  ASSUME NEW runs \in Seq(Run), NEW run \in Run
  PROVE  Pairs(Append(runs, run)) = Pairs(runs) \cup Adjacent(run.text)
<1>1. PICK more, n : more = Append(runs, run) /\ n = Len(runs) /\ n \in Nat
  BY LenProperties
<1>2. /\ more \in Seq(Run) /\ Len(more) = n + 1 /\ more[n + 1] = run
      /\ \A r \in 1..n : more[r] = runs[r]
  BY <1>1, AppendIs
<1>3. DOMAIN runs = 1..n /\ DOMAIN more = (1..n) \cup {n + 1}
  BY <1>1, <1>2
<1>4. Pairs(more) = Pairs(runs) \cup Adjacent(run.text)
  <2>1. Pairs(more) = UNION {Adjacent(more[r].text) : r \in (1..n) \cup {n + 1}}
    BY <1>3 DEF Pairs
  <2>2. Pairs(runs) = UNION {Adjacent(runs[r].text) : r \in 1..n}
    BY <1>3 DEF Pairs
  <2> QED BY ONLY <1>2, <2>1, <2>2
<1> QED BY ONLY <1>1, <1>4

\* The pairs of two lines, one behind the other.
LEMMA PairsConcat ==
  ASSUME NEW a \in Seq(Run), NEW b \in Seq(Run)
  PROVE  Pairs(a \o b) = Pairs(a) \cup Pairs(b)
<1> DEFINE T == {t \in Seq(Run) : Pairs(a \o t) = Pairs(a) \cup Pairs(t)}
<1>1. <<>> \in T
  <2>1. a \o <<>> = a
    BY ConcatEmptySeq
  <2>2. Pairs(<<>>) = {}
    BY DEF Pairs
  <2> QED BY <2>1, <2>2
<1>2. ASSUME NEW t \in Seq(Run), NEW x \in Run, t \in T PROVE Append(t, x) \in T
  <2>1. a \o Append(t, x) = Append(a \o t, x) /\ a \o t \in Seq(Run)
    BY AppendConcat, ConcatProperties
  <2>2. Pairs(Append(a \o t, x)) = Pairs(a \o t) \cup Adjacent(x.text)
    BY <2>1, PairsAppend
  <2>3. Pairs(Append(t, x)) = Pairs(t) \cup Adjacent(x.text)
    BY PairsAppend
  <2>4. Append(t, x) \in Seq(Run)
    BY AppendProperties
  <2> QED BY <1>2, <2>1, <2>2, <2>3, <2>4
<1>3. \A t \in Seq(Run) : t \in T
  <2> HIDE DEF T
  <2> QED BY <1>1, <1>2, InductionOnSequences
<1> QED BY <1>3

\* The pairs of several lines are those of all their runs.
LEMMA PairsFlat ==
  \A rows \in Seq(Seq(Run)) :
    Pairs(FlattenSeq(rows)) = UNION {Pairs(rows[l]) : l \in 1..Len(rows)}
<1> DEFINE R == Seq(Run)
           U(rows) == UNION {Pairs(rows[l]) : l \in 1..Len(rows)}
           T == {rows \in Seq(R) : Pairs(FlattenSeq(rows)) = U(rows)}
<1>1. <<>> \in T
  <2>1. Pairs(<<>>) = {} /\ U(<<>>) = {} /\ <<>> \in Seq(R)
    BY DEF Pairs
  <2>2. FlattenSeq(<<>>) = <<>>
    BY FlattenEmpty
  <2> HIDE DEF U
  <2> QED BY <2>1, <2>2
<1>2. ASSUME NEW rows \in Seq(R), NEW row \in R, rows \in T
      PROVE  Append(rows, row) \in T
  <2>1. PICK more, n : more = Append(rows, row) /\ n = Len(rows) /\ n \in Nat
    BY LenProperties
  <2>2. row \in Seq(Run) /\ rows \in Seq(Seq(Run))
    OBVIOUS
  <2> HIDE DEF R
  <2>3. /\ more \in Seq(R) /\ Len(more) = n + 1 /\ more[n + 1] = row
        /\ \A l \in 1..n : more[l] = rows[l]
    BY <2>1, AppendIs
  <2>4. FlattenSeq(more) = FlattenSeq(rows) \o row /\ FlattenSeq(rows) \in Seq(Run)
    BY <2>1, <2>2, FlattenAppend, FlattenType
  <2>5. Pairs(FlattenSeq(more)) = Pairs(FlattenSeq(rows)) \cup Pairs(row)
    BY <2>2, <2>4, PairsConcat
  <2>6. U(more) = U(rows) \cup Pairs(row)
    <3>1. 1..n + 1 = (1..n) \cup {n + 1}
      BY <2>1
    <3>2. U(more) = UNION {Pairs(more[l]) : l \in (1..n) \cup {n + 1}}
      BY <2>3, <3>1
    <3>3. U(rows) = UNION {Pairs(rows[l]) : l \in 1..n}
      BY <2>1
    <3> HIDE DEF U
    <3> QED BY ONLY <2>3, <3>2, <3>3
  <2> QED BY <1>2, <2>1, <2>3, <2>5, <2>6
<1>3. \A rows \in Seq(R) : rows \in T
  <2> HIDE DEF T, R
  <2> QED BY <1>1, <1>2, InductionOnSequences
<1> QED BY <1>3

\* A text that goes on with a character has at most one more pair that touches.
LEMMA TouchingAppend ==
  ASSUME NEW text \in Seq(Char), NEW c \in Char, NEW p \in Touching(Append(text, c))
  PROVE  \/ p \in Touching(text)
         \/ text # <<>> /\ ~Last(text).space /\ ~c.space /\ p = <<Last(text), c>>
<1>1. PICK more, n : more = Append(text, c) /\ n = Len(text) /\ n \in Nat
  BY LenProperties
<1>2. /\ Len(more) = n + 1 /\ more[n + 1] = c
      /\ \A k \in 1..n : more[k] = text[k]
  BY <1>1, AppendIs
<1>3. PICK k \in 1..n : /\ ~more[k].space /\ ~more[k + 1].space
                        /\ p = <<more[k], more[k + 1]>>
  <2>1. PICK k \in 1..Len(more) - 1 : /\ ~more[k].space /\ ~more[k + 1].space
                                      /\ p = <<more[k], more[k + 1]>>
    BY <1>1 DEF Touching
  <2>2. k \in 1..n
    BY <1>1, <1>2, <2>1
  <2> QED BY <2>1, <2>2
<1>4. CASE k = n
  <2>1. n # 0 /\ text # <<>> /\ Last(text) = text[n]
    BY <1>1, <1>3, <1>4 DEF Last
  <2>2. more[k] = text[n] /\ more[k + 1] = c
    BY <1>2, <1>3, <1>4
  <2> QED BY <1>3, <2>1, <2>2
<1>5. CASE k # n
  <2>1. k \in 1..n - 1 /\ k + 1 \in 1..n
    BY <1>1, <1>3, <1>5
  <2>2. more[k] = text[k] /\ more[k + 1] = text[k + 1]
    BY <1>2, <2>1
  <2>3. p \in Touching(text)
    BY <1>1, <1>3, <2>1, <2>2 DEF Touching
  <2> QED BY <2>3
<1> QED BY <1>4, <1>5

\* Characters that touch in a run touch in one of its words.
LEMMA WordsTouch ==
  ASSUME NEW s \in Style
  PROVE  \A text \in Seq(Char) :
           Touching(text) \subseteq Pairs(WordsOf([text |-> text, style |-> s]))
<1> DEFINE R(text) == [text |-> text, style |-> s]
           T == {text \in Seq(Char) : Touching(text) \subseteq Pairs(WordsOf(R(text)))}
<1>1. <<>> \in T
  <2>1. Touching(<<>>) = {} /\ <<>> \in Seq(Char)
    BY DEF Touching
  <2> QED BY <2>1
<1>2. ASSUME NEW text \in Seq(Char), NEW c \in Char, text \in T
      PROVE  Append(text, c) \in T
  <2>1. PICK more \in Seq(Char) : more = Append(text, c)
    BY AppendProperties
  <2>2. PICK words \in Seq(Run) : words = WordsOf(R(text))
    BY RunIs, WordsOfType
  <2>3. WordsOf(R(more)) =
          IF c.space THEN words
          ELSE IF text = <<>> \/ Last(text).space THEN Append(words, R(<<c>>))
               ELSE Lengthened(words, <<c>>)
    BY <2>1, <2>2, WordsOfAppend
  <2>4. Touching(text) \subseteq Pairs(words)
    BY <1>2, <2>2
  <2>5. \A p \in Touching(more) :
          \/ p \in Touching(text)
          \/ text # <<>> /\ ~Last(text).space /\ ~c.space /\ p = <<Last(text), c>>
    BY <2>1, TouchingAppend
  <2>6. Touching(more) \subseteq Pairs(WordsOf(R(more)))
    <3>1. CASE c.space
      BY ONLY <2>3, <2>4, <2>5, <3>1
    <3>2. CASE ~c.space /\ (text = <<>> \/ Last(text).space)
      <4>1. R(<<c>>) \in Run
        <5>1. <<c>> \in Seq(Char)
          OBVIOUS
        <5> QED BY <5>1, RunIs
      <4>2. Pairs(words) \subseteq Pairs(Append(words, R(<<c>>)))
        <5> HIDE DEF R
        <5> QED BY <4>1, PairsAppend
      <4> HIDE DEF R
      <4> QED BY ONLY <2>3, <2>4, <2>5, <3>2, <4>2
    <3>3. CASE ~c.space /\ text # <<>> /\ ~Last(text).space
      <4>1. words # <<>> /\ Last(Last(words).text) = Last(text)
        <5>1. PICK pairs : pairs = Adjacent(text)
          OBVIOUS
        <5>2. Adjacent(text) \subseteq pairs
          BY ONLY <5>1
        <5> QED BY <2>2, <3>3, <5>2, WordsOfRun
      <4>2. words \in Seq({w \in WordOver(Adjacent(text)) : w.style = s})
        <5>1. PICK pairs : pairs = Adjacent(text)
          OBVIOUS
        <5>2. Adjacent(text) \subseteq pairs
          BY ONLY <5>1
        <5>3. WordsOf(R(text)) \in Seq({w \in WordOver(pairs) : w.style = s})
          BY <5>2, WordsOfRun
        <5> QED BY ONLY <2>2, <5>1, <5>3
      <4> DEFINE W == {w \in WordOver(Adjacent(text)) : w.style = s}
      <4>3. PICK front \in Seq(W), w \in W : words = Append(front, w)
        <5> HIDE DEF W
        <5> QED BY <4>1, <4>2, SequenceEmptyOrAppend DEF W
      <4>4. W \subseteq Run /\ Seq(W) \subseteq Seq(Run)
        BY DEF WordOver
      <4>5. PICK u \in Seq(Char) : u = w.text /\ w = R(u) /\ u # <<>>
        BY <4>4, RunParts DEF WordOver
      <4>6. w \in Run /\ front \in Seq(Run)
        BY <4>4
      <4> HIDE DEF W
      <4>7. Lengthened(words, <<c>>) = Append(front, R(u \o <<c>>))
        <5>1. <<c>> \in Seq(Char)
          OBVIOUS
        <5>2. Lengthened(Append(front, R(u)), <<c>>) = Append(front, R(u \o <<c>>))
          BY <4>5, <4>6, <5>1, LengthenedIs
        <5> HIDE DEF R
        <5> QED BY ONLY <4>3, <4>5, <5>2
      <4>8. u \o <<c>> = Append(u, c) /\ Append(u, c) \in Seq(Char)
        BY AppendIsConcat, AppendProperties
      <4>9. R(Append(u, c)) \in Run
        BY <4>8, RunIs
      <4>10. Last(words) = w
        BY <4>3, <4>6, LastOfAppend
      <4>11. Last(u) = Last(text)
        BY ONLY <4>1, <4>5, <4>10
      <4>12. /\ Adjacent(u) \subseteq Adjacent(Append(u, c))
             /\ <<Last(text), c>> \in Adjacent(Append(u, c))
        <5>1. PICK pair : pair = <<Last(u), c>>
          OBVIOUS
        <5>2. Adjacent(Append(u, c)) = Adjacent(u) \cup {pair}
          BY <4>5, <5>1, AdjacentAppend
        <5> QED BY ONLY <4>11, <5>1, <5>2
      <4>13. Pairs(words) = Pairs(front) \cup Adjacent(u)
        BY <4>3, <4>5, <4>6, PairsAppend
      <4>14. Pairs(Append(front, R(Append(u, c)))) = Pairs(front) \cup Adjacent(Append(u, c))
        <5>1. R(Append(u, c)).text = Append(u, c)
          OBVIOUS
        <5> HIDE DEF R
        <5> QED BY <4>6, <4>9, <5>1, PairsAppend
      <4>15. WordsOf(R(more)) = Append(front, R(Append(u, c)))
        <5> HIDE DEF R
        <5> QED BY ONLY <2>3, <3>3, <4>7, <4>8
      <4> HIDE DEF R
      <4> QED BY ONLY <2>4, <2>5, <4>12, <4>13, <4>14, <4>15
    <3> QED BY <3>1, <3>2, <3>3
  <2> QED BY <2>1, <2>6
<1>3. \A text \in Seq(Char) : text \in T
  <2> HIDE DEF T
  <2> QED BY <1>1, <1>2, InductionOnSequences
<1> QED BY <1>3

\* Characters that touch in a run of a line touch in one of the words of the line.
LEMMA LineWordsTouch ==
  \A runs \in Seq(Run) : TouchingInRuns(runs) \subseteq Pairs(Words(runs))
<1> DEFINE T == {runs \in Seq(Run) : TouchingInRuns(runs) \subseteq Pairs(Words(runs))}
<1>1. <<>> \in T
  <2>1. TouchingInRuns(<<>>) = {} /\ <<>> \in Seq(Run)
    BY DEF TouchingInRuns
  <2> QED BY <2>1
<1>2. ASSUME NEW runs \in Seq(Run), NEW run \in Run, runs \in T
      PROVE  Append(runs, run) \in T
  <2>1. PICK more, n : more = Append(runs, run) /\ n = Len(runs) /\ n \in Nat
    BY LenProperties
  <2>2. /\ more \in Seq(Run) /\ Len(more) = n + 1 /\ more[n + 1] = run
        /\ \A r \in 1..n : more[r] = runs[r]
    BY <2>1, AppendIs
  <2>3. TouchingInRuns(more) = TouchingInRuns(runs) \cup Touching(run.text)
    <3>1. DOMAIN runs = 1..n /\ DOMAIN more = (1..n) \cup {n + 1}
      BY <2>1, <2>2
    <3>2. TouchingInRuns(more) = UNION {Touching(more[r].text) : r \in (1..n) \cup {n + 1}}
      BY <3>1 DEF TouchingInRuns
    <3>3. TouchingInRuns(runs) = UNION {Touching(runs[r].text) : r \in 1..n}
      BY <3>1 DEF TouchingInRuns
    <3> QED BY ONLY <2>2, <3>2, <3>3
  <2>4. Touching(run.text) \subseteq Pairs(WordsOf(run))
    <3>1. PICK t \in Seq(Char), s \in Style : run = [text |-> t, style |-> s] /\ t = run.text
      BY RunParts
    <3> QED BY <3>1, WordsTouch
  <2>5. Words(more) = Words(runs) \o WordsOf(run)
    BY <2>1, WordsAppend
  <2>6. Pairs(Words(more)) = Pairs(Words(runs)) \cup Pairs(WordsOf(run))
    BY <2>5, WordsType, WordsOfType, PairsConcat
  <2> QED BY <1>2, <2>1, <2>2, <2>3, <2>4, <2>6
<1>3. \A runs \in Seq(Run) : runs \in T
  <2> HIDE DEF T
  <2> QED BY <1>1, <1>2, InductionOnSequences
<1> QED BY <1>3

\* The pairs of a run are among those of its line.
LEMMA PairsOfRuns ==
  ASSUME NEW runs \in Seq(Run)
  PROVE  \A r \in 1..Len(runs) : Adjacent(runs[r].text) \subseteq Pairs(runs)
BY DEF Pairs

\* Characters of a word of a line touch in one of its runs.
LEMMA WordPairsTouch ==
  ASSUME NEW pairs, NEW runs, NEW words, JoinedWell(runs, words, pairs)
  PROVE  Pairs(words) \subseteq TouchingInRuns(runs)
<1>1. runs \in Seq(Run) /\ Words(runs) = words
  BY DEF JoinedWell
<1>2. words \in Seq(WordOver(Pairs(runs)))
  BY <1>1, PairsOfRuns, WordsOfLine
<1> SUFFICES ASSUME NEW p \in Pairs(words) PROVE p \in TouchingInRuns(runs)
  OBVIOUS
<1>3. PICK i \in DOMAIN words : p \in Adjacent(words[i].text)
  BY DEF Pairs
<1>4. PICK w \in WordOver(Pairs(runs)) : w = words[i]
  <2> HIDE DEF WordOver
  <2> QED BY <1>2
<1>5. /\ w.text \in Seq(Char) /\ Spaceless(w.text) /\ Adjacent(w.text) \subseteq Pairs(runs)
  BY <1>4, RunParts DEF WordOver
<1>6. PICK m \in 1..Len(w.text) - 1 : p = <<w.text[m], w.text[m + 1]>>
  BY <1>3, <1>4 DEF Adjacent
<1>7. ~w.text[m].space /\ ~w.text[m + 1].space
  <2>1. m \in 1..Len(w.text) /\ m + 1 \in 1..Len(w.text)
    BY <1>5, <1>6
  <2> QED BY <1>5, <2>1 DEF Spaceless
<1>8. PICK r \in DOMAIN runs : p \in Adjacent(runs[r].text)
  BY <1>3, <1>4, <1>5 DEF Pairs
<1>9. PICK t, k : t = runs[r].text /\ k \in 1..Len(t) - 1 /\ p = <<t[k], t[k + 1]>>
  BY <1>8 DEF Adjacent
<1>10. t[k] = w.text[m] /\ t[k + 1] = w.text[m + 1]
  BY ONLY <1>6, <1>9
<1>11. p \in Touching(t)
  BY <1>7, <1>9, <1>10 DEF Touching
<1> QED BY <1>9, <1>11 DEF TouchingInRuns
-----------------------------------------------------------------------------
(* What Wrap returns *)

\* A line that has these words has their inks.
LEMMA InkedJoined ==
  ASSUME NEW pairs, NEW runs, NEW words, JoinedWell(runs, words, pairs)
  PROVE  Inked(runs) = Inked(words)
<1>1. runs \in Seq(Run) /\ Words(runs) = words
  BY DEF JoinedWell
<1>2. Inked(Words(runs)) = Inked(runs)
  BY <1>1, PairsOfRuns, WordsOfLine
<1> QED BY ONLY <1>1, <1>2

\* The inks of several lines are those of all their words.
LEMMA InkedFlat ==
  \A rows \in Seq(Seq(Run)) :
    FlattenSeq([l \in 1..Len(rows) |-> Inked(rows[l])]) = Inked(FlattenSeq(rows))
<1> DEFINE I(rows) == [l \in 1..Len(rows) |-> Inked(rows[l])]
           R == Seq(Run)
           T == {rows \in Seq(R) : FlattenSeq(I(rows)) = Inked(FlattenSeq(rows))}
<1>1. <<>> \in T
  <2>1. I(<<>>) = <<>> /\ <<>> \in Seq(R)
    OBVIOUS
  <2>2. FlattenSeq(I(<<>>)) = Inked(FlattenSeq(<<>>))
    <3>1. FlattenSeq(<<>>) = <<>>
      BY FlattenEmpty
    <3> HIDE DEF I
    <3> QED BY ONLY <2>1, <3>1, InkedEmpty
  <2> QED BY <2>1, <2>2
<1>2. ASSUME NEW rows \in Seq(R), NEW row \in R, rows \in T
      PROVE  Append(rows, row) \in T
  <2>0. row \in Seq(Run) /\ rows \in Seq(Seq(Run))
    OBVIOUS
  <2>1. \A l \in 1..Len(rows) : Inked(rows[l]) \in Seq(Inks)
    BY InkedType
  <2>2. I(rows) \in Seq(Seq(Inks)) /\ Inked(row) \in Seq(Inks)
    BY <2>1, InkedType
  <2>3. PICK more : more = Append(rows, row)
    OBVIOUS
  <2> HIDE DEF R
  <2>4. /\ more \in Seq(R) /\ Len(more) = Len(rows) + 1 /\ more[Len(rows) + 1] = row
        /\ \A l \in 1..Len(rows) : more[l] = rows[l]
    BY <2>3, AppendIs
  <2>5. I(more) = Append(I(rows), Inked(row))
    BY <2>4
  <2> HIDE DEF I
  <2>6. FlattenSeq(I(more)) = FlattenSeq(I(rows)) \o Inked(row)
    BY <2>2, <2>5, FlattenAppend
  <2>7. FlattenSeq(more) = FlattenSeq(rows) \o row /\ FlattenSeq(rows) \in Seq(Run)
    BY <2>0, <2>3, FlattenAppend, FlattenType
  <2>8. Inked(FlattenSeq(rows) \o row) = Inked(FlattenSeq(rows)) \o Inked(row)
    BY <2>0, <2>7, InkedConcat
  <2>9. FlattenSeq(I(rows)) = Inked(FlattenSeq(rows))
    BY <1>2
  <2>10. FlattenSeq(I(more)) = Inked(FlattenSeq(more))
    BY ONLY <2>6, <2>7, <2>8, <2>9
  <2> QED BY <2>3, <2>4, <2>10
<1>3. \A rows \in Seq(R) : rows \in T
  <2> HIDE DEF T, R
  <2> QED BY <1>1, <1>2, InductionOnSequences
<1> QED BY <1>3

\* What Wrap makes of a line that it breaks.
LEMMA WrapIs ==
  ASSUME NEW runs, runs \in Seq(Run), Wrap(runs) # <<runs>>
  PROVE  \E packed :
           /\ PackedWell(packed, Words(runs), WordOver(Pairs(runs)))
           /\ Wrap(runs) = [l \in 1..Len(packed) |-> Join(packed[l])]
           /\ \A l \in 1..Len(packed) :
                JoinedWell(Join(packed[l]), packed[l], Pairs(runs))
<1> DEFINE W == WordOver(Pairs(runs))
<1>1. Words(runs) \in Seq(W)
  BY PairsOfRuns, WordsOfLine
<1>2. PICK packed : packed = Pack(Words(runs))
  OBVIOUS
<1>3. Words(runs) # <<>> /\ Wrap(runs) = [l \in DOMAIN packed |-> Join(packed[l])]
  BY <1>2 DEF Wrap
<1>4. PackedWell(packed, Words(runs), W)
  BY <1>1, <1>2, <1>3, WordsPacked
<1>5. packed \in Seq(Seq(W)) /\ \A l \in 1..Len(packed) : packed[l] # <<>>
  BY <1>4 DEF PackedWell
<1>6. DOMAIN packed = 1..Len(packed) /\ \A l \in 1..Len(packed) : packed[l] \in Seq(W)
  <2> HIDE DEF W
  <2> QED BY <1>5
<1>7. \A l \in 1..Len(packed) : JoinedWell(Join(packed[l]), packed[l], Pairs(runs))
  BY <1>5, <1>6, WordsJoined
<1>8. Wrap(runs) = [l \in 1..Len(packed) |-> Join(packed[l])]
  BY ONLY <1>3, <1>6
<1> HIDE DEF W
<1> QED BY ONLY <1>4, <1>7, <1>8 DEF W

\* Wrap, whether it breaks the line or not, keeps its inks.
LEMMA WrapInks ==
  ASSUME NEW runs, runs \in Seq(Run)
  PROVE  FlattenSeq([l \in DOMAIN Wrap(runs) |-> Inked(Wrap(runs)[l])]) = Inked(runs)
<1>1. CASE Wrap(runs) = <<runs>>
  <2>1. PICK ink \in Seq(Inks) : ink = Inked(runs)
    BY InkedType
  <2>2. PICK one : one = <<runs>> /\ DOMAIN one = {1} /\ one[1] = runs
    BY OneIs
  <2>3. [l \in DOMAIN one |-> Inked(one[l])] = [l \in {1} |-> ink]
    BY ONLY <2>1, <2>2
  <2>4. [l \in {1} |-> ink] = <<ink>>
    OBVIOUS
  <2>5. FlattenSeq(<<ink>>) = ink
    BY FlattenOne
  <2> QED BY ONLY <1>1, <2>1, <2>2, <2>3, <2>4, <2>5
<1>2. CASE Wrap(runs) # <<runs>>
  <2>1. PICK packed :
          /\ PackedWell(packed, Words(runs), WordOver(Pairs(runs)))
          /\ Wrap(runs) = [l \in 1..Len(packed) |-> Join(packed[l])]
          /\ \A l \in 1..Len(packed) : JoinedWell(Join(packed[l]), packed[l], Pairs(runs))
    BY <1>2, WrapIs
  <2>2. \A l \in 1..Len(packed) : Inked(Join(packed[l])) = Inked(packed[l])
    BY <2>1, InkedJoined
  <2>3. [l \in DOMAIN Wrap(runs) |-> Inked(Wrap(runs)[l])]
          = [l \in 1..Len(packed) |-> Inked(packed[l])]
    BY ONLY <2>1, <2>2
  <2>4. packed \in Seq(Seq(Run)) /\ FlattenSeq(packed) = Words(runs)
    <3>1. packed \in Seq(Seq(WordOver(Pairs(runs)))) /\ FlattenSeq(packed) = Words(runs)
      BY <2>1 DEF PackedWell
    <3> DEFINE A == Seq(WordOver(Pairs(runs)))
               B == Seq(Run)
    <3>2. A \subseteq B /\ packed \in Seq(A)
      BY <3>1, WordsAreRuns
    <3> HIDE DEF A, B
    <3>3. packed \in Seq(B)
      BY ONLY <3>2
    <3> QED BY ONLY <3>1, <3>3 DEF B
  <2>5. FlattenSeq([l \in 1..Len(packed) |-> Inked(packed[l])]) = Inked(FlattenSeq(packed))
    BY <2>4, InkedFlat
  <2>6. Inked(Words(runs)) = Inked(runs)
    BY PairsOfRuns, WordsOfLine
  <2> QED BY ONLY <2>3, <2>4, <2>5, <2>6
<1> QED BY <1>1, <1>2

\* The lines of a phrase.
LEMMA PhraseLines ==
  ASSUME NEW phrase \in Phrase
  PROVE  phrase.lines \in Seq(Seq(Run))
BY DEF Phrase

\* The lines of the caption are sequences of runs.
LEMMA LinesAreRuns ==
  ASSUME Inv, NEW pl \in AllLines
  PROVE  LineAt(pl) \in Seq(Run)
<1>1. /\ ParseCaptionText \in Seq(Phrase)
      /\ pl[1] \in DOMAIN ParseCaptionText
  BY EndedPhrasesTidy DEF ParseCaptionText, Phrase, AllLines
<1>2. ParseCaptionText[pl[1]].lines \in Seq(Seq(Run))
  <2>1. ParseCaptionText[pl[1]] \in Phrase
    BY <1>1, ElementOfSeq
  <2> QED BY <2>1, PhraseLines
<1>3. pl[2] \in 1..Len(ParseCaptionText[pl[1]].lines)
  BY <1>1 DEF AllLines, Phrase
<1>4. PICK ls, l : ls = ParseCaptionText[pl[1]].lines /\ l = pl[2]
  OBVIOUS
<1> DEFINE R == Seq(Run)
<1>5. ls \in Seq(R) /\ l \in 1..Len(ls)
  BY <1>2, <1>3, <1>4
<1> HIDE DEF R
<1>6. ls[l] \in R
  BY ONLY <1>5, ElementOfSeq
<1> QED BY ONLY <1>4, <1>6 DEF LineAt, R

\* The invariant WrapKeepsText follows from the types of what the parser returns.
LEMMA TextKept == Inv => WrapKeepsText
<1> SUFFICES ASSUME Inv, NEW pl \in AllLines
             PROVE  LET wrapped == Wrap(LineAt(pl))
                    IN  FlattenSeq([l \in DOMAIN wrapped |-> Inked(wrapped[l])])
                          = Inked(LineAt(pl))
  BY DEF WrapKeepsText
<1>1. LineAt(pl) \in Seq(Run)
  BY LinesAreRuns
<1> QED BY <1>1, WrapInks

\* A line that Wrap breaks, and one of the lines it makes of it.
LEMMA WrappedIs ==
  ASSUME Inv, NEW pl \in Wrapped
  PROVE  /\ pl \in AllLines /\ LineAt(pl) \in Seq(Run)
         /\ Wrap(LineAt(pl)) # <<LineAt(pl)>>
BY LinesAreRuns DEF Wrapped

\* And so does WrapKeepsWords.
LEMMA WordsKept == Inv => WrapKeepsWords
<1> SUFFICES ASSUME Inv, NEW pl \in Wrapped
             PROVE  LET wrapped == Wrap(LineAt(pl))
                    IN  /\ \A l \in DOMAIN wrapped :
                             LET text == Text(wrapped[l])
                             IN  /\ ~text[1].space /\ ~Last(text).space
                                 /\ \A k \in 1..Len(text) - 1 :
                                      ~text[k].space \/ ~text[k + 1].space
                                 /\ Touching(text) \subseteq TouchingInRuns(LineAt(pl))
                        /\ TouchingInRuns(LineAt(pl))
                             \subseteq UNION {TouchingInRuns(wrapped[l]) : l \in DOMAIN wrapped}
  BY DEF WrapKeepsWords
<1>1. PICK runs : runs = LineAt(pl) /\ runs \in Seq(Run) /\ Wrap(runs) # <<runs>>
  BY WrappedIs
<1>2. PICK packed :
        /\ PackedWell(packed, Words(runs), WordOver(Pairs(runs)))
        /\ Wrap(runs) = [i \in 1..Len(packed) |-> Join(packed[i])]
        /\ \A i \in 1..Len(packed) : JoinedWell(Join(packed[i]), packed[i], Pairs(runs))
  BY <1>1, WrapIs
<1>3. PICK wrapped : wrapped = Wrap(runs)
  OBVIOUS
<1>4. DOMAIN wrapped = 1..Len(packed) /\ \A l \in 1..Len(packed) : wrapped[l] = Join(packed[l])
  BY <1>2, <1>3
<1>5. ASSUME NEW l \in DOMAIN wrapped, NEW text, text = Text(wrapped[l])
      PROVE  /\ ~text[1].space /\ ~Last(text).space
             /\ \A k \in 1..Len(text) - 1 : ~text[k].space \/ ~text[k + 1].space
             /\ Touching(text) \subseteq TouchingInRuns(runs)
  <2>1. Spaced(text, Pairs(runs))
    BY <1>2, <1>4, <1>5 DEF JoinedWell
  <2>2. /\ text \in Seq(Char) /\ ~text[1].space /\ ~Last(text).space
        /\ \A k \in 1..Len(text) - 1 :
             \/ text[k].space # text[k + 1].space
             \/ /\ ~text[k].space /\ ~text[k + 1].space
                /\ <<text[k], text[k + 1]>> \in Pairs(runs)
    BY <2>1 DEF Spaced
  <2>3. \A k \in 1..Len(text) - 1 :
          text[k].space \in BOOLEAN /\ text[k + 1].space \in BOOLEAN
    <3> SUFFICES ASSUME NEW k \in 1..Len(text) - 1
                 PROVE  text[k].space \in BOOLEAN /\ text[k + 1].space \in BOOLEAN
      OBVIOUS
    <3>1. k \in 1..Len(text) /\ k + 1 \in 1..Len(text)
      BY <2>2
    <3>2. text[k] \in Char /\ text[k + 1] \in Char
      BY <2>2, <3>1, ElementOfSeq
    <3> QED BY <3>2 DEF Char
  <2>4. ASSUME NEW p \in Touching(text) PROVE p \in TouchingInRuns(runs)
    <3>1. PICK k \in 1..Len(text) - 1 : /\ ~text[k].space /\ ~text[k + 1].space
                                        /\ p = <<text[k], text[k + 1]>>
      BY <2>4 DEF Touching
    <3>2. PICK r \in DOMAIN runs : p \in Adjacent(runs[r].text)
      <4>1. text[k].space \in BOOLEAN /\ text[k + 1].space \in BOOLEAN
        BY <2>3
      <4>2. <<text[k], text[k + 1]>> \in Pairs(runs)
        BY <2>2, <3>1, <4>1
      <4>3. p \in Pairs(runs)
        BY ONLY <3>1, <4>2
      <4> QED BY ONLY <4>3 DEF Pairs
    <3>3. PICK t, m : t = runs[r].text /\ m \in 1..Len(t) - 1 /\ p = <<t[m], t[m + 1]>>
      BY <3>2 DEF Adjacent
    <3>4. t[m] = text[k] /\ t[m + 1] = text[k + 1]
      BY ONLY <3>1, <3>3
    <3>5. p \in Touching(t)
      BY <3>1, <3>3, <3>4 DEF Touching
    <3> QED BY <3>3, <3>5 DEF TouchingInRuns
  <2>5. \A k \in 1..Len(text) - 1 : ~text[k].space \/ ~text[k + 1].space
    <3> SUFFICES ASSUME NEW k \in 1..Len(text) - 1, text[k].space, text[k + 1].space
                 PROVE  FALSE
      OBVIOUS
    <3> QED BY <2>2, <2>3
  <2> QED BY <2>2, <2>4, <2>5
<1>6. TouchingInRuns(runs) \subseteq UNION {TouchingInRuns(wrapped[l]) : l \in DOMAIN wrapped}
  <2>1. TouchingInRuns(runs) \subseteq Pairs(Words(runs))
    BY <1>1, LineWordsTouch
  <2>2. packed \in Seq(Seq(Run)) /\ FlattenSeq(packed) = Words(runs)
    <3>1. packed \in Seq(Seq(WordOver(Pairs(runs)))) /\ FlattenSeq(packed) = Words(runs)
      BY <1>2 DEF PackedWell
    <3> DEFINE A == Seq(WordOver(Pairs(runs)))
               B == Seq(Run)
    <3>2. A \subseteq B /\ packed \in Seq(A)
      BY <3>1, WordsAreRuns
    <3> HIDE DEF A, B
    <3>3. packed \in Seq(B)
      BY ONLY <3>2
    <3> QED BY ONLY <3>1, <3>3 DEF B
  <2>3. Pairs(Words(runs)) = UNION {Pairs(packed[l]) : l \in 1..Len(packed)}
    <3>1. Pairs(FlattenSeq(packed)) = UNION {Pairs(packed[l]) : l \in 1..Len(packed)}
      BY <2>2, PairsFlat
    <3> QED BY ONLY <2>2, <3>1
  <2>4. \A l \in 1..Len(packed) : Pairs(packed[l]) \subseteq TouchingInRuns(wrapped[l])
    <3> SUFFICES ASSUME NEW l \in 1..Len(packed)
                 PROVE  Pairs(packed[l]) \subseteq TouchingInRuns(wrapped[l])
      OBVIOUS
    <3>1. JoinedWell(wrapped[l], packed[l], Pairs(runs))
      BY <1>2, <1>4
    <3> QED BY <3>1, WordPairsTouch
  <2> QED BY ONLY <1>4, <2>1, <2>3, <2>4
<1> QED BY ONLY <1>1, <1>3, <1>5, <1>6

\* And so does WrapGreedy.
LEMMA LinesFull == Inv => WrapGreedy
<1> SUFFICES ASSUME Inv, NEW pl \in Wrapped
             PROVE  LET wrapped == Wrap(LineAt(pl))
                    IN  /\ \A l \in DOMAIN wrapped :
                             InkOnly(wrapped[l]) <= MaxWidth \/ Len(Words(wrapped[l])) = 1
                        /\ \A l \in 1..Len(wrapped) - 1 :
                             InkOnly(wrapped[l]) + FirstWord(wrapped[l + 1]) > MaxWidth
  BY DEF WrapGreedy
<1>1. PICK runs : runs = LineAt(pl) /\ runs \in Seq(Run) /\ Wrap(runs) # <<runs>>
  BY WrappedIs
<1>2. PICK packed :
        /\ PackedWell(packed, Words(runs), WordOver(Pairs(runs)))
        /\ Wrap(runs) = [i \in 1..Len(packed) |-> Join(packed[i])]
        /\ \A i \in 1..Len(packed) : JoinedWell(Join(packed[i]), packed[i], Pairs(runs))
  BY <1>1, WrapIs
<1>3. PICK wrapped : wrapped = Wrap(runs)
  OBVIOUS
<1>4. PICK n \in Nat : n = Len(packed)
  BY <1>2 DEF PackedWell
<1>5. DOMAIN wrapped = 1..n /\ Len(wrapped) = n
  BY <1>2, <1>3, <1>4
<1>6. ASSUME NEW l \in 1..n
      PROVE  /\ InkOnly(wrapped[l]) = InkOnly(packed[l]) /\ Words(wrapped[l]) = packed[l]
             /\ FirstWord(wrapped[l]) = Len(packed[l][1].text)
  <2>1. wrapped[l] = Join(packed[l]) /\ JoinedWell(wrapped[l], packed[l], Pairs(runs))
    BY <1>2, <1>3, <1>4
  <2>2. Inked(wrapped[l]) = Inked(packed[l]) /\ Words(wrapped[l]) = packed[l]
    BY <2>1, InkedJoined DEF JoinedWell
  <2> QED BY ONLY <2>2 DEF InkOnly, FirstWord
<1>7. /\ \A l \in 1..n : InkOnly(packed[l]) <= MaxWidth \/ Len(packed[l]) = 1
      /\ \A l \in 1..n - 1 : InkOnly(packed[l]) + Len(packed[l + 1][1].text) > MaxWidth
  BY <1>2, <1>4 DEF PackedWell
<1>8. \A l \in 1..n - 1 : l \in 1..n /\ l + 1 \in 1..n
  OBVIOUS
<1>9. \A l \in DOMAIN wrapped : InkOnly(wrapped[l]) <= MaxWidth \/ Len(Words(wrapped[l])) = 1
  BY <1>5, <1>6, <1>7
<1>10. \A l \in 1..Len(wrapped) - 1 :
         InkOnly(wrapped[l]) + FirstWord(wrapped[l + 1]) > MaxWidth
  BY <1>5, <1>6, <1>7, <1>8
<1> QED BY <1>1, <1>3, <1>9, <1>10

\* RenderEntryTexture draws every character of every line that it wraps, in the order and
\* the style of the caption, for any caption, any alphabet and any maxPixelWidth.
THEOREM TextSurvivesWrap == Spec => []WrapKeepsText
BY InitInv, NextInv, TextKept, PTL DEF Spec

\* The wrap of RenderEntryTexture neither joins nor breaks a word, as long as a word is
\* of one style: two characters touch in a wrapped line just if they touch in a run of the
\* caption, and a wrapped line has single spaces and none at its ends.
THEOREM WordsSurviveWrap == Spec => []WrapKeepsWords
BY InitInv, NextInv, WordsKept, PTL DEF Spec

\* The characters of a wrapped line, without its spaces, are no wider than maxPixelWidth
\* unless they are one word, and no line is broken before a word whose characters would
\* have fitted: what curW + words[i].w counts in the code, where a space is 0 wide.  The
\* line that is drawn may be wider, by its spaces.
THEOREM WrapIsGreedy == Spec => []WrapGreedy
BY InitInv, NextInv, LinesFull, PTL DEF Spec
=============================================================================
