------------------------- MODULE CaptionMarkupProofs -------------------------
(***************************************************************************)
(* Proofs about CaptionMarkup, for captions of any length and any alphabet. *)
(*                                                                         *)
(* Inv has the types and the shape of the runs.  IInv adds what relates the *)
(* state of the parser to the caption read so far: what is open (OpenInv),  *)
(* the stack of colours and the other formatting (FormatInv), the styles,   *)
(* the places and the breaks of the characters read (StyleInv, PlacesInv,   *)
(* BreakInv), and where the part began (PartInv).  Each has a section with  *)
(* lemmas about how the definitions it uses change with one more token, and *)
(* one lemma that every step keeps it.                                      *)
(***************************************************************************)
EXTENDS CaptionMarkup, SequenceTheorems, FiniteSetTheorems, WellFoundedInduction, TLAPS

\* A line whose runs have text and are as long as can be.
Tidy(runs) ==
  /\ \A r \in DOMAIN runs : runs[r].text # <<>>
  /\ \A r \in 1..Len(runs) - 1 : runs[r].style # runs[r + 1].style

TidyLines(ls) == \A l \in DOMAIN ls : ls[l] # <<>> /\ Tidy(ls[l])

\* What RunsMaximal rests on: the line, the lines and the phrases read so far are
\* tidy, the phrase under way as well as those before it.
Inv ==
  /\ TypeOK
  /\ Tidy(line)
  /\ TidyLines(lines)
  /\ \A p \in DOMAIN phrases : TidyLines(phrases[p].lines)

\* The place of the next token.
now == Len(raw) + 1

Opening == {"clr", "playerclr"}
Delaying == {"delay", "openDelay"}
Breaking == {"cr"} \cup Delaying

\* What waits for a `>' is the first `<' that is still open.
OpenInv ==
  /\ open = "nothing" <=> \A i \in 1..Len(raw) : ~StillOpen(i, now)
  /\ open = "delay" <=>
       \E i \in 1..Len(raw) : raw[i].tag = "openDelay" /\ StillOpen(i, now)

Surplus(j, k) == NumberOf(Opening, j, k) - NumberOf({"endclr"}, j, k)

\* The ink after the first d of the colour tags at o.
InkAfter(o, d) == IF d = 0 THEN ConfigInk ELSE InkOf(raw[o[d]])

\* The m inks on the stack are those that the tags not yet closed, at o, have replaced.
StackOf(o, m, n) ==
  /\ o \in [1..m -> 1..n]
  /\ \A d, e \in 1..m : d < e => o[d] < o[e]
  /\ {o[d] : d \in 1..m} = Unclosed(n + 1)
  /\ \A d \in 1..m : Surplus(o[d], n) = m - d + 1
  /\ \A d \in 1..m : stack[d] = InkAfter(o, d - 1)
  /\ style.ink = InkAfter(o, m)

StackInv ==
  \E m \in {Len(stack)}, n \in {Len(raw)} : \E o \in [1..m -> 1..n] : StackOf(o, m, n)

Toggled(tag, n) == NumberOf({tag}, From(n + 1), n) % 2 = 1

DueAt(i) == IF Delays(i) = {} THEN 0 ELSE raw[Max(Delays(i))].delay

\* The format is that of a character that comes next.
FormatInv ==
  \E n \in {Len(raw)} :
    /\ part \in 0..n
    /\ StackInv
    /\ style.bold = Toggled("bold", n) /\ style.italic = Toggled("italic", n)
    /\ delay = DueAt(n + 1)

\* What is known of the characters shown so far.
StyledAsMeant(runs) ==
  \A r \in DOMAIN runs : \A k \in DOMAIN runs[r].text :
    /\ runs[r].text[k].at \in 1..Len(raw)
    /\ runs[r].style = Meant(runs[r].text[k].at)

StyleInv ==
  /\ StyledAsMeant(line)
  /\ \A l \in DOMAIN lines : StyledAsMeant(lines[l])
  /\ \A p \in DOMAIN phrases : \A l \in DOMAIN phrases[p].lines :
       StyledAsMeant(phrases[p].lines[l])

\* The places shown so far, before the phrase is put together.
PlacesRead == PlacesAmong(phrases) \o PlacesIn(lines) \o PlacesOf(line)

\* The sequence lists the set in order.
Lists(s, S) ==
  /\ {s[k] : k \in DOMAIN s} = S
  /\ \A k, m \in DOMAIN s : k < m => s[k] < s[m]

PlacesInv ==
  /\ blank => line = <<>> /\ lines = <<>>
  /\ Lists(PlacesRead, Shown)

\* A part begins after an <sb>.
PartInv == \E n \in {Len(raw)} : part \in 0..n /\ (part = 0 \/ raw[part].tag = "sb")

HasPlace(runs, i) ==
  \E r \in DOMAIN runs : \E k \in DOMAIN runs[r].text : runs[r].text[k].at = i
SomeLineHas(ls, i) == \E l \in DOMAIN ls : HasPlace(ls[l], i)

Broken(i, j) == Tagged(Breaking, i, j) # {}

\* Places share a line unless the line was broken between them, and they are in order.
LinesApart(ls, n) ==
  /\ \A l \in DOMAIN ls : \A i, j \in 1..n :
       HasPlace(ls[l], i) /\ HasPlace(ls[l], j) => ~Broken(i, j)
  /\ \A l, m \in DOMAIN ls : \A i, j \in 1..n :
       l < m /\ HasPlace(ls[l], i) /\ HasPlace(ls[m], j) => i < j /\ Broken(i, j)

\* So do they across phrases, and each waits for its delay.
PhrasesApart(ps, n) ==
  /\ \A p \in DOMAIN ps : LinesApart(ps[p].lines, n)
  /\ \A p \in DOMAIN ps : \A i \in 1..n :
       SomeLineHas(ps[p].lines, i) => ps[p].delay = DueAt(i)
  /\ \A p, q \in DOMAIN ps : \A i, j \in 1..n :
       p < q /\ SomeLineHas(ps[p].lines, i) /\ SomeLineHas(ps[q].lines, j) =>
         i < j /\ Broken(i, j)

\* The line w that is read, the lines ls of the phrase and the phrases ps before it.
BreakOf(w, ls, ps, n) ==
  /\ PhrasesApart(ps, n) /\ LinesApart(ls, n)
  /\ \A i \in 1..n :
       /\ HasPlace(w, i) => ~Broken(i, n)
       /\ SomeLineHas(ls, i) => Broken(i, n)
       /\ SomeLineHas(ls, i) \/ HasPlace(w, i) => Delays(i) = Delays(n + 1)
       /\ \A p \in DOMAIN ps :
            SomeLineHas(ps[p].lines, i) => \E d \in Delays(n + 1) : i <= d

BreakInv ==
  \E n \in {Len(raw)}, w \in {line}, ls \in {lines}, ps \in {phrases} :
    BreakOf(w, ls, ps, n)

IInv == Inv /\ OpenInv /\ FormatInv /\ StyleInv /\ PlacesInv /\ PartInv /\ BreakInv
-----------------------------------------------------------------------------
(* Numbers, and sequences that are flattened *)

\* Every set of natural numbers has a least one.
LEMMA LeastNumber ==
  ASSUME NEW T, T \subseteq Nat, T # {}
  PROVE  \E n \in T : \A m \in T : n <= m
<1> DEFINE less == {ss \in Nat \X Nat : ss[1] < ss[2]}
<1>1. IsWellFoundedOn(less, Nat)
  BY NatLessThanWellFounded DEF OpToRel
<1>2. PICK n \in T : \A m \in T : <<m, n>> \notin less
  <2> HIDE DEF less
  <2> QED BY <1>1, WFMin
<1>3. ASSUME NEW m \in T PROVE n <= m
  <2>1. <<m, n>> \in Nat \X Nat /\ <<m, n>>[1] = m /\ <<m, n>>[2] = n
    OBVIOUS
  <2>2. ~(m < n)
    BY <1>2, <2>1
  <2> QED BY <2>2
<1> QED BY <1>3

\* Induction over the natural numbers, with a set for the predicate.
LEMMA Induction ==
  ASSUME NEW T, 0 \in T, \A n \in Nat : n \in T => n + 1 \in T
  PROVE  \A n \in Nat : n \in T
<1> SUFFICES ASSUME Nat \ T # {} PROVE FALSE
  OBVIOUS
<1>1. PICK n \in Nat \ T : \A m \in Nat \ T : n <= m
  BY LeastNumber
<1>2. n - 1 \in Nat /\ n - 1 \in T
  BY <1>1
<1> QED BY <1>1, <1>2

\* A function may be defined by recursion on an interval.
LEMMA Recursion ==
  ASSUME NEW V, NEW c \in V, NEW n \in Nat, NEW G \in [1..n -> [V -> V]]
  PROVE  \E f \in [0..n -> V] :
           f[0] = c /\ \A i \in 1..n : f[i] = G[i][f[i - 1]]
<1> DEFINE Solves(f, k) == f[0] = c /\ \A i \in 1..k : f[i] = G[i][f[i - 1]]
           T == {k \in Nat : k <= n => \E f \in [0..k -> V] : Solves(f, k)}
<1>1. 0 \in T
  <2>1. [i \in 0..0 |-> c] \in [0..0 -> V] /\ Solves([i \in 0..0 |-> c], 0)
    OBVIOUS
  <2> QED BY <2>1
<1>2. ASSUME NEW k \in Nat, k \in T PROVE k + 1 \in T
  <2> SUFFICES ASSUME k + 1 <= n PROVE \E f \in [0..k + 1 -> V] : Solves(f, k + 1)
    OBVIOUS
  <2>1. PICK f \in [0..k -> V] : Solves(f, k)
    BY <1>2
  <2> DEFINE last == G[k + 1][f[k]]
             g == [i \in 0..k + 1 |-> IF i = k + 1 THEN last ELSE f[i]]
  <2>2. last \in V
    OBVIOUS
  <2>3. g \in [0..k + 1 -> V]
    <3> HIDE DEF last
    <3> QED BY <2>2
  <2>4. g[0] = c /\ g[k + 1] = last /\ \A i \in 0..k : g[i] = f[i]
    BY <2>1
  <2>5. ASSUME NEW i \in 1..k + 1 PROVE g[i] = G[i][g[i - 1]]
    <3>1. CASE i = k + 1
      <4>1. g[i] = last /\ g[i - 1] = f[k]
        <5> HIDE DEF g, last
        <5> QED BY <2>4, <3>1
      <4> QED BY <3>1, <4>1
    <3>2. CASE i \in 1..k
      <4>1. g[i] = f[i] /\ g[i - 1] = f[i - 1]
        BY <2>4, <3>2
      <4>2. f[i] = G[i][f[i - 1]]
        BY <2>1, <3>2
      <4> QED BY <4>1, <4>2
    <3> QED BY <3>1, <3>2
  <2> QED BY <2>3, <2>4, <2>5
<1>3. n \in T
  <2> HIDE DEF T
  <2> QED BY <1>1, <1>2, Induction
<1> QED BY <1>3

\* FlattenSeq is what its recursion says, ...
LEMMA FlattenIs ==
  ASSUME NEW S, NEW ss \in Seq(Seq(S)), ss # <<>>, NEW f,
         f[1] = ss[1], \A i \in 2..Len(ss) : f[i] = f[i - 1] \o ss[i]
  PROVE  FlattenSeq(ss) = f[Len(ss)]
<1> DEFINE n == Len(ss)
           Body(g) == [i \in 1..n |-> IF i = 1 THEN ss[i] ELSE g[i - 1] \o ss[i]]
           h == CHOOSE g : g = Body(g)
<1>1. n \in Nat \ {0} /\ \A i \in 1..n : ss[i] \in Seq(S)
  BY EmptySeq
<1> DEFINE g0 == [i \in 1..n |-> f[i]]
<1>2. g0 = Body(g0)
  <2>1. ASSUME NEW i \in 1..n
        PROVE  f[i] = IF i = 1 THEN ss[i] ELSE g0[i - 1] \o ss[i]
    <3>1. CASE i = 1
      BY <3>1
    <3>2. CASE i # 1
      <4>1. i \in 2..Len(ss) /\ i - 1 \in 1..n
        BY <1>1, <3>2
      <4>2. g0[i - 1] = f[i - 1]
        BY <4>1
      <4>3. f[i] = f[i - 1] \o ss[i]
        BY <4>1
      <4> QED BY <3>2, <4>2, <4>3
    <3> QED BY <3>1, <3>2
  <2> QED BY <2>1
<1>3. h = Body(h)
  <2> HIDE DEF Body, g0
  <2> QED BY <1>2
<1>4. FlattenSeq(ss) = h[n]
  BY <1>1 DEF FlattenSeq
<1> HIDE DEF h
<1> DEFINE T == {k \in Nat : k + 1 <= n => h[k + 1] = f[k + 1]}
<1>5. 0 \in T
  BY <1>1, <1>3
<1>6. ASSUME NEW k \in Nat, k \in T PROVE k + 1 \in T
  <2> SUFFICES ASSUME k + 2 <= n PROVE h[k + 2] = f[k + 2]
    OBVIOUS
  <2>1. h[k + 2] = h[k + 1] \o ss[k + 2]
    <3>1. k + 2 \in 1..n /\ k + 2 # 1 /\ (k + 2) - 1 = k + 1
      OBVIOUS
    <3>2. h[k + 2] = Body(h)[k + 2]
      BY ONLY <1>3
    <3> QED BY <3>1, <3>2
  <2>2. f[k + 2] = f[k + 1] \o ss[k + 2]
    <3>1. k + 2 \in 2..Len(ss) /\ (k + 2) - 1 = k + 1
      BY <1>1
    <3>2. f[k + 2] = f[(k + 2) - 1] \o ss[k + 2]
      BY <3>1
    <3> QED BY <3>1, <3>2
  <2>3. h[k + 1] = f[k + 1]
    BY <1>6
  <2> QED BY <2>1, <2>2, <2>3
<1>7. n - 1 \in T
  <2>1. n - 1 \in Nat
    BY <1>1
  <2>2. \A k \in Nat : k \in T
    <3> HIDE DEF T
    <3> QED BY <1>5, <1>6, Induction
  <2> QED BY <2>1, <2>2
<1> QED BY <1>1, <1>4, <1>7

\* Nothing flattened is nothing.
LEMMA FlattenEmpty == FlattenSeq(<<>>) = <<>>
BY DEF FlattenSeq

\* There is a function that does what the recursion says.
LEMMA FlattenRec ==
  ASSUME NEW S, NEW ss \in Seq(Seq(S)), ss # <<>>
  PROVE  \E f \in [1..Len(ss) -> Seq(S)] :
           /\ f[1] = ss[1] /\ \A i \in 2..Len(ss) : f[i] = f[i - 1] \o ss[i]
           /\ FlattenSeq(ss) = f[Len(ss)]
<1> DEFINE n == Len(ss)
           G == [i \in 1..n - 1 |-> [v \in Seq(S) |-> v \o ss[i + 1]]]
<1>1. n \in Nat \ {0} /\ \A i \in 1..n : ss[i] \in Seq(S)
  BY EmptySeq
<1>2. G \in [1..n - 1 -> [Seq(S) -> Seq(S)]]
  BY <1>1
<1>3. \A v \in Seq(S), i \in 1..n - 1 : G[i][v] = v \o ss[i + 1]
  OBVIOUS
<1>4. PICK h \in [0..n - 1 -> Seq(S)] :
        h[0] = ss[1] /\ \A i \in 1..n - 1 : h[i] = G[i][h[i - 1]]
  <2> DEFINE V == Seq(S)
             m == n - 1
             c == ss[1]
  <2>1. m \in Nat /\ c \in V /\ G \in [1..m -> [V -> V]]
    BY <1>1, <1>2
  <2> HIDE DEF G, V, m, c
  <2>2. \E h \in [0..m -> V] : h[0] = c /\ \A i \in 1..m : h[i] = G[i][h[i - 1]]
    BY ONLY <2>1, Recursion, SMT
  <2> QED BY <2>2 DEF V, m, c
<1> DEFINE f == [i \in 1..n |-> h[i - 1]]
<1>5. f \in [1..n -> Seq(S)] /\ f[1] = ss[1]
  BY <1>1, <1>4
<1>6. ASSUME NEW i \in 2..n PROVE f[i] = f[i - 1] \o ss[i]
  <2>1. i - 1 \in 1..n - 1 /\ (i - 1) - 1 \in 0..n - 1 /\ i \in 1..n /\ i - 1 \in 1..n
    BY <1>1
  <2>2. h[i - 1] = h[(i - 1) - 1] \o ss[(i - 1) + 1]
    <3> HIDE DEF G
    <3> QED BY <1>3, <1>4, <2>1
  <2>3. (i - 1) + 1 = i
    OBVIOUS
  <2> QED BY <2>1, <2>2, <2>3
<1>7. FlattenSeq(ss) = f[n]
  <2> HIDE DEF f
  <2> QED BY <1>5, <1>6, FlattenIs
<1> QED BY <1>5, <1>6, <1>7

\* Sequences of elements of S flatten to one.
LEMMA FlattenType ==
  ASSUME NEW S, NEW ss \in Seq(Seq(S))
  PROVE  FlattenSeq(ss) \in Seq(S)
<1>1. CASE ss = <<>>
  <2>1. FlattenSeq(ss) = <<>>
    BY <1>1, FlattenEmpty, Zenon
  <2> QED BY <2>1
<1>2. CASE ss # <<>>
  <2>1. PICK f \in [1..Len(ss) -> Seq(S)] : FlattenSeq(ss) = f[Len(ss)]
    BY <1>2, FlattenRec
  <2>2. Len(ss) \in 1..Len(ss)
    BY <1>2, EmptySeq
  <2> QED BY <2>1, <2>2
<1> QED BY <1>1, <1>2

\* ... so that it takes one sequence after the other.
LEMMA FlattenAppend ==
  ASSUME NEW S, NEW ss \in Seq(Seq(S)), NEW s \in Seq(S)
  PROVE  FlattenSeq(Append(ss, s)) = FlattenSeq(ss) \o s
<1> DEFINE n == Len(ss)
           tt == Append(ss, s)
<1>1. n \in Nat /\ tt \in Seq(Seq(S)) /\ Len(tt) = n + 1 /\ tt # <<>>
  BY AppendProperties
<1>2. tt[n + 1] = s /\ \A i \in 1..n : tt[i] = ss[i]
  BY AppendProperties
<1>3. CASE ss = <<>>
  <2> DEFINE f == [i \in 1..1 |-> s]
  <2>1. f[1] = tt[1] /\ Len(tt) = 1
    BY <1>1, <1>2, <1>3
  <2>2. FlattenSeq(tt) = f[1]
    <3> HIDE DEF f, tt
    <3>1. \A i \in 2..Len(tt) : f[i] = f[i - 1] \o tt[i]
      BY <2>1
    <3>2. FlattenSeq(tt) = f[Len(tt)]
      BY <1>1, <2>1, <3>1, FlattenIs
    <3> QED BY <2>1, <3>2
  <2> QED BY <1>3, <2>2, FlattenEmpty, ConcatEmptySeq
<1>4. CASE ss # <<>>
  <2>1. PICK f \in [1..n -> Seq(S)] :
           /\ f[1] = ss[1] /\ \A i \in 2..n : f[i] = f[i - 1] \o ss[i]
           /\ FlattenSeq(ss) = f[n]
    BY <1>4, FlattenRec
  <2>2. n >= 1
    BY <1>4, EmptySeq
  <2> DEFINE g == [i \in 1..n + 1 |-> IF i = n + 1 THEN f[n] \o s ELSE f[i]]
  <2>3. g[1] = tt[1]
    BY <1>1, <1>2, <2>1, <2>2
  <2>4. ASSUME NEW i \in 2..Len(tt) PROVE g[i] = g[i - 1] \o tt[i]
    <3>1. i \in 2..n + 1 /\ i - 1 \in 1..n
      BY <1>1
    <3>2. g[i - 1] = f[i - 1]
      BY <3>1
    <3> HIDE DEF tt
    <3>3. CASE i = n + 1
      <4>1. g[i] = f[n] \o s
        BY <3>3, <3>1
      <4>2. g[i - 1] = f[n] /\ tt[i] = s
        BY <1>2, <3>2, <3>3
      <4> QED BY <4>1, <4>2
    <3>4. CASE i \in 2..n
      <4>1. g[i] = f[i] /\ tt[i] = ss[i]
        BY <1>2, <3>1, <3>4
      <4>2. f[i] = f[i - 1] \o ss[i]
        BY <2>1, <3>4
      <4> QED BY <3>2, <4>1, <4>2
    <3>5. i = n + 1 \/ i \in 2..n
      BY <1>1, <3>1
    <3> QED BY <3>3, <3>4, <3>5
  <2>5. g[Len(tt)] = f[n] \o s
    BY <1>1
  <2>6. FlattenSeq(tt) = g[Len(tt)]
    <3> HIDE DEF g, tt
    <3> QED BY <1>1, <2>3, <2>4, FlattenIs
  <2> QED BY <2>1, <2>5, <2>6
<1> QED BY <1>3, <1>4
-----------------------------------------------------------------------------
(* Types, and the shape of the runs *)

\* A character keeps a line a sequence of runs, and tidy.
LEMMA AddCharKeeps ==
  ASSUME NEW runs \in Seq(Run), NEW c \in Char, style \in Style, Tidy(runs)
  PROVE  AddChar(runs, c) \in Seq(Run) /\ Tidy(AddChar(runs, c))
<1> DEFINE new == [text |-> <<c>>, style |-> style]
           n == Len(runs)
<1>1. new \in Run /\ new.text # <<>>
  BY DEF Run
<1>2. n \in Nat /\ DOMAIN runs = 1..n /\ \A r \in 1..n : runs[r] \in Run
  OBVIOUS
<1>3. CASE runs # <<>> /\ Last(runs).style = style
  <2> DEFINE longer == [runs[n] EXCEPT !.text = Append(@, c)]
  <2>1. n \in 1..n
    BY <1>2, <1>3
  <2>2. longer \in Run /\ longer.text # <<>> /\ longer.style = runs[n].style
    <3>1. runs[n] = [text |-> runs[n].text, style |-> runs[n].style]
      BY <1>2, <2>1 DEF Run
    <3>2. runs[n].text \in Seq(Char) /\ runs[n].style \in Style
      BY <1>2, <2>1 DEF Run
    <3>3. longer = [text |-> Append(runs[n].text, c), style |-> runs[n].style]
      <4>1. \A t, s : [[text |-> t, style |-> s] EXCEPT !.text = Append(@, c)]
                      = [text |-> Append(t, c), style |-> s]
        OBVIOUS
      <4> QED BY ONLY <3>1, <4>1
    <3>4. Append(runs[n].text, c) \in Seq(Char) /\ Append(runs[n].text, c) # <<>>
      BY <3>2, AppendProperties
    <3> QED BY <3>2, <3>3, <3>4 DEF Run
  <2>3. AddChar(runs, c) = [runs EXCEPT ![n] = longer]
    BY <1>3 DEF AddChar
  <2> HIDE DEF longer
  <2>4. [runs EXCEPT ![n] = longer] \in Seq(Run)
    BY <1>2, <2>1, <2>2
  <2>5. Tidy([runs EXCEPT ![n] = longer])
    <3> DEFINE joined == [runs EXCEPT ![n] = longer]
    <3>1. /\ joined \in Seq(Run) /\ Len(joined) = n
          /\ \A j \in 1..n : joined[j] = IF j = n THEN longer ELSE runs[j]
      BY <2>1, <2>2, ExceptSeq
    <3>2. DOMAIN joined = 1..n
      BY <3>1
    <3> HIDE DEF joined
    <3>3. \A r \in 1..n : joined[r].text # <<>> /\ joined[r].style = runs[r].style
      BY <1>2, <2>2, <3>1 DEF Tidy
    <3>4. \A r \in 1..n - 1 : joined[r].style # joined[r + 1].style
      BY <1>2, <3>3 DEF Tidy
    <3> QED BY <3>1, <3>2, <3>3, <3>4 DEF Tidy, joined
  <2> QED BY <2>3, <2>4, <2>5
<1>4. CASE ~(runs # <<>> /\ Last(runs).style = style)
  <2>1. AddChar(runs, c) = Append(runs, new)
    BY <1>4 DEF AddChar
  <2>2. n > 0 => runs[n].style # style
    BY <1>2, <1>4 DEF Last
  <2>3. new.style = style
    OBVIOUS
  <2> HIDE DEF new
  <2>4. Append(runs, new) \in Seq(Run)
    BY <1>1
  <2>5. Tidy(Append(runs, new))
    BY <1>1, <1>2, <2>2, <2>3 DEF Tidy
  <2> QED BY <2>1, <2>4, <2>5
<1> QED BY <1>3, <1>4

\* Appending keeps what holds of every element.
LEMMA EndedLinesTidy ==
  ASSUME Inv
  PROVE  EndedLines \in Seq(Seq(Run)) /\ TidyLines(EndedLines)
BY DEF Inv, TypeOK, EndedLines, TidyLines

LEMMA EndedPhrasesTidy ==
  ASSUME Inv
  PROVE  /\ EndedPhrases \in Seq(Phrase)
         /\ \A p \in DOMAIN EndedPhrases : TidyLines(EndedPhrases[p].lines)
<1>1. [delay |-> delay, lines |-> EndedLines] \in Phrase
  BY EndedLinesTidy DEF Inv, TypeOK, Phrase
<1>2. TidyLines([delay |-> delay, lines |-> EndedLines].lines)
  BY EndedLinesTidy
<1> DEFINE last == [delay |-> delay, lines |-> EndedLines]
<1> HIDE DEF last
<1>3. EndedPhrases = IF blank THEN phrases ELSE Append(phrases, last)
  BY DEF EndedPhrases, last
<1> QED BY <1>1, <1>2, <1>3 DEF Inv, TypeOK, last

LEMMA EmptyTidy == Tidy(<<>>) /\ TidyLines(<<>>)
BY DEF Tidy, TidyLines

\* A new phrase has nothing yet.
LEMMA StartsTidy ==
  ASSUME Inv, StartPhrase
  PROVE  /\ line' \in Seq(Run) /\ lines' \in Seq(Seq(Run)) /\ blank' \in BOOLEAN
         /\ style' \in Style /\ stack' \in Seq(Colours)
         /\ Tidy(line') /\ TidyLines(lines')
<1>1. line' = <<>> /\ lines' = <<>> /\ blank' = TRUE
  BY DEF StartPhrase
<1>2. style' \in Style /\ stack' \in Seq(Colours)
  <2>1. CASE several
    BY <2>1 DEF Inv, TypeOK, StartPhrase, format
  <2>2. CASE ~several
    <3>1. NoStyle \in Style /\ <<>> \in Seq(Colours)
      BY MarkupAssumption DEF NoStyle, Style
    <3> QED BY <2>2, <3>1 DEF StartPhrase
  <2> QED BY <2>1, <2>2
<1> QED BY <1>1, <1>2, EmptyTidy

\* Reading a token of the alphabet.
LEMMA ReadKeeps ==
  ASSUME Inv, NEW token \in Tokens, Read(token)
  PROVE  /\ raw' \in Seq(Token) /\ Len(raw) \in Nat /\ token \in Token
         /\ fromPlayer' = fromPlayer /\ several' = several
BY MarkupAssumption DEF Inv, TypeOK, Read, given

\* What ReadTag leaves alone, and a colour that is pushed or popped.
LEMMA TagKeeps ==
  ASSUME Inv, NEW token \in Tokens, ReadTag(token),
         style' \in Style, stack' \in Seq(Colours)
  PROVE  Inv'
<1>1. Read(token)
  BY DEF ReadTag
<1> QED BY <1>1, ReadKeeps DEF Inv, TypeOK, ReadTag

LEMMA PushKeeps ==
  ASSUME style \in Style, stack \in Seq(Colours), NEW ink \in Colours, Push(ink)
  PROVE  style' \in Style /\ stack' \in Seq(Colours)
BY DEF Push, Style
-----------------------------------------------------------------------------
LEMMA InitInv == Init => Inv
BY MarkupAssumption DEF Init, Inv, TypeOK, Tidy, TidyLines, Style, NoStyle

LEMMA NextInv == Inv /\ [Next]_vars => Inv'
<1> SUFFICES ASSUME Inv, [Next]_vars PROVE Inv'
  OBVIOUS
<1>0. CASE UNCHANGED vars
  BY <1>0 DEF Inv, TypeOK, vars, given, format
<1>1. ASSUME NEW token \in Tokens, ReadChar(token) PROVE Inv'
  <2> DEFINE c == [at |-> Len(raw) + 1, space |-> token.tag = "space"]
  <2>1. Read(token)
    BY <1>1 DEF ReadChar
  <2>2. c \in Char
    BY <2>1, ReadKeeps DEF Char
  <2> HIDE DEF c
  <2>3. AddChar(line, c) \in Seq(Run) /\ Tidy(AddChar(line, c))
    BY <2>2, AddCharKeeps DEF Inv, TypeOK
  <2>4. line' \in Seq(Run) /\ Tidy(line')
    BY <1>1, <2>3 DEF ReadChar, Inv, TypeOK, c
  <2> QED BY <1>1, <2>1, <2>4, ReadKeeps DEF Inv, TypeOK, ReadChar, format
<1>2. ASSUME NEW token \in Tokens, Swallow(token) PROVE Inv'
  <2>1. Read(token)
    BY <1>2 DEF Swallow
  <2> QED BY <1>2, <2>1, ReadKeeps DEF Inv, TypeOK, Swallow, format
<1>3. ASSUME NEW token \in Tokens, OpenTag(token) PROVE Inv'
  <2>1. Read(token)
    BY <1>3 DEF OpenTag
  <2> QED BY <1>3, <2>1, ReadKeeps DEF Inv, TypeOK, OpenTag, format
<1>4. ASSUME NEW token \in Tokens, Colour(token) PROVE Inv'
  <2>1. ReadTag(token) /\ Push(token.ink) /\ token.tag = "clr"
    BY <1>4 DEF Colour
  <2>2. token \in Token
    BY MarkupAssumption
  <2>3. token.ink \in Colours
    BY <2>1, <2>2 DEF Token, Chars, Plain
  <2> QED BY <2>1, <2>3, PushKeeps, TagKeeps DEF Inv, TypeOK
<1>5. ASSUME NEW token \in Tokens, PlayerColour(token) PROVE Inv'
  <2> DEFINE ink == IF fromPlayer THEN token.own ELSE token.other
  <2>1. ReadTag(token) /\ Push(ink) /\ token.tag = "playerclr"
    BY <1>5 DEF PlayerColour
  <2>2. token \in Token
    BY MarkupAssumption
  <2>3. ink \in Colours
    BY <2>1, <2>2 DEF Token, Chars, Plain
  <2> HIDE DEF ink
  <2> QED BY <2>1, <2>3, PushKeeps, TagKeeps DEF Inv, TypeOK
<1>6. ASSUME NEW token \in Tokens, BadColour(token) \/ OtherTag(token) PROVE Inv'
  <2>1. ReadTag(token) /\ UNCHANGED format
    BY <1>6 DEF BadColour, OtherTag
  <2> QED BY <2>1, TagKeeps DEF Inv, TypeOK, format
<1>7. ASSUME NEW token \in Tokens, EndColour(token) PROVE Inv'
  <2>1. ReadTag(token)
    BY <1>7 DEF EndColour
  <2>2. stack # <<>> => Last(stack) \in Colours /\ Front(stack) \in Seq(Colours)
    BY DEF Inv, TypeOK, Last, Front
  <2>3. style' \in Style /\ stack' \in Seq(Colours)
    BY <1>7, <2>2, MarkupAssumption DEF EndColour, Inv, TypeOK, Style
  <2> QED BY <2>1, <2>3, TagKeeps
<1>8. ASSUME NEW token \in Tokens, Toggle(token) PROVE Inv'
  <2>1. ReadTag(token) /\ style' \in Style /\ stack' \in Seq(Colours)
    BY <1>8 DEF Toggle, Inv, TypeOK, Style
  <2> QED BY <2>1, TagKeeps
<1>9. ASSUME NEW token \in Tokens, BreakLine(token) PROVE Inv'
  <2>1. Read(token)
    BY <1>9 DEF BreakLine
  <2>2. Tidy(line')
    BY <1>9, EmptyTidy DEF BreakLine
  <2>3. lines' \in Seq(Seq(Run)) /\ TidyLines(lines') /\ line' \in Seq(Run)
    BY <1>9, EndedLinesTidy DEF BreakLine
  <2> QED BY <1>9, <2>1, <2>2, <2>3, ReadKeeps DEF Inv, TypeOK, BreakLine, format
<1>10. ASSUME NEW token \in Tokens, Delay(token) PROVE Inv'
  <2>1. Read(token) /\ StartPhrase
    BY <1>10 DEF Delay
  <2>2. token \in Token
    BY MarkupAssumption
  <2>3. token.delay \in Nat
    BY <1>10, <2>2 DEF Delay, Token, Chars, Plain
  <2> QED BY <1>10, <2>1, <2>3, ReadKeeps, StartsTidy, EndedPhrasesTidy
          DEF Inv, TypeOK, Delay
<1>11. ASSUME NEW token \in Tokens, DelayWithin(token) PROVE Inv'
  <2>1. Read(token)
    BY <1>11 DEF DelayWithin
  <2> QED BY <1>11, <2>1, ReadKeeps DEF Inv, TypeOK, DelayWithin, format
<1>12. ASSUME NEW token \in Tokens, NextPart(token) PROVE Inv'
  <2>1. Read(token) /\ StartPhrase
    BY <1>12 DEF NextPart
  <2>2. phrases' = <<>> /\ delay' = 0 /\ part' \in Nat /\ open' = "nothing"
    BY <1>12, <2>1, ReadKeeps DEF NextPart
  <2> QED BY <2>1, <2>2, ReadKeeps, StartsTidy DEF Inv, TypeOK
<1> QED
  BY <1>0, <1>1, <1>2, <1>3, <1>4, <1>5, <1>6, <1>7, <1>8, <1>9, <1>10, <1>11, <1>12
  DEF Next

\* The parser keeps its types for captions of any length and any alphabet.
THEOREM MarkupTypes == Spec => []TypeOK
<1>1. Inv => TypeOK
  BY DEF Inv
<1> QED BY <1>1, InitInv, NextInv, PTL DEF Spec

\* In whatever ParseCaptionText returns no line is empty, no run is empty, and two
\* runs that follow one another differ in style.
LEMMA TidyIsMaximal == Inv => RunsMaximal
<1> SUFFICES ASSUME Inv, NEW pl \in AllLines
             PROVE  LineAt(pl) # <<>> /\ Tidy(LineAt(pl))
  BY DEF RunsMaximal, Tidy
<1>1. \A p \in DOMAIN ParseCaptionText : TidyLines(ParseCaptionText[p].lines)
  BY EndedPhrasesTidy DEF ParseCaptionText, TidyLines
<1>2. /\ ParseCaptionText \in Seq(Phrase)
      /\ pl[1] \in DOMAIN ParseCaptionText
  BY EndedPhrasesTidy DEF ParseCaptionText, Phrase, AllLines
<1>3. pl[2] \in DOMAIN ParseCaptionText[pl[1]].lines
  BY <1>2 DEF AllLines, Phrase
<1> QED BY <1>1, <1>2, <1>3 DEF LineAt, TidyLines

THEOREM RunsStayMaximal == Spec => []RunsMaximal
BY InitInv, NextInv, TidyIsMaximal, PTL DEF Spec
-----------------------------------------------------------------------------
(* What is open, and which tokens count *)

\* The caption goes on with the token.
Extended(token, n) ==
  /\ n \in Nat /\ Len(raw) = n /\ Len(raw') = n + 1
  /\ \A i \in 1..n : raw'[i] = raw[i]
  /\ raw'[n + 1] = token

\* Every action that reads does that.
LEMMA ReadExtends ==
  ASSUME raw \in Seq(Token), NEW token \in Token, Read(token)
  PROVE  \E n \in Nat : Extended(token, n)
BY AppendProperties DEF Read, Extended

\* Tags with a `>'.
TerminatedTag(tag) == tag \notin Chars \cup {"lt", "openDelay"}

\* What has been read is not read otherwise later.
LEMMA OpenStable ==
  ASSUME NEW token, NEW n, Extended(token, n)
  PROVE  /\ \A i \in 1..n : Terminated(i)' <=> Terminated(i)
         /\ \A i \in 1..n, j \in 1..n + 1 :
              StillOpen(i, j)' <=> StillOpen(i, j)
<1>1. \A i \in 1..n : Terminated(i)' <=> Terminated(i)
  BY DEF Extended, Terminated
<1>2. ASSUME NEW i \in 1..n, NEW j \in 1..n + 1
      PROVE  StillOpen(i, j)' <=> StillOpen(i, j)
  <2>1. raw'[i] = raw[i]
    BY DEF Extended
  <2>2. i + 1..j - 1 \subseteq 1..n
    BY DEF Extended
  <2> QED BY <1>1, <2>1, <2>2 DEF StillOpen
<1> QED BY <1>1, <1>2

\* So whether a token counts does not depend on what comes later.
LEMMA CountsStable ==
  ASSUME NEW token, NEW n, Extended(token, n)
  PROVE  \A j \in 1..n : Counts(j)' <=> Counts(j)
<1> SUFFICES ASSUME NEW j \in 1..n PROVE Counts(j)' <=> Counts(j)
  OBVIOUS
<1>1. j \in 1..n + 1 /\ 1..j - 1 \subseteq 1..n
  BY DEF Extended
<1>2. \A i \in 1..j - 1 : /\ StillOpen(i, j)' <=> StillOpen(i, j)
                          /\ raw'[i] = raw[i] /\ raw'[j] = raw[j]
  BY <1>1, OpenStable DEF Extended
<1> QED BY <1>2 DEF Counts

\* The token that comes counts unless an open `<' swallows it.
LEMMA NewCounts ==
  ASSUME NEW token, NEW n, Extended(token, n), OpenInv, open \in {"nothing", "line", "delay"}
  PROVE  Counts(n + 1)' <=>
           \/ open = "nothing" \/ token.tag = "sb"
           \/ open = "line" /\ token.tag \in Breaking
<1>1. /\ n \in Nat /\ Len(raw) = n
      /\ raw'[n + 1] = token /\ \A i \in 1..n : raw'[i] = raw[i]
  BY DEF Extended
<1>2. \A i \in 1..n : StillOpen(i, n + 1)' <=> StillOpen(i, n + 1)
  BY <1>1, OpenStable
<1>3. Counts(n + 1)' <=>
        \A i \in 1..n : StillOpen(i, n + 1) =>
          \/ token.tag = "sb"
          \/ raw[i].tag = "lt" /\ token.tag \in Breaking
  <2>1. Counts(n + 1)' <=>
          \A i \in 1..n : StillOpen(i, n + 1)' =>
            \/ raw'[n + 1].tag = "sb"
            \/ raw'[i].tag = "lt" /\ raw'[n + 1].tag \in {"cr", "delay", "openDelay"}
    <3>1. (n + 1) - 1 = n
      BY <1>1
    <3> QED BY <3>1 DEF Counts
  <2> QED BY <1>1, <1>2, <2>1 DEF Breaking, Delaying
<1>4. \A i \in 1..n : StillOpen(i, n + 1) => raw[i].tag \in {"lt", "openDelay"}
  BY DEF StillOpen
<1>5. /\ open = "nothing" <=> \A i \in 1..n : ~StillOpen(i, n + 1)
      /\ open = "delay" <=>
           \E i \in 1..n : raw[i].tag = "openDelay" /\ StillOpen(i, n + 1)
  BY <1>1 DEF OpenInv, now
<1> QED BY <1>3, <1>4, <1>5

\* ... and is open itself if it is a `<'.
LEMMA NextOpen ==
  ASSUME NEW token, NEW n, Extended(token, n)
  PROVE  \A i \in 1..n + 1 :
           StillOpen(i, n + 2)' <=>
             IF i = n + 1 THEN token.tag \in {"lt", "openDelay"}
             ELSE StillOpen(i, n + 1) /\ ~TerminatedTag(token.tag)
<1>1. /\ n \in Nat /\ Len(raw) = n
      /\ raw'[n + 1] = token /\ \A i \in 1..n : raw'[i] = raw[i]
  BY DEF Extended
<1>2. ASSUME NEW i \in 1..n + 1
      PROVE  StillOpen(i, n + 2)' <=>
               IF i = n + 1 THEN token.tag \in {"lt", "openDelay"}
               ELSE StillOpen(i, n + 1) /\ ~TerminatedTag(token.tag)
  <2>1. CASE i = n + 1
    BY <1>1, <2>1 DEF StillOpen
  <2>2. CASE i # n + 1
    <3>1. i \in 1..n
      BY <2>2, <1>1
    <3>2. i + 1..(n + 2) - 1 = (i + 1..(n + 1) - 1) \cup {n + 1}
      BY <3>1, <1>1
    <3>3. \A k \in i + 1..(n + 1) - 1 : Terminated(k)' <=> Terminated(k)
      BY <3>1, <1>1, OpenStable
    <3>4. Terminated(n + 1)' <=> TerminatedTag(token.tag)
      BY <1>1 DEF Terminated, TerminatedTag
    <3> QED BY <1>1, <2>2, <3>1, <3>2, <3>3, <3>4 DEF StillOpen
  <2> QED BY <2>1, <2>2
<1> QED BY <1>2

\* How each action leaves what is open.
OpenAfter(tag) ==
  IF TerminatedTag(tag) THEN "nothing"
  ELSE IF tag \in Chars THEN open
  ELSE IF tag = "lt" /\ open # "delay" THEN "line" ELSE "delay"

\* Every action appends the token and does that to what is open.
LEMMA StepOpen ==
  ASSUME Inv, NEW token \in Tokens,
    \/ ReadChar(token) \/ Swallow(token) \/ OpenTag(token)
    \/ Colour(token) \/ PlayerColour(token) \/ BadColour(token) \/ EndColour(token)
    \/ Toggle(token) \/ OtherTag(token) \/ BreakLine(token)
    \/ Delay(token) \/ DelayWithin(token) \/ NextPart(token)
  PROVE  /\ \E n \in Nat : Extended(token, n)
         /\ open' = OpenAfter(token.tag)
<1>1. token \in Token /\ raw \in Seq(Token) /\ open \in {"nothing", "line", "delay"}
  BY MarkupAssumption DEF Inv, TypeOK
<1>2. Read(token)
  BY DEF ReadChar, Swallow, OpenTag, Colour, PlayerColour, BadColour, EndColour,
         Toggle, OtherTag, BreakLine, Delay, DelayWithin, NextPart, ReadTag
<1>3. token.tag \in Chars \cup Plain \cup {"clr", "playerclr", "delay", "openDelay"}
  BY <1>1 DEF Token, Chars, Plain
<1>4. open' = OpenAfter(token.tag)
  BY <1>1, <1>3
  DEF OpenAfter, TerminatedTag, Chars, Plain,
      ReadChar, Swallow, OpenTag, Colour, PlayerColour, BadColour, EndColour,
      Toggle, OtherTag, BreakLine, Delay, DelayWithin, NextPart, ReadTag
<1> QED BY <1>1, <1>2, <1>4, ReadExtends

\* What is open stays the first `<' that nothing has closed.
LEMMA OpenInvStep ==
  ASSUME NEW token, NEW n, Extended(token, n), OpenInv, open \in {"nothing", "line", "delay"},
         open' = OpenAfter(token.tag)
  PROVE  OpenInv'
<1>1. /\ n \in Nat /\ Len(raw) = n /\ Len(raw') = n + 1
      /\ raw'[n + 1] = token /\ \A i \in 1..n : raw'[i] = raw[i]
  BY DEF Extended
<1>2. now' = n + 2 /\ now = n + 1
  BY <1>1 DEF now
<1>3. /\ \A i \in 1..n : StillOpen(i, n + 2)' <=>
                           StillOpen(i, n + 1) /\ ~TerminatedTag(token.tag)
      /\ StillOpen(n + 1, n + 2)' <=> token.tag \in {"lt", "openDelay"}
  BY <1>1, NextOpen
<1>4. 1..n + 1 = (1..n) \cup {n + 1}
  BY <1>1
<1>a. /\ open = "nothing" <=> \A i \in 1..n : ~StillOpen(i, n + 1)
      /\ open = "delay" <=>
           \E i \in 1..n : raw[i].tag = "openDelay" /\ StillOpen(i, n + 1)
  BY <1>1 DEF OpenInv, now
<1>5. open' = "nothing" <=> \A i \in 1..n + 1 : ~StillOpen(i, n + 2)'
  BY <1>a, <1>3, <1>4 DEF OpenAfter, TerminatedTag, Chars
<1>6. open' = "delay" <=>
        \E i \in 1..n + 1 : raw'[i].tag = "openDelay" /\ StillOpen(i, n + 2)'
  BY <1>1, <1>a, <1>3, <1>4 DEF OpenAfter, TerminatedTag, Chars
<1> QED BY <1>1, <1>2, <1>5, <1>6 DEF OpenInv
-----------------------------------------------------------------------------
(* Sets and numbers of tokens, one token later *)

\* There are finitely many tags between two places.
LEMMA TaggedIsFinite ==
  ASSUME NEW tags, NEW a \in Int, NEW b \in Int
  PROVE  /\ IsFiniteSet(Tagged(tags, a, b)) /\ NumberOf(tags, a, b) \in Nat
         /\ NumberOf(tags, a, b) = 0 <=> Tagged(tags, a, b) = {}
<1>1. Tagged(tags, a, b) \in SUBSET (a..b)
  BY DEF Tagged
<1>2. IsFiniteSet(Tagged(tags, a, b))
  BY <1>1, FS_Interval, FS_Subset
<1> QED BY <1>2, FS_CardinalityType, FS_EmptySet DEF NumberOf

\* Tags are not counted otherwise later, ...
LEMMA TaggedStable ==
  ASSUME NEW token, NEW n, Extended(token, n),
         NEW tags, NEW a \in Nat \ {0}, NEW b \in Int, b <= n
  PROVE  /\ Tagged(tags, a, b)' = Tagged(tags, a, b)
         /\ NumberOf(tags, a, b)' = NumberOf(tags, a, b)
<1>1. a..b \subseteq 1..n /\ \A i \in 1..n : raw'[i] = raw[i]
  BY DEF Extended
<1>2. Tagged(tags, a, b)' = Tagged(tags, a, b)
  BY <1>1, CountsStable DEF Tagged
<1> QED BY <1>2 DEF NumberOf

\* ... and the new token is counted if it is one of them.
LEMMA TaggedNext ==
  ASSUME NEW token, NEW n, Extended(token, n), NEW tags, NEW a \in 1..n + 1
  PROVE  /\ Tagged(tags, a, n + 1)' = Tagged(tags, a, n) \cup
              (IF token.tag \in tags /\ Counts(n + 1)' THEN {n + 1} ELSE {})
         /\ NumberOf(tags, a, n + 1)' = NumberOf(tags, a, n) +
              (IF token.tag \in tags /\ Counts(n + 1)' THEN 1 ELSE 0)
<1>1. /\ n \in Nat /\ a..n + 1 = (a..n) \cup {n + 1} /\ a..n \subseteq 1..n
      /\ raw'[n + 1] = token /\ \A i \in 1..n : raw'[i] = raw[i]
      /\ n + 1 \notin a..n
  BY DEF Extended
<1>2. \A i \in a..n : Counts(i)' <=> Counts(i)
  BY <1>1, CountsStable
<1>3. Tagged(tags, a, n + 1)' = Tagged(tags, a, n) \cup
        (IF token.tag \in tags /\ Counts(n + 1)' THEN {n + 1} ELSE {})
  BY <1>1, <1>2 DEF Tagged
<1>4. IsFiniteSet(Tagged(tags, a, n)) /\ n + 1 \notin Tagged(tags, a, n)
  <2>1. a \in Int /\ n \in Int
    BY <1>1
  <2>2. IsFiniteSet(Tagged(tags, a, n))
    BY <2>1, TaggedIsFinite
  <2> QED BY <1>1, <2>2 DEF Tagged
<1>5. Cardinality(Tagged(tags, a, n) \cup {n + 1}) = Cardinality(Tagged(tags, a, n)) + 1
  BY <1>4, FS_AddElement
<1>6. Cardinality(Tagged(tags, a, n)) \in Nat
  BY <1>4, FS_CardinalityType
<1> QED BY <1>3, <1>5, <1>6 DEF NumberOf

\* The greatest of a set of places.
LEMMA MaxPlace ==
  ASSUME NEW m \in Nat, NEW S, S \subseteq 1..m, S # {}
  PROVE  Max(S) \in S /\ \A x \in S : x <= Max(S)
<1> DEFINE T == {m - x : x \in S}
<1>1. T \subseteq Nat /\ T # {}
  <2>1. ASSUME NEW t \in T PROVE t \in Nat
    <3>1. PICK x \in S : t = m - x
      OBVIOUS
    <3>2. x \in 1..m
      OBVIOUS
    <3> QED BY <3>1, <3>2
  <2> QED BY <2>1
<1>2. PICK t \in T : \A u \in T : t <= u
  BY <1>1, LeastNumber
<1>3. PICK x \in S : t = m - x
  BY <1>2
<1>4. \A y \in S : x >= y
  <2> SUFFICES ASSUME NEW y \in S PROVE x >= y
    OBVIOUS
  <2>1. m - y \in T
    OBVIOUS
  <2>2. m - x <= m - y
    BY <1>2, <1>3, <2>1
  <2> QED BY <2>2
<1>5. Max(S) \in S /\ \A y \in S : Max(S) >= y
  BY <1>4 DEF Max
<1> QED BY <1>5

\* What is greatest is the greatest.
LEMMA MaxIs ==
  ASSUME NEW m \in Nat, NEW S, S \subseteq 1..m, NEW x \in S, \A y \in S : y <= x
  PROVE  Max(S) = x
<1>1. Max(S) \in S /\ \A y \in S : y <= Max(S)
  BY MaxPlace
<1>2. x \in 1..m /\ Max(S) \in 1..m /\ x <= Max(S) /\ Max(S) <= x
  BY <1>1
<1> QED BY <1>2

\* The delays before a place are before it, and so is where its formatting begins.
LEMMA DelaysRange ==
  ASSUME part \in Nat, NEW i \in Nat \ {0}
  PROVE  Delays(i) \subseteq 1..i - 1 /\ From(i) \in 1..i
<1>1. Delays(i) \subseteq 1..i - 1
  BY DEF Delays
<1>2. Delays(i) # {} => Max(Delays(i)) \in 1..i - 1
  BY <1>1, MaxPlace
<1> QED BY <1>1, <1>2 DEF From

\* The delays before a place are not changed by what comes later, ...
LEMMA DelaysStable ==
  ASSUME NEW token, NEW n, Extended(token, n), part \in Nat, part' = part,
         NEW i \in 1..n + 1
  PROVE  Delays(i)' = Delays(i)
<1>1. part + 1..i - 1 \subseteq 1..n /\ \A j \in 1..n : raw'[j] = raw[j]
  BY DEF Extended
<1> QED BY <1>1, CountsStable DEF Delays

\* ... and the next place has the new token before it as well.
LEMMA DelaysNext ==
  ASSUME NEW token, NEW n, Extended(token, n), part \in 0..n, part' = part
  PROVE  Delays(n + 2)' = Delays(n + 1) \cup
           (IF token.tag \in Delaying /\ Counts(n + 1)' THEN {n + 1} ELSE {})
<1>1. /\ part + 1..(n + 2) - 1 = (part + 1..(n + 1) - 1) \cup {n + 1}
      /\ part + 1..(n + 1) - 1 \subseteq 1..n
      /\ raw'[n + 1] = token /\ \A i \in 1..n : raw'[i] = raw[i]
  BY DEF Extended
<1> QED BY <1>1, CountsStable DEF Delays, Delaying

\* Where the formatting begins.
LEMMA FromStable ==
  ASSUME NEW token, NEW n, Extended(token, n), part \in Nat, part' = part,
         several' = several, NEW i \in 1..n + 1
  PROVE  From(i)' = From(i)
BY DelaysStable DEF From

\* A delay moves it, unless the caption has parts.
LEMMA FromNext ==
  ASSUME NEW token, NEW n, Extended(token, n), part \in 0..n, part' = part,
         several' = several
  PROVE  From(n + 2)' =
           IF token.tag \in Delaying /\ Counts(n + 1)' /\ ~several THEN n + 2
           ELSE From(n + 1)
<1>1. n \in Nat /\ Delays(n + 1) \subseteq 1..n
  BY DelaysRange DEF Extended
<1>2. CASE token.tag \in Delaying /\ Counts(n + 1)'
  <2>1. Delays(n + 2)' = Delays(n + 1) \cup {n + 1}
    BY <1>2, DelaysNext
  <2>2. Max(Delays(n + 1) \cup {n + 1}) = n + 1
    <3>1. Delays(n + 1) \cup {n + 1} \subseteq 1..n + 1
      BY <1>1
    <3> QED BY <1>1, <3>1, MaxIs
  <2>3. Max(Delays(n + 2))' = n + 1
    BY <2>1, <2>2
  <2> QED BY <1>1, <1>2, <2>1, <2>3 DEF From
<1>3. CASE ~(token.tag \in Delaying /\ Counts(n + 1)')
  <2>1. Delays(n + 2)' = Delays(n + 1)
    BY <1>3, DelaysNext
  <2> QED BY <1>3, <2>1 DEF From
<1> QED BY <1>2, <1>3

\* What is meant for a character depends on what comes before it only.
LEMMA UnclosedStable ==
  ASSUME NEW token, NEW n, Extended(token, n), part \in Nat, part' = part,
         several' = several, NEW i \in 1..n + 1
  PROVE  Unclosed(i)' = Unclosed(i)
<1>1. From(i)' = From(i) /\ From(i) \in 1..i
  BY FromStable, DelaysRange DEF Extended
<1> DEFINE Good(j) == \A k \in j..i - 1 :
             NumberOf(Opening, j, k) > NumberOf({"endclr"}, j, k)
<1>2. n \in Nat /\ i - 1 <= n /\ i - 1 \in Int
  BY DEF Extended
<1>3. \A f \in 1..i : Tagged(Opening, f, i - 1)' = Tagged(Opening, f, i - 1)
  BY <1>2, TaggedStable
<1>4. \A j \in 1..i - 1 : Good(j)' <=> Good(j)
  <2> SUFFICES ASSUME NEW j \in 1..i - 1 PROVE Good(j)' <=> Good(j)
    OBVIOUS
  <2>1. \A k \in j..i - 1 :
           /\ NumberOf(Opening, j, k)' = NumberOf(Opening, j, k)
           /\ NumberOf({"endclr"}, j, k)' = NumberOf({"endclr"}, j, k)
    BY <1>2, TaggedStable
  <2> QED BY <2>1
<1>5. Unclosed(i) = {j \in Tagged(Opening, From(i), i - 1) : Good(j)}
  BY DEF Unclosed, Opening
<1>6. Unclosed(i)' = {j \in Tagged(Opening, From(i), i - 1)' : Good(j)'}
  BY DEF Unclosed, Opening
<1>7. Tagged(Opening, From(i), i - 1)' = Tagged(Opening, From(i), i - 1)
  <2>1. PICK f \in 1..i : f = From(i)
    BY <1>1
  <2>2. Tagged(Opening, From(i), i - 1) = Tagged(Opening, f, i - 1)
    BY <2>1
  <2>3. Tagged(Opening, From(i), i - 1)' = Tagged(Opening, f, i - 1)'
    BY <1>1, <2>1 DEF Tagged
  <2> QED BY <1>3, <2>2, <2>3
<1>8. Tagged(Opening, From(i), i - 1) \subseteq 1..i - 1
  BY <1>1 DEF Tagged
<1> HIDE DEF Good
<1> QED BY <1>4, <1>5, <1>6, <1>7, <1>8

\* So does its style.
LEMMA MeantStable ==
  ASSUME NEW token, NEW n, Extended(token, n), part \in Nat, part' = part,
         several' = several, fromPlayer' = fromPlayer, NEW i \in 1..n + 1
  PROVE  Meant(i)' = Meant(i)
<1>1. From(i)' = From(i) /\ From(i) \in 1..i
  BY FromStable, DelaysRange DEF Extended
<1>2. PICK f \in 1..i : f = From(i)
  BY <1>1
<1>3. n \in Nat /\ i - 1 <= n /\ i - 1 \in Int /\ f \in Nat \ {0}
  BY <1>2 DEF Extended
<1>4. \A tag : NumberOf({tag}, f, i - 1)' = NumberOf({tag}, f, i - 1)
  BY <1>3, TaggedStable
<1>5. \A tag : /\ NumberOf({tag}, From(i), i - 1) = NumberOf({tag}, f, i - 1)
               /\ NumberOf({tag}, From(i), i - 1)' = NumberOf({tag}, f, i - 1)'
  BY <1>1, <1>2 DEF NumberOf, Tagged
<1>6. Unclosed(i)' = Unclosed(i)
  BY UnclosedStable
<1>7. Unclosed(i) # {} => /\ Max(Unclosed(i)) \in 1..n
                          /\ Max(Unclosed(i))' = Max(Unclosed(i))
  <2>1. Unclosed(i) \subseteq 1..i - 1
    BY <1>1 DEF Unclosed, Tagged
  <2> QED BY <1>3, <1>6, <2>1, MaxPlace
<1>8. Unclosed(i) # {} =>
        InkOf(raw[Max(Unclosed(i))])' = InkOf(raw[Max(Unclosed(i))])
  BY <1>7 DEF Extended, InkOf
<1> QED BY <1>4, <1>5, <1>6, <1>8 DEF Meant
-----------------------------------------------------------------------------
(* Colours that are open *)

\* What the token does to the number of colours that are open.
Opens(token, n) == token.tag \in Opening /\ Counts(n + 1)'
Closes(token, n) == token.tag = "endclr" /\ Counts(n + 1)'
Change(token, n) == IF Opens(token, n) THEN 1 ELSE IF Closes(token, n) THEN -1 ELSE 0

\* The surplus changes by that and is what it was before.
LEMMA SurplusNext ==
  ASSUME NEW token, NEW n, Extended(token, n), NEW j \in 1..n + 1
  PROVE  /\ Surplus(j, n) \in Int
         /\ Surplus(j, n + 1)' = Surplus(j, n) + Change(token, n)
         /\ \A k \in j..n : Surplus(j, k)' = Surplus(j, k)
<1>1. j \in Nat \ {0} /\ j \in Int /\ n \in Int
  BY DEF Extended
<1>2. /\ NumberOf(Opening, j, n + 1)' = NumberOf(Opening, j, n) +
            (IF Opens(token, n) THEN 1 ELSE 0)
      /\ NumberOf({"endclr"}, j, n + 1)' = NumberOf({"endclr"}, j, n) +
            (IF Closes(token, n) THEN 1 ELSE 0)
  BY TaggedNext DEF Opens, Closes
<1>3. NumberOf(Opening, j, n) \in Nat /\ NumberOf({"endclr"}, j, n) \in Nat
  BY <1>1, TaggedIsFinite
<1>4. ~(Opens(token, n) /\ Closes(token, n))
  BY DEF Opens, Closes, Opening
<1>5. \A k \in j..n : Surplus(j, k)' = Surplus(j, k)
  BY <1>1, TaggedStable DEF Surplus
<1>6. Surplus(j, n + 1)' = Surplus(j, n) + Change(token, n)
  BY <1>2, <1>3, <1>4 DEF Surplus, Change
<1> QED BY <1>3, <1>5, <1>6 DEF Surplus

\* The colours that are open are those opened since with a positive surplus.
UnclosedAsSurplus ==
  \A i \in Nat \ {0} : part \in Nat =>
    /\ Unclosed(i) = {j \in Tagged(Opening, From(i), i - 1) :
                       \A k \in j..i - 1 : Surplus(j, k) > 0}
    /\ Unclosed(i) \subseteq 1..i - 1

\* This is how Unclosed is defined.
LEMMA UnclosedIs == UnclosedAsSurplus
<1> SUFFICES ASSUME NEW i \in Nat \ {0}, part \in Nat
             PROVE  /\ Unclosed(i) = {j \in Tagged(Opening, From(i), i - 1) :
                                        \A k \in j..i - 1 : Surplus(j, k) > 0}
                    /\ Unclosed(i) \subseteq 1..i - 1
  BY DEF UnclosedAsSurplus
<1>1. From(i) \in 1..i
  BY DelaysRange
<1>2. Tagged(Opening, From(i), i - 1) \subseteq 1..i - 1
  BY <1>1 DEF Tagged
<1>3. \A j \in 1..i - 1 : \A k \in j..i - 1 :
        NumberOf(Opening, j, k) > NumberOf({"endclr"}, j, k) <=> Surplus(j, k) > 0
  BY TaggedIsFinite DEF Surplus
<1> QED BY <1>2, <1>3 DEF Unclosed, Opening

\* A closing tag takes away those that are left with no surplus, an opening one is added.
LEMMA UnclosedNext ==
  ASSUME NEW token, NEW n, Extended(token, n), part \in Nat, part' \in Nat,
         From(n + 2)' = From(n + 1)
  PROVE  Unclosed(n + 2)' =
           {j \in Unclosed(n + 1) : Surplus(j, n) + Change(token, n) > 0}
             \cup (IF Opens(token, n) THEN {n + 1} ELSE {})
<1>1. n \in Nat /\ (n + 1) - 1 = n /\ (n + 2) - 1 = n + 1
  BY DEF Extended
<1>2. PICK f \in 1..n + 1 : f = From(n + 1)
  BY <1>1, DelaysRange
<1>3. Unclosed(n + 1) = {j \in Tagged(Opening, f, n) :
                           \A k \in j..n : Surplus(j, k) > 0}
  BY <1>1, <1>2, UnclosedIs DEF UnclosedAsSurplus
<1>4. Unclosed(n + 2)' = {j \in Tagged(Opening, f, n + 1)' :
                            \A k \in j..n + 1 : Surplus(j, k)' > 0}
  <2>1. UnclosedAsSurplus'
    BY UnclosedIs, PTL
  <2>2. (Unclosed(n + 2) = {j \in Tagged(Opening, From(n + 2), n + 1) :
                             \A k \in j..n + 1 : Surplus(j, k) > 0})'
    BY <1>1, <2>1 DEF UnclosedAsSurplus
  <2>3. Tagged(Opening, From(n + 2), n + 1)' = Tagged(Opening, f, n + 1)'
    BY <1>2 DEF Tagged
  <2> QED BY <2>2, <2>3
<1>5. Tagged(Opening, f, n + 1)' = Tagged(Opening, f, n) \cup
        (IF Opens(token, n) THEN {n + 1} ELSE {})
  BY TaggedNext DEF Opens
<1>6. Tagged(Opening, f, n) \subseteq 1..n
  BY DEF Tagged
<1>7. ASSUME NEW j \in 1..n
      PROVE  (\A k \in j..n + 1 : Surplus(j, k)' > 0) <=>
               (\A k \in j..n : Surplus(j, k) > 0) /\ Surplus(j, n) + Change(token, n) > 0
  <2>1. j..n + 1 = (j..n) \cup {n + 1}
    BY <1>1
  <2> QED BY <2>1, SurplusNext
<1>8. Opens(token, n) => \A k \in n + 1..n + 1 : Surplus(n + 1, k)' > 0
  <2>1. Surplus(n + 1, n + 1)' = Surplus(n + 1, n) + Change(token, n)
    BY <1>1, SurplusNext
  <2>2. Surplus(n + 1, n) = 0
    <3>1. Tagged(Opening, n + 1, n) = {} /\ Tagged({"endclr"}, n + 1, n) = {}
      BY <1>1 DEF Tagged
    <3> QED BY <1>1, <3>1, TaggedIsFinite DEF Surplus
  <2>3. \A k \in n + 1..n + 1 : k = n + 1
    BY <1>1
  <2> QED BY <2>1, <2>2, <2>3 DEF Change
<1> QED BY <1>1, <1>3, <1>4, <1>5, <1>6, <1>7, <1>8
-----------------------------------------------------------------------------
(* The stack of colours *)

\* The tag at a place of the stack keeps its ink.
LEMMA InkStable ==
  ASSUME NEW token, NEW n, Extended(token, n), fromPlayer' = fromPlayer,
         NEW m \in Nat, NEW o \in [1..m -> 1..n]
  PROVE  \A d \in 0..m : InkAfter(o, d)' = InkAfter(o, d)
<1> SUFFICES ASSUME NEW d \in 0..m PROVE InkAfter(o, d)' = InkAfter(o, d)
  OBVIOUS
<1>1. CASE d = 0
  BY <1>1 DEF InkAfter
<1>2. CASE d # 0
  <2>1. d \in 1..m /\ o[d] \in 1..n
    BY <1>2
  <2>2. raw'[o[d]] = raw[o[d]]
    BY <2>1 DEF Extended
  <2> QED BY <2>2, <1>2 DEF InkAfter, InkOf
<1> QED BY <1>1, <1>2

\* Every colour on the stack is opened once more than it is closed.
LEMMA SurplusPositive ==
  ASSUME NEW n \in Nat, NEW m \in Nat, NEW o \in [1..m -> 1..n], StackOf(o, m, n)
  PROVE  \A j \in Unclosed(n + 1) : Surplus(j, n) \in Nat \ {0}
<1> SUFFICES ASSUME NEW j \in Unclosed(n + 1) PROVE Surplus(j, n) \in Nat \ {0}
  OBVIOUS
<1>1. PICK d \in 1..m : j = o[d]
  BY DEF StackOf
<1>2. Surplus(o[d], n) = m - d + 1
  BY DEF StackOf
<1> QED BY <1>1, <1>2

\* A token that neither opens nor closes a colour and does not end the formatting.
LEMMA StackKept ==
  ASSUME NEW token, NEW n, Extended(token, n), part \in Nat, part' \in Nat,
         From(n + 2)' = From(n + 1), fromPlayer' = fromPlayer,
         ~Opens(token, n), ~Closes(token, n),
         stack' = stack, style'.ink = style.ink, stack \in Seq(Colours), StackInv
  PROVE  StackInv'
<1>1. n \in Nat /\ Len(raw) = n /\ Len(raw)' = n + 1 /\ (n + 1) + 1 = n + 2
  BY DEF Extended
<1>2. PICK m \in Nat : m = Len(stack) /\ m = Len(stack)'
  OBVIOUS
<1>3. PICK o \in [1..m -> 1..n] : StackOf(o, m, n)
  BY <1>1, <1>2 DEF StackInv
<1>4. Unclosed(n + 2)' = Unclosed(n + 1)
  <2>1. \A j \in Unclosed(n + 1) : Surplus(j, n) \in Nat \ {0}
    BY <1>1, <1>3, SurplusPositive
  <2>2. Unclosed(n + 2)' =
           {j \in Unclosed(n + 1) : Surplus(j, n) + Change(token, n) > 0}
             \cup (IF Opens(token, n) THEN {n + 1} ELSE {})
    BY UnclosedNext
  <2>3. Change(token, n) \in {0, 1}
    BY DEF Change
  <2>4. \A j \in Unclosed(n + 1) : Surplus(j, n) + Change(token, n) > 0
    BY <2>1, <2>3
  <2> QED BY <2>2, <2>4
<1>5. \A d \in 1..m : Surplus(o[d], n + 1)' = Surplus(o[d], n)
  BY <1>1, <1>3, SurplusNext DEF Change
<1>6. \A d \in 0..m : InkAfter(o, d)' = InkAfter(o, d)
  BY <1>3, InkStable
<1>7. o \in [1..m -> 1..n + 1]
  BY <1>1, <1>3
<1>8. StackOf(o, m, n + 1)'
  <2>1. \A d \in 1..m : stack'[d] = InkAfter(o, d - 1)'
    BY <1>3, <1>6 DEF StackOf
  <2>2. style'.ink = InkAfter(o, m)'
    BY <1>3, <1>6 DEF StackOf
  <2> QED BY <1>1, <1>3, <1>4, <1>5, <1>7, <2>1, <2>2 DEF StackOf
<1> QED BY <1>1, <1>2, <1>7, <1>8 DEF StackInv

\* A colour tag.
LEMMA StackPushed ==
  ASSUME NEW token, NEW n, Extended(token, n), part \in Nat, part' \in Nat,
         From(n + 2)' = From(n + 1), fromPlayer' = fromPlayer, Opens(token, n),
         stack' = Append(stack, style.ink), style'.ink = InkOf(token),
         stack \in Seq(Colours), style.ink \in Colours, StackInv
  PROVE  StackInv'
<1>1. n \in Nat /\ Len(raw) = n /\ Len(raw)' = n + 1 /\ (n + 1) + 1 = n + 2
      /\ raw'[n + 1] = token
  BY DEF Extended
<1>2. PICK m \in Nat : m = Len(stack)
  OBVIOUS
<1>a. /\ Len(stack)' = m + 1 /\ stack'[m + 1] = style.ink
      /\ \A d \in 1..m : stack'[d] = stack[d]
  BY <1>2, AppendProperties
<1>3. PICK o \in [1..m -> 1..n] : StackOf(o, m, n)
  BY <1>1, <1>2 DEF StackInv
<1> DEFINE u == [d \in 1..m + 1 |-> IF d = m + 1 THEN n + 1 ELSE o[d]]
<1>b. /\ u \in [1..m + 1 -> 1..n + 1] /\ u[m + 1] = n + 1
      /\ \A d \in 1..m : u[d] = o[d] /\ u[d] \in 1..n
      /\ 1..m + 1 = (1..m) \cup {m + 1}
  BY <1>1, <1>3
<1> HIDE DEF u
<1>4. Unclosed(n + 2)' = Unclosed(n + 1) \cup {n + 1}
  <2>1. \A j \in Unclosed(n + 1) : Surplus(j, n) \in Nat \ {0}
    BY <1>1, <1>3, SurplusPositive
  <2>2. Unclosed(n + 2)' =
           {j \in Unclosed(n + 1) : Surplus(j, n) + Change(token, n) > 0}
             \cup (IF Opens(token, n) THEN {n + 1} ELSE {})
    BY UnclosedNext
  <2>3. Change(token, n) \in {0, 1}
    BY DEF Change
  <2>4. \A j \in Unclosed(n + 1) : Surplus(j, n) + Change(token, n) > 0
    BY <2>1, <2>3
  <2> QED BY <2>2, <2>4
<1>5. \A d \in 1..m : Surplus(u[d], n + 1)' = m - d + 2
  <2> SUFFICES ASSUME NEW d \in 1..m PROVE Surplus(u[d], n + 1)' = m - d + 2
    OBVIOUS
  <2>1. PICK j \in 1..n : j = o[d] /\ j = u[d]
    BY <1>b
  <2>a. j \in 1..n + 1 /\ Change(token, n) = 1
    BY <1>1 DEF Change
  <2>2. Surplus(j, n + 1)' = Surplus(j, n) + 1
    BY <2>a, SurplusNext
  <2>3. Surplus(j, n) = m - d + 1
    BY <1>3, <2>1 DEF StackOf
  <2>4. Surplus(u[d], n + 1)' = Surplus(j, n + 1)'
    BY <2>1
  <2> QED BY <2>2, <2>3, <2>4
<1>6. Surplus(u[m + 1], n + 1)' = 1
  <2>1. Surplus(n + 1, n + 1)' = Surplus(n + 1, n) + 1
    BY <1>1, SurplusNext DEF Change
  <2>2. Surplus(n + 1, n) = 0
    <3>1. Tagged(Opening, n + 1, n) = {} /\ Tagged({"endclr"}, n + 1, n) = {}
      BY <1>1 DEF Tagged
    <3>2. NumberOf(Opening, n + 1, n) = 0 /\ NumberOf({"endclr"}, n + 1, n) = 0
      BY <1>1, <3>1, TaggedIsFinite
    <3> QED BY <3>2 DEF Surplus
  <2> QED BY <2>1, <2>2, <1>b
<1>7. \A d \in 0..m : InkAfter(u, d)' = InkAfter(o, d)
  <2>1. \A d \in 0..m : InkAfter(o, d)' = InkAfter(o, d)
    BY <1>3, InkStable
  <2>2. \A d \in 0..m : InkAfter(u, d)' = InkAfter(o, d)'
    BY <1>b DEF InkAfter
  <2> QED BY <2>1, <2>2
<1>8. InkAfter(u, m + 1)' = InkOf(token)
  BY <1>1, <1>b DEF InkAfter, InkOf
<1>9. StackOf(u, m + 1, n + 1)'
  <2>1. \A d \in 1..m + 1 : stack'[d] = InkAfter(u, d - 1)'
    <3>1. stack'[m + 1] = InkAfter(u, (m + 1) - 1)'
      BY <1>3, <1>a, <1>7 DEF StackOf
    <3>2. \A d \in 1..m : stack'[d] = InkAfter(u, d - 1)'
      BY <1>3, <1>a, <1>7 DEF StackOf
    <3> QED BY <1>b, <3>1, <3>2
  <2>2. style'.ink = InkAfter(u, m + 1)'
    BY <1>8
  <2>3. {u[d] : d \in 1..m + 1} = Unclosed(n + 2)'
    <3>1. {o[d] : d \in 1..m} = Unclosed(n + 1)
      BY <1>3 DEF StackOf
    <3> QED BY <1>4, <1>b, <3>1
  <2>4. \A d, e \in 1..m + 1 : d < e => u[d] < u[e]
    <3> SUFFICES ASSUME NEW d \in 1..m + 1, NEW e \in 1..m + 1, d < e PROVE u[d] < u[e]
      OBVIOUS
    <3>1. d \in 1..m
      OBVIOUS
    <3>2. CASE e = m + 1
      BY <1>1, <1>b, <3>1, <3>2
    <3>3. CASE e # m + 1
      <4>1. e \in 1..m /\ o[d] < o[e]
        BY <1>3, <3>1, <3>3 DEF StackOf
      <4> QED BY <1>b, <3>1, <4>1
    <3> QED BY <3>2, <3>3
  <2>5. \A d \in 1..m + 1 : Surplus(u[d], n + 1)' = (m + 1) - d + 1
    BY <1>5, <1>6, <1>b
  <2> QED BY <1>1, <1>b, <2>1, <2>2, <2>3, <2>4, <2>5 DEF StackOf
<1> QED BY <1>1, <1>a, <1>b, <1>9 DEF StackInv

\* A tag that closes one.
LEMMA StackPopped ==
  ASSUME NEW token, NEW n, Extended(token, n), part \in Nat, part' \in Nat,
         From(n + 2)' = From(n + 1), fromPlayer' = fromPlayer,
         Closes(token, n), stack # <<>>,
         style'.ink = Last(stack), stack' = Front(stack),
         stack \in Seq(Colours), StackInv
  PROVE  StackInv'
<1>1. n \in Nat /\ Len(raw) = n /\ Len(raw)' = n + 1 /\ (n + 1) + 1 = n + 2
  BY DEF Extended
<1>2. PICK m \in Nat \ {0} : m = Len(stack)
  BY EmptySeq
<1>a. /\ Len(stack)' = m - 1 /\ \A d \in 1..m - 1 : stack'[d] = stack[d]
      /\ style'.ink = stack[m]
  BY <1>2 DEF Front, Last
<1>3. PICK o \in [1..m -> 1..n] : StackOf(o, m, n)
  BY <1>1, <1>2 DEF StackInv
<1> DEFINE u == [d \in 1..m - 1 |-> o[d]]
<1>b. /\ u \in [1..m - 1 -> 1..n + 1]
      /\ \A d \in 1..m - 1 : u[d] = o[d] /\ u[d] \in 1..n
      /\ 1..m = (1..m - 1) \cup {m}
  BY <1>1, <1>3
<1> HIDE DEF u
<1>c. ~Opens(token, n)
  BY DEF Opens, Closes, Opening
<1>4. Unclosed(n + 2)' = {u[d] : d \in 1..m - 1}
  <2>1. Unclosed(n + 2)' = {j \in Unclosed(n + 1) : Surplus(j, n) + (-1) > 0}
    BY <1>c, UnclosedNext DEF Change
  <2>2. \A d \in 1..m : Surplus(o[d], n) + (-1) > 0 <=> d \in 1..m - 1
    BY <1>3 DEF StackOf
  <2>3. Unclosed(n + 1) = {o[d] : d \in 1..m}
    BY <1>3 DEF StackOf
  <2> QED BY <1>b, <2>1, <2>2, <2>3
<1>5. \A d \in 1..m - 1 : Surplus(u[d], n + 1)' = (m - 1) - d + 1
  <2> SUFFICES ASSUME NEW d \in 1..m - 1
               PROVE Surplus(u[d], n + 1)' = (m - 1) - d + 1
    OBVIOUS
  <2>1. PICK j \in 1..n : j = o[d] /\ j = u[d]
    BY <1>b
  <2>a. j \in 1..n + 1 /\ Change(token, n) = -1
    BY <1>1, <1>c DEF Change
  <2>2. Surplus(j, n + 1)' = Surplus(j, n) + (-1)
    BY <2>a, SurplusNext
  <2>b. d \in 1..m
    OBVIOUS
  <2>3. Surplus(j, n) = m - d + 1
    BY <1>3, <2>1, <2>b DEF StackOf
  <2>4. Surplus(u[d], n + 1)' = Surplus(j, n + 1)'
    BY <2>1
  <2> QED BY <2>2, <2>3, <2>4
<1>7. \A d \in 0..m - 1 : InkAfter(u, d)' = InkAfter(o, d)
  <2>1. \A d \in 0..m : InkAfter(o, d)' = InkAfter(o, d)
    BY <1>3, InkStable
  <2>2. \A d \in 0..m - 1 : InkAfter(u, d)' = InkAfter(o, d)'
    BY <1>b DEF InkAfter
  <2> QED BY <2>1, <2>2
<1>9. StackOf(u, m - 1, n + 1)'
  <2>1. \A d \in 1..m - 1 : stack'[d] = InkAfter(u, d - 1)'
    <3> SUFFICES ASSUME NEW d \in 1..m - 1 PROVE stack'[d] = InkAfter(u, d - 1)'
      OBVIOUS
    <3>1. PICK e \in 0..m - 1 : e = d - 1
      OBVIOUS
    <3>2. stack[d] = InkAfter(o, e)
      BY <1>3, <3>1 DEF StackOf
    <3>3. InkAfter(u, e)' = InkAfter(o, e)
      BY <1>7
    <3> QED BY <1>a, <3>1, <3>2, <3>3
  <2>2. style'.ink = InkAfter(u, m - 1)'
    BY <1>3, <1>a, <1>7 DEF StackOf
  <2>4. \A d, e \in 1..m - 1 : d < e => u[d] < u[e]
    BY <1>1, <1>3, <1>b DEF StackOf
  <2> QED BY <1>1, <1>4, <1>5, <1>b, <2>1, <2>2, <2>4 DEF StackOf
<1> QED BY <1>1, <1>a, <1>b, <1>9 DEF StackInv

\* No colour is open.
LEMMA StackEmpty ==
  ASSUME NEW token, NEW n, Extended(token, n), Unclosed(n + 2)' = {},
         style'.ink = ConfigInk, stack' = <<>>
  PROVE  StackInv'
<1>1. n \in Nat /\ Len(raw)' = n + 1 /\ (n + 1) + 1 = n + 2
  BY DEF Extended
<1> DEFINE u == [d \in 1..0 |-> n]
<1>2. u \in [1..0 -> 1..n + 1] /\ 1..0 = {} /\ Len(stack)' = 0
  BY <1>1
<1>3. StackOf(u, 0, n + 1)'
  <2> HIDE DEF u
  <2> QED BY <1>1, <1>2 DEF StackOf, InkAfter
<1> QED BY <1>1, <1>2, <1>3 DEF StackInv
-----------------------------------------------------------------------------
(* The rest of the format *)

\* A tag toggles what it says, and nothing else does.
LEMMA ToggledNext ==
  ASSUME NEW token, NEW n, Extended(token, n), part \in Nat, part' \in Nat,
         From(n + 2)' = From(n + 1), NEW t
  PROVE  Toggled(t, n + 1)' <=>
           IF token.tag = t /\ Counts(n + 1)' THEN ~Toggled(t, n) ELSE Toggled(t, n)
<1>1. n \in Nat /\ From(n + 1) \in 1..n + 1
  BY DelaysRange DEF Extended
<1>2. PICK f \in 1..n + 1 : f = From(n + 1)
  BY <1>1
<1>3. NumberOf({t}, f, n + 1)' = NumberOf({t}, f, n) +
        (IF token.tag = t /\ Counts(n + 1)' THEN 1 ELSE 0)
  BY TaggedNext
<1>4. NumberOf({t}, f, n) \in Nat
  BY <1>1, TaggedIsFinite
<1>5. Toggled(t, n) <=> NumberOf({t}, f, n) % 2 = 1
  BY <1>2 DEF Toggled
<1>6. Toggled(t, n + 1)' <=> NumberOf({t}, f, n + 1)' % 2 = 1
  <2>1. (n + 1) + 1 = n + 2
    BY <1>1
  <2>2. From((n + 1) + 1)' = f
    BY <1>2, <2>1
  <2> QED BY <2>2 DEF Toggled, NumberOf, Tagged
<1> QED BY <1>3, <1>4, <1>5, <1>6

\* The delay of the next place changes with a delay that counts only.
LEMMA DueNext ==
  ASSUME NEW token, NEW n, Extended(token, n), part \in 0..n, part' = part
  PROVE  DueAt(n + 2)' = IF token.tag \in Delaying /\ Counts(n + 1)' THEN token.delay
                         ELSE DueAt(n + 1)
<1>1. n \in Nat /\ Delays(n + 1) \subseteq 1..n
      /\ \A i \in 1..n : raw'[i] = raw[i] /\ raw'[n + 1] = token
  BY DelaysRange DEF Extended
<1>2. CASE token.tag \in Delaying /\ Counts(n + 1)'
  <2>1. Delays(n + 2)' = Delays(n + 1) \cup {n + 1}
    BY <1>2, DelaysNext
  <2>2. Max(Delays(n + 1) \cup {n + 1}) = n + 1
    <3>1. Delays(n + 1) \cup {n + 1} \subseteq 1..n + 1
      BY <1>1
    <3> QED BY <1>1, <3>1, MaxIs
  <2>3. Max(Delays(n + 2))' = n + 1
    BY <2>1, <2>2
  <2>4. raw'[n + 1] = token
    BY DEF Extended
  <2> QED BY <1>2, <2>1, <2>3, <2>4 DEF DueAt
<1>3. CASE ~(token.tag \in Delaying /\ Counts(n + 1)')
  <2>1. Delays(n + 2)' = Delays(n + 1)
    BY <1>3, DelaysNext
  <2>2. CASE Delays(n + 1) = {}
    BY <1>3, <2>1, <2>2 DEF DueAt
  <2>3. CASE Delays(n + 1) # {}
    <3>1. PICK k \in 1..n : k = Max(Delays(n + 1)) /\ k = Max(Delays(n + 2))'
      BY <1>1, <2>1, <2>3, MaxPlace
    <3>2. raw'[k] = raw[k]
      BY <1>1
    <3> QED BY <1>3, <2>1, <2>3, <3>1, <3>2 DEF DueAt
  <2> QED BY <2>2, <2>3
<1> QED BY <1>2, <1>3

\* What a token that keeps the format does to it.
LEMMA FormatQuiet ==
  ASSUME NEW token, NEW n, Extended(token, n), TypeOK, FormatInv,
         part' = part, delay' = delay, several' = several, fromPlayer' = fromPlayer,
         style' = style, stack' = stack,
         Counts(n + 1)' => token.tag \notin Opening \cup Delaying \cup {"endclr", "bold", "italic"}
  PROVE  FormatInv'
<1>1. n \in Nat /\ Len(raw) = n /\ Len(raw)' = n + 1 /\ (n + 1) + 1 = n + 2
  BY DEF Extended
<1>2. /\ part \in 0..n /\ StackInv
      /\ style.bold = Toggled("bold", n) /\ style.italic = Toggled("italic", n)
      /\ delay = DueAt(n + 1)
  BY <1>1 DEF FormatInv
<1>3. From(n + 2)' = From(n + 1)
  BY <1>2, FromNext
<1>4. StackInv'
  <2>1. ~Opens(token, n) /\ ~Closes(token, n)
    BY DEF Opens, Closes
  <2> QED BY <1>2, <1>3, <2>1, StackKept DEF TypeOK
<1>5. /\ Toggled("bold", n + 1)' <=> Toggled("bold", n)
      /\ Toggled("italic", n + 1)' <=> Toggled("italic", n)
  BY <1>2, <1>3, ToggledNext
<1>6. DueAt(n + 2)' = DueAt(n + 1)
  BY <1>2, DueNext
<1>7. part' \in 0..n + 1
  BY <1>1, <1>2
<1> QED BY <1>1, <1>2, <1>4, <1>5, <1>6, <1>7 DEF FormatInv, Toggled

\* What a tag that counts and ends no formatting does to it.
LEMMA FormatTag ==
  ASSUME NEW token, NEW n, Extended(token, n), TypeOK, FormatInv,
         part' = part, delay' = delay, several' = several, fromPlayer' = fromPlayer,
         Counts(n + 1)', token.tag \notin Delaying, 
         \/ /\ token.tag \in Opening
            /\ stack' = Append(stack, style.ink)
            /\ style'.ink = InkOf(token)
            /\ style'.bold = style.bold /\ style'.italic = style.italic
         \/ EndColour(token)
         \/ Toggle(token)
  PROVE  FormatInv'
<1>1. n \in Nat /\ Len(raw) = n /\ Len(raw)' = n + 1 /\ (n + 1) + 1 = n + 2
  BY DEF Extended
<1>2. /\ part \in 0..n /\ StackInv
      /\ style.bold = Toggled("bold", n) /\ style.italic = Toggled("italic", n)
      /\ delay = DueAt(n + 1)
  BY <1>1 DEF FormatInv
<1>3. From(n + 2)' = From(n + 1)
  BY <1>2, FromNext
<1>a. part \in Nat /\ part' \in Nat /\ stack \in Seq(Colours) /\ style \in Style
  BY <1>2 DEF TypeOK
<1>b. /\ (token.tag = "bold") => (Toggled("bold", n + 1)' <=> ~Toggled("bold", n))
      /\ (token.tag # "bold") => (Toggled("bold", n + 1)' <=> Toggled("bold", n))
      /\ (token.tag = "italic") => (Toggled("italic", n + 1)' <=> ~Toggled("italic", n))
      /\ (token.tag # "italic") => (Toggled("italic", n + 1)' <=> Toggled("italic", n))
  BY <1>3, <1>a, ToggledNext
<1>6. DueAt(n + 2)' = DueAt(n + 1)
  BY <1>2, DueNext
<1>7. part' \in 0..n + 1
  BY <1>1, <1>2
<1>8. ASSUME StackInv', style'.bold = Toggled("bold", n + 1)',
             style'.italic = Toggled("italic", n + 1)'
      PROVE  FormatInv'
  BY <1>1, <1>2, <1>6, <1>7, <1>8 DEF FormatInv, Toggled
<1>9. CASE /\ token.tag \in Opening
           /\ stack' = Append(stack, style.ink)
           /\ style'.ink = InkOf(token)
           /\ style'.bold = style.bold /\ style'.italic = style.italic
  <2>1. Opens(token, n) /\ token.tag # "bold" /\ token.tag # "italic"
    BY <1>9 DEF Opens, Opening
  <2>2. style'.ink = InkOf(token) /\ style.ink \in Colours
        /\ style'.bold = style.bold /\ style'.italic = style.italic
    BY <1>9, <1>a DEF Style
  <2>3. StackInv'
    BY <1>2, <1>3, <1>9, <1>a, <2>1, <2>2, StackPushed
  <2> QED BY <1>2, <1>8, <1>b, <2>1, <2>2, <2>3 DEF Toggled
<1>10. CASE EndColour(token)
  <2>1. /\ Closes(token, n) /\ ~Opens(token, n)
        /\ token.tag # "bold" /\ token.tag # "italic"
    BY <1>10 DEF Closes, Opens, EndColour, Opening
  <2>2. style'.bold = style.bold /\ style'.italic = style.italic
    BY <1>10, <1>a DEF Style, EndColour
  <2>3. CASE stack # <<>>
    <3>1. style'.ink = Last(stack) /\ stack' = Front(stack)
      BY <1>10, <1>a, <2>3 DEF Style, EndColour
    <3>2. StackInv'
      BY <1>2, <1>3, <1>a, <2>1, <2>3, <3>1, StackPopped
    <3> QED BY <1>2, <1>8, <1>b, <2>1, <2>2, <3>2 DEF Toggled
  <2>4. CASE stack = <<>>
    <3>1. style'.ink = ConfigInk /\ stack' = <<>>
      BY <1>10, <1>a, <2>4 DEF Style, EndColour
    <3>2. Unclosed(n + 1) = {}
      <4>1. Len(stack) = 0 /\ 1..0 = {}
        BY <2>4
      <4>2. PICK o \in [1..0 -> 1..n] : StackOf(o, 0, n)
        BY <1>1, <1>2, <4>1 DEF StackInv
      <4> QED BY <4>1, <4>2 DEF StackOf
    <3>3. Unclosed(n + 2)' = {}
      BY <1>3, <1>a, <2>1, <3>2, UnclosedNext
    <3>4. StackInv'
      BY <3>1, <3>3, StackEmpty
    <3> QED BY <1>2, <1>8, <1>b, <2>1, <2>2, <3>4 DEF Toggled
  <2> QED BY <2>3, <2>4
<1>11. CASE Toggle(token)
  <2>1. /\ ~Opens(token, n) /\ ~Closes(token, n) /\ token.tag \in {"bold", "italic"}
        /\ stack' = stack
    BY <1>11 DEF Opens, Closes, Toggle, Opening
  <2>2. /\ style'.ink = style.ink
        /\ style'.bold = IF token.tag = "bold" THEN ~style.bold ELSE style.bold
        /\ style'.italic = IF token.tag = "italic" THEN ~style.italic ELSE style.italic
    BY <1>11, <1>a DEF Toggle, Style
  <2>3. StackInv'
    BY <1>2, <1>3, <1>a, <2>1, <2>2, StackKept
  <2> QED BY <1>2, <1>8, <1>b, <2>1, <2>2, <2>3 DEF Toggled
<1> QED BY <1>9, <1>10, <1>11

\* A delay and a new part.
LEMMA FormatDelay ==
  ASSUME NEW token, NEW n, Extended(token, n), TypeOK, FormatInv, Counts(n + 1)',
         several' = several, fromPlayer' = fromPlayer, Delay(token)
  PROVE  FormatInv'
<1>1. n \in Nat /\ Len(raw) = n /\ Len(raw)' = n + 1 /\ (n + 1) + 1 = n + 2
  BY DEF Extended
<1>2. /\ part \in 0..n /\ StackInv
      /\ style.bold = Toggled("bold", n) /\ style.italic = Toggled("italic", n)
      /\ delay = DueAt(n + 1)
  BY <1>1 DEF FormatInv
<1>3. /\ token.tag \in Delaying /\ part' = part /\ delay' = token.delay
      /\ ~Opens(token, n) /\ ~Closes(token, n)
      /\ IF several THEN style' = style /\ stack' = stack ELSE style' = NoStyle /\ stack' = <<>>
  BY DEF Delay, Delaying, StartPhrase, Opens, Closes, Opening, format
<1>4. DueAt(n + 2)' = token.delay
  BY <1>2, <1>3, DueNext
<1>5. part' \in 0..n + 1
  BY <1>1, <1>2, <1>3
<1>6. From(n + 2)' = IF several THEN From(n + 1) ELSE n + 2
  BY <1>2, <1>3, FromNext DEF From
<1>7. CASE several
  <2>1. StackInv'
    BY <1>2, <1>3, <1>6, <1>7, StackKept DEF TypeOK
  <2>2. /\ Toggled("bold", n + 1)' <=> Toggled("bold", n)
        /\ Toggled("italic", n + 1)' <=> Toggled("italic", n)
    BY <1>2, <1>3, <1>6, <1>7, ToggledNext DEF Delaying
  <2> QED BY <1>1, <1>2, <1>3, <1>4, <1>5, <1>7, <2>1, <2>2 DEF FormatInv, Toggled
<1>8. CASE ~several
  <2>1. \A tags : Tagged(tags, From(n + 2), n + 1)' = {}
    BY <1>1, <1>6, <1>8 DEF Tagged
  <2>2. Unclosed(n + 2)' = {}
    <3>1. (n + 2) - 1 = n + 1
      BY <1>1
    <3> QED BY <2>1, <3>1 DEF Unclosed
  <2>3. StackInv'
    BY <1>3, <1>8, <2>2, StackEmpty DEF NoStyle
  <2>4. \A t : ~Toggled(t, n + 1)'
    <3>1. \A t : NumberOf({t}, From(n + 2), n + 1)' = 0
      BY <2>1, FS_EmptySet DEF NumberOf
    <3> QED BY <1>1, <3>1 DEF Toggled
  <2>5. style'.bold = FALSE /\ style'.italic = FALSE
    BY <1>3, <1>8 DEF NoStyle
  <2>6. Toggled("bold", n + 1)' = FALSE /\ Toggled("italic", n + 1)' = FALSE
    BY <2>4 DEF Toggled
  <2> QED BY <1>1, <1>3, <1>4, <1>5, <2>3, <2>5, <2>6 DEF FormatInv
<1> QED BY <1>7, <1>8

\* A part starts with the format of the one before, as every place counts from the first.
LEMMA FormatPart ==
  ASSUME NEW token, NEW n, Extended(token, n), TypeOK, FormatInv,
         several' = several, fromPlayer' = fromPlayer, NextPart(token)
  PROVE  FormatInv'
<1>1. n \in Nat /\ Len(raw) = n /\ Len(raw)' = n + 1 /\ (n + 1) + 1 = n + 2
  BY DEF Extended
<1>2. /\ part \in 0..n /\ StackInv
      /\ style.bold = Toggled("bold", n) /\ style.italic = Toggled("italic", n)
      /\ delay = DueAt(n + 1)
  BY <1>1 DEF FormatInv
<1>3. /\ token.tag = "sb" /\ part' = n + 1 /\ delay' = 0 /\ several
      /\ ~Opens(token, n) /\ ~Closes(token, n)
      /\ style' = style /\ stack' = stack
  BY <1>1 DEF NextPart, StartPhrase, Opens, Closes, Opening, format
<1>4. DueAt(n + 2)' = 0
  <2>1. Delays(n + 2)' = {}
    BY <1>1, <1>3 DEF Delays
  <2> QED BY <2>1 DEF DueAt
<1>5. part' \in 0..n + 1
  BY <1>1, <1>3
<1>6. From(n + 2)' = From(n + 1)
  BY <1>3 DEF From
<1>7. StackInv'
  BY <1>2, <1>3, <1>5, <1>6, StackKept DEF TypeOK
<1>8. /\ Toggled("bold", n + 1)' <=> Toggled("bold", n)
      /\ Toggled("italic", n + 1)' <=> Toggled("italic", n)
  BY <1>2, <1>3, <1>5, <1>6, ToggledNext
<1> QED BY <1>1, <1>2, <1>3, <1>4, <1>5, <1>7, <1>8 DEF FormatInv, Toggled
-----------------------------------------------------------------------------
(* The text and the places of a line that grows *)

\* Appending to the text of a run.
LEMMA RunGrows ==
  ASSUME NEW t, NEW s, NEW c
  PROVE  [[text |-> t, style |-> s] EXCEPT !.text = Append(@, c)]
           = [text |-> Append(t, c), style |-> s]
OBVIOUS

\* How a line grows by a character.
Grown(runs, res, c, s, q) ==
  /\ Len(res) = q /\ \A r \in 1..q - 1 : res[r] = runs[r]
  /\ res[q].style = s
  /\ \/ Len(runs) = q - 1 /\ res[q].text = <<c>>
     \/ /\ Len(runs) = q /\ runs[q].style = s
        /\ res[q].text = Append(runs[q].text, c)

\* A character comes at the end of the last run, or makes a run of its own.
LEMMA AddCharIs ==
  ASSUME NEW runs \in Seq(Run), NEW c \in Char, style \in Style, NEW res,
         res = AddChar(runs, c)
  PROVE  /\ res \in Seq(Run)
         /\ \E q \in Nat \ {0} : Grown(runs, res, c, style, q)
<1>1. CASE runs # <<>> /\ Last(runs).style = style
  <2>1. PICK q \in Nat \ {0} : q = Len(runs)
    BY <1>1, EmptySeq
  <2>2. runs[q] \in Run /\ runs[q].style = style
    BY <1>1, <2>1 DEF Last
  <2> DEFINE t == Append(runs[q].text, c)
             w == [text |-> t, style |-> style]
  <2>3. t \in Seq(Char) /\ w \in Run /\ w.text = t /\ w.style = style
    BY <2>2, AppendProperties DEF Run
  <2>4. [runs[q] EXCEPT !.text = Append(@, c)] = w
    <3>1. PICK tt \in Seq(Char), ss \in Style : runs[q] = [text |-> tt, style |-> ss]
      BY <2>2 DEF Run
    <3>2. [[text |-> tt, style |-> ss] EXCEPT !.text = Append(@, c)]
             = [text |-> Append(tt, c), style |-> ss]
      BY RunGrows
    <3>3. runs[q].text = tt /\ runs[q].style = ss
      BY <3>1
    <3>4. [runs[q] EXCEPT !.text = Append(@, c)] = [text |-> Append(tt, c), style |-> ss]
      BY ONLY <3>1, <3>2
    <3>5. ss = style
      BY <2>2, <3>3
    <3> QED BY ONLY <3>3, <3>4, <3>5
  <2> HIDE DEF t
  <2>5. res = [runs EXCEPT ![q] = w]
    <3>1. res = [runs EXCEPT ![q] = [runs[q] EXCEPT !.text = Append(@, c)]]
      BY <1>1, <2>1 DEF AddChar
    <3> QED BY ONLY <2>4, <3>1
  <2> HIDE DEF w
  <2>6. /\ res \in Seq(Run) /\ Len(res) = q
        /\ \A j \in 1..q : res[j] = IF j = q THEN w ELSE runs[j]
    BY ONLY <2>1, <2>3, <2>5, ExceptSeq, runs \in Seq(Run), q \in Nat \ {0}
  <2>7. res[q] = w /\ \A r \in 1..q - 1 : res[r] = runs[r]
    BY <2>6
  <2> QED BY <2>1, <2>2, <2>3, <2>6, <2>7 DEF t, Grown
<1>2. CASE ~(runs # <<>> /\ Last(runs).style = style)
  <2> DEFINE w == [text |-> <<c>>, style |-> style]
  <2>1. w \in Run /\ w.text = <<c>> /\ w.style = style
    BY DEF Run
  <2>2. res = Append(runs, w)
    BY <1>2 DEF AddChar
  <2> HIDE DEF w
  <2>3. PICK q \in Nat \ {0} : Len(runs) = q - 1
    <3>1. Len(runs) + 1 \in Nat \ {0} /\ Len(runs) = (Len(runs) + 1) - 1
      OBVIOUS
    <3> QED BY <3>1
  <2>4. /\ res \in Seq(Run) /\ Len(res) = q /\ res[q] = w
        /\ \A r \in 1..q - 1 : res[r] = runs[r]
    BY <2>1, <2>2, <2>3, AppendProperties
  <2> QED BY <2>1, <2>3, <2>4 DEF Grown
<1> QED BY <1>1, <1>2

\* The texts of the runs of a line.
TextsOf(runs) == [r \in DOMAIN runs |-> runs[r].text]

\* The text of a line is a sequence of characters.
LEMMA TextType ==
  ASSUME NEW runs \in Seq(Run)
  PROVE  TextsOf(runs) \in Seq(Seq(Char)) /\ Text(runs) \in Seq(Char)
         /\ PlacesOf(runs) \in Seq(Nat)
<1>1. TextsOf(runs) \in Seq(Seq(Char))
  <2>0. \A r \in 1..Len(runs) : runs[r] \in Run
    OBVIOUS
  <2>1. \A r \in 1..Len(runs) : runs[r].text \in Seq(Char)
    BY <2>0 DEF Run
  <2> QED BY <2>1 DEF TextsOf
<1>2. Text(runs) \in Seq(Char)
  BY <1>1, FlattenType DEF Text, TextsOf
<1>3. PlacesOf(runs) \in Seq(Nat)
  <2>0. \A k \in 1..Len(Text(runs)) : Text(runs)[k] \in Char
    BY <1>2
  <2>1. \A k \in 1..Len(Text(runs)) : Text(runs)[k].at \in Nat
    BY <2>0 DEF Char
  <2> QED BY <1>2, <2>1 DEF PlacesOf
<1> QED BY <1>1, <1>2, <1>3

\* A character is added to the text of a line, whatever run it goes to.
LEMMA TextAdd ==
  ASSUME NEW runs \in Seq(Run), NEW c \in Char, style \in Style, NEW res,
         res = AddChar(runs, c)
  PROVE  Text(res) = Append(Text(runs), c)
<1>0. res \in Seq(Run)
  BY AddCharIs
<1>1. PICK q \in Nat \ {0} : Grown(runs, res, c, style, q)
  BY AddCharIs
<1>a. /\ Len(res) = q /\ \A r \in 1..q - 1 : res[r] = runs[r]
      /\ \/ Len(runs) = q - 1 /\ res[q].text = <<c>>
         \/ Len(runs) = q /\ res[q].text = Append(runs[q].text, c)
  BY <1>1 DEF Grown
<1>2. /\ TextsOf(runs) \in Seq(Seq(Char)) /\ TextsOf(res) \in Seq(Seq(Char))
      /\ Len(TextsOf(runs)) = Len(runs) /\ Len(TextsOf(res)) = q
      /\ \A r \in 1..Len(runs) : TextsOf(runs)[r] = runs[r].text
      /\ \A r \in 1..q : TextsOf(res)[r] = res[r].text
  <2>1. TextsOf(runs) \in Seq(Seq(Char)) /\ TextsOf(res) \in Seq(Seq(Char))
    BY <1>0, TextType
  <2>2. DOMAIN runs = 1..Len(runs) /\ DOMAIN res = 1..q /\ Len(runs) \in Nat
    BY <1>0, <1>a
  <2> QED BY <2>1, <2>2 DEF TextsOf
<1>3. Text(runs) = FlattenSeq(TextsOf(runs)) /\ Text(res) = FlattenSeq(TextsOf(res))
  BY DEF Text, TextsOf
<1>4. Text(runs) \in Seq(Char)
  BY TextType
<1>5. CASE Len(runs) = q - 1 /\ res[q].text = <<c>>
  <2>1. TextsOf(res) = Append(TextsOf(runs), <<c>>)
    <3>1. <<c>> \in Seq(Char)
      OBVIOUS
    <3>2. Len(TextsOf(runs)) = q - 1 /\ TextsOf(res)[q] = <<c>>
      BY <1>a, <1>2, <1>5, q \in 1..q
    <3>3. ASSUME NEW r \in 1..q - 1 PROVE TextsOf(res)[r] = TextsOf(runs)[r]
      <4>1. r \in 1..Len(runs) /\ r \in 1..q /\ res[r] = runs[r]
        BY <1>a, <1>5
      <4> QED BY <1>2, <4>1
    <3> QED BY <1>2, <3>1, <3>2, <3>3
  <2>2. FlattenSeq(TextsOf(res)) = FlattenSeq(TextsOf(runs)) \o <<c>>
    <3>1. <<c>> \in Seq(Char)
      OBVIOUS
    <3> QED BY <1>2, <2>1, <3>1, FlattenAppend
  <2> QED BY <1>3, <1>4, <2>2
<1>6. CASE Len(runs) = q /\ res[q].text = Append(runs[q].text, c)
  <2> DEFINE front == [r \in 1..q - 1 |-> runs[r].text]
             t == runs[q].text
  <2>1. front \in Seq(Seq(Char)) /\ t \in Seq(Char) /\ Append(t, c) \in Seq(Char)
        /\ Len(front) = q - 1
    <3>0. \A r \in 1..q : runs[r] \in Run
      BY <1>6
    <3>1. \A r \in 1..q : runs[r].text \in Seq(Char)
      BY <3>0 DEF Run
    <3> QED BY <1>a, <3>1, AppendProperties
  <2>2. TextsOf(runs) = Append(front, t)
    BY <1>2, <1>6, <2>1
  <2>3. TextsOf(res) = Append(front, Append(t, c))
    BY <1>a, <1>2, <1>6, <2>1
  <2> HIDE DEF front, t
  <2>4. Text(runs) = FlattenSeq(front) \o t
    BY ONLY <1>3, <2>1, <2>2, FlattenAppend
  <2>5. Text(res) = FlattenSeq(front) \o Append(t, c)
    BY ONLY <1>3, <2>1, <2>3, FlattenAppend
  <2>6. FlattenSeq(front) \in Seq(Char)
    BY <2>1, FlattenType
  <2>7. \A x, y \in Seq(Char) : x \o Append(y, c) = Append(x \o y, c)
    OBVIOUS
  <2> QED BY <2>1, <2>4, <2>5, <2>6, <2>7
<1> QED BY <1>a, <1>5, <1>6

\* Its place is added to the places.
LEMMA PlacesAdd ==
  ASSUME NEW runs \in Seq(Run), NEW c \in Char, style \in Style, NEW res,
         res = AddChar(runs, c)
  PROVE  PlacesOf(res) = Append(PlacesOf(runs), c.at)
<1>1. Text(res) = Append(Text(runs), c) /\ Text(runs) \in Seq(Char)
  BY TextAdd, TextType
<1> QED BY <1>1 DEF PlacesOf

\* Where nothing is there are no places.
LEMMA PlacesEmpty == PlacesOf(<<>>) = <<>> /\ PlacesIn(<<>>) = <<>> /\ PlacesAmong(<<>>) = <<>>
<1>1. FlattenSeq(<<>>) = <<>>
  BY FlattenEmpty
<1>2. DOMAIN <<>> = {}
  OBVIOUS
<1>3. \A f : DOMAIN f = {} => TRUE
  OBVIOUS
<1>4. [r \in DOMAIN <<>> |-> <<>>[r].text] = <<>>
  OBVIOUS
<1>5. Text(<<>>) = <<>>
  BY <1>1, <1>4 DEF Text
<1>6. PlacesOf(<<>>) = <<>>
  BY <1>5 DEF PlacesOf
<1>7. [l \in DOMAIN <<>> |-> PlacesOf(<<>>[l])] = <<>>
  OBVIOUS
<1>8. [p \in DOMAIN <<>> |-> PlacesIn(<<>>[p].lines)] = <<>>
  OBVIOUS
<1> QED BY <1>1, <1>6, <1>7, <1>8 DEF PlacesIn, PlacesAmong

\* Places are numbers.
LEMMA PlacesInType ==
  ASSUME NEW ls \in Seq(Seq(Run))
  PROVE  /\ [l \in DOMAIN ls |-> PlacesOf(ls[l])] \in Seq(Seq(Nat))
         /\ PlacesIn(ls) \in Seq(Nat)
<1>1. \A l \in 1..Len(ls) : PlacesOf(ls[l]) \in Seq(Nat)
  BY TextType
<1>2. [l \in DOMAIN ls |-> PlacesOf(ls[l])] \in Seq(Seq(Nat))
  BY <1>1
<1> QED BY <1>2, FlattenType DEF PlacesIn

\* The places of lines are those of each after those before.
LEMMA PlacesInAppend ==
  ASSUME NEW ls \in Seq(Seq(Run)), NEW l \in Seq(Run)
  PROVE  PlacesIn(Append(ls, l)) = PlacesIn(ls) \o PlacesOf(l)
<1> DEFINE P(s) == [k \in DOMAIN s |-> PlacesOf(s[k])]
<1>1. P(ls) \in Seq(Seq(Nat)) /\ PlacesOf(l) \in Seq(Nat)
  BY PlacesInType, TextType
<1>2. P(Append(ls, l)) = Append(P(ls), PlacesOf(l))
  OBVIOUS
<1>3. PlacesIn(ls) = FlattenSeq(P(ls)) /\ PlacesIn(Append(ls, l)) = FlattenSeq(P(Append(ls, l)))
  BY DEF PlacesIn
<1> HIDE DEF P
<1> QED BY <1>1, <1>2, <1>3, FlattenAppend

\* Places of phrases are numbers, too.
LEMMA PlacesAmongType ==
  ASSUME NEW ps \in Seq(Phrase)
  PROVE  /\ [p \in DOMAIN ps |-> PlacesIn(ps[p].lines)] \in Seq(Seq(Nat))
         /\ PlacesAmong(ps) \in Seq(Nat)
<1>0. \A p \in 1..Len(ps) : ps[p] \in Phrase
  OBVIOUS
<1>1. \A p \in 1..Len(ps) : PlacesIn(ps[p].lines) \in Seq(Nat)
  BY <1>0, PlacesInType DEF Phrase
<1>2. [p \in DOMAIN ps |-> PlacesIn(ps[p].lines)] \in Seq(Seq(Nat))
  BY <1>1
<1> QED BY <1>2, FlattenType DEF PlacesAmong

\* The places of phrases are those of each after those before.
LEMMA PlacesAmongAppend ==
  ASSUME NEW ps \in Seq(Phrase), NEW ph \in Phrase
  PROVE  PlacesAmong(Append(ps, ph)) = PlacesAmong(ps) \o PlacesIn(ph.lines)
<1> DEFINE P(s) == [k \in DOMAIN s |-> PlacesIn(s[k].lines)]
<1>1. P(ps) \in Seq(Seq(Nat)) /\ PlacesIn(ph.lines) \in Seq(Nat)
  BY PlacesAmongType, PlacesInType DEF Phrase
<1>2. P(Append(ps, ph)) = Append(P(ps), PlacesIn(ph.lines))
  OBVIOUS
<1>3. /\ PlacesAmong(ps) = FlattenSeq(P(ps))
      /\ PlacesAmong(Append(ps, ph)) = FlattenSeq(P(Append(ps, ph)))
  BY DEF PlacesAmong
<1> HIDE DEF P
<1> QED BY <1>1, <1>2, <1>3, FlattenAppend
-----------------------------------------------------------------------------
(* Each character has the style meant for it *)

\* Next for one token.
TokenStep(token) ==
  \/ ReadChar(token) \/ Swallow(token) \/ OpenTag(token)
  \/ Colour(token) \/ PlayerColour(token) \/ BadColour(token) \/ EndColour(token)
  \/ Toggle(token) \/ OtherTag(token) \/ BreakLine(token)
  \/ Delay(token) \/ DelayWithin(token) \/ NextPart(token)

\* The format of a character that comes next is the format meant for it.
LEMMA MeantNow ==
  ASSUME TypeOK, FormatInv, NEW n \in Nat, n = Len(raw)
  PROVE  style = Meant(n + 1)
<1>1. PICK m \in Nat : m = Len(stack)
  BY DEF TypeOK
<1>2. PICK o \in [1..m -> 1..n] : StackOf(o, m, n)
  BY <1>1 DEF FormatInv, StackInv
<1>3. style.ink = Meant(n + 1).ink
  <2>1. Unclosed(n + 1) = {o[d] : d \in 1..m} /\ style.ink = InkAfter(o, m)
    BY <1>2 DEF StackOf
  <2>2. CASE m = 0
    <3>1. Unclosed(n + 1) = {}
      BY <2>1, <2>2
    <3> QED BY <2>1, <2>2, <3>1 DEF InkAfter, Meant
  <2>3. CASE m # 0
    <3>1. m \in 1..m
      BY <2>3
    <3>2. ASSUME NEW d \in 1..m PROVE o[d] <= o[m]
      <4>1. d < m => o[d] < o[m]
        BY <1>2, <3>1 DEF StackOf
      <4>2. o[d] \in 1..n /\ o[m] \in 1..n /\ (d < m \/ d = m)
        BY <3>1
      <4> QED BY <4>1, <4>2
    <3>3. Unclosed(n + 1) \subseteq 1..n /\ o[m] \in Unclosed(n + 1)
      BY <2>1, <3>1
    <3>4. \A x \in Unclosed(n + 1) : x <= o[m]
      BY <2>1, <3>2
    <3>5. Max(Unclosed(n + 1)) = o[m]
      BY <3>3, <3>4, MaxIs
    <3> QED BY <2>1, <2>3, <3>3, <3>5 DEF InkAfter, Meant
  <2> QED BY <2>2, <2>3
<1>4. style.bold = Meant(n + 1).bold /\ style.italic = Meant(n + 1).italic
  <2>1. (n + 1) - 1 = n
    OBVIOUS
  <2> QED BY <2>1 DEF FormatInv, Toggled, Meant
<1>5. PICK k \in Colours, b \in BOOLEAN, i \in BOOLEAN :
        style = [ink |-> k, bold |-> b, italic |-> i]
  BY DEF TypeOK, Style
<1>6. PICK k2, b2, i2 : Meant(n + 1) = [ink |-> k2, bold |-> b2, italic |-> i2]
  BY DEF Meant
<1> QED BY <1>3, <1>4, <1>5, <1>6

\* Which tokens count, and which the format is kept by.
LEMMA FormatStep ==
  ASSUME Inv, OpenInv, FormatInv, NEW token \in Tokens, TokenStep(token)
  PROVE  FormatInv'
<1>1. TypeOK /\ open \in {"nothing", "line", "delay"}
  BY DEF Inv, TypeOK
<1>2. PICK n \in Nat : Extended(token, n)
  BY StepOpen DEF TokenStep
<1>3. Counts(n + 1)' <=>
        \/ open = "nothing" \/ token.tag = "sb"
        \/ open = "line" /\ token.tag \in Breaking
  BY <1>1, <1>2, NewCounts
<1>4. several' = several /\ fromPlayer' = fromPlayer
  BY DEF TokenStep, ReadChar, Swallow, OpenTag, Colour, PlayerColour, BadColour, EndColour,
         Toggle, OtherTag, BreakLine, Delay, DelayWithin, NextPart, ReadTag, Read, given
<1>5. CASE \/ ReadChar(token) \/ OpenTag(token) \/ BadColour(token) \/ OtherTag(token)
           \/ BreakLine(token) \/ DelayWithin(token) \/ Swallow(token)
  <2>1. part' = part /\ delay' = delay /\ style' = style /\ stack' = stack
    BY <1>5 DEF ReadChar, OpenTag, BadColour, OtherTag, BreakLine, DelayWithin, Swallow,
                ReadTag, format
  <2>2. Counts(n + 1)' =>
          token.tag \notin Opening \cup Delaying \cup {"endclr", "bold", "italic"}
    BY <1>1, <1>3, <1>5
    DEF ReadChar, OpenTag, BadColour, OtherTag, BreakLine, DelayWithin, Swallow,
        ReadTag, Chars, Opening, Delaying, Breaking
  <2> QED BY <1>1, <1>2, <1>4, <2>1, <2>2, FormatQuiet
<1>6. CASE Colour(token) \/ PlayerColour(token)
  <2>1. /\ part' = part /\ delay' = delay /\ open = "nothing"
        /\ token.tag \in Opening /\ token.tag \notin Delaying
    BY <1>6 DEF Colour, PlayerColour, ReadTag, Opening, Delaying
  <2>2. /\ stack' = Append(stack, style.ink) /\ style'.ink = InkOf(token)
        /\ style'.bold = style.bold /\ style'.italic = style.italic
    BY <1>1, <1>6 DEF Colour, PlayerColour, Push, InkOf, TypeOK, Style
  <2> QED BY <1>1, <1>2, <1>3, <1>4, <2>1, <2>2, FormatTag
<1>7. CASE EndColour(token) \/ Toggle(token)
  <2>1. /\ part' = part /\ delay' = delay /\ open = "nothing"
        /\ token.tag \notin Delaying
    BY <1>7 DEF EndColour, Toggle, ReadTag, Opening, Delaying
  <2> QED BY <1>1, <1>2, <1>3, <1>4, <1>7, <2>1, FormatTag
<1>8. CASE Delay(token)
  <2>1. Counts(n + 1)'
    BY <1>1, <1>3, <1>8 DEF Delay, Breaking, Delaying
  <2> QED BY <1>1, <1>2, <1>4, <1>8, <2>1, FormatDelay
<1>9. CASE NextPart(token)
  BY <1>1, <1>2, <1>4, <1>9, FormatPart
<1> QED BY <1>5, <1>6, <1>7, <1>8, <1>9 DEF TokenStep

\* What is known of a character stays known.
LEMMA StyledStable ==
  ASSUME NEW token, NEW n, Extended(token, n), part \in Nat, part' = part,
         several' = several, fromPlayer' = fromPlayer, NEW runs, StyledAsMeant(runs)
  PROVE  StyledAsMeant(runs)'
<1>1. Len(raw) = n /\ Len(raw)' = n + 1 /\ n \in Nat
  BY DEF Extended
<1>2. \A i \in 1..n : i \in 1..n + 1 /\ Meant(i)' = Meant(i)
  BY <1>1, MeantStable
<1> QED BY <1>1, <1>2 DEF StyledAsMeant

\* A character that gets the style meant for it.
LEMMA StyledGrows ==
  ASSUME NEW token, NEW n, Extended(token, n), part \in Nat, part' = part,
         several' = several, fromPlayer' = fromPlayer,
         NEW runs \in Seq(Run), StyledAsMeant(runs), NEW c \in Char, c.at = n + 1,
         style \in Style, style = Meant(n + 1), NEW res, res = AddChar(runs, c)
  PROVE  StyledAsMeant(res)'
<1>1. Len(raw) = n /\ Len(raw)' = n + 1 /\ n \in Nat /\ n + 1 \in 1..n + 1
  BY DEF Extended
<1>2. StyledAsMeant(runs)'
  BY StyledStable
<1>3. Meant(n + 1)' = style
  BY <1>1, MeantStable
<1>4. PICK q \in Nat \ {0} : Grown(runs, res, c, style, q)
  BY AddCharIs
<1>5. res \in Seq(Run) /\ Len(res) = q
  BY <1>4, AddCharIs DEF Grown
<1> SUFFICES ASSUME NEW r \in 1..q, NEW k \in DOMAIN res[r].text
             PROVE  /\ res[r].text[k].at \in 1..n + 1
                    /\ res[r].style = Meant(res[r].text[k].at)'
  BY <1>1, <1>5 DEF StyledAsMeant
<1>6. \A r2 \in 1..Len(runs) : \A k2 \in DOMAIN runs[r2].text :
         /\ runs[r2].text[k2].at \in 1..n + 1
         /\ runs[r2].style = Meant(runs[r2].text[k2].at)'
  BY <1>1, <1>2 DEF StyledAsMeant
<1>7. CASE r # q
  <2>1. r \in 1..Len(runs) /\ res[r] = runs[r]
    BY <1>4, <1>7 DEF Grown
  <2> QED BY <1>6, <2>1
<1>8. CASE r = q /\ Len(runs) = q - 1 /\ res[q].text = <<c>>
  <2>1. res[r].text[k] = c
    BY <1>8
  <2>2. res[r].style = style
    BY <1>4, <1>8 DEF Grown
  <2> QED BY <1>1, <1>3, <2>1, <2>2
<1>9. CASE /\ r = q /\ Len(runs) = q /\ runs[q].style = style
           /\ res[q].text = Append(runs[q].text, c)
  <2>1. runs[q] \in Run /\ runs[q].text \in Seq(Char) /\ q \in 1..Len(runs)
    <3>1. q \in 1..Len(runs)
      BY <1>9
    <3>2. runs[q] \in Run
      BY <3>1
    <3> QED BY <3>1, <3>2 DEF Run
  <2>2. res[r].style = style
    BY <1>4, <1>9 DEF Grown
  <2>3. CASE k = Len(runs[q].text) + 1
    <3>1. res[r].text[k] = c
      BY <1>9, <2>1, <2>3
    <3> QED BY <1>1, <1>3, <2>2, <3>1
  <2>4. CASE k # Len(runs[q].text) + 1
    <3>1. k \in DOMAIN runs[q].text /\ res[r].text[k] = runs[q].text[k]
      BY <1>9, <2>1, <2>4
    <3> QED BY <1>6, <1>9, <2>1, <2>2, <3>1
  <2> QED BY <2>3, <2>4
<1> QED BY <1>4, <1>7, <1>8, <1>9 DEF Grown

\* What is known of the lines that end with the token.
LEMMA StyledEnded ==
  ASSUME Inv, StyleInv
  PROVE  /\ \A l \in DOMAIN EndedLines : StyledAsMeant(EndedLines[l])
         /\ \A p \in DOMAIN EndedPhrases : \A l \in DOMAIN EndedPhrases[p].lines :
              StyledAsMeant(EndedPhrases[p].lines[l])
<1> DEFINE Good(ls) == \A l \in DOMAIN ls : StyledAsMeant(ls[l])
<1>1. EndedLines \in Seq(Seq(Run)) /\ lines \in Seq(Seq(Run)) /\ line \in Seq(Run)
  BY EndedLinesTidy DEF Inv, TypeOK
<1>2. Good(EndedLines)
  BY <1>1 DEF EndedLines, StyleInv
<1>3. \A p \in DOMAIN EndedPhrases : Good(EndedPhrases[p].lines)
  <2> DEFINE new == [delay |-> delay, lines |-> EndedLines]
  <2>1. new \in Phrase /\ Good(new.lines)
    BY <1>1, <1>2 DEF Phrase, Inv, TypeOK
  <2>2. EndedPhrases = IF blank THEN phrases ELSE Append(phrases, new)
    BY DEF EndedPhrases
  <2>3. phrases \in Seq(Phrase) /\ \A p \in DOMAIN phrases : Good(phrases[p].lines)
    BY DEF Inv, TypeOK, StyleInv
  <2> HIDE DEF new, Good
  <2> QED BY <2>1, <2>2, <2>3
<1> QED BY <1>2, <1>3

\* Every step gives each character the style meant for it.
LEMMA StyleStep ==
  ASSUME Inv, FormatInv, StyleInv, NEW token \in Tokens, TokenStep(token)
  PROVE  StyleInv'
<1>1. TypeOK /\ part \in Nat /\ style \in Style /\ line \in Seq(Run)
  BY DEF Inv, TypeOK
<1>2. PICK n \in Nat : Extended(token, n)
  BY StepOpen DEF TokenStep
<1>3. Len(raw) = n
  BY <1>2 DEF Extended
<1>4. several' = several /\ fromPlayer' = fromPlayer
  BY DEF TokenStep, ReadChar, Swallow, OpenTag, Colour, PlayerColour, BadColour, EndColour,
         Toggle, OtherTag, BreakLine, Delay, DelayWithin, NextPart, ReadTag, Read, given
<1>5. ASSUME part' = part
      PROVE  \A runs : StyledAsMeant(runs) => StyledAsMeant(runs)'
  BY <1>1, <1>2, <1>4, <1>5, StyledStable
<1>6. StyledAsMeant(<<>>)'
  BY DEF StyledAsMeant
<1>7. CASE \/ OpenTag(token) \/ BadColour(token) \/ OtherTag(token) \/ DelayWithin(token)
           \/ Swallow(token) \/ Colour(token) \/ PlayerColour(token) \/ EndColour(token)
           \/ Toggle(token)
  <2>1. part' = part /\ line' = line /\ lines' = lines /\ phrases' = phrases
    BY <1>7 DEF OpenTag, BadColour, OtherTag, DelayWithin, Swallow, Colour, PlayerColour,
                EndColour, Toggle, ReadTag
  <2> QED BY <1>5, <2>1 DEF StyleInv, StyledAsMeant
<1>8. CASE ReadChar(token) /\ open = "nothing"
  <2> DEFINE c == [at |-> n + 1, space |-> token.tag = "space"]
  <2>1. c \in Char /\ c.at = n + 1
    BY DEF Char
  <2>2. part' = part /\ lines' = lines /\ phrases' = phrases /\ line' = AddChar(line, c)
    BY <1>3, <1>8 DEF ReadChar
  <2> HIDE DEF c
  <2>3. style = Meant(n + 1)
    BY <1>1, <1>3, MeantNow
  <2>4. PICK old \in Seq(Run) : old = line
    BY <1>1
  <2>5. PICK new : new = AddChar(old, c)
    OBVIOUS
  <2>6. StyledAsMeant(old)
    BY <2>4 DEF StyleInv
  <2>7. StyledAsMeant(new)'
    BY <1>1, <1>2, <1>4, <2>1, <2>2, <2>3, <2>5, <2>6, StyledGrows
  <2>8. new = line'
    BY <2>2, <2>4, <2>5
  <2> QED BY <1>5, <2>2, <2>7, <2>8 DEF StyleInv, StyledAsMeant
<1>9. CASE BreakLine(token)
  <2>1. part' = part /\ line' = <<>> /\ lines' = EndedLines /\ phrases' = phrases
    BY <1>9 DEF BreakLine
  <2> QED BY <1>5, <1>6, <2>1, StyledEnded DEF StyleInv, StyledAsMeant
<1>10. CASE Delay(token)
  <2>1. part' = part /\ line' = <<>> /\ lines' = <<>> /\ phrases' = EndedPhrases
    BY <1>10 DEF Delay, StartPhrase
  <2> QED BY <1>5, <1>6, <2>1, StyledEnded DEF StyleInv, StyledAsMeant
<1>11. CASE NextPart(token)
  <2>1. line' = <<>> /\ lines' = <<>> /\ phrases' = <<>>
    BY <1>11 DEF NextPart, StartPhrase
  <2> QED BY <1>6, <2>1 DEF StyleInv, StyledAsMeant
<1>12. CASE ReadChar(token)
  <2>1. CASE open # "nothing"
    <3>1. part' = part /\ line' = line /\ lines' = lines /\ phrases' = phrases
      BY <1>12, <2>1 DEF ReadChar
    <3> QED BY <1>5, <3>1 DEF StyleInv, StyledAsMeant
  <2> QED BY <1>8, <1>12, <2>1
<1> QED BY <1>7, <1>9, <1>10, <1>11, <1>12 DEF TokenStep

\* What is known of the phrases read and of the one under way is known of what
\* ParseCaptionText returns.
LEMMA StyleShown ==
  ASSUME Inv, StyleInv
  PROVE  StyleAsMeant
<1> SUFFICES ASSUME NEW pl \in AllLines PROVE StyledAsMeant(LineAt(pl))
  BY DEF StyleAsMeant, StyledAsMeant
<1>1. \A p \in DOMAIN ParseCaptionText : \A l \in DOMAIN ParseCaptionText[p].lines :
         StyledAsMeant(ParseCaptionText[p].lines[l])
  BY StyledEnded DEF ParseCaptionText
<1>2. /\ ParseCaptionText \in Seq(Phrase)
      /\ pl[1] \in DOMAIN ParseCaptionText
  BY EndedPhrasesTidy DEF ParseCaptionText, Phrase, AllLines
<1>3. pl[2] \in DOMAIN ParseCaptionText[pl[1]].lines
  BY <1>2 DEF AllLines, Phrase
<1> QED BY <1>1, <1>2, <1>3 DEF LineAt
-----------------------------------------------------------------------------
(* No character is lost, doubled or moved *)

\* The new token is shown if it is a character that counts.
LEMMA ShownNext ==
  ASSUME NEW token, NEW n, Extended(token, n), part \in 0..n, part' = part
  PROVE  /\ Shown' = Shown \cup
              (IF token.tag \in Chars /\ Counts(n + 1)' THEN {n + 1} ELSE {})
         /\ Shown \subseteq 1..n
<1>1. /\ part + 1..n + 1 = (part + 1..n) \cup {n + 1}
      /\ part + 1..n \subseteq 1..n
      /\ raw'[n + 1] = token /\ \A i \in 1..n : raw'[i] = raw[i]
      /\ Len(raw) = n /\ Len(raw)' = n + 1
  BY DEF Extended
<1>2. \A i \in 1..n : Counts(i)' <=> Counts(i)
  BY CountsStable
<1> QED BY <1>1, <1>2 DEF Shown

\* The places read so far, before and after the lines and the phrase end.
LEMMA PlacesEnded ==
  ASSUME Inv, blank => line = <<>> /\ lines = <<>>
  PROVE  /\ PlacesRead \in Seq(Nat)
         /\ PlacesIn(EndedLines) = PlacesIn(lines) \o PlacesOf(line)
         /\ PlacesAmong(EndedPhrases) = PlacesRead
         /\ Places = PlacesRead
<1>1. /\ line \in Seq(Run) /\ lines \in Seq(Seq(Run)) /\ phrases \in Seq(Phrase)
      /\ EndedLines \in Seq(Seq(Run)) /\ EndedPhrases \in Seq(Phrase)
  BY EndedLinesTidy, EndedPhrasesTidy DEF Inv, TypeOK
<1>2. PICK a, b, c \in Seq(Nat) : a = PlacesAmong(phrases) /\ b = PlacesIn(lines) /\ c = PlacesOf(line)
  BY <1>1, PlacesAmongType, PlacesInType, TextType
<1>3. PlacesRead = a \o b \o c /\ PlacesRead \in Seq(Nat)
  BY <1>2 DEF PlacesRead
<1>4. \A s \in Seq(Nat) : s \o <<>> = s
  OBVIOUS
<1>5. PlacesIn(EndedLines) = b \o c
  <2>1. CASE line = <<>>
    BY <1>2, <1>4, <2>1, PlacesEmpty DEF EndedLines
  <2>2. CASE line # <<>>
    BY <1>1, <1>2, <2>2, PlacesInAppend DEF EndedLines
  <2> QED BY <2>1, <2>2
<1>6. PlacesAmong(EndedPhrases) = PlacesRead
  <2>1. CASE blank
    <3>1. b = <<>> /\ c = <<>> /\ EndedPhrases = phrases
      BY <1>2, <2>1, PlacesEmpty DEF EndedPhrases
    <3>2. <<>> \in Seq(Nat) /\ a \o <<>> \o <<>> = a
      BY <1>4
    <3> QED BY <1>2, <1>3, <3>1, <3>2
  <2>2. CASE ~blank
    <3> DEFINE new == [delay |-> delay, lines |-> EndedLines]
    <3>1. new \in Phrase /\ new.lines = EndedLines
      BY <1>1 DEF Phrase, Inv, TypeOK
    <3>2. EndedPhrases = Append(phrases, new)
      BY <2>2 DEF EndedPhrases
    <3> HIDE DEF new
    <3>3. PlacesAmong(EndedPhrases) = a \o (b \o c)
      BY <1>1, <1>2, <1>5, <3>1, <3>2, PlacesAmongAppend
    <3>4. a \o (b \o c) = a \o b \o c
      OBVIOUS
    <3> QED BY <1>3, <3>3, <3>4
  <2> QED BY <2>1, <2>2
<1>7. Places = PlacesRead
  <2>1. CASE EndedPhrases = <<>>
    <3> DEFINE none == [delay |-> 0, lines |-> <<>>]
    <3>1. none \in Phrase /\ none.lines = <<>>
      BY DEF Phrase
    <3>2. ParseCaptionText = <<none>>
      BY <2>1 DEF ParseCaptionText
    <3> HIDE DEF none
    <3>3. <<none>> = Append(<<>>, none) /\ <<>> \in Seq(Phrase)
      OBVIOUS
    <3>4. PlacesAmong(ParseCaptionText) = <<>> \o <<>>
      BY <3>1, <3>2, <3>3, PlacesAmongAppend, PlacesEmpty
    <3>5. PlacesAmong(EndedPhrases) = <<>>
      BY <2>1, PlacesEmpty
    <3>6. <<>> \in Seq(Nat)
      OBVIOUS
    <3> QED BY <1>4, <1>6, <3>4, <3>5, <3>6 DEF Places
  <2>2. CASE EndedPhrases # <<>>
    BY <1>6, <2>2 DEF Places, ParseCaptionText
  <2> QED BY <2>1, <2>2
<1> QED BY <1>2, <1>3, <1>5, <1>6, <1>7

\* Of a number put behind a sequence.
LEMMA ConcatEnds ==
  ASSUME NEW a \in Seq(Nat), NEW b \in Seq(Nat), NEW d \in Seq(Nat)
  PROVE  a \o (b \o d) \o <<>> = a \o b \o d
<1>1. \A x \in Seq(Nat) : x \o <<>> = x
  OBVIOUS
<1>2. a \o (b \o d) = a \o b \o d
  BY ConcatAssociative
<1>3. b \o d \in Seq(Nat)
  OBVIOUS
<1>4. a \o (b \o d) \in Seq(Nat)
  BY <1>3
<1> QED BY <1>1, <1>2, <1>4

\* A list goes on with something greater.
LEMMA ListsGrow ==
  ASSUME NEW s \in Seq(Nat), NEW n \in Nat, NEW S, S \subseteq 1..n, Lists(s, S)
  PROVE  Lists(Append(s, n + 1), S \cup {n + 1})
<1>1. /\ Len(Append(s, n + 1)) = Len(s) + 1 /\ Append(s, n + 1)[Len(s) + 1] = n + 1
      /\ \A k \in 1..Len(s) : Append(s, n + 1)[k] = s[k]
      /\ Append(s, n + 1) \in Seq(Nat)
  BY AppendProperties
<1>2. PICK w \in Seq(Nat) : w = Append(s, n + 1)
  BY <1>1
<1>3. PICK q \in Nat : q = Len(s)
  OBVIOUS
<1>4. /\ DOMAIN s = 1..q /\ DOMAIN w = 1..q + 1 /\ 1..q + 1 = (1..q) \cup {q + 1}
      /\ w[q + 1] = n + 1 /\ \A k \in 1..q : w[k] = s[k] /\ s[k] \in S
  BY <1>1, <1>2, <1>3 DEF Lists
<1>5. {w[k] : k \in DOMAIN w} = S \cup {n + 1}
  <2>1. {s[k] : k \in 1..q} = S
    BY <1>4 DEF Lists
  <2> QED BY <1>4, <2>1
<1>6. \A k, m \in 1..q + 1 : k < m => w[k] < w[m]
  <2> SUFFICES ASSUME NEW k \in 1..q + 1, NEW m \in 1..q + 1, k < m PROVE w[k] < w[m]
    OBVIOUS
  <2>1. k \in 1..q /\ w[k] \in 1..n
    BY <1>4
  <2>2. CASE m = q + 1
    BY <1>4, <2>1, <2>2
  <2>3. CASE m # q + 1
    BY <1>4, <2>1, <2>3 DEF Lists
  <2> QED BY <2>2, <2>3
<1> QED BY <1>2, <1>4, <1>5, <1>6 DEF Lists

\* Every step lists the places of what is shown, in order.
LEMMA PlacesStep ==
  ASSUME Inv, OpenInv, FormatInv, PlacesInv, NEW token \in Tokens, TokenStep(token)
  PROVE  PlacesInv'
<1>1. /\ open \in {"nothing", "line", "delay"} /\ style \in Style
      /\ line \in Seq(Run) /\ lines \in Seq(Seq(Run)) /\ phrases \in Seq(Phrase)
  BY DEF Inv, TypeOK
<1>2. PICK n \in Nat : Extended(token, n)
  BY StepOpen DEF TokenStep
<1>3. Len(raw) = n /\ part \in 0..n
  BY <1>2 DEF Extended, FormatInv
<1>4. Counts(n + 1)' <=>
        \/ open = "nothing" \/ token.tag = "sb"
        \/ open = "line" /\ token.tag \in Breaking
  BY <1>1, <1>2, NewCounts
<1>5. PICK S : S = Shown /\ S \subseteq 1..n
  <2>1. Shown \subseteq 1..n
    BY <1>3 DEF Shown
  <2> QED BY <2>1
<1>6. PICK s \in Seq(Nat) : s = PlacesRead
  BY PlacesEnded DEF PlacesInv
<1>7. Lists(s, S)
  BY <1>5, <1>6 DEF PlacesInv
<1>8. ASSUME part' = part, ~(token.tag \in Chars /\ open = "nothing")
      PROVE  Shown' = S
  <2>1. ~(token.tag \in Chars /\ Counts(n + 1)')
    BY <1>4, <1>8 DEF Chars, Breaking, Delaying
  <2> QED BY <1>2, <1>3, <1>5, <1>8, <2>1, ShownNext
<1>9. CASE \/ OpenTag(token) \/ BadColour(token) \/ OtherTag(token) \/ DelayWithin(token)
           \/ Swallow(token) \/ Colour(token) \/ PlayerColour(token) \/ EndColour(token)
           \/ Toggle(token)
  <2>1. part' = part /\ line' = line /\ lines' = lines /\ phrases' = phrases
    BY <1>9 DEF OpenTag, BadColour, OtherTag, DelayWithin, Swallow, Colour, PlayerColour,
                EndColour, Toggle, ReadTag
  <2>3. token.tag \notin Chars
    BY <1>9 DEF OpenTag, BadColour, OtherTag, DelayWithin, Swallow, Colour, PlayerColour,
                EndColour, Toggle, Chars
  <2>4. blank' => blank
    BY <1>9 DEF OpenTag, BadColour, OtherTag, DelayWithin, Swallow, Colour, PlayerColour,
                EndColour, Toggle, ReadTag
  <2>2. PlacesRead' = s
    BY <1>6, <2>1 DEF PlacesRead
  <2>5. Shown' = S
    BY <1>8, <2>1, <2>3
  <2> QED BY <1>7, <2>1, <2>2, <2>4, <2>5 DEF PlacesInv
<1>10. CASE ReadChar(token)
  <2>1. /\ part' = part /\ lines' = lines /\ phrases' = phrases /\ token.tag \in Chars
        /\ blank' = (blank /\ open = "delay")
    BY <1>10 DEF ReadChar
  <2>2. CASE open # "nothing"
    <3>1. line' = line
      BY <1>10, <2>2 DEF ReadChar
    <3>2. PlacesRead' = s
      BY <1>6, <2>1, <3>1 DEF PlacesRead
    <3> QED BY <1>7, <1>8, <2>1, <2>2, <3>1, <3>2 DEF PlacesInv
  <2>3. CASE open = "nothing"
    <3> DEFINE c == [at |-> n + 1, space |-> token.tag = "space"]
    <3>1. c \in Char /\ c.at = n + 1
      BY DEF Char
    <3>2. line' = AddChar(line, c)
      BY <1>3, <1>10, <2>3 DEF ReadChar
    <3> HIDE DEF c
    <3>3. PlacesOf(line') = Append(PlacesOf(line), n + 1)
      BY <1>1, <3>1, <3>2, PlacesAdd
    <3>4. PlacesRead' = Append(s, n + 1)
      <4>1. PICK a, b, d \in Seq(Nat) :
              a = PlacesAmong(phrases) /\ b = PlacesIn(lines) /\ d = PlacesOf(line)
        BY <1>1, PlacesAmongType, PlacesInType, TextType
      <4>2. s = a \o b \o d
        BY <1>6, <4>1 DEF PlacesRead
      <4>3. PlacesRead' = a \o b \o Append(d, n + 1)
        BY <2>1, <3>3, <4>1 DEF PlacesRead
      <4>4. a \o b \o Append(d, n + 1) = Append(a \o b \o d, n + 1)
        OBVIOUS
      <4> QED BY <4>2, <4>3, <4>4
    <3>5. Shown' = S \cup {n + 1}
      BY <1>2, <1>3, <1>4, <1>5, <2>1, <2>3, ShownNext
    <3>6. Lists(Append(s, n + 1), S \cup {n + 1})
      BY <1>5, <1>7, ListsGrow
    <3> QED BY <2>1, <2>3, <3>4, <3>5, <3>6 DEF PlacesInv
  <2> QED BY <2>2, <2>3
<1>11. CASE BreakLine(token)
  <2>1. /\ part' = part /\ line' = <<>> /\ lines' = EndedLines /\ phrases' = phrases
        /\ blank' = FALSE /\ token.tag \notin Chars
    BY <1>11 DEF BreakLine, Chars
  <2>2. PlacesRead' = s
    <3>1. PICK a, b, d \in Seq(Nat) :
            a = PlacesAmong(phrases) /\ b = PlacesIn(lines) /\ d = PlacesOf(line)
      BY <1>1, PlacesAmongType, PlacesInType, TextType
    <3>2. s = a \o b \o d
      BY <1>6, <3>1 DEF PlacesRead
    <3>3. PlacesRead' = a \o (b \o d) \o <<>>
      BY <2>1, <3>1, PlacesEnded, PlacesEmpty DEF PlacesRead, PlacesInv
    <3>4. a \o (b \o d) \o <<>> = a \o b \o d
      BY ConcatEnds
    <3> QED BY <3>2, <3>3, <3>4
  <2> QED BY <1>7, <1>8, <2>1, <2>2 DEF PlacesInv
<1>12. CASE Delay(token)
  <2>1. /\ part' = part /\ line' = <<>> /\ lines' = <<>> /\ phrases' = EndedPhrases
        /\ token.tag \notin Chars
    BY <1>12 DEF Delay, StartPhrase, Chars
  <2>2. PlacesRead' = s
    <3>1. PlacesRead' = s \o <<>> \o <<>>
      BY <1>6, <2>1, PlacesEnded, PlacesEmpty DEF PlacesRead, PlacesInv
    <3>2. s \o <<>> \o <<>> = s
      OBVIOUS
    <3> QED BY <3>1, <3>2
  <2> QED BY <1>7, <1>8, <2>1, <2>2 DEF PlacesInv
<1>13. CASE NextPart(token)
  <2>1. /\ part' = n + 1 /\ line' = <<>> /\ lines' = <<>> /\ phrases' = <<>>
    BY <1>3, <1>13 DEF NextPart, StartPhrase
  <2>2. PlacesRead' = <<>>
    <3>1. PlacesRead' = <<>> \o <<>> \o <<>>
      BY <2>1, PlacesEmpty DEF PlacesRead
    <3> QED BY <3>1
  <2>3. Shown' = {}
    <3>1. Len(raw)' = n + 1 /\ part' + 1..n + 1 = {}
      BY <1>2, <2>1 DEF Extended
    <3> QED BY <3>1 DEF Shown
  <2>4. Lists(<<>>, {})
    BY DEF Lists
  <2> QED BY <2>1, <2>2, <2>3, <2>4 DEF PlacesInv
<1> QED BY <1>9, <1>10, <1>11, <1>12, <1>13 DEF TokenStep

\* That is what TextComplete says of what ParseCaptionText returns.
LEMMA PlacesComplete ==
  ASSUME Inv, PlacesInv
  PROVE  TextComplete
<1>1. Places = PlacesRead /\ PlacesRead \in Seq(Nat)
  BY PlacesEnded DEF PlacesInv
<1>2. PICK s \in Seq(Nat) : s = Places
  BY <1>1
<1>3. Lists(s, Shown)
  BY <1>1, <1>2 DEF PlacesInv
<1>4. \A k \in 1..Len(s) - 1 : s[k] < s[k + 1]
  BY <1>3 DEF Lists
<1> QED BY <1>2, <1>3, <1>4 DEF TextComplete, Lists
-----------------------------------------------------------------------------
(* Lines and phrases are broken where they should be *)

\* What comes later does not break what has been read.
LEMMA BrokenStable ==
  ASSUME NEW token, NEW n, Extended(token, n)
  PROVE  /\ \A i, j \in 1..n : Broken(i, j)' <=> Broken(i, j)
         /\ \A i \in 1..n : Broken(i, n + 1)' <=>
              Broken(i, n) \/ (token.tag \in Breaking /\ Counts(n + 1)')
         /\ Broken(n + 1, n + 1)' <=> token.tag \in Breaking /\ Counts(n + 1)'
<1>1. n \in Nat
  BY DEF Extended
<1>2. ASSUME NEW i \in 1..n, NEW j \in 1..n PROVE Broken(i, j)' <=> Broken(i, j)
  <2>1. Tagged(Breaking, i, j)' = Tagged(Breaking, i, j)
    BY <1>1, TaggedStable
  <2> QED BY <2>1 DEF Broken
<1>3. ASSUME NEW i \in 1..n + 1
      PROVE  Tagged(Breaking, i, n + 1)' = Tagged(Breaking, i, n) \cup
              (IF token.tag \in Breaking /\ Counts(n + 1)' THEN {n + 1} ELSE {})
  BY TaggedNext
<1>4. Tagged(Breaking, n + 1, n) = {}
  BY <1>1 DEF Tagged
<1> QED BY <1>1, <1>2, <1>3, <1>4 DEF Broken

\* Nor does it change the delay of a place.
LEMMA DueStable ==
  ASSUME NEW token, NEW n, Extended(token, n), part \in Nat, part' = part,
         NEW i \in 1..n + 1
  PROVE  DueAt(i)' = DueAt(i)
<1>1. Delays(i)' = Delays(i) /\ Delays(i) \subseteq 1..n /\ n \in Nat
  BY DelaysStable, DelaysRange DEF Extended
<1>2. CASE Delays(i) = {}
  BY <1>1, <1>2 DEF DueAt
<1>3. CASE Delays(i) # {}
  <2>1. PICK k \in 1..n : k = Max(Delays(i)) /\ k = Max(Delays(i))'
    BY <1>1, <1>3, MaxPlace
  <2>2. raw'[k] = raw[k]
    BY DEF Extended
  <2> QED BY <1>1, <1>3, <2>1, <2>2 DEF DueAt
<1> QED BY <1>2, <1>3

\* Known characters have been read.
LEMMA PlacesAreRead ==
  ASSUME NEW n, n = Len(raw), NEW runs, StyledAsMeant(runs), NEW i, HasPlace(runs, i)
  PROVE  i \in 1..n
BY DEF StyledAsMeant, HasPlace

\* Lines stay as far apart as they are.
LEMMA LinesStayApart ==
  ASSUME NEW token, NEW n, Extended(token, n), NEW ls, LinesApart(ls, n),
         \A l \in DOMAIN ls : StyledAsMeant(ls[l])
  PROVE  LinesApart(ls, n + 1)'
<1>1. Len(raw) = n /\ n \in Nat
  BY DEF Extended
<1>2. \A l \in DOMAIN ls : \A i \in 1..n + 1 : HasPlace(ls[l], i) => i \in 1..n
  BY <1>1, PlacesAreRead
<1>3. \A i, j \in 1..n : Broken(i, j)' <=> Broken(i, j)
  BY BrokenStable
<1> QED BY <1>2, <1>3 DEF LinesApart

\* So do phrases.
LEMMA PhrasesStayApart ==
  ASSUME NEW token, NEW n, Extended(token, n), part \in Nat, part' = part,
         NEW ps, PhrasesApart(ps, n),
         \A p \in DOMAIN ps : \A l \in DOMAIN ps[p].lines : StyledAsMeant(ps[p].lines[l])
  PROVE  PhrasesApart(ps, n + 1)'
<1>1. Len(raw) = n /\ n \in Nat
  BY DEF Extended
<1>2. \A p \in DOMAIN ps : \A i \in 1..n + 1 : SomeLineHas(ps[p].lines, i) => i \in 1..n
  BY <1>1, PlacesAreRead DEF SomeLineHas
<1>3. /\ \A i, j \in 1..n : Broken(i, j)' <=> Broken(i, j)
      /\ \A i \in 1..n : DueAt(i)' = DueAt(i)
  BY <1>1, BrokenStable, DueStable
<1>4. \A p \in DOMAIN ps : LinesApart(ps[p].lines, n + 1)'
  BY LinesStayApart DEF PhrasesApart
<1> QED BY <1>2, <1>3, <1>4 DEF PhrasesApart

\* What ends is kept apart from what ended before.
LEMMA EndedApart ==
  ASSUME Inv, StyleInv, BreakInv, FormatInv, NEW n \in Nat, n = Len(raw)
  PROVE  /\ LinesApart(EndedLines, n)
         /\ PhrasesApart(EndedPhrases, n)
         /\ \A i \in 1..n : SomeLineHas(EndedLines, i) => 
              SomeLineHas(lines, i) \/ HasPlace(line, i)
<1>1. /\ line \in Seq(Run) /\ lines \in Seq(Seq(Run)) /\ phrases \in Seq(Phrase)
      /\ EndedLines \in Seq(Seq(Run)) /\ delay \in Nat
  BY EndedLinesTidy DEF Inv, TypeOK
<1>2. /\ PhrasesApart(phrases, n) /\ LinesApart(lines, n)
      /\ \A i \in 1..n :
           /\ HasPlace(line, i) => ~Broken(i, n)
           /\ SomeLineHas(lines, i) => Broken(i, n)
           /\ SomeLineHas(lines, i) \/ HasPlace(line, i) => Delays(i) = Delays(n + 1)
           /\ \A p \in DOMAIN phrases :
                SomeLineHas(phrases[p].lines, i) => \E d \in Delays(n + 1) : i <= d
  BY DEF BreakInv, BreakOf
<1>3. \A i, j \in 1..n : ~Broken(i, n) => ~Broken(i, j)
  BY DEF Broken, Tagged
<1>4. \A i, j \in 1..n : Broken(i, n) /\ ~Broken(j, n) => i < j /\ Broken(i, j)
  <2> SUFFICES ASSUME NEW i \in 1..n, NEW j \in 1..n, Broken(i, n), ~Broken(j, n)
               PROVE  i < j /\ Broken(i, j)
    OBVIOUS
  <2>1. PICK b \in i..n : raw[b].tag \in Breaking /\ Counts(b)
    BY DEF Broken, Tagged
  <2>2. b \notin j..n
    BY <2>1 DEF Broken, Tagged
  <2>3. b < j /\ i <= b
    BY <2>1, <2>2
  <2>4. b \in i..j /\ i < j
    BY <2>3
  <2> QED BY <2>1, <2>4 DEF Broken, Tagged
<1>5. /\ LinesApart(EndedLines, n)
      /\ \A i \in 1..n : SomeLineHas(EndedLines, i) => 
              SomeLineHas(lines, i) \/ HasPlace(line, i)
  <2>1. CASE line = <<>>
    BY <1>2, <2>1 DEF EndedLines
  <2>2. CASE line # <<>>
    <3>1. PICK q \in Nat : q = Len(lines)
      BY <1>1
    <3>2. PICK es \in Seq(Seq(Run)) : es = EndedLines
      BY <1>1
    <3>3. /\ DOMAIN lines = 1..q /\ DOMAIN es = 1..q + 1 /\ 1..q + 1 = (1..q) \cup {q + 1}
          /\ es[q + 1] = line /\ \A l \in 1..q : es[l] = lines[l]
      BY <1>1, <2>2, <3>1, <3>2, AppendProperties DEF EndedLines
    <3>4. \A l \in 1..q + 1 : \A i, j \in 1..n :
            HasPlace(es[l], i) /\ HasPlace(es[l], j) => ~Broken(i, j)
      BY <1>2, <1>3, <3>3 DEF LinesApart
    <3>5. \A l, m \in 1..q + 1 : \A i, j \in 1..n :
            l < m /\ HasPlace(es[l], i) /\ HasPlace(es[m], j) => i < j /\ Broken(i, j)
      <4> SUFFICES ASSUME NEW l \in 1..q + 1, NEW m \in 1..q + 1, NEW i \in 1..n, NEW j \in 1..n,
                          l < m, HasPlace(es[l], i), HasPlace(es[m], j)
                   PROVE  i < j /\ Broken(i, j)
        OBVIOUS
      <4>1. l \in 1..q /\ HasPlace(lines[l], i)
        BY <3>3
      <4>2. CASE m = q + 1
        <5>1. Broken(i, n)
          BY <1>2, <3>3, <4>1 DEF SomeLineHas
        <5>2. ~Broken(j, n)
          BY <1>2, <3>3, <4>2
        <5> QED BY <1>4, <5>1, <5>2
      <4>3. CASE m # q + 1
        <5>1. m \in 1..q /\ HasPlace(lines[m], j)
          BY <3>3, <4>3
        <5> QED BY <1>2, <3>3, <4>1, <5>1 DEF LinesApart
      <4> QED BY <4>2, <4>3
    <3>6. \A i \in 1..n : SomeLineHas(es, i) => SomeLineHas(lines, i) \/ HasPlace(line, i)
      BY <3>3 DEF SomeLineHas
    <3> QED BY <3>2, <3>3, <3>4, <3>5, <3>6 DEF LinesApart
  <2> QED BY <2>1, <2>2
<1>6. PhrasesApart(EndedPhrases, n)
  <2>1. CASE blank
    BY <1>2, <2>1 DEF EndedPhrases
  <2>2. CASE ~blank
    <3> DEFINE new == [delay |-> delay, lines |-> EndedLines]
    <3>1. new \in Phrase /\ new.delay = delay /\ new.lines = EndedLines
      BY <1>1 DEF Phrase
    <3>2. PICK q \in Nat : q = Len(phrases)
      BY <1>1
    <3> HIDE DEF new
    <3>3. PICK ps \in Seq(Phrase) : ps = Append(phrases, new)
      <4>1. Append(phrases, new) \in Seq(Phrase)
        BY <1>1, <3>1
      <4> QED BY <4>1
    <3>4. /\ DOMAIN phrases = 1..q /\ DOMAIN ps = 1..q + 1 /\ 1..q + 1 = (1..q) \cup {q + 1}
          /\ ps[q + 1] = new /\ \A p \in 1..q : ps[p] = phrases[p]
      BY <1>1, <3>1, <3>2, <3>3, AppendProperties
    <3>5. \A p \in 1..q + 1 : LinesApart(ps[p].lines, n)
      BY <1>2, <1>5, <3>1, <3>4 DEF PhrasesApart
    <3>6. \A i \in 1..n : SomeLineHas(new.lines, i) =>
            Delays(i) = Delays(n + 1) /\ new.delay = DueAt(i)
      <4>1. delay = DueAt(n + 1)
        BY DEF FormatInv
      <4> QED BY <1>2, <1>5, <3>1, <4>1 DEF DueAt
    <3>7. \A p \in 1..q + 1 : \A i \in 1..n :
            SomeLineHas(ps[p].lines, i) => ps[p].delay = DueAt(i)
      BY <1>2, <3>4, <3>6 DEF PhrasesApart
    <3>8. \A p, r \in 1..q + 1 : \A i, j \in 1..n :
            p < r /\ SomeLineHas(ps[p].lines, i) /\ SomeLineHas(ps[r].lines, j) =>
              i < j /\ Broken(i, j)
      <4> SUFFICES ASSUME NEW p \in 1..q + 1, NEW r \in 1..q + 1, NEW i \in 1..n, NEW j \in 1..n,
                          p < r, SomeLineHas(ps[p].lines, i), SomeLineHas(ps[r].lines, j)
                   PROVE  i < j /\ Broken(i, j)
        OBVIOUS
      <4>1. p \in 1..q /\ SomeLineHas(phrases[p].lines, i)
        BY <3>4
      <4>2. CASE r = q + 1
        <5>1. PICK d \in Delays(n + 1) : i <= d
          BY <1>2, <3>4, <4>1
        <5>2. d \in Delays(j)
          BY <3>4, <3>6, <4>2, <5>1
        <5>3. /\ part \in Nat /\ d \in part + 1..j - 1 
              /\ raw[d].tag \in Breaking /\ Counts(d)
          BY <5>2 DEF Delays, Breaking, Delaying, Inv, TypeOK
        <5>4. d \in i..j /\ i < j
          BY <5>1, <5>3
        <5> QED BY <5>3, <5>4 DEF Broken, Tagged
      <4>3. CASE r # q + 1
        <5>1. r \in 1..q /\ SomeLineHas(phrases[r].lines, j)
          BY <3>4, <4>3
        <5> QED BY <1>2, <3>4, <4>1, <5>1 DEF PhrasesApart
      <4> QED BY <4>2, <4>3
    <3>9. EndedPhrases = ps
      BY <2>2, <3>3 DEF EndedPhrases, new
    <3> QED BY <3>4, <3>5, <3>7, <3>8, <3>9 DEF PhrasesApart
  <2> QED BY <2>1, <2>2
<1> QED BY <1>5, <1>6

\* The line that grows by a character.
LEMMA HasGrown ==
  ASSUME NEW runs \in Seq(Run), NEW c \in Char, style \in Style, NEW res,
         res = AddChar(runs, c)
  PROVE  \A i : HasPlace(res, i) => HasPlace(runs, i) \/ i = c.at
<1>1. PICK q \in Nat \ {0} : Grown(runs, res, c, style, q)
  BY AddCharIs
<1>2. res \in Seq(Run) /\ DOMAIN res = 1..q
  BY <1>1, AddCharIs DEF Grown
<1> SUFFICES ASSUME NEW i, NEW r \in 1..q, NEW k \in DOMAIN res[r].text,
                    res[r].text[k].at = i
             PROVE  HasPlace(runs, i) \/ i = c.at
  BY <1>2 DEF HasPlace
<1>3. CASE r # q
  <2>1. r \in DOMAIN runs /\ res[r] = runs[r]
    BY <1>1, <1>3 DEF Grown
  <2> QED BY <2>1 DEF HasPlace
<1>4. CASE r = q /\ res[q].text = <<c>>
  BY <1>4
<1>5. CASE r = q /\ Len(runs) = q /\ res[q].text = Append(runs[q].text, c)
  <2>1. runs[q] \in Run /\ q \in DOMAIN runs
    BY <1>5
  <2>2. runs[q].text \in Seq(Char)
    BY <2>1 DEF Run
  <2>3. CASE k = Len(runs[q].text) + 1
    BY <1>5, <2>2, <2>3
  <2>4. CASE k # Len(runs[q].text) + 1
    <3>1. k \in DOMAIN runs[q].text /\ res[r].text[k] = runs[q].text[k]
      BY <1>5, <2>2, <2>4
    <3> QED BY <2>1, <3>1 DEF HasPlace
  <2> QED BY <2>3, <2>4
<1> QED BY <1>1, <1>3, <1>4, <1>5 DEF Grown

\* Nothing is apart from nothing.
NoneApart ==
  /\ \A n : LinesApart(<<>>, n) /\ PhrasesApart(<<>>, n)
  /\ \A i : ~HasPlace(<<>>, i) /\ ~SomeLineHas(<<>>, i)

\* That is so.
LEMMA NothingApart == NoneApart
BY DEF NoneApart, LinesApart, PhrasesApart, HasPlace, SomeLineHas

\* Every step keeps lines and phrases apart where they are broken and only there.
LEMMA BreakStep ==
  ASSUME Inv, OpenInv, FormatInv, StyleInv, BreakInv, NEW token \in Tokens, TokenStep(token)
  PROVE  BreakInv'
<1>1. /\ open \in {"nothing", "line", "delay"} /\ style \in Style
      /\ line \in Seq(Run) /\ lines \in Seq(Seq(Run)) /\ phrases \in Seq(Phrase)
      /\ part \in Nat
  BY DEF Inv, TypeOK
<1>2. PICK n \in Nat : Extended(token, n)
  BY StepOpen DEF TokenStep
<1>3. /\ Len(raw) = n /\ Len(raw)' = n + 1 /\ part \in 0..n
      /\ 1..n + 1 = (1..n) \cup {n + 1} /\ (n + 1) + 1 = n + 2
  BY <1>2 DEF Extended, FormatInv
<1>4. Counts(n + 1)' <=>
        \/ open = "nothing" \/ token.tag = "sb"
        \/ open = "line" /\ token.tag \in Breaking
  BY <1>1, <1>2, NewCounts
<1>5. PICK w \in Seq(Run), ls \in Seq(Seq(Run)), ps \in Seq(Phrase) :
        /\ w = line /\ ls = lines /\ ps = phrases /\ BreakOf(w, ls, ps, n)
  BY <1>1, <1>3 DEF BreakInv
<1>a. PICK els, eps : els = EndedLines /\ eps = EndedPhrases
  OBVIOUS
<1>b. /\ StyledAsMeant(w) /\ \A l \in DOMAIN ls : StyledAsMeant(ls[l])
      /\ \A p \in DOMAIN ps : \A l \in DOMAIN ps[p].lines : StyledAsMeant(ps[p].lines[l])
      /\ \A l \in DOMAIN els : StyledAsMeant(els[l])
      /\ \A p \in DOMAIN eps : \A l \in DOMAIN eps[p].lines : StyledAsMeant(eps[p].lines[l])
  BY <1>5, <1>a, StyledEnded DEF StyleInv
<1>6. /\ ~HasPlace(w, n + 1) /\ ~SomeLineHas(ls, n + 1)
      /\ \A p \in DOMAIN ps : ~SomeLineHas(ps[p].lines, n + 1)
      /\ ~SomeLineHas(els, n + 1)
  <2>1. n + 1 \notin 1..n
    OBVIOUS
  <2> QED BY <1>3, <1>b, <2>1, PlacesAreRead DEF SomeLineHas
<1>d. ASSUME NEW w2, NEW ls2, NEW ps2, line' = w2, lines' = ls2, phrases' = ps2,
             BreakOf(w2, ls2, ps2, n + 1)'
      PROVE  BreakInv'
  BY <1>3, <1>d DEF BreakInv
<1>7. ASSUME part' = part
      PROVE  /\ \A i \in 1..n + 1 : Delays(i)' = Delays(i)
             /\ Delays(n + 2)' = Delays(n + 1) \cup
                  (IF token.tag \in Delaying /\ Counts(n + 1)' THEN {n + 1} ELSE {})
             /\ PhrasesApart(ps, n + 1)' /\ LinesApart(ls, n + 1)'
             /\ PhrasesApart(eps, n + 1)' /\ LinesApart(els, n + 1)'
  <2>1. /\ PhrasesApart(ps, n) /\ LinesApart(ls, n)
        /\ PhrasesApart(eps, n) /\ LinesApart(els, n)
    BY <1>3, <1>5, <1>a, EndedApart DEF BreakOf
  <2> QED BY <1>1, <1>2, <1>3, <1>7, <1>b, <2>1, DelaysStable, DelaysNext,
             PhrasesStayApart, LinesStayApart
<1>8. \A i \in 1..n : Broken(i, n + 1)' <=>
        Broken(i, n) \/ (token.tag \in Breaking /\ Counts(n + 1)')
  BY <1>2, BrokenStable
<1>9. ASSUME \/ OpenTag(token) \/ BadColour(token) \/ OtherTag(token) \/ DelayWithin(token)
             \/ Swallow(token) \/ Colour(token) \/ PlayerColour(token) \/ EndColour(token)
             \/ Toggle(token) \/ (ReadChar(token) /\ open # "nothing")
      PROVE  BreakInv'
  <2>1. part' = part /\ line' = w /\ lines' = ls /\ phrases' = ps
    BY <1>5, <1>9 DEF OpenTag, BadColour, OtherTag, DelayWithin, Swallow, Colour, PlayerColour,
                EndColour, Toggle, ReadTag, ReadChar
  <2>2. ~(token.tag \in Breaking /\ Counts(n + 1)')
    BY <1>1, <1>4, <1>9
    DEF ReadChar, OpenTag, BadColour, OtherTag, DelayWithin, Swallow, Colour, PlayerColour,
        EndColour, Toggle, ReadTag, Chars, Delaying, Breaking
  <2>3. Delays(n + 2)' = Delays(n + 1)
    BY <1>7, <2>1, <2>2 DEF Breaking
  <2>4. BreakOf(w, ls, ps, n + 1)'
    BY <1>3, <1>5, <1>6, <1>7, <1>8, <2>1, <2>2, <2>3 DEF BreakOf
  <2> QED BY <1>d, <2>1, <2>4
<1>10. CASE ReadChar(token)
  <2>1. CASE open = "nothing"
    <3> DEFINE c == [at |-> n + 1, space |-> token.tag = "space"]
    <3>1. c \in Char /\ c.at = n + 1
      BY DEF Char
    <3>2. /\ part' = part /\ lines' = ls /\ phrases' = ps /\ line' = AddChar(w, c)
          /\ token.tag \notin Breaking
      BY <1>3, <1>5, <1>10, <2>1 DEF ReadChar, Chars, Breaking, Delaying
    <3> HIDE DEF c
    <3>3. PICK w2 : w2 = AddChar(w, c)
      OBVIOUS
    <3>4. \A i : HasPlace(w2, i) => HasPlace(w, i) \/ i = n + 1
      BY <1>1, <3>1, <3>3, HasGrown
    <3>5. ~Broken(n + 1, n + 1)'
      BY <1>2, <3>2, BrokenStable
    <3>6. Delays(n + 2)' = Delays(n + 1)
      BY <1>7, <3>2 DEF Breaking
    <3>7. BreakOf(w2, ls, ps, n + 1)'
      BY <1>3, <1>5, <1>6, <1>7, <1>8, <3>2, <3>4, <3>5, <3>6 DEF BreakOf
    <3> QED BY <1>d, <3>2, <3>3, <3>7
  <2> QED BY <1>9, <1>10, <2>1
<1>11. CASE BreakLine(token)
  <2>1. /\ part' = part /\ line' = <<>> /\ lines' = els /\ phrases' = ps
        /\ token.tag = "cr" /\ open \in {"nothing", "line"}
    BY <1>1, <1>5, <1>11, <1>a DEF BreakLine
  <2>2. token.tag \in Breaking /\ token.tag \notin Delaying /\ Counts(n + 1)'
    BY <1>4, <2>1 DEF Breaking, Delaying
  <2>3. \A i \in 1..n : SomeLineHas(els, i) => SomeLineHas(ls, i) \/ HasPlace(w, i)
    BY <1>3, <1>5, <1>a, EndedApart
  <2>4. Delays(n + 2)' = Delays(n + 1)
    BY <1>7, <2>1, <2>2
  <2>5. BreakOf(<<>>, els, ps, n + 1)'
    BY <1>3, <1>5, <1>6, <1>7, <1>8, <2>1, <2>2, <2>3, <2>4, NothingApart
    DEF BreakOf, NoneApart
  <2> QED BY <1>d, <2>1, <2>5
<1>12. CASE Delay(token)
  <2>1. /\ part' = part /\ line' = <<>> /\ lines' = <<>> /\ phrases' = eps
        /\ token.tag \in Delaying /\ open \in {"nothing", "line"}
    BY <1>1, <1>12, <1>a DEF Delay, StartPhrase, Delaying
  <2>2. token.tag \in Breaking /\ Counts(n + 1)'
    BY <1>4, <2>1 DEF Breaking
  <2>3. n + 1 \in Delays(n + 2)' /\ \A i \in 1..n + 1 : i <= n + 1
    BY <1>7, <2>1, <2>2
  <2>4. LinesApart(<<>>, n + 1)'
    BY DEF LinesApart
  <2>5. BreakOf(<<>>, <<>>, eps, n + 1)'
    BY <1>3, <1>7, <2>1, <2>3, <2>4, NothingApart DEF BreakOf, NoneApart
  <2> QED BY <1>d, <2>1, <2>5
<1>13. CASE NextPart(token)
  <2>1. /\ line' = <<>> /\ lines' = <<>> /\ phrases' = <<>>
    BY <1>13 DEF NextPart, StartPhrase
  <2>2. BreakOf(<<>>, <<>>, <<>>, n + 1)'
    <3>1. LinesApart(<<>>, n + 1)' /\ PhrasesApart(<<>>, n + 1)'
      BY DEF LinesApart, PhrasesApart
    <3> QED BY <3>1, NothingApart DEF BreakOf, NoneApart
  <2> QED BY <1>d, <2>1, <2>2
<1> QED BY <1>9, <1>10, <1>11, <1>12, <1>13 DEF TokenStep

\* That is what LinesAsBroken says of what ParseCaptionText returns.
LEMMA LinesBroken ==
  ASSUME Inv, FormatInv, StyleInv, BreakInv
  PROVE  LinesAsBroken
<1>1. PICK n \in Nat : n = Len(raw)
  BY DEF Inv, TypeOK
<1>2. PhrasesApart(EndedPhrases, n) /\ PhrasesApart(ParseCaptionText, n)
  <2>1. PhrasesApart(EndedPhrases, n)
    BY <1>1, EndedApart
  <2>2. PhrasesApart(<<[delay |-> 0, lines |-> <<>>]>>, n)
    BY DEF PhrasesApart, LinesApart, SomeLineHas
  <2> QED BY <2>1, <2>2 DEF ParseCaptionText
<1>3. PICK ps \in Seq(Phrase) : ps = ParseCaptionText
  <2>1. ParseCaptionText \in Seq(Phrase)
    <3>1. [delay |-> 0, lines |-> <<>>] \in Phrase
      BY DEF Phrase
    <3>2. EndedPhrases \in Seq(Phrase)
      BY EndedPhrasesTidy
    <3> QED BY <3>1, <3>2 DEF ParseCaptionText
  <2> QED BY <2>1
<1>4. ASSUME NEW pl \in AllLines
      PROVE  /\ pl[1] \in DOMAIN ps /\ pl[2] \in DOMAIN ps[pl[1]].lines
             /\ LineAt(pl) = ps[pl[1]].lines[pl[2]] /\ pl = <<pl[1], pl[2]>>
             /\ pl[1] \in Nat /\ pl[2] \in Nat
             /\ \A i : HasPlace(LineAt(pl), i) => i \in 1..n /\ SomeLineHas(ps[pl[1]].lines, i)
  <2>1. /\ pl[1] \in DOMAIN ps /\ pl[2] \in DOMAIN ps[pl[1]].lines
        /\ LineAt(pl) = ps[pl[1]].lines[pl[2]] /\ pl = <<pl[1], pl[2]>>
        /\ pl[1] \in Nat /\ pl[2] \in Nat
    BY <1>3 DEF AllLines, Phrase, LineAt
  <2>2. StyledAsMeant(LineAt(pl))
    BY <2>1, <1>3, StyledEnded DEF ParseCaptionText
  <2> QED BY <1>1, <2>1, <2>2, PlacesAreRead DEF SomeLineHas
<1>5. ASSUME NEW pl \in AllLines, NEW ql \in AllLines,
             NEW i, NEW j, HasPlace(LineAt(pl), i), HasPlace(LineAt(ql), j)
      PROVE  /\ i < j => (pl = ql <=> ~Broken(i, j))
             /\ ps[pl[1]].delay = DueAt(i)
  <2>5. /\ i \in 1..n /\ j \in 1..n
        /\ SomeLineHas(ps[pl[1]].lines, i) /\ SomeLineHas(ps[ql[1]].lines, j)
    BY <1>4, <1>5
  <2>6. ps[pl[1]].delay = DueAt(i)
    BY <1>2, <1>3, <1>4, <2>5 DEF PhrasesApart
  <2>7. ASSUME i < j, pl = ql PROVE ~Broken(i, j)
    <3>1. LinesApart(ps[pl[1]].lines, n)
      BY <1>2, <1>3, <1>4 DEF PhrasesApart
    <3> QED BY <1>4, <1>5, <2>5, <2>7, <3>1 DEF LinesApart
  <2>8. ASSUME i < j, pl # ql PROVE Broken(i, j)
    <3>1. CASE pl[1] = ql[1]
      <4>1. pl[2] # ql[2] /\ LinesApart(ps[pl[1]].lines, n)
        BY <1>2, <1>3, <1>4, <2>8, <3>1 DEF PhrasesApart
      <4>2. pl[2] < ql[2] \/ ql[2] < pl[2]
        BY <1>4, <4>1
      <4> QED BY <1>4, <1>5, <2>5, <2>8, <3>1, <4>1, <4>2 DEF LinesApart
    <3>2. CASE pl[1] # ql[1]
      <4>1. pl[1] < ql[1] \/ ql[1] < pl[1]
        BY <1>4, <3>2
      <4> QED BY <1>2, <1>3, <1>4, <2>5, <2>8, <4>1 DEF PhrasesApart
    <3> QED BY <3>1, <3>2
  <2> QED BY <2>6, <2>7, <2>8
<1>6. Breaking = {"cr", "delay", "openDelay"}
  BY DEF Breaking, Delaying
<1> SUFFICES ASSUME NEW pl \in AllLines, NEW ql \in AllLines,
                    NEW r \in DOMAIN LineAt(pl), NEW s \in DOMAIN LineAt(ql),
                    NEW k \in DOMAIN LineAt(pl)[r].text, NEW m \in DOMAIN LineAt(ql)[s].text
             PROVE  LET i == LineAt(pl)[r].text[k].at
                        j == LineAt(ql)[s].text[m].at
                        due == Delays(i)
                    IN  /\ i < j => (pl = ql <=> Tagged({"cr", "delay", "openDelay"}, i, j) = {})
                        /\ ParseCaptionText[pl[1]].delay = IF due = {} THEN 0
                                                           ELSE raw[Max(due)].delay
  BY DEF LinesAsBroken
<1>7. PICK i, j : i = LineAt(pl)[r].text[k].at /\ j = LineAt(ql)[s].text[m].at
  OBVIOUS
<1>8. HasPlace(LineAt(pl), i) /\ HasPlace(LineAt(ql), j)
  BY <1>7 DEF HasPlace
<1>9. /\ i < j => (pl = ql <=> ~Broken(i, j))
      /\ ParseCaptionText[pl[1]].delay = DueAt(i)
  BY <1>3, <1>5, <1>8
<1> QED BY <1>6, <1>7, <1>9 DEF DueAt, Broken
-----------------------------------------------------------------------------
(* The count of visible characters *)

\* A part begins after the last <sb>.
LEMMA PartStep ==
  ASSUME Inv, PartInv, NEW token \in Tokens, TokenStep(token)
  PROVE  PartInv'
<1>1. PICK n \in Nat : Extended(token, n)
  BY StepOpen DEF TokenStep
<1>2. /\ Len(raw) = n /\ Len(raw)' = n + 1 /\ raw'[n + 1] = token
      /\ \A i \in 1..n : raw'[i] = raw[i]
  BY <1>1 DEF Extended
<1>3. CASE NextPart(token)
  <2>1. part' = n + 1 /\ token.tag = "sb"
    BY <1>2, <1>3 DEF NextPart
  <2> QED BY <1>2, <2>1 DEF PartInv
<1>4. CASE ~NextPart(token)
  <2>1. part' = part
    BY <1>4 DEF TokenStep, OpenTag, BadColour, OtherTag, DelayWithin, Swallow, Colour, PlayerColour,
                EndColour, Toggle, ReadTag, ReadChar, BreakLine, Delay
  <2> QED BY <1>2, <2>1 DEF PartInv
<1> QED BY <1>3, <1>4

\* Two recursions with the same step agree.
LEMMA RecursionsAgree ==
  ASSUME NEW a \in Nat, NEW b \in Nat, a <= b, NEW f, NEW h, f[a] = h[a],
         \A k \in a + 1..b : f[k - 1] = h[k - 1] => f[k] = h[k]
  PROVE  \A k \in a..b : f[k] = h[k]
<1> DEFINE T == {i \in Nat : a + i <= b => f[a + i] = h[a + i]}
<1>1. 0 \in T
  OBVIOUS
<1>2. ASSUME NEW i \in Nat, i \in T PROVE i + 1 \in T
  <2> SUFFICES ASSUME a + (i + 1) <= b PROVE f[a + (i + 1)] = h[a + (i + 1)]
    OBVIOUS
  <2>1. PICK k \in a + 1..b : k = a + (i + 1) /\ k - 1 = a + i
    OBVIOUS
  <2>2. f[k - 1] = h[k - 1]
    BY <1>2, <2>1
  <2> QED BY <2>1, <2>2
<1>3. \A i \in Nat : i \in T
  <2> HIDE DEF T
  <2> QED BY <1>1, <1>2, Induction
<1>4. ASSUME NEW k \in a..b PROVE f[k] = h[k]
  <2>1. k - a \in Nat /\ a + (k - a) = k
    OBVIOUS
  <2>2. k - a \in T
    BY <1>3, <2>1
  <2> QED BY <2>1, <2>2
<1> QED BY <1>4

\* No `<' is open behind place k.
NothingOpen(k) == \A j \in 1..k : ~StillOpen(j, k + 1)

\* It is so again when a tag has closed what was open.
LEMMA NothingOpenNext ==
  ASSUME NEW k \in Nat \ {0}
  PROVE  NothingOpen(k) = IF raw[k].tag \in Chars THEN NothingOpen(k - 1)
                          ELSE raw[k].tag \notin {"lt", "openDelay"}
<1>1. 1..k = (1..k - 1) \cup {k} /\ (k - 1) + 1 = k
  OBVIOUS
<1>2. StillOpen(k, k + 1) <=> raw[k].tag \in {"lt", "openDelay"}
  BY DEF StillOpen
<1>3. ASSUME NEW j \in 1..k - 1
      PROVE  StillOpen(j, k + 1) <=> StillOpen(j, k) /\ ~Terminated(k)
  <2>1. j + 1..(k + 1) - 1 = (j + 1..k - 1) \cup {k}
    OBVIOUS
  <2> QED BY <2>1 DEF StillOpen
<1>4. Terminated(k) <=> raw[k].tag \notin Chars /\ raw[k].tag \notin {"lt", "openDelay"}
  BY DEF Terminated
<1>5. "lt" \notin Chars /\ "openDelay" \notin Chars
  BY DEF Chars
<1> QED BY <1>1, <1>2, <1>3, <1>4, <1>5 DEF NothingOpen

\* Outside, by which GetVisibleCharCount skips tags, says that nothing is open: a tag
\* with its > ends all that is open, and a part starts with nothing open.
LEMMA OutsideIs ==
  ASSUME PartInv, NEW n \in Nat, part <= n, n <= Len(raw), TypeOK
  PROVE  Outside(n) <=> NothingOpen(n)
<1>1. PICK a \in Nat : a = part /\ a <= n
  BY DEF TypeOK
<1> DEFINE Body(g) == [k \in a..n |-> IF k = a THEN TRUE
                                     ELSE IF raw[k].tag \in Chars THEN g[k - 1]
                                     ELSE raw[k].tag \notin {"lt", "openDelay"}]
           f == [k \in a..n |-> NothingOpen(k)]
           h == CHOOSE g : g = Body(g)
<1>2. NothingOpen(a)
  <2>1. CASE a = 0
    BY <2>1 DEF NothingOpen
  <2>2. CASE a # 0
    <3>1. raw[a].tag = "sb"
      BY <1>1, <2>2 DEF PartInv
    <3>2. NothingOpen(a) = IF raw[a].tag \in Chars THEN NothingOpen(a - 1)
                          ELSE raw[a].tag \notin {"lt", "openDelay"}
      BY <2>2, NothingOpenNext
    <3> QED BY <3>1, <3>2 DEF Chars
  <2> QED BY <2>1, <2>2
<1>3. \A k \in a + 1..n :
        /\ k \in Nat \ {0} /\ k \in a..n /\ k - 1 \in a..n /\ k # a
        /\ NothingOpen(k) = IF raw[k].tag \in Chars THEN NothingOpen(k - 1)
                            ELSE raw[k].tag \notin {"lt", "openDelay"}
  BY NothingOpenNext
<1>4. a..n = {a} \cup (a + 1..n) /\ a \in a..n /\ n \in a..n
  BY <1>1
<1>5. f = Body(f)
  <2>1. \A k \in a..n : f[k] = Body(f)[k]
    <3>1. f[a] = TRUE /\ Body(f)[a] = TRUE
      BY <1>2, <1>4
    <3>2. ASSUME NEW k \in a + 1..n PROVE f[k] = Body(f)[k]
      <4>1. f[k] = NothingOpen(k) /\ f[k - 1] = NothingOpen(k - 1)
        BY <1>3
      <4> QED BY <1>3, <4>1
    <3> QED BY <1>4, <3>1, <3>2
  <2> QED BY <2>1
<1>6. h = Body(h)
  <2> HIDE DEF f, Body
  <2> QED BY <1>5
<1>7. Outside(n) = h[n]
  BY <1>1 DEF Outside
<1>8. \A k \in a..n : f[k] = h[k]
  <2>1. f[a] = TRUE /\ h[a] = TRUE
    <3>1. Body(h)[a] = TRUE
      BY <1>4
    <3>2. h[a] = TRUE
      <4> HIDE DEF Body, h
      <4> QED BY <1>6, <3>1
    <3> QED BY <1>2, <1>4, <3>2
  <2>2. ASSUME NEW k \in a + 1..n, f[k - 1] = h[k - 1] PROVE f[k] = h[k]
    <3>1. Body(h)[k] = IF raw[k].tag \in Chars THEN h[k - 1]
                       ELSE raw[k].tag \notin {"lt", "openDelay"}
      <4> HIDE DEF h
      <4> QED BY <1>3
    <3>2. h[k] = Body(h)[k]
      <4> HIDE DEF Body, h
      <4> QED BY <1>6
    <3>3. f[k] = NothingOpen(k) /\ f[k - 1] = NothingOpen(k - 1)
      BY <1>3
    <3> HIDE DEF f, h, Body
    <3> QED BY <1>3, <2>2, <3>1, <3>2, <3>3
  <2> HIDE DEF f, h
  <2>3. f[a] = h[a] /\ \A k \in a + 1..n : f[k - 1] = h[k - 1] => f[k] = h[k]
    BY <2>1, <2>2
  <2>4. a \in Nat /\ n \in Nat /\ a <= n
    BY <1>1
  <2> QED BY ONLY <2>3, <2>4, RecursionsAgree
<1>9. f[n] = NothingOpen(n)
  BY <1>4
<1> HIDE DEF f, h
<1> QED BY <1>4, <1>7, <1>8, <1>9

\* How a number of tokens grows.
LEMMA NumberNext ==
  ASSUME NEW tags, NEW a \in Nat, NEW b \in Nat, a <= b + 1
  PROVE  /\ NumberOf(tags, a, b + 1) = NumberOf(tags, a, b) +
              (IF raw[b + 1].tag \in tags /\ Counts(b + 1) THEN 1 ELSE 0)
         /\ NumberOf(tags, a, b) \in Nat
<1>1. /\ a..b + 1 = (a..b) \cup {b + 1} /\ b + 1 \notin a..b
  OBVIOUS
<1>2. Tagged(tags, a, b + 1) = Tagged(tags, a, b) \cup
        (IF raw[b + 1].tag \in tags /\ Counts(b + 1) THEN {b + 1} ELSE {})
  BY <1>1 DEF Tagged
<1>3. /\ IsFiniteSet(Tagged(tags, a, b)) /\ b + 1 \notin Tagged(tags, a, b)
      /\ NumberOf(tags, a, b) \in Nat
  <2>1. a \in Int /\ b \in Int
    OBVIOUS
  <2> QED BY <1>1, <2>1, TaggedIsFinite DEF Tagged
<1>4. Cardinality(Tagged(tags, a, b) \cup {b + 1}) = Cardinality(Tagged(tags, a, b)) + 1
  BY <1>3, FS_AddElement
<1> QED BY <1>2, <1>3, <1>4 DEF NumberOf

\* The loop counts the characters that are shown.
LEMMA CountIs ==
  ASSUME TypeOK, PartInv
  PROVE  GetVisibleCharCount = Cardinality(Shown)
<1>1. PICK a, n \in Nat : a = part /\ n = Len(raw) /\ a <= n
  BY DEF TypeOK, PartInv
<1> DEFINE Body(g) == [k \in a..n |->
             IF k = a THEN 0
             ELSE g[k - 1] + (IF raw[k].tag \in Chars /\ Outside(k) THEN 1 ELSE 0)]
           f == [k \in a..n |-> NumberOf(Chars, a + 1, k)]
           h == CHOOSE g : g = Body(g)
<1>2. NumberOf(Chars, a + 1, a) = 0
  <2>1. Tagged(Chars, a + 1, a) = {}
    BY <1>1 DEF Tagged
  <2> QED BY <2>1, TaggedIsFinite
<1>3. ASSUME NEW k \in a + 1..n
      PROVE  /\ k \in a..n /\ k - 1 \in a..n /\ k # a
             /\ NumberOf(Chars, a + 1, k) = NumberOf(Chars, a + 1, k - 1)
                  + (IF raw[k].tag \in Chars /\ Outside(k) THEN 1 ELSE 0)
  <2>1. /\ k \in a..n /\ k - 1 \in a..n /\ k # a /\ k - 1 \in Nat /\ (k - 1) + 1 = k
        /\ a + 1 <= (k - 1) + 1 /\ k \in Nat /\ part <= k /\ k <= Len(raw) /\ k \in Nat \ {0}
    BY <1>1
  <2>2. NumberOf(Chars, a + 1, k) = NumberOf(Chars, a + 1, k - 1) +
          (IF raw[k].tag \in Chars /\ Counts(k) THEN 1 ELSE 0)
    <3>1. NumberOf(Chars, a + 1, (k - 1) + 1) = NumberOf(Chars, a + 1, k - 1) +
            (IF raw[(k - 1) + 1].tag \in Chars /\ Counts((k - 1) + 1) THEN 1 ELSE 0)
      BY <2>1, NumberNext
    <3> QED BY <2>1, <3>1
  <2>3. raw[k].tag \in Chars => (Counts(k) <=> Outside(k))
    <3> SUFFICES ASSUME raw[k].tag \in Chars PROVE Counts(k) <=> Outside(k)
      OBVIOUS
    <3>1. Outside(k) <=> NothingOpen(k)
      BY <2>1, OutsideIs
    <3>2. NothingOpen(k) = NothingOpen(k - 1)
      BY <2>1, NothingOpenNext
    <3>3. Counts(k) <=> \A j \in 1..k - 1 : ~StillOpen(j, k)
      BY DEF Counts, Chars
    <3>4. NothingOpen(k - 1) <=> \A j \in 1..k - 1 : ~StillOpen(j, k)
      BY <2>1 DEF NothingOpen
    <3> QED BY <3>1, <3>2, <3>3, <3>4
  <2> QED BY <2>1, <2>2, <2>3
<1>4. a..n = {a} \cup (a + 1..n) /\ a \in a..n /\ n \in a..n
  BY <1>1
<1>5. f = Body(f)
  <2>1. f[a] = 0 /\ Body(f)[a] = 0
    BY <1>2, <1>4
  <2>2. ASSUME NEW k \in a + 1..n PROVE f[k] = Body(f)[k]
    <3>1. f[k] = NumberOf(Chars, a + 1, k) /\ f[k - 1] = NumberOf(Chars, a + 1, k - 1)
      BY <1>3
    <3> QED BY <1>3, <3>1
  <2>3. \A k \in a..n : f[k] = Body(f)[k]
    BY <1>4, <2>1, <2>2
  <2> QED BY <2>3
<1>6. h = Body(h)
  <2> HIDE DEF f, Body
  <2> QED BY <1>5
<1>7. GetVisibleCharCount = h[n]
  BY <1>1 DEF GetVisibleCharCount
<1>8. \A k \in a..n : f[k] = h[k]
  <2>1. f[a] = 0 /\ h[a] = 0
    <3>1. Body(h)[a] = 0
      BY <1>4
    <3>2. h[a] = 0
      <4> HIDE DEF Body, h
      <4> QED BY <1>6, <3>1
    <3> QED BY <1>2, <1>4, <3>2
  <2>2. ASSUME NEW k \in a + 1..n, f[k - 1] = h[k - 1] PROVE f[k] = h[k]
    <3>1. Body(h)[k] = h[k - 1] + (IF raw[k].tag \in Chars /\ Outside(k) THEN 1 ELSE 0)
      <4> HIDE DEF h
      <4> QED BY <1>3
    <3>2. h[k] = Body(h)[k]
      <4> HIDE DEF Body, h
      <4> QED BY <1>6
    <3>3. f[k] = NumberOf(Chars, a + 1, k) /\ f[k - 1] = NumberOf(Chars, a + 1, k - 1)
      BY <1>3
    <3> HIDE DEF f, h, Body
    <3> QED BY <1>3, <2>2, <3>1, <3>2, <3>3
  <2> HIDE DEF f, h, Body
  <2>3. f[a] = h[a] /\ \A k \in a + 1..n : f[k - 1] = h[k - 1] => f[k] = h[k]
    BY <2>1, <2>2
  <2>4. a \in Nat /\ n \in Nat /\ a <= n
    BY <1>1
  <2>5. PICK ff, hh : ff = f /\ hh = h
    OBVIOUS
  <2>6. ff[a] = hh[a] /\ \A k \in a + 1..n : ff[k - 1] = hh[k - 1] => ff[k] = hh[k]
    BY <2>3, <2>5
  <2>7. \A k \in a..n : ff[k] = hh[k]
    BY ONLY <2>4, <2>6, RecursionsAgree
  <2> QED BY <2>5, <2>7
<1>9. f[n] = NumberOf(Chars, a + 1, n)
  BY <1>4
<1>10. NumberOf(Chars, a + 1, n) = Cardinality(Shown)
  BY <1>1 DEF NumberOf, Tagged, Shown
<1> HIDE DEF f, h
<1> QED BY <1>4, <1>7, <1>8, <1>9, <1>10

\* A list is as long as the set that it lists is large.
LEMMA ListCounts ==
  ASSUME NEW s \in Seq(Nat), NEW S, Lists(s, S)
  PROVE  Cardinality(S) = Len(s)
<1>1. PICK q \in Nat : q = Len(s) /\ DOMAIN s = 1..q
  OBVIOUS
<1>2. s \in [1..q -> S] /\ \A x \in S : \E k \in 1..q : s[k] = x
  <2>1. s \in [1..q -> Nat]
    BY <1>1
  <2>2. \A k \in 1..q : s[k] \in S
    BY <1>1 DEF Lists
  <2>3. \A x \in S : \E k \in 1..q : s[k] = x
    BY <1>1 DEF Lists
  <2> QED BY <2>1, <2>2, <2>3
<1>3. \A k, m \in 1..q : s[k] = s[m] => k = m
  <2> SUFFICES ASSUME NEW k \in 1..q, NEW m \in 1..q, k # m PROVE s[k] # s[m]
    OBVIOUS
  <2>1. k < m \/ m < k
    OBVIOUS
  <2>2. s[k] \in Nat /\ s[m] \in Nat
    BY <1>1
  <2> QED BY <1>1, <2>1, <2>2 DEF Lists
<1>4. s \in Bijection(1..q, S)
  BY <1>2, <1>3 DEF Bijection, Injection, Surjection, IsInjective
<1>5. ExistsBijection(1..q, S)
  BY <1>4 DEF ExistsBijection
<1> QED BY <1>1, <1>5, FS_CountingElements

\* That is what CountIsShown says.
LEMMA CountShown ==
  ASSUME Inv, PartInv, PlacesInv
  PROVE  CountIsShown
<1>1. Places = PlacesRead /\ PlacesRead \in Seq(Nat)
  BY PlacesEnded DEF PlacesInv
<1>2. Cardinality(Shown) = Len(Places)
  BY <1>1, ListCounts DEF PlacesInv
<1> QED BY <1>2, CountIs DEF CountIsShown, Inv
-----------------------------------------------------------------------------
(* The invariant is inductive *)

\* Next is one of those.
LEMMA StepIs ==
  ASSUME Next PROVE \E token \in Tokens : TokenStep(token)
BY DEF Next, TokenStep

\* Nothing that is said of a caption changes while the caption does not.
LEMMA StutterKeeps ==
  ASSUME IInv, UNCHANGED vars
  PROVE  IInv'
<1>1. /\ fromPlayer' = fromPlayer /\ several' = several /\ raw' = raw /\ part' = part
      /\ open' = open /\ style' = style /\ stack' = stack /\ line' = line /\ lines' = lines
      /\ blank' = blank /\ delay' = delay /\ phrases' = phrases
  BY DEF vars, given, format
<1>2. \A i, j : StillOpen(i, j)' <=> StillOpen(i, j)
  BY <1>1 DEF StillOpen, Terminated
<1>3. \A j : Counts(j)' <=> Counts(j)
  BY <1>1, <1>2 DEF Counts
<1>4. \A tags, i, j : Tagged(tags, i, j)' = Tagged(tags, i, j)
  BY <1>1, <1>3 DEF Tagged
<1>5. \A tags, i, j : NumberOf(tags, i, j)' = NumberOf(tags, i, j)
  BY <1>4 DEF NumberOf
<1>6. \A i : Delays(i)' = Delays(i) /\ From(i)' = From(i)
  BY <1>1, <1>3 DEF Delays, From
<1>7. \A i : Unclosed(i)' = Unclosed(i)
  <2>1. \A tags, i, j : Tagged(tags, From(i), j)' = Tagged(tags, From(i), j)
    BY <1>1, <1>3, <1>6 DEF Tagged
  <2> QED BY <1>5, <2>1 DEF Unclosed
<1>8. \A tags, i, j : NumberOf(tags, From(i), j)' = NumberOf(tags, From(i), j)
  BY <1>1, <1>3, <1>6 DEF NumberOf, Tagged
<1>9. \A i : InkOf(raw[Max(Unclosed(i))])' = InkOf(raw[Max(Unclosed(i))])
  BY <1>1, <1>7 DEF InkOf
<1>10. \A i : Meant(i)' = Meant(i)
  BY <1>7, <1>8, <1>9 DEF Meant
<1>11. Inv'
  BY <1>1 DEF IInv, Inv, TypeOK
<1>12. OpenInv'
  <2>1. now' = now
    BY <1>1 DEF now
  <2>2. \A i : StillOpen(i, now)' <=> StillOpen(i, now)
    BY <1>1, <2>1 DEF StillOpen, Terminated
  <2> QED BY <1>1, <2>2 DEF IInv, OpenInv
<1>13. StackInv'
  <2>1. \A o, d : InkAfter(o, d)' = InkAfter(o, d)
    BY <1>1 DEF InkAfter, InkOf
  <2>2. \A i, j : Surplus(i, j)' = Surplus(i, j)
    BY <1>5 DEF Surplus
  <2>3. \A o, m, n : StackOf(o, m, n)' <=> StackOf(o, m, n)
    BY <1>1, <1>7, <2>1, <2>2 DEF StackOf
  <2> QED BY <1>1, <2>3 DEF IInv, FormatInv, StackInv
<1>14. FormatInv'
  <2>1. \A t, n : Toggled(t, n)' <=> Toggled(t, n)
    BY <1>8 DEF Toggled
  <2>2. \A i : DueAt(i)' = DueAt(i)
    BY <1>1, <1>6 DEF DueAt
  <2>3. PICK n \in {Len(raw)} :
          /\ part \in 0..n
          /\ style.bold = Toggled("bold", n) /\ style.italic = Toggled("italic", n)
          /\ delay = DueAt(n + 1)
    BY DEF IInv, FormatInv
  <2>4. n \in {Len(raw)}' /\ (part \in 0..n)'
    BY <1>1, <2>3
  <2>5. (style.bold = Toggled("bold", n))' /\ (style.italic = Toggled("italic", n))'
    <3>1. Toggled("bold", n)' = Toggled("bold", n) /\ Toggled("italic", n)' = Toggled("italic", n)
      BY <1>8 DEF Toggled
    <3> QED BY <1>1, <2>3, <3>1
  <2>6. (delay = DueAt(n + 1))'
    BY <1>1, <2>2, <2>3
  <2> QED BY <1>13, <2>4, <2>5, <2>6 DEF FormatInv
<1>15. StyleInv'
  <2>1. \A runs : StyledAsMeant(runs)' <=> StyledAsMeant(runs)
    BY <1>1, <1>10 DEF StyledAsMeant
  <2> QED BY <1>1, <2>1 DEF IInv, StyleInv, StyledAsMeant
<1>16. PlacesInv'
  <2>1. Shown' = Shown
    BY <1>1, <1>3 DEF Shown
  <2>2. PlacesRead' = PlacesRead
    BY <1>1 DEF PlacesRead
  <2> QED BY <1>1, <2>1, <2>2 DEF IInv, PlacesInv
<1>17. PartInv'
  BY <1>1 DEF IInv, PartInv
<1>18. BreakInv'
  <2>1. \A i, j : Broken(i, j)' <=> Broken(i, j)
    BY <1>4 DEF Broken
  <2>2. \A ls, n : LinesApart(ls, n)' <=> LinesApart(ls, n)
    BY <2>1 DEF LinesApart
  <2>3. \A i : DueAt(i)' = DueAt(i)
    BY <1>1, <1>6 DEF DueAt
  <2>4. \A ps, n : PhrasesApart(ps, n)' <=> PhrasesApart(ps, n)
    BY <2>1, <2>2, <2>3 DEF PhrasesApart
  <2>5. \A w, ls, ps, n : BreakOf(w, ls, ps, n)' <=> BreakOf(w, ls, ps, n)
    BY <1>6, <2>1, <2>2, <2>4 DEF BreakOf
  <2> QED BY <1>1, <2>5 DEF IInv, BreakInv
<1> QED BY <1>11, <1>12, <1>14, <1>15, <1>16, <1>17, <1>18 DEF IInv

\* The inductive invariant is kept by every step.
LEMMA NextIInv == IInv /\ [Next]_vars => IInv'
<1> SUFFICES ASSUME IInv, [Next]_vars PROVE IInv'
  OBVIOUS
<1>1. CASE UNCHANGED vars
  BY <1>1, StutterKeeps
<1>2. CASE Next
  <2>1. PICK token \in Tokens : TokenStep(token)
    BY <1>2, StepIs
  <2>2. Inv'
    BY <1>2, NextInv DEF IInv
  <2>3. OpenInv'
    <3>1. (\E n \in Nat : Extended(token, n)) /\ open' = OpenAfter(token.tag)
      BY <2>1, StepOpen DEF IInv, TokenStep
    <3> QED BY <3>1, OpenInvStep DEF IInv, Inv, TypeOK
  <2> QED BY <2>1, <2>2, <2>3, FormatStep, StyleStep, PlacesStep, PartStep, BreakStep DEF IInv
<1> QED BY <1>1, <1>2

\* It holds in the beginning.
LEMMA InitIInv == Init => IInv
<1> SUFFICES ASSUME Init PROVE IInv
  OBVIOUS
<1>1. /\ raw = <<>> /\ part = 0 /\ stack = <<>> /\ line = <<>> /\ lines = <<>>
      /\ phrases = <<>> /\ delay = 0 /\ open = "nothing" /\ style = NoStyle
      /\ Len(raw) = 0 /\ Len(stack) = 0
  BY DEF Init
<1>2. Inv
  BY InitInv
<1>3. OpenInv
  BY <1>1 DEF OpenInv
<1>4. Delays(0 + 1) = {}
  BY <1>1 DEF Delays
<1>5. \A tags : Tagged(tags, From(0 + 1), 0) = {}
  BY <1>4 DEF From, Tagged
<1>6. FormatInv
  <2>1. StackInv
    <3>1. Unclosed(0 + 1) = {}
      <4>1. (0 + 1) - 1 = 0
        OBVIOUS
      <4> QED BY <1>5, <4>1 DEF Unclosed
    <3> DEFINE u == [d \in 1..0 |-> 0]
    <3>2. u \in [1..0 -> 1..0] /\ 1..0 = {}
      OBVIOUS
    <3>3. style.ink = ConfigInk
      BY <1>1 DEF NoStyle
    <3>4. StackOf(u, 0, 0)
      <4> HIDE DEF u
      <4> QED BY <3>1, <3>2, <3>3 DEF StackOf, InkAfter
    <3> QED BY <1>1, <3>2, <3>4 DEF StackInv
  <2>2. \A t : NumberOf({t}, From(0 + 1), 0) = 0
    BY <1>5, FS_EmptySet DEF NumberOf
  <2>3. \A t : Toggled(t, 0) = FALSE
    <3>1. ~(0 % 2 = 1)
      OBVIOUS
    <3>2. \A t : ~(NumberOf({t}, From(0 + 1), 0) % 2 = 1)
      BY <2>2, <3>1
    <3>3. \A t : Toggled(t, 0) = (NumberOf({t}, From(0 + 1), 0) % 2 = 1)
      BY ONLY DEF Toggled
    <3> QED BY <3>2, <3>3, Zenon
  <2>4. style.bold = FALSE /\ style.italic = FALSE
    BY <1>1 DEF NoStyle
  <2>5. DueAt(0 + 1) = 0
    BY <1>4 DEF DueAt
  <2>6. 0 \in {Len(raw)} /\ part \in 0..0
    BY <1>1
  <2>7. style.bold = Toggled("bold", 0) /\ style.italic = Toggled("italic", 0)
    BY <2>3, <2>4
  <2>8. delay = DueAt(0 + 1)
    BY <1>1, <2>5
  <2> QED BY <2>1, <2>6, <2>7, <2>8 DEF FormatInv
<1>7. StyleInv
  BY <1>1 DEF StyleInv, StyledAsMeant
<1>8. PlacesInv
  <2>1. PlacesRead = <<>>
    <3>1. PlacesRead = <<>> \o <<>> \o <<>>
      BY <1>1, PlacesEmpty DEF PlacesRead
    <3> QED BY <3>1
  <2>2. Shown = {}
    BY <1>1 DEF Shown
  <2> QED BY <1>1, <2>1, <2>2 DEF PlacesInv, Lists
<1>9. PartInv
  BY <1>1 DEF PartInv
<1>10. BreakInv
  BY <1>1, NothingApart DEF BreakInv, BreakOf, NoneApart
<1> QED BY <1>2, <1>3, <1>6, <1>7, <1>8, <1>9, <1>10 DEF IInv

\* Whatever the caption, however its tags are nested, cut off or malformed, each
\* character ParseLineRuns puts into a run has the colour of the innermost colour tag
\* that is open around it and is bold or italic after an odd number of such tags.
THEOREM StylesAsMeant == Spec => []StyleAsMeant
<1>1. IInv => StyleAsMeant
  BY StyleShown DEF IInv
<1> QED BY <1>1, InitIInv, NextIInv, PTL DEF Spec

\* ParseCaptionText returns every character that is text, once and in its place: none
\* is lost at the end of a run, a line, a phrase or a part, and none of a tag is shown.
THEOREM TextsComplete == Spec => []TextComplete
<1>1. IInv => TextComplete
  BY PlacesComplete DEF IInv
<1> QED BY <1>1, InitIInv, NextIInv, PTL DEF Spec

\* GetVisibleCharCount, which skips tags by a rule of its own, counts the characters
\* that ParseCaptionText returns, so that an <sb> part gets time for what it shows.
THEOREM CountsShown == Spec => []CountIsShown
<1>1. IInv => CountIsShown
  BY CountShown DEF IInv
<1> QED BY <1>1, InitIInv, NextIInv, PTL DEF Spec

\* ParsePhraseText and ParseCaptionText put two characters into different lines if
\* and only if a <cr> or a delay that counts is between them, and each phrase waits
\* for the delay that comes last before its characters.
THEOREM LinesBrokenAsMeant == Spec => []LinesAsBroken
<1>1. IInv => LinesAsBroken
  BY LinesBroken DEF IInv
<1> QED BY <1>1, InitIInv, NextIInv, PTL DEF Spec
=============================================================================
